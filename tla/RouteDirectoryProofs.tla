------------------------ MODULE RouteDirectoryProofs ------------------------
(***************************************************************************)
(* For any number of threads, keys and entries and any size of the blocks: *)
(* the two-level index of a shard finds every entry that is linked and no  *)
(* other, and references, blocks and index arrays are accounted for.       *)
(* First what the helpers for sequences return, then what the operations   *)
(* make of a sorted index, how many entries it holds, and the invariant.   *)
(* At the end the other sharded table, that of the exact objects.          *)
(***************************************************************************)
EXTENDS MCShards, FiniteSetTheorems, FunctionTheorems,
        SequenceTheorems, WellFoundedInduction, TLAPS

-----------------------------------------------------------------------------
(* Least numbers, and sets of numbers that are closed downwards            *)

LEMMA NotAboveIsLeast ==
    ASSUME NEW S \in SUBSET Nat, NEW x \in S, \A y \in S : ~ (y < x)
    PROVE  \A y \in S : x =< y
OBVIOUS

LEMMA HasLeast ==
    ASSUME NEW S \in SUBSET Nat, S # {}
    PROVE  \E x \in S : \A y \in S : x =< y
<1>1. PICK R : R = OpToRel(<, Nat)
  OBVIOUS
<1>2. IsWellFoundedOn(R, Nat)
  BY <1>1, NatLessThanWellFounded, Zenon
<1>3. PICK x \in S : \A y \in S : ~ (<<y, x>> \in R)
  BY <1>2, WFMin, Zenon
<1>4. \A y \in S : <<y, x>> \notin R => ~ (y < x)
  BY <1>1, Zenon DEF OpToRel
<1>5. \A y \in S : ~ (y < x)
  BY <1>3, <1>4, Zenon
<1>6. \A y \in S : x =< y
  BY <1>5, NotAboveIsLeast, Zenon
<1> QED
  BY <1>6, Zenon

(* What the two searches count is a beginning of the numbers they look at. *)
LEMMA CountOfBeginning ==
    ASSUME NEW n \in Nat, NEW S \in SUBSET (1 .. n),
           \A x \in S, y \in 1 .. n : y < x => y \in S
    PROVE  Cardinality(S) \in 0 .. n /\ S = 1 .. Cardinality(S)
<1>1. \A m \in 0 .. n : Cardinality(1 .. m) = m
  BY FS_Interval
<1>2. \E m \in 0 .. n : S = 1 .. m
  <2>1. CASE S = 1 .. n
    BY <2>1
  <2>2. CASE S # 1 .. n
    <3> DEFINE A == (1 .. n) \ S
    <3>1. A \in SUBSET Nat /\ A # {}
      <4>1. S \subseteq 1 .. n
        OBVIOUS
      <4>2. ~ (1 .. n \subseteq S)
        BY <2>2, <4>1
      <4> QED
        BY <4>2
    <3>2. PICK x \in A : \A y \in A : x =< y
      <4> HIDE DEF A
      <4> QED
        BY <3>1, HasLeast
    <3>3. S = 1 .. (x - 1)
      <4>1. x \in 1 .. n /\ x \notin S
        BY <3>2
      <4>2. \A y \in S : y \in 1 .. (x - 1)
        BY <4>1
      <4>3. \A y \in 1 .. (x - 1) : y \in S
        <5>1. TAKE y \in 1 .. (x - 1)
        <5>2. y \in 1 .. n /\ ~ (x =< y)
          BY <4>1
        <5> QED
          BY <3>2, <5>2
      <4> QED
        BY <4>2, <4>3
    <3> QED
      BY <3>2, <3>3
  <2> QED
    BY <2>1, <2>2
<1> QED
  BY <1>1, <1>2

-----------------------------------------------------------------------------
(* Sequences: what the helpers of the community modules return             *)

Inserted(r, s, p, e) ==
    /\ Len(r) = Len(s) + 1
    /\ \A i \in 1 .. Len(s) + 1 :
         r[i] = IF i < p THEN s[i] ELSE IF i = p THEN e ELSE s[i - 1]

Removed(r, s, p) ==
    /\ Len(r) = Len(s) - 1
    /\ \A i \in 1 .. Len(s) - 1 : r[i] = IF i < p THEN s[i] ELSE s[i + 1]

Replaced(r, s, p, e) ==
    /\ Len(r) = Len(s)
    /\ \A i \in 1 .. Len(s) : r[i] = IF i = p THEN e ELSE s[i]

LEMMA InsertAtIs ==
    ASSUME NEW S, NEW s \in Seq(S), NEW p \in 1 .. Len(s) + 1, NEW e \in S
    PROVE  InsertAt(s, p, e) \in Seq(S) /\ Inserted(InsertAt(s, p, e), s, p, e)
<1> DEFINE a == SubSeq(s, 1, p - 1)
           c == SubSeq(s, p, Len(s))
<1>1. /\ Len(s) \in Nat /\ p \in Int /\ p - 1 \in Int
      /\ \A i \in 1 .. Len(s) : s[i] \in S
  BY LenProperties, ElementOfSeq
<1>2. /\ a \in Seq(S) /\ Len(a) = p - 1
      /\ \A i \in 1 .. p - 1 : a[i] = s[i]
  <2>1. \A i \in 1 .. p - 1 : s[i] \in S
    BY <1>1
  <2>2. /\ a \in Seq(S) /\ Len(a) = IF 1 <= p - 1 THEN (p - 1) - 1 + 1 ELSE 0
        /\ \A i \in 1 .. (p - 1) - 1 + 1 : a[i] = s[1 + i - 1]
    BY <1>1, <2>1, SubSeqProperties
  <2> HIDE DEF a
  <2> QED
    BY <1>1, <2>2
<1>3. /\ c \in Seq(S) /\ Len(c) = Len(s) - p + 1
      /\ \A i \in 1 .. Len(s) - p + 1 : c[i] = s[p + i - 1]
  <2>1. \A i \in p .. Len(s) : s[i] \in S
    BY <1>1
  <2>2. /\ c \in Seq(S) /\ Len(c) = IF p <= Len(s) THEN Len(s) - p + 1 ELSE 0
        /\ \A i \in 1 .. Len(s) - p + 1 : c[i] = s[p + i - 1]
    BY <1>1, <2>1, SubSeqProperties
  <2> HIDE DEF c
  <2> QED
    BY <1>1, <2>2
<1>4. InsertAt(s, p, e) = a \o <<e>> \o c
  BY DEF InsertAt
<1> HIDE DEF a, c
<1>5. <<e>> \in Seq(S) /\ Len(<<e>>) = 1 /\ <<e>>[1] = e
  OBVIOUS
<1>6. /\ a \o <<e>> \in Seq(S) /\ Len(a \o <<e>>) = p
      /\ \A i \in 1 .. p : (a \o <<e>>)[i] = IF i <= p - 1 THEN a[i] ELSE <<e>>[i - (p - 1)]
  <2>1. /\ a \o <<e>> \in Seq(S) /\ Len(a \o <<e>>) = Len(a) + Len(<<e>>)
        /\ \A i \in 1 .. Len(a) + Len(<<e>>) :
             (a \o <<e>>)[i] = IF i <= Len(a) THEN a[i] ELSE <<e>>[i - Len(a)]
    BY <1>2, <1>5, ConcatProperties
  <2>2. Len(a) + Len(<<e>>) = p
    BY <1>1, <1>2, <1>5
  <2> QED
    BY <1>2, <2>1, <2>2
<1> DEFINE d == a \o <<e>>
<1> HIDE DEF d
<1>7. /\ d \in Seq(S) /\ Len(d) = p
      /\ \A i \in 1 .. p : d[i] = IF i < p THEN s[i] ELSE e
  BY <1>1, <1>2, <1>5, <1>6, SMTT(30) DEF d
<1>8. /\ d \o c \in Seq(S) /\ Len(d \o c) = Len(d) + Len(c)
      /\ \A i \in 1 .. Len(d) + Len(c) :
           (d \o c)[i] = IF i <= Len(d) THEN d[i] ELSE c[i - Len(d)]
  BY <1>3, <1>7, ConcatProperties
<1>9. InsertAt(s, p, e) = d \o c
  BY <1>4 DEF d
<1>10. Len(d) + Len(c) = Len(s) + 1
  BY <1>1, <1>3, <1>7
<1>11. \A i \in 1 .. Len(s) + 1 :
         (d \o c)[i] = IF i < p THEN s[i] ELSE IF i = p THEN e ELSE s[i - 1]
  BY <1>1, <1>3, <1>7, <1>8, <1>10
<1> QED
  BY <1>8, <1>9, <1>10, <1>11 DEF Inserted

LEMMA RemoveAtIs ==
    ASSUME NEW S, NEW s \in Seq(S), NEW p \in 1 .. Len(s)
    PROVE  RemoveAt(s, p) \in Seq(S) /\ Removed(RemoveAt(s, p), s, p)
<1> DEFINE a == SubSeq(s, 1, p - 1)
           c == SubSeq(s, p + 1, Len(s))
<1>1. /\ Len(s) \in Nat /\ p \in Int /\ p - 1 \in Int /\ p + 1 \in Int
      /\ \A i \in 1 .. Len(s) : s[i] \in S
  BY LenProperties, ElementOfSeq
<1>2. /\ a \in Seq(S) /\ Len(a) = p - 1
      /\ \A i \in 1 .. p - 1 : a[i] = s[i]
  <2>1. \A i \in 1 .. p - 1 : s[i] \in S
    BY <1>1
  <2>2. /\ a \in Seq(S) /\ Len(a) = IF 1 <= p - 1 THEN (p - 1) - 1 + 1 ELSE 0
        /\ \A i \in 1 .. (p - 1) - 1 + 1 : a[i] = s[1 + i - 1]
    BY <1>1, <2>1, SubSeqProperties
  <2> HIDE DEF a
  <2> QED
    BY <1>1, <2>2
<1>3. /\ c \in Seq(S) /\ Len(c) = Len(s) - p
      /\ \A i \in 1 .. Len(s) - p : c[i] = s[p + i]
  <2>1. \A i \in p + 1 .. Len(s) : s[i] \in S
    BY <1>1
  <2>2. /\ c \in Seq(S) /\ Len(c) = IF p + 1 <= Len(s) THEN Len(s) - (p + 1) + 1 ELSE 0
        /\ \A i \in 1 .. Len(s) - (p + 1) + 1 : c[i] = s[(p + 1) + i - 1]
    BY <1>1, <2>1, SubSeqProperties
  <2> HIDE DEF c
  <2> QED
    BY <1>1, <2>2
<1>4. RemoveAt(s, p) = a \o c
  BY DEF RemoveAt
<1> HIDE DEF a, c
<1>5. /\ a \o c \in Seq(S) /\ Len(a \o c) = Len(a) + Len(c)
      /\ \A i \in 1 .. Len(a) + Len(c) :
           (a \o c)[i] = IF i <= Len(a) THEN a[i] ELSE c[i - Len(a)]
  BY <1>2, <1>3, ConcatProperties
<1>6. Len(a) + Len(c) = Len(s) - 1
  BY <1>1, <1>2, <1>3
<1> QED
  BY <1>1, <1>2, <1>3, <1>4, <1>5, <1>6 DEF Removed

LEMMA ReplaceAtIs ==
    ASSUME NEW S, NEW s \in Seq(S), NEW p \in 1 .. Len(s), NEW e \in S
    PROVE  ReplaceAt(s, p, e) \in Seq(S) /\ Replaced(ReplaceAt(s, p, e), s, p, e)
BY ExceptSeq DEF ReplaceAt, Replaced

LEMMA PartsAre ==
    ASSUME NEW S, NEW s \in Seq(S), NEW k \in 0 .. Len(s)
    PROVE  /\ SubSeq(s, 1, k) \in Seq(S) /\ Len(SubSeq(s, 1, k)) = k
           /\ \A i \in 1 .. k : SubSeq(s, 1, k)[i] = s[i]
           /\ SubSeq(s, k + 1, Len(s)) \in Seq(S)
           /\ Len(SubSeq(s, k + 1, Len(s))) = Len(s) - k
           /\ \A i \in 1 .. Len(s) - k : SubSeq(s, k + 1, Len(s))[i] = s[k + i]
<1> DEFINE a == SubSeq(s, 1, k)
           c == SubSeq(s, k + 1, Len(s))
<1>1. /\ Len(s) \in Nat /\ k \in Int /\ k + 1 \in Int
      /\ \A i \in 1 .. Len(s) : s[i] \in S
  BY LenProperties, ElementOfSeq
<1>2. /\ a \in Seq(S) /\ Len(a) = IF 1 <= k THEN k - 1 + 1 ELSE 0
      /\ \A i \in 1 .. k - 1 + 1 : a[i] = s[1 + i - 1]
  <2>1. \A i \in 1 .. k : s[i] \in S
    BY <1>1
  <2> QED
    BY <1>1, <2>1, SubSeqProperties
<1>3. /\ c \in Seq(S) /\ Len(c) = IF k + 1 <= Len(s) THEN Len(s) - (k + 1) + 1 ELSE 0
      /\ \A i \in 1 .. Len(s) - (k + 1) + 1 : c[i] = s[(k + 1) + i - 1]
  <2>1. \A i \in k + 1 .. Len(s) : s[i] \in S
    BY <1>1
  <2> QED
    BY <1>1, <2>1, SubSeqProperties
<1> HIDE DEF a, c
<1>4. /\ a \in Seq(S) /\ Len(a) = k
      /\ \A i \in 1 .. k : a[i] = s[i]
  BY <1>1, <1>2
<1>5. /\ c \in Seq(S) /\ Len(c) = Len(s) - k
      /\ \A i \in 1 .. Len(s) - k : c[i] = s[k + i]
  BY <1>1, <1>3
<1> QED
  BY <1>4, <1>5 DEF a, c

-----------------------------------------------------------------------------
(* The two-level index: sorted, and what is in it                          *)

Index == Seq(Seq(Entries))

Precedes(c, j, b, i) == c < b \/ (c = b /\ j < i)

Sorted(ix) ==
    \A c, b \in 1 .. Len(ix) : \A j \in 1 .. Len(ix[c]), i \in 1 .. Len(ix[b]) :
        Precedes(c, j, b, i) => Key(ix[c][j]) < Key(ix[b][i])

Holds(ix, e) == \E b \in 1 .. Len(ix) : \E i \in 1 .. Len(ix[b]) : ix[b][i] = e

Fits(ix) == \A b \in 1 .. Len(ix) : Len(ix[b]) \in 1 .. BLOCK_CAP

(* The place of a key: what is in front of it has smaller keys, what is    *)
(* behind it has not.                                                      *)
PlaceOf(ix, key, b, p) ==
    /\ b \in 1 .. Len(ix) /\ p \in 1 .. Len(ix[b]) + 1
    /\ \A c \in 1 .. Len(ix) : \A j \in 1 .. Len(ix[c]) :
         IF Precedes(c, j, b, p) THEN Key(ix[c][j]) < key ELSE key <= Key(ix[c][j])

LEMMA EntryKeys ==
    ASSUME setup \in Setups
    PROVE  /\ \A e \in Entries : Key(e) \in Nat /\ Key(e) \in Keys
           /\ Keys \subseteq Nat /\ BLOCK_HALF \in Nat \ {0}
           /\ NoEntry \notin Entries
BY RouteDirectoryAssumption DEF Entries, Keys, Key, BLOCK_HALF

LEMMA IndexTypes ==
    ASSUME NEW ix \in Index
    PROVE  /\ Len(ix) \in Nat
           /\ \A b \in 1 .. Len(ix) :
                /\ ix[b] \in Seq(Entries) /\ Len(ix[b]) \in Nat
                /\ \A i \in 1 .. Len(ix[b]) : ix[b][i] \in Entries
<1>1. Len(ix) \in Nat
  BY LenProperties DEF Index
<1>2. ASSUME NEW b \in 1 .. Len(ix)
      PROVE  /\ ix[b] \in Seq(Entries) /\ Len(ix[b]) \in Nat
             /\ \A i \in 1 .. Len(ix[b]) : ix[b][i] \in Entries
  <2>1. ix[b] \in Seq(Entries)
    BY ElementOfSeq DEF Index
  <2> QED
    BY <2>1, LenProperties, ElementOfSeq
<1> QED
  BY <1>1, <1>2

(* What comes of an entry e that is put into block b at p, of a block that *)
(* is split behind its k-th entry, of an entry that is taken out.          *)
Shaped(iy, n) == iy \in Index /\ Len(iy) = n

IsPut(iy, ix, b, p, e) ==
    /\ Shaped(iy, Len(ix))
    /\ \A c \in 1 .. Len(ix) : Len(iy[c]) = IF c = b THEN Len(ix[c]) + 1 ELSE Len(ix[c])
    /\ \A c \in 1 .. Len(ix) : \A j \in 1 .. Len(iy[c]) :
         iy[c][j] = IF c # b \/ j < p THEN ix[c][j] ELSE IF j = p THEN e ELSE ix[c][j - 1]

IsSplit(iy, ix, b, k) ==
    /\ Shaped(iy, Len(ix) + 1)
    /\ \A c \in 1 .. Len(iy) :
         Len(iy[c]) = IF c < b THEN Len(ix[c]) ELSE IF c = b THEN k
                      ELSE IF c = b + 1 THEN Len(ix[b]) - k ELSE Len(ix[c - 1])
    /\ \A c \in 1 .. Len(iy) : \A j \in 1 .. Len(iy[c]) :
         iy[c][j] = IF c <= b THEN ix[c][j] ELSE IF c = b + 1 THEN ix[b][k + j]
                    ELSE ix[c - 1][j]

IsCut(iy, ix, b, p) ==
    /\ Shaped(iy, Len(ix))
    /\ \A c \in 1 .. Len(ix) : Len(iy[c]) = IF c = b THEN Len(ix[c]) - 1 ELSE Len(ix[c])
    /\ \A c \in 1 .. Len(ix) : \A j \in 1 .. Len(iy[c]) :
         iy[c][j] = IF c # b \/ j < p THEN ix[c][j] ELSE ix[c][j + 1]

(* An entry comes into a block at the place of its key.                    *)
LEMMA PutKeeps ==
    ASSUME setup \in Setups, NEW ix \in Index, Sorted(ix), NEW e \in Entries,
           NEW b \in 1 .. Len(ix), NEW p \in 1 .. Len(ix[b]) + 1,
           PlaceOf(ix, Key(e), b, p),
           \A f \in Entries : Holds(ix, f) => Key(f) # Key(e),
           NEW iy, IsPut(iy, ix, b, p, e)
    PROVE  /\ Sorted(iy)
           /\ \A f \in Entries : Holds(iy, f) <=> Holds(ix, f) \/ f = e
<1>1. /\ Len(ix) \in Nat
      /\ \A c \in 1 .. Len(ix) :
                /\ ix[c] \in Seq(Entries) /\ Len(ix[c]) \in Nat
                /\ \A i \in 1 .. Len(ix[c]) : ix[c][i] \in Entries
  BY IndexTypes
<1>3. iy \in Index /\ Len(iy) = Len(ix)
  BY DEF IsPut, Shaped
<1>4. \A c \in 1 .. Len(ix) : Len(iy[c]) = IF c = b THEN Len(ix[c]) + 1 ELSE Len(ix[c])
  BY DEF IsPut
<1>5. \A c \in 1 .. Len(ix) : \A j \in 1 .. Len(ix[c]) :
        /\ Key(ix[c][j]) \in Nat /\ Key(ix[c][j]) # Key(e)
        /\ Precedes(c, j, b, p) => Key(ix[c][j]) < Key(e)
        /\ ~ Precedes(c, j, b, p) => Key(e) < Key(ix[c][j])
  <2> TAKE c \in 1 .. Len(ix)
  <2> TAKE j \in 1 .. Len(ix[c])
  <2>1. Key(ix[c][j]) \in Nat /\ Key(e) \in Nat
    BY <1>1, EntryKeys
  <2>2. Key(ix[c][j]) # Key(e)
    BY <1>1 DEF Holds
  <2> QED
    BY <2>1, <2>2 DEF PlaceOf
<1> DEFINE from(c, j) == IF c = b /\ j > p THEN j - 1 ELSE j
           new(c, j) == c = b /\ j = p
<1>6. ASSUME NEW c \in 1 .. Len(ix), NEW j \in 1 .. Len(iy[c])
      PROVE  /\ new(c, j) => iy[c][j] = e
             /\ ~ new(c, j) => /\ from(c, j) \in 1 .. Len(ix[c])
                               /\ iy[c][j] = ix[c][from(c, j)]
  <2>1. iy[c][j] = IF c # b \/ j < p THEN ix[c][j] ELSE IF j = p THEN e ELSE ix[c][j - 1]
    BY DEF IsPut
  <2> QED
    BY <1>1, <1>4, <2>1
<1>7. Sorted(iy)
  <2> SUFFICES ASSUME NEW c \in 1 .. Len(ix), NEW d \in 1 .. Len(ix),
                      NEW j \in 1 .. Len(iy[c]), NEW i \in 1 .. Len(iy[d]),
                      Precedes(c, j, d, i)
               PROVE  Key(iy[c][j]) < Key(iy[d][i])
    BY <1>3 DEF Sorted
  <2>1. j \in Nat /\ i \in Nat /\ c \in Nat /\ d \in Nat /\ b \in Nat /\ p \in Nat
    BY <1>1, <1>4
  <2>2. CASE new(c, j)
    <3>1. ~ new(d, i) /\ ~ Precedes(d, from(d, i), b, p)
      BY <2>1, <2>2 DEF Precedes
    <3>2. from(d, i) \in 1 .. Len(ix[d]) /\ iy[d][i] = ix[d][from(d, i)] /\ iy[c][j] = e
      BY <1>6, <2>2, <3>1
    <3> HIDE DEF from
    <3> QED
      BY <1>5, <3>1, <3>2
  <2>3. CASE new(d, i)
    <3>1. ~ new(c, j) /\ Precedes(c, from(c, j), b, p)
      BY <2>1, <2>3 DEF Precedes
    <3>2. from(c, j) \in 1 .. Len(ix[c]) /\ iy[c][j] = ix[c][from(c, j)] /\ iy[d][i] = e
      BY <1>6, <2>3, <3>1
    <3> HIDE DEF from
    <3> QED
      BY <1>5, <3>1, <3>2
  <2>4. CASE ~ new(c, j) /\ ~ new(d, i)
    <3>1. Precedes(c, from(c, j), d, from(d, i))
      BY <2>1, <2>4 DEF Precedes
    <3>2. /\ from(c, j) \in 1 .. Len(ix[c]) /\ iy[c][j] = ix[c][from(c, j)]
          /\ from(d, i) \in 1 .. Len(ix[d]) /\ iy[d][i] = ix[d][from(d, i)]
      BY <1>6, <2>4
    <3> HIDE DEF from
    <3> QED
      BY <3>1, <3>2 DEF Sorted
  <2> QED
    BY <2>2, <2>3, <2>4
<1>8. ASSUME NEW f \in Entries
      PROVE  Holds(iy, f) <=> Holds(ix, f) \/ f = e
  <2>1. ASSUME Holds(iy, f) PROVE Holds(ix, f) \/ f = e
    <3>1. PICK c \in 1 .. Len(ix) : \E j \in 1 .. Len(iy[c]) : iy[c][j] = f
      BY <1>3, <2>1 DEF Holds
    <3>2. PICK j \in 1 .. Len(iy[c]) : iy[c][j] = f
      BY <3>1
    <3>3. \/ f = e
          \/ from(c, j) \in 1 .. Len(ix[c]) /\ ix[c][from(c, j)] = f
      BY <1>6, <3>2
    <3> HIDE DEF from
    <3> QED
      BY <3>3 DEF Holds
  <2>2. ASSUME f = e PROVE Holds(iy, f)
    <3>1. p \in 1 .. Len(iy[b])
      BY <1>1, <1>4
    <3>2. iy[b][p] = e
      BY <1>6, <3>1
    <3> QED
      BY <1>3, <2>2, <3>1, <3>2 DEF Holds
  <2>3. ASSUME Holds(ix, f) PROVE Holds(iy, f)
    <3>1. PICK c \in 1 .. Len(ix) : \E j \in 1 .. Len(ix[c]) : ix[c][j] = f
      BY <2>3 DEF Holds
    <3>2. PICK j \in 1 .. Len(ix[c]) : ix[c][j] = f
      BY <3>1
    <3> DEFINE to == IF c = b /\ ~ (j < p) THEN j + 1 ELSE j
    <3>3. to \in 1 .. Len(iy[c])
      BY <1>1, <1>4
    <3>4. ~ new(c, to) /\ from(c, to) = j
      BY <1>1
    <3>5. iy[c][to] = f
      BY <1>6, <3>2, <3>3, <3>4
    <3> HIDE DEF to
    <3> QED
      BY <1>3, <3>3, <3>5 DEF Holds
  <2> QED
    BY <2>1, <2>2, <2>3
<1> QED
  BY <1>7, <1>8

(* Splitting a block, or merging two, neither changes the order nor what   *)
(* the index holds.                                                        *)
LEMMA SplitKeeps ==
    ASSUME NEW ix \in Index, NEW b \in 1 .. Len(ix), NEW k \in 0 .. Len(ix[b]),
           NEW iy, IsSplit(iy, ix, b, k)
    PROVE  /\ Sorted(ix) <=> Sorted(iy)
           /\ \A f \in Entries : Holds(iy, f) <=> Holds(ix, f)
<1>1. /\ Len(ix) \in Nat
      /\ \A c \in 1 .. Len(ix) : Len(ix[c]) \in Nat
  BY IndexTypes
<1>3. iy \in Index /\ Len(iy) = Len(ix) + 1
  BY DEF IsSplit, Shaped
<1>4. \A c \in 1 .. Len(ix) + 1 :
         Len(iy[c]) = IF c < b THEN Len(ix[c]) ELSE IF c = b THEN k
                      ELSE IF c = b + 1 THEN Len(ix[b]) - k ELSE Len(ix[c - 1])
  BY <1>3 DEF IsSplit
<1> DEFINE old(c) == IF c <= b THEN c ELSE c - 1
           from(c, j) == IF c = b + 1 THEN k + j ELSE j
           now(c, j) == IF c > b \/ (c = b /\ j > k) THEN c + 1 ELSE c
           at(c, j) == IF c = b /\ j > k THEN j - k ELSE j
<1>5. ASSUME NEW c \in 1 .. Len(iy), NEW j \in 1 .. Len(iy[c])
      PROVE  /\ old(c) \in 1 .. Len(ix) /\ from(c, j) \in 1 .. Len(ix[old(c)])
             /\ iy[c][j] = ix[old(c)][from(c, j)]
  <2>1. iy[c][j] = IF c <= b THEN ix[c][j] ELSE IF c = b + 1 THEN ix[b][k + j]
                   ELSE ix[c - 1][j]
    BY DEF IsSplit
  <2>2. c \in 1 .. Len(ix) + 1
    BY <1>3
  <2>3. /\ old(c) \in 1 .. Len(ix) /\ from(c, j) \in 1 .. Len(ix[old(c)])
    BY <1>1, <1>4, <2>2, SMTT(30)
  <2> QED
    BY <1>1, <2>1, <2>2, <2>3, SMTT(30)
<1>6. ASSUME NEW c \in 1 .. Len(ix), NEW j \in 1 .. Len(ix[c])
      PROVE  /\ now(c, j) \in 1 .. Len(iy) /\ at(c, j) \in 1 .. Len(iy[now(c, j)])
             /\ old(now(c, j)) = c /\ from(now(c, j), at(c, j)) = j
  <2>1. now(c, j) \in 1 .. Len(ix) + 1
    BY <1>1
  <2>2. at(c, j) \in 1 .. Len(iy[now(c, j)])
    BY <1>1, <1>4, <2>1
  <2>3. old(now(c, j)) = c /\ from(now(c, j), at(c, j)) = j
    BY <1>1
  <2> QED
    BY <1>3, <2>1, <2>2, <2>3
<1>7. ASSUME NEW c \in 1 .. Len(ix), NEW j \in 1 .. Len(ix[c])
      PROVE  iy[now(c, j)][at(c, j)] = ix[c][j]
  <2>1. /\ now(c, j) \in 1 .. Len(iy) /\ at(c, j) \in 1 .. Len(iy[now(c, j)])
        /\ old(now(c, j)) = c /\ from(now(c, j), at(c, j)) = j
    BY <1>6
  <2> HIDE DEF now, at, old, from
  <2> QED
    BY <1>5, <2>1
<1>8. ASSUME Sorted(ix) PROVE Sorted(iy)
  <2> SUFFICES ASSUME NEW c \in 1 .. Len(iy), NEW d \in 1 .. Len(iy),
                      NEW j \in 1 .. Len(iy[c]), NEW i \in 1 .. Len(iy[d]),
                      Precedes(c, j, d, i)
               PROVE  Key(iy[c][j]) < Key(iy[d][i])
    BY DEF Sorted
  <2>1. Precedes(old(c), from(c, j), old(d), from(d, i))
    <3>1. /\ c \in 1 .. Len(ix) + 1 /\ d \in 1 .. Len(ix) + 1
          /\ j \in Nat /\ i \in Nat /\ i >= 1
          /\ c = b => j <= k
      BY <1>1, <1>3, <1>4
    <3> QED
      BY <1>1, <3>1 DEF Precedes
  <2>2. /\ old(c) \in 1 .. Len(ix) /\ from(c, j) \in 1 .. Len(ix[old(c)])
        /\ iy[c][j] = ix[old(c)][from(c, j)]
        /\ old(d) \in 1 .. Len(ix) /\ from(d, i) \in 1 .. Len(ix[old(d)])
        /\ iy[d][i] = ix[old(d)][from(d, i)]
    BY <1>5
  <2> HIDE DEF old, from
  <2> QED
    BY <1>8, <2>1, <2>2 DEF Sorted
<1>9. ASSUME Sorted(iy) PROVE Sorted(ix)
  <2> SUFFICES ASSUME NEW c \in 1 .. Len(ix), NEW d \in 1 .. Len(ix),
                      NEW j \in 1 .. Len(ix[c]), NEW i \in 1 .. Len(ix[d]),
                      Precedes(c, j, d, i)
               PROVE  Key(ix[c][j]) < Key(ix[d][i])
    BY DEF Sorted
  <2>1. Precedes(now(c, j), at(c, j), now(d, i), at(d, i))
    <3>1. j \in Nat /\ i \in Nat /\ c \in Nat /\ d \in Nat
      BY <1>1
    <3> QED
      BY <1>1, <3>1 DEF Precedes
  <2>2. /\ now(c, j) \in 1 .. Len(iy) /\ at(c, j) \in 1 .. Len(iy[now(c, j)])
        /\ now(d, i) \in 1 .. Len(iy) /\ at(d, i) \in 1 .. Len(iy[now(d, i)])
    BY <1>6
  <2>3. iy[now(c, j)][at(c, j)] = ix[c][j] /\ iy[now(d, i)][at(d, i)] = ix[d][i]
    BY <1>7
  <2> HIDE DEF now, at
  <2> QED
    BY <1>9, <2>1, <2>2, <2>3 DEF Sorted
<1>10. ASSUME NEW f \in Entries
       PROVE  Holds(iy, f) <=> Holds(ix, f)
  <2>1. ASSUME Holds(iy, f) PROVE Holds(ix, f)
    <3>1. PICK c \in 1 .. Len(iy) : \E j \in 1 .. Len(iy[c]) : iy[c][j] = f
      BY <2>1 DEF Holds
    <3>2. PICK j \in 1 .. Len(iy[c]) : iy[c][j] = f
      BY <3>1
    <3> HIDE DEF old, from
    <3> QED
      BY <1>5, <3>2 DEF Holds
  <2>2. ASSUME Holds(ix, f) PROVE Holds(iy, f)
    <3>1. PICK c \in 1 .. Len(ix) : \E j \in 1 .. Len(ix[c]) : ix[c][j] = f
      BY <2>2 DEF Holds
    <3>2. PICK j \in 1 .. Len(ix[c]) : ix[c][j] = f
      BY <3>1
    <3> HIDE DEF now, at, old, from
    <3> QED
      BY <1>6, <1>7, <3>2 DEF Holds
  <2> QED
    BY <2>1, <2>2
<1> QED
  BY <1>8, <1>9, <1>10

(* Nor does what is left when an entry is taken out.                       *)
LEMMA CutKeeps ==
    ASSUME NEW ix \in Index, Sorted(ix), setup \in Setups,
           NEW b \in 1 .. Len(ix), NEW p \in 1 .. Len(ix[b]),
           NEW iy, IsCut(iy, ix, b, p)
    PROVE  /\ Sorted(iy)
           /\ \A f \in Entries : Holds(iy, f) <=> Holds(ix, f) /\ f # ix[b][p]
<1>1. /\ Len(ix) \in Nat
      /\ \A c \in 1 .. Len(ix) : Len(ix[c]) \in Nat
  BY IndexTypes
<1>3. iy \in Index /\ Len(iy) = Len(ix)
  BY DEF IsCut, Shaped
<1>4. \A c \in 1 .. Len(ix) : Len(iy[c]) = IF c = b THEN Len(ix[c]) - 1 ELSE Len(ix[c])
  BY DEF IsCut
<1> DEFINE from(c, j) == IF c = b /\ ~ (j < p) THEN j + 1 ELSE j
<1>5. ASSUME NEW c \in 1 .. Len(ix), NEW j \in 1 .. Len(iy[c])
      PROVE  /\ from(c, j) \in 1 .. Len(ix[c]) /\ ~ (c = b /\ from(c, j) = p)
             /\ iy[c][j] = ix[c][from(c, j)]
  <2>1. iy[c][j] = IF c # b \/ j < p THEN ix[c][j] ELSE ix[c][j + 1]
    BY DEF IsCut
  <2> QED
    BY <1>1, <1>4, <2>1
<1>6. Sorted(iy)
  <2> SUFFICES ASSUME NEW c \in 1 .. Len(ix), NEW d \in 1 .. Len(ix),
                      NEW j \in 1 .. Len(iy[c]), NEW i \in 1 .. Len(iy[d]),
                      Precedes(c, j, d, i)
               PROVE  Key(iy[c][j]) < Key(iy[d][i])
    BY <1>3 DEF Sorted
  <2>1. Precedes(c, from(c, j), d, from(d, i))
    <3>1. j \in Nat /\ i \in Nat /\ c \in Nat /\ d \in Nat
      BY <1>1, <1>4
    <3> QED
      BY <3>1 DEF Precedes
  <2>2. /\ from(c, j) \in 1 .. Len(ix[c]) /\ iy[c][j] = ix[c][from(c, j)]
        /\ from(d, i) \in 1 .. Len(ix[d]) /\ iy[d][i] = ix[d][from(d, i)]
    BY <1>5
  <2> HIDE DEF from
  <2> QED
    BY <2>1, <2>2 DEF Sorted
<1>7. ASSUME NEW c \in 1 .. Len(ix), NEW j \in 1 .. Len(ix[c]), ~ (c = b /\ j = p)
      PROVE  ix[c][j] # ix[b][p]
  <2>1. Precedes(c, j, b, p) \/ Precedes(b, p, c, j)
    BY <1>1, <1>7 DEF Precedes
  <2>2. Key(ix[c][j]) < Key(ix[b][p]) \/ Key(ix[b][p]) < Key(ix[c][j])
    BY <2>1 DEF Sorted
  <2>3. ix[b][p] \in Entries
    BY IndexTypes
  <2>4. Key(ix[b][p]) \in Nat
    BY <2>3, EntryKeys
  <2> QED
    BY <2>2, <2>4
<1>8. ASSUME NEW f \in Entries
      PROVE  Holds(iy, f) <=> Holds(ix, f) /\ f # ix[b][p]
  <2>1. ASSUME Holds(iy, f) PROVE Holds(ix, f) /\ f # ix[b][p]
    <3>1. PICK c \in 1 .. Len(ix) : \E j \in 1 .. Len(iy[c]) : iy[c][j] = f
      BY <1>3, <2>1 DEF Holds
    <3>2. PICK j \in 1 .. Len(iy[c]) : iy[c][j] = f
      BY <3>1
    <3> HIDE DEF from
    <3>3. /\ from(c, j) \in 1 .. Len(ix[c]) /\ ~ (c = b /\ from(c, j) = p)
          /\ f = ix[c][from(c, j)]
      BY <1>5, <3>2
    <3> QED
      BY <1>7, <3>3 DEF Holds
  <2>2. ASSUME Holds(ix, f), f # ix[b][p] PROVE Holds(iy, f)
    <3>1. PICK c \in 1 .. Len(ix) : \E j \in 1 .. Len(ix[c]) : ix[c][j] = f
      BY <2>2 DEF Holds
    <3>2. PICK j \in 1 .. Len(ix[c]) : ix[c][j] = f
      BY <3>1
    <3>3. ~ (c = b /\ j = p)
      BY <2>2, <3>2
    <3> DEFINE to == IF c = b /\ j > p THEN j - 1 ELSE j
    <3>4. to \in 1 .. Len(iy[c]) /\ from(c, to) = j
      BY <1>1, <1>4, <3>3
    <3>5. iy[c][to] = f
      BY <1>5, <3>2, <3>4
    <3> HIDE DEF to
    <3> QED
      BY <1>3, <3>4, <3>5 DEF Holds
  <2> QED
    BY <2>1, <2>2
<1> QED
  BY <1>6, <1>8

-----------------------------------------------------------------------------
(* What the operations on the index make                                   *)

LEMMA ReplacedIs ==
    ASSUME NEW ix \in Index, NEW b \in 1 .. Len(ix), NEW blk \in Seq(Entries)
    PROVE  ReplaceAt(ix, b, blk) \in Index /\ Replaced(ReplaceAt(ix, b, blk), ix, b, blk)
BY ReplaceAtIs DEF Index

LEMMA InsertedIs ==
    ASSUME NEW ix \in Index, NEW b \in 1 .. Len(ix) + 1, NEW blk \in Seq(Entries)
    PROVE  InsertAt(ix, b, blk) \in Index /\ Inserted(InsertAt(ix, b, blk), ix, b, blk)
BY InsertAtIs DEF Index

LEMMA RemovedIs ==
    ASSUME NEW ix \in Index, NEW b \in 1 .. Len(ix)
    PROVE  RemoveAt(ix, b) \in Index /\ Removed(RemoveAt(ix, b), ix, b)
BY RemoveAtIs DEF Index

LEMMA PutIs ==
    ASSUME NEW ix \in Index, NEW b \in 1 .. Len(ix), NEW p \in 1 .. Len(ix[b]) + 1,
           NEW e \in Entries
    PROVE  IsPut(ReplaceAt(ix, b, InsertAt(ix[b], p, e)), ix, b, p, e)
<1>1. ix[b] \in Seq(Entries)
  BY IndexTypes
<1>2. /\ InsertAt(ix[b], p, e) \in Seq(Entries)
      /\ Inserted(InsertAt(ix[b], p, e), ix[b], p, e)
  BY <1>1, InsertAtIs
<1> DEFINE blk == InsertAt(ix[b], p, e)
           iy == ReplaceAt(ix, b, blk)
<1> HIDE DEF blk
<1>3. iy \in Index /\ Replaced(iy, ix, b, blk)
  BY <1>2, ReplacedIs DEF blk
<1> HIDE DEF iy
<1>4. /\ Shaped(iy, Len(ix))
      /\ \A c \in 1 .. Len(ix) : iy[c] = IF c = b THEN blk ELSE ix[c]
  BY <1>3 DEF Replaced, Shaped
<1>5. \A c \in 1 .. Len(ix) : Len(iy[c]) = IF c = b THEN Len(ix[c]) + 1 ELSE Len(ix[c])
  BY <1>2, <1>4 DEF blk, Inserted
<1>6. \A c \in 1 .. Len(ix) : \A j \in 1 .. Len(iy[c]) :
         iy[c][j] = IF c # b \/ j < p THEN ix[c][j] ELSE IF j = p THEN e ELSE ix[c][j - 1]
  BY <1>2, <1>4, <1>5 DEF blk, Inserted
<1>7. IsPut(iy, ix, b, p, e)
  BY <1>4, <1>5, <1>6 DEF IsPut
<1> QED
  BY <1>7 DEF iy, blk

LEMMA CutIs ==
    ASSUME NEW ix \in Index, NEW b \in 1 .. Len(ix), NEW p \in 1 .. Len(ix[b])
    PROVE  IsCut(ReplaceAt(ix, b, RemoveAt(ix[b], p)), ix, b, p)
<1>1. ix[b] \in Seq(Entries)
  BY IndexTypes
<1>2. RemoveAt(ix[b], p) \in Seq(Entries) /\ Removed(RemoveAt(ix[b], p), ix[b], p)
  BY <1>1, RemoveAtIs
<1> DEFINE blk == RemoveAt(ix[b], p)
           iy == ReplaceAt(ix, b, blk)
<1> HIDE DEF blk
<1>3. iy \in Index /\ Replaced(iy, ix, b, blk)
  BY <1>2, ReplacedIs DEF blk
<1> HIDE DEF iy
<1>4. /\ Shaped(iy, Len(ix))
      /\ \A c \in 1 .. Len(ix) : iy[c] = IF c = b THEN blk ELSE ix[c]
  BY <1>3 DEF Replaced, Shaped
<1>5. \A c \in 1 .. Len(ix) : Len(iy[c]) = IF c = b THEN Len(ix[c]) - 1 ELSE Len(ix[c])
  BY <1>2, <1>4 DEF blk, Removed
<1>6. \A c \in 1 .. Len(ix) : \A j \in 1 .. Len(iy[c]) :
         iy[c][j] = IF c # b \/ j < p THEN ix[c][j] ELSE ix[c][j + 1]
  BY <1>2, <1>4, <1>5 DEF blk, Removed
<1>7. IsCut(iy, ix, b, p)
  BY <1>4, <1>5, <1>6 DEF IsCut
<1> QED
  BY <1>7 DEF iy, blk

-----------------------------------------------------------------------------
(* The search                                                              *)

Ordered == /\ setup \in Setups /\ index \in Index
           /\ Sorted(index) /\ Fits(index)

LEMMA BlockIs ==
    ASSUME Ordered, index # <<>>, NEW key \in Nat
    PROVE  /\ Block(key) \in 1 .. Len(index)
           /\ \A c \in 1 .. Len(index) :
                /\ c > Block(key) => key < Key(index[c][1])
                /\ c <= Block(key) => c = 1 \/ Key(index[c][1]) <= key
<1> DEFINE S == {b \in DOMAIN index : Key(index[b][1]) <= key}
           n == Len(index)
           m == Cardinality(S)
<1>1. index \in Index /\ Sorted(index) /\ setup \in Setups
  BY DEF Ordered
<1>2. /\ n \in Nat
      /\ \A b \in 1 .. n : 1 \in 1 .. Len(index[b]) /\ Key(index[b][1]) \in Nat
  <2>1. \A b \in 1 .. n : Len(index[b]) \in Nat /\ Len(index[b]) >= 1
    BY <1>1, IndexTypes DEF Ordered, Fits
  <2>2. \A b \in 1 .. n : 1 \in 1 .. Len(index[b])
    BY <2>1
  <2> QED
    BY <1>1, <2>2, IndexTypes, EntryKeys
<1>3. n # 0 /\ DOMAIN index = 1 .. n
  BY <1>1, EmptySeq, LenProperties DEF Index
<1>4. \A c, b \in 1 .. n : c < b => Key(index[c][1]) < Key(index[b][1])
  BY <1>1, <1>2 DEF Sorted, Precedes
<1>5. S = {b \in 1 .. n : Key(index[b][1]) <= key}
  BY <1>3
<1>6. S \in SUBSET (1 .. n) /\ \A x \in S, y \in 1 .. n : y < x => y \in S
  <2>1. ASSUME NEW x \in S, NEW y \in 1 .. n, y < x
        PROVE  y \in S
    <3>1. x \in 1 .. n /\ Key(index[x][1]) <= key
      BY <1>5
    <3>2. Key(index[y][1]) < Key(index[x][1])
      BY <1>4, <2>1, <3>1
    <3> QED
      BY <1>2, <1>5, <3>1, <3>2
  <2> QED
    BY <1>5, <2>1
<1>7. m \in 0 .. n /\ S = 1 .. m
  <2> HIDE DEF S
  <2> QED
    BY <1>2, <1>6, CountOfBeginning
<1>8. Block(key) = IF m = 0 THEN 1 ELSE m
  <2>1. Block(key) = Smaller(n, Larger(1, m))
    BY DEF Block
  <2> HIDE DEF S, n, m
  <2> QED
    BY <1>2, <1>3, <1>7, <2>1 DEF Smaller, Larger
<1>9. \A c \in 1 .. n : c \in S <=> c <= m
  <2> HIDE DEF S, m
  <2> QED
    BY <1>7
<1>10. \A c \in 1 .. n : Key(index[c][1]) <= key <=> c <= m
  BY <1>5, <1>9
<1> HIDE DEF S, m
<1> QED
  BY <1>2, <1>3, <1>7, <1>8, <1>10

LEMMA PositionIs ==
    ASSUME Ordered, index # <<>>, NEW key \in Nat
    PROVE  /\ Position(key) \in 0 .. Len(index[Block(key)])
           /\ \A i \in 1 .. Len(index[Block(key)]) :
                i <= Position(key) <=> Key(index[Block(key)][i]) < key
<1> DEFINE b == Block(key)
           n == Len(index[b])
           S == {i \in DOMAIN index[b] : Key(index[b][i]) < key}
           m == Cardinality(S)
<1>1. b \in 1 .. Len(index) /\ index \in Index /\ Sorted(index) /\ setup \in Setups
  BY BlockIs DEF Ordered
<1>2. Position(key) = m
  BY DEF Position
<1> HIDE DEF b
<1>3. /\ index[b] \in Seq(Entries) /\ n \in Nat
      /\ \A i \in 1 .. n : index[b][i] \in Entries
  BY <1>1, IndexTypes
<1>4. DOMAIN index[b] = 1 .. n
  BY <1>3, LenProperties
<1>5. S = {i \in 1 .. n : Key(index[b][i]) < key}
  BY <1>4
<1>6. \A i \in 1 .. n : Key(index[b][i]) \in Nat
  BY <1>1, <1>3, EntryKeys
<1>7. \A j, i \in 1 .. n : j < i => Key(index[b][j]) < Key(index[b][i])
  BY <1>1 DEF Sorted, Precedes
<1>8. S \in SUBSET (1 .. n) /\ \A x \in S, y \in 1 .. n : y < x => y \in S
  <2>1. ASSUME NEW x \in S, NEW y \in 1 .. n, y < x
        PROVE  y \in S
    <3>1. x \in 1 .. n /\ Key(index[b][x]) < key
      BY <1>5
    <3>2. Key(index[b][y]) < Key(index[b][x])
      BY <1>7, <2>1, <3>1
    <3> QED
      BY <1>5, <1>6, <3>1, <3>2
  <2> QED
    BY <1>5, <2>1
<1>9. m \in 0 .. n /\ S = 1 .. m
  <2> HIDE DEF S
  <2> QED
    BY <1>3, <1>8, CountOfBeginning
<1>10. \A i \in 1 .. n : i \in S <=> i <= m
  <2> HIDE DEF S, m
  <2> QED
    BY <1>9
<1>11. \A i \in 1 .. n : i <= m <=> Key(index[b][i]) < key
  BY <1>5, <1>10
<1> HIDE DEF S, m
<1> QED
  BY <1>2, <1>9, <1>11 DEF b

LEMMA PlaceIs ==
    ASSUME Ordered, index # <<>>, NEW key \in Nat
    PROVE  PlaceOf(index, key, Block(key), Position(key) + 1)
<1> DEFINE b == Block(key)
           p == Position(key) + 1
<1>1. /\ b \in 1 .. Len(index)
      /\ \A c \in 1 .. Len(index) : /\ c > b => key < Key(index[c][1])
                                    /\ c <= b => c = 1 \/ Key(index[c][1]) <= key
  BY BlockIs
<1>2. /\ p - 1 \in 0 .. Len(index[b])
      /\ \A i \in 1 .. Len(index[b]) : i <= p - 1 <=> Key(index[b][i]) < key
  <2>1. p - 1 = Position(key)
    BY PositionIs
  <2> QED
    BY <2>1, PositionIs
<1>3. index \in Index /\ Sorted(index) /\ setup \in Setups
  BY DEF Ordered
<1>4. /\ Len(index) \in Nat
      /\ \A c \in 1 .. Len(index) : Len(index[c]) \in Nat /\ 1 \in 1 .. Len(index[c])
      /\ \A c \in 1 .. Len(index) : \A j \in 1 .. Len(index[c]) : Key(index[c][j]) \in Nat
  <2>1. /\ Len(index) \in Nat
        /\ \A c \in 1 .. Len(index) : Len(index[c]) \in Nat /\ Len(index[c]) >= 1
    BY <1>3, IndexTypes DEF Ordered, Fits
  <2> QED
    BY <1>3, <2>1, IndexTypes, EntryKeys
<1>5. p \in 1 .. Len(index[b]) + 1
  <2>1. Position(key) \in 0 .. Len(index[b])
    BY PositionIs
  <2> QED
    BY <1>1, <1>4, <2>1
<1> HIDE DEF b, p
<1>6. ASSUME NEW c \in 1 .. Len(index), NEW j \in 1 .. Len(index[c])
      PROVE  IF Precedes(c, j, b, p) THEN Key(index[c][j]) < key ELSE key <= Key(index[c][j])
  <2>1. CASE c < b
    <3>1. b # 1 /\ Key(index[b][1]) <= key
      BY <1>1, <1>4, <2>1
    <3>2. Key(index[c][j]) < Key(index[b][1])
      BY <1>1, <1>3, <1>4, <2>1 DEF Sorted, Precedes
    <3>3. Key(index[c][j]) \in Nat /\ Key(index[b][1]) \in Nat
      BY <1>1, <1>4
    <3> QED
      BY <2>1, <3>1, <3>2, <3>3 DEF Precedes
  <2>2. CASE c = b
    <3>1. Key(index[c][j]) \in Nat /\ j \in Int /\ p \in Int
      BY <1>1, <1>4, <1>5
    <3>2. j <= p - 1 <=> Key(index[c][j]) < key
      BY <1>2, <2>2
    <3>3. Precedes(c, j, b, p) <=> j <= p - 1
      BY <1>1, <1>4, <2>2, <3>1 DEF Precedes
    <3> QED
      BY <3>1, <3>2, <3>3
  <2>3. CASE c > b
    <3>1. key < Key(index[c][1])
      BY <1>1, <2>3
    <3>2. j = 1 \/ Key(index[c][1]) < Key(index[c][j])
      <4>1. j # 1 => Precedes(c, 1, c, j)
        BY <1>4 DEF Precedes
      <4> QED
        BY <1>3, <1>4, <4>1 DEF Sorted
    <3>3. Key(index[c][j]) \in Nat /\ Key(index[c][1]) \in Nat
      BY <1>4
    <3>4. ~ Precedes(c, j, b, p)
      BY <1>1, <1>4, <2>3 DEF Precedes
    <3> QED
      BY <3>1, <3>2, <3>3, <3>4
  <2> QED
    BY <1>1, <1>4, <2>1, <2>2, <2>3
<1>7. PlaceOf(index, key, b, p)
  BY <1>1, <1>5, <1>6 DEF PlaceOf
<1> QED
  BY <1>7 DEF b, p

(* The entry of a key is at the place of the key.                          *)
LEMMA EntryIsThere ==
    ASSUME Ordered, NEW e \in Entries, Holds(index, e)
    PROVE  /\ index # <<>> /\ Block(Key(e)) \in 1 .. Len(index)
           /\ Position(Key(e)) + 1 \in 1 .. Len(index[Block(Key(e))])
           /\ index[Block(Key(e))][Position(Key(e)) + 1] = e
<1> DEFINE key == Key(e)
           b == Block(key)
           p == Position(key) + 1
<1>1. index \in Index /\ Sorted(index) /\ setup \in Setups
  BY DEF Ordered
<1>2. key \in Nat
  BY <1>1, EntryKeys
<1>3. index # <<>>
  <2>1. Len(index) # 0
    BY <1>1, IndexTypes DEF Holds
  <2> QED
    BY <2>1
<1>4. PlaceOf(index, key, b, p)
  BY <1>2, <1>3, PlaceIs
<1>5. b \in 1 .. Len(index) /\ \A c \in 1 .. Len(index) : c > b => key < Key(index[c][1])
  BY <1>2, <1>3, BlockIs
<1> HIDE DEF key, b, p
<1>6. PICK c \in 1 .. Len(index) : \E j \in 1 .. Len(index[c]) : index[c][j] = e
  BY DEF Holds
<1>7. PICK j \in 1 .. Len(index[c]) : index[c][j] = e
  BY <1>6
<1>8. /\ Len(index) \in Nat /\ Len(index[c]) \in Nat /\ Len(index[b]) \in Nat
      /\ \A d \in 1 .. Len(index) : \A i \in 1 .. Len(index[d]) : Key(index[d][i]) \in Nat
  BY <1>1, <1>5, IndexTypes, EntryKeys
<1>9. Key(index[c][j]) = key
  BY <1>7 DEF key
<1>10. ~ Precedes(c, j, b, p)
  BY <1>2, <1>4, <1>9 DEF PlaceOf
<1>11. c = b
  <2>1. ASSUME c > b PROVE FALSE
    <3>1. key < Key(index[c][1])
      BY <1>5, <2>1
    <3>2. j = 1 \/ Key(index[c][1]) < Key(index[c][j])
      <4>1. j # 1 => Precedes(c, 1, c, j)
        BY <1>8 DEF Precedes
      <4> QED
        BY <1>1, <1>8, <4>1 DEF Sorted
    <3>3. 1 \in 1 .. Len(index[c])
      BY <1>8
    <3>4. Key(index[c][1]) \in Nat
      BY <1>8, <3>3
    <3> QED
      BY <1>2, <1>9, <3>1, <3>2, <3>4
  <2> QED
    BY <1>5, <1>8, <1>10, <2>1 DEF Precedes
<1>12. p \in 1 .. Len(index[b]) + 1
  BY <1>4 DEF PlaceOf
<1>13. j = p
  <2>1. ASSUME p < j PROVE FALSE
    <3>1. p \in 1 .. Len(index[b]) /\ Precedes(b, p, c, j) /\ ~ Precedes(b, p, b, p)
      BY <1>8, <1>11, <1>12, <2>1 DEF Precedes
    <3>2. Key(index[b][p]) < key
      BY <1>1, <1>5, <1>9, <3>1 DEF Sorted
    <3>3. key <= Key(index[b][p])
      BY <1>4, <1>5, <3>1 DEF PlaceOf
    <3> QED
      BY <1>2, <1>5, <1>8, <3>1, <3>2, <3>3
  <2> QED
    BY <1>8, <1>10, <1>11, <1>12, <2>1 DEF Precedes
<1>14. b \in 1 .. Len(index) /\ p \in 1 .. Len(index[b]) /\ index[b][p] = e
  BY <1>5, <1>7, <1>11, <1>13
<1> QED
  BY <1>3, <1>14 DEF key, b, p

LEMMA FindIs ==
    ASSUME Ordered, NEW key \in Nat
    PROVE  /\ find(key) # NoEntry =>
                /\ find(key) \in Entries /\ Holds(index, find(key)) /\ Key(find(key)) = key
           /\ \A e \in Entries : Holds(index, e) /\ Key(e) = key => find(key) = e
<1> DEFINE b == Block(key)
           p == Position(key) + 1
<1>1. index \in Index /\ setup \in Setups
  BY DEF Ordered
<1>2. CASE index = <<>>
  <2>1. find(key) = NoEntry
    BY <1>2 DEF find
  <2>2. \A e \in Entries : ~ Holds(index, e)
    BY EntryIsThere, <1>2
  <2> QED
    BY <2>1, <2>2
<1>3. CASE index # <<>>
  <2>1. b \in 1 .. Len(index)
    BY <1>3, BlockIs
  <2>2. index[b] \in Seq(Entries)
    BY <1>1, <2>1, IndexTypes
  <2>3. DOMAIN index[b] = 1 .. Len(index[b])
    BY <2>2, LenProperties
  <2>4. find(key) = IF p \in DOMAIN index[b] /\ Key(index[b][p]) = key THEN index[b][p] ELSE NoEntry
    BY <1>3 DEF find
  <2>5. ASSUME find(key) # NoEntry
        PROVE  find(key) \in Entries /\ Holds(index, find(key)) /\ Key(find(key)) = key
    <3>1. p \in 1 .. Len(index[b]) /\ Key(index[b][p]) = key /\ find(key) = index[b][p]
      BY <2>3, <2>4, <2>5
    <3>2. index[b][p] \in Entries
      BY <1>1, <2>1, <3>1, IndexTypes
    <3> HIDE DEF b, p
    <3> QED
      BY <2>1, <3>1, <3>2 DEF Holds
  <2>6. ASSUME NEW e \in Entries, Holds(index, e), Key(e) = key
        PROVE  find(key) = e
    <3>1. p \in 1 .. Len(index[b]) /\ index[b][p] = e
      BY <2>6, EntryIsThere
    <3> QED
      BY <2>3, <2>4, <2>6, <3>1
  <2> QED
    BY <2>5, <2>6
<1> QED
  BY <1>2, <1>3

-----------------------------------------------------------------------------
(* Shard::insert                                                           *)

(* Two blocks instead of block b.                                          *)
Paired(iy, ix, b, low, high) ==
    /\ Shaped(iy, Len(ix) + 1)
    /\ \A c \in 1 .. Len(ix) + 1 :
         iy[c] = IF c < b THEN ix[c] ELSE IF c = b THEN low
                 ELSE IF c = b + 1 THEN high ELSE ix[c - 1]

LEMMA PairIs ==
    ASSUME NEW ix \in Index, NEW b \in 1 .. Len(ix),
           NEW low \in Seq(Entries), NEW high \in Seq(Entries)
    PROVE  Paired(InsertAt(ReplaceAt(ix, b, low), b + 1, high), ix, b, low, high)
<1> DEFINE it == ReplaceAt(ix, b, low)
           iy == InsertAt(it, b + 1, high)
<1>1. Len(ix) \in Nat
  BY IndexTypes
<1>2. it \in Index /\ Replaced(it, ix, b, low)
  BY ReplacedIs
<1> HIDE DEF it
<1>3. /\ Len(it) = Len(ix) /\ b + 1 \in 1 .. Len(it) + 1
      /\ \A c \in 1 .. Len(ix) : it[c] = IF c = b THEN low ELSE ix[c]
  BY <1>1, <1>2 DEF Replaced
<1>4. iy \in Index /\ Inserted(iy, it, b + 1, high)
  BY <1>2, <1>3, InsertedIs
<1> HIDE DEF iy
<1>5. /\ Shaped(iy, Len(ix) + 1)
      /\ \A c \in 1 .. Len(ix) + 1 :
           iy[c] = IF c < b + 1 THEN it[c] ELSE IF c = b + 1 THEN high ELSE it[c - 1]
  BY <1>3, <1>4 DEF Inserted, Shaped
<1>6. ASSUME NEW c \in 1 .. Len(ix) + 1
      PROVE  iy[c] = IF c < b THEN ix[c] ELSE IF c = b THEN low
                     ELSE IF c = b + 1 THEN high ELSE ix[c - 1]
  <2>1. iy[c] = IF c < b + 1 THEN it[c] ELSE IF c = b + 1 THEN high ELSE it[c - 1]
    BY <1>5
  <2>2. /\ c < b + 1 => c \in 1 .. Len(ix)
        /\ c > b + 1 => c - 1 \in 1 .. Len(ix) /\ c - 1 # b
    BY <1>1
  <2> QED
    BY <1>1, <1>3, <2>1, <2>2, SMTT(30)
<1>7. Paired(iy, ix, b, low, high)
  BY <1>5, <1>6 DEF Paired
<1> QED
  BY <1>7 DEF iy, it

LEMMA SplitIs ==
    ASSUME NEW ix \in Index, NEW b \in 1 .. Len(ix), NEW k \in 0 .. Len(ix[b]),
           NEW low, low = SubSeq(ix[b], 1, k),
           NEW high, high = SubSeq(ix[b], k + 1, Len(ix[b])),
           NEW iy, Paired(iy, ix, b, low, high)
    PROVE  /\ IsSplit(iy, ix, b, k)
           /\ low \in Seq(Entries) /\ high \in Seq(Entries)
           /\ Len(low) = k /\ Len(high) = Len(ix[b]) - k
<1>1. ix[b] \in Seq(Entries) /\ Len(ix) \in Nat /\ \A c \in 1 .. Len(ix) : Len(ix[c]) \in Nat
  BY IndexTypes
<1>2. /\ low \in Seq(Entries) /\ Len(low) = k
      /\ high \in Seq(Entries) /\ Len(high) = Len(ix[b]) - k
  BY <1>1, PartsAre
<1>3. \A i \in 1 .. k : low[i] = ix[b][i]
  BY <1>1, PartsAre
<1>4. \A i \in 1 .. Len(ix[b]) - k : high[i] = ix[b][k + i]
  BY <1>1, PartsAre
<1>8. Len(iy) = Len(ix) + 1
  BY DEF Paired, Shaped
<1>9. \A c \in 1 .. Len(iy) :
        iy[c] = IF c < b THEN ix[c] ELSE IF c = b THEN low
                ELSE IF c = b + 1 THEN high ELSE ix[c - 1]
  BY <1>8 DEF Paired
<1>10. \A c \in 1 .. Len(iy) :
         Len(iy[c]) = IF c < b THEN Len(ix[c]) ELSE IF c = b THEN k
                      ELSE IF c = b + 1 THEN Len(ix[b]) - k ELSE Len(ix[c - 1])
  BY <1>2, <1>9
<1>11. \A c \in 1 .. Len(iy) : \A j \in 1 .. Len(iy[c]) :
         iy[c][j] = IF c <= b THEN ix[c][j] ELSE IF c = b + 1 THEN ix[b][k + j]
                    ELSE ix[c - 1][j]
  <2> TAKE c \in 1 .. Len(iy)
  <2> TAKE j \in 1 .. Len(iy[c])
  <2>1. iy[c] = IF c < b THEN ix[c] ELSE IF c = b THEN low
                ELSE IF c = b + 1 THEN high ELSE ix[c - 1]
    BY <1>9
  <2>2. /\ c = b => j \in 1 .. k
        /\ c = b + 1 => j \in 1 .. Len(ix[b]) - k
    BY <1>10
  <2>3. c \in Int /\ b \in Int
    BY <1>1, <1>8
  <2> QED
    BY <1>3, <1>4, <2>1, <2>2, <2>3
<1>12. IsSplit(iy, ix, b, k)
  BY <1>8, <1>10, <1>11 DEF IsSplit, Paired
<1> QED
  BY <1>2, <1>12

(* The entry goes into one of the two halves.                              *)
LEMMA PutLow ==
    ASSUME NEW ix \in Index, NEW b \in 1 .. Len(ix),
           NEW low \in Seq(Entries), NEW high \in Seq(Entries),
           NEW p \in 1 .. Len(low) + 1, NEW e \in Entries,
           NEW it, Paired(it, ix, b, low, high),
           NEW iy, Paired(iy, ix, b, InsertAt(low, p, e), high)
    PROVE  IsPut(iy, it, b, p, e)
<1> DEFINE blk == InsertAt(low, p, e)
<1>1. Len(ix) \in Nat /\ Len(low) \in Nat
  BY IndexTypes, LenProperties
<1>2. blk \in Seq(Entries) /\ Inserted(blk, low, p, e)
  BY InsertAtIs
<1>3. Paired(iy, ix, b, blk, high)
  OBVIOUS
<1> HIDE DEF blk
<1>4. /\ Shaped(iy, Len(it)) /\ Len(it) = Len(ix) + 1
      /\ \A c \in 1 .. Len(it) : iy[c] = IF c = b THEN blk ELSE it[c]
      /\ it[b] = low
  <2>1. Shaped(iy, Len(it)) /\ Len(it) = Len(ix) + 1
    BY <1>3 DEF Paired, Shaped
  <2>2. ASSUME NEW c \in 1 .. Len(it)
        PROVE  /\ iy[c] = IF c = b THEN blk ELSE it[c]
               /\ c = b => it[c] = low
    <3>1. c \in 1 .. Len(ix) + 1
      BY <2>1
    <3>2. iy[c] = IF c < b THEN ix[c] ELSE IF c = b THEN blk
                  ELSE IF c = b + 1 THEN high ELSE ix[c - 1]
      BY <1>3, <3>1 DEF Paired
    <3>3. it[c] = IF c < b THEN ix[c] ELSE IF c = b THEN low
                  ELSE IF c = b + 1 THEN high ELSE ix[c - 1]
      BY <3>1 DEF Paired
    <3> QED
      BY <1>1, <3>1, <3>2, <3>3
  <2>3. b \in 1 .. Len(it)
    BY <1>1, <2>1
  <2> QED
    BY <2>1, <2>2, <2>3
<1>5. \A c \in 1 .. Len(it) : Len(iy[c]) = IF c = b THEN Len(it[c]) + 1 ELSE Len(it[c])
  BY <1>2, <1>4 DEF Inserted
<1>6. \A c \in 1 .. Len(it) : \A j \in 1 .. Len(iy[c]) :
         iy[c][j] = IF c # b \/ j < p THEN it[c][j] ELSE IF j = p THEN e ELSE it[c][j - 1]
  BY <1>2, <1>4, <1>5 DEF Inserted
<1> QED
  BY <1>4, <1>5, <1>6 DEF IsPut

LEMMA PutHigh ==
    ASSUME NEW ix \in Index, NEW b \in 1 .. Len(ix),
           NEW low \in Seq(Entries), NEW high \in Seq(Entries),
           NEW p \in 1 .. Len(high) + 1, NEW e \in Entries,
           NEW it, Paired(it, ix, b, low, high),
           NEW iy, Paired(iy, ix, b, low, InsertAt(high, p, e))
    PROVE  IsPut(iy, it, b + 1, p, e)
<1> DEFINE blk == InsertAt(high, p, e)
<1>1. Len(ix) \in Nat /\ Len(high) \in Nat
  BY IndexTypes, LenProperties
<1>2. blk \in Seq(Entries) /\ Inserted(blk, high, p, e)
  BY InsertAtIs
<1>3. Paired(iy, ix, b, low, blk)
  OBVIOUS
<1> HIDE DEF blk
<1>4. /\ Shaped(iy, Len(it)) /\ Len(it) = Len(ix) + 1
      /\ \A c \in 1 .. Len(it) : iy[c] = IF c = b + 1 THEN blk ELSE it[c]
      /\ it[b + 1] = high
  <2>1. Shaped(iy, Len(it)) /\ Len(it) = Len(ix) + 1
    BY <1>3 DEF Paired, Shaped
  <2>2. ASSUME NEW c \in 1 .. Len(it)
        PROVE  /\ iy[c] = IF c = b + 1 THEN blk ELSE it[c]
               /\ c = b + 1 => it[c] = high
    <3>1. c \in 1 .. Len(ix) + 1
      BY <2>1
    <3>2. iy[c] = IF c < b THEN ix[c] ELSE IF c = b THEN low
                  ELSE IF c = b + 1 THEN blk ELSE ix[c - 1]
      BY <1>3, <3>1 DEF Paired
    <3>3. it[c] = IF c < b THEN ix[c] ELSE IF c = b THEN low
                  ELSE IF c = b + 1 THEN high ELSE ix[c - 1]
      BY <3>1 DEF Paired
    <3> QED
      BY <1>1, <3>1, <3>2, <3>3
  <2>3. b + 1 \in 1 .. Len(it)
    BY <1>1, <2>1
  <2> QED
    BY <2>1, <2>2, <2>3
<1>5. \A c \in 1 .. Len(it) :
        Len(iy[c]) = IF c = b + 1 THEN Len(it[c]) + 1 ELSE Len(it[c])
  BY <1>2, <1>4 DEF Inserted
<1>6. \A c \in 1 .. Len(it) : \A j \in 1 .. Len(iy[c]) :
         iy[c][j] = IF c # b + 1 \/ j < p THEN it[c][j] ELSE IF j = p THEN e ELSE it[c][j - 1]
  <2> TAKE c \in 1 .. Len(it)
  <2>1. CASE c = b + 1
    <3>1. iy[c] = blk /\ it[c] = high /\ Len(iy[c]) = Len(high) + 1
      BY <1>4, <1>5, <2>1
    <3> QED
      BY <1>2, <2>1, <3>1 DEF Inserted
  <2>2. CASE c # b + 1
    BY <1>4, <2>2
  <2> QED
    BY <2>1, <2>2
<1> QED
  BY <1>4, <1>5, <1>6 DEF IsPut

(* The place of a key in a block is its place in one of the halves.        *)
LEMMA PlaceInHalf ==
    ASSUME NEW ix \in Index, NEW b \in 1 .. Len(ix), NEW k \in 0 .. Len(ix[b]),
           NEW it, IsSplit(it, ix, b, k), NEW key, NEW p, PlaceOf(ix, key, b, p)
    PROVE  /\ p <= k + 1 => PlaceOf(it, key, b, p)
           /\ p > k => PlaceOf(it, key, b + 1, p - k)
<1>1. Len(ix) \in Nat /\ \A c \in 1 .. Len(ix) : Len(ix[c]) \in Nat
  BY IndexTypes
<1>2. Len(it) = Len(ix) + 1 /\ p \in 1 .. Len(ix[b]) + 1
  BY DEF IsSplit, Shaped, PlaceOf
<1>3. b \in 1 .. Len(it) /\ b + 1 \in 1 .. Len(it)
  BY <1>1, <1>2
<1>4. Len(it[b]) = k /\ Len(it[b + 1]) = Len(ix[b]) - k
  <2>1. \A c \in 1 .. Len(it) :
          Len(it[c]) = IF c < b THEN Len(ix[c]) ELSE IF c = b THEN k
                       ELSE IF c = b + 1 THEN Len(ix[b]) - k ELSE Len(ix[c - 1])
    BY DEF IsSplit
  <2>2. b \in Nat /\ ~ (b < b) /\ ~ (b + 1 < b) /\ b + 1 # b
    BY <1>1
  <2> QED
    BY <1>3, <2>1, <2>2
<1> DEFINE old(c) == IF c <= b THEN c ELSE c - 1
           from(c, j) == IF c = b + 1 THEN k + j ELSE j
<1>5. ASSUME NEW c \in 1 .. Len(it), NEW j \in 1 .. Len(it[c])
      PROVE  /\ old(c) \in 1 .. Len(ix) /\ from(c, j) \in 1 .. Len(ix[old(c)])
             /\ it[c][j] = ix[old(c)][from(c, j)]
             /\ c = b => j <= k
             /\ j \in Nat \ {0} /\ c \in Nat
  <2>1. it[c][j] = IF c <= b THEN ix[c][j] ELSE IF c = b + 1 THEN ix[b][k + j]
                   ELSE ix[c - 1][j]
    BY DEF IsSplit
  <2>2. Len(it[c]) = IF c < b THEN Len(ix[c]) ELSE IF c = b THEN k
                     ELSE IF c = b + 1 THEN Len(ix[b]) - k ELSE Len(ix[c - 1])
    BY DEF IsSplit
  <2>3. c \in 1 .. Len(ix) + 1 /\ b \in Int
    BY <1>1, <1>2
  <2>4. old(c) \in 1 .. Len(ix) /\ from(c, j) \in 1 .. Len(ix[old(c)])
    BY <1>1, <2>2, <2>3
  <2> QED
    BY <1>1, <2>1, <2>2, <2>3, <2>4
<1>6. ASSUME NEW c \in 1 .. Len(it), NEW j \in 1 .. Len(it[c])
      PROVE  IF Precedes(old(c), from(c, j), b, p) THEN Key(it[c][j]) < key
             ELSE key <= Key(it[c][j])
  <2> HIDE DEF old, from
  <2> QED
    BY <1>5 DEF PlaceOf
<1>7. ASSUME p <= k + 1 PROVE PlaceOf(it, key, b, p)
  <2>1. ASSUME NEW c \in 1 .. Len(it), NEW j \in 1 .. Len(it[c])
        PROVE  Precedes(c, j, b, p) <=> Precedes(old(c), from(c, j), b, p)
    BY <1>1, <1>2, <1>5, <1>7, SMTT(30) DEF Precedes
  <2>2. p \in 1 .. Len(it[b]) + 1
    BY <1>1, <1>2, <1>4, <1>7
  <2> HIDE DEF old, from
  <2> QED
    BY <1>3, <1>6, <2>1, <2>2 DEF PlaceOf
<1>8. ASSUME p > k PROVE PlaceOf(it, key, b + 1, p - k)
  <2>1. ASSUME NEW c \in 1 .. Len(it), NEW j \in 1 .. Len(it[c])
        PROVE  Precedes(c, j, b + 1, p - k) <=> Precedes(old(c), from(c, j), b, p)
    BY <1>1, <1>2, <1>5, <1>8, SMTT(30) DEF Precedes
  <2>2. p - k \in 1 .. Len(it[b + 1]) + 1
    BY <1>1, <1>2, <1>4, <1>8
  <2> HIDE DEF old, from
  <2> QED
    BY <1>3, <1>6, <2>1, <2>2 DEF PlaceOf
<1> QED
  BY <1>7, <1>8

(* An insert into a sorted index of sound blocks makes a sorted index of   *)
(* sound blocks, with the one entry more.                                  *)
LEMMA WithEntryIs ==
    ASSUME Ordered, NEW e \in Entries, find(Key(e)) = NoEntry
    PROVE  /\ WithEntry(e) \in Index /\ Sorted(WithEntry(e)) /\ Fits(WithEntry(e))
           /\ Len(WithEntry(e)) = IF needs_block(Key(e)) THEN Len(index) + 1 ELSE Len(index)
           /\ \A f \in Entries : Holds(WithEntry(e), f) <=> Holds(index, f) \/ f = e
<1> DEFINE key == Key(e)
           b == Block(key)
           pos == Position(key)
           iy == WithEntry(e)
<1>1. index \in Index /\ Sorted(index) /\ setup \in Setups /\ Fits(index)
  BY DEF Ordered
<1>2. /\ key \in Nat /\ NoEntry \notin Entries /\ BLOCK_HALF \in Nat \ {0}
      /\ BLOCK_CAP = 2 * BLOCK_HALF
  BY <1>1, EntryKeys DEF BLOCK_CAP
<1>3. \A f \in Entries : Holds(index, f) => Key(f) # Key(e)
  BY <1>2, FindIs
<1>4. CASE index = <<>>
  <2>1. iy = <<<<e>>>> /\ needs_block(key)
    BY <1>4 DEF WithEntry, needs_block
  <2>2. /\ iy \in Index /\ Len(iy) = 1 /\ Len(iy[1]) = 1 /\ iy[1][1] = e
        /\ Len(index) = 0
    BY <1>4, <2>1 DEF Index
  <2> HIDE DEF iy, key
  <2>3. Sorted(iy)
    BY <2>2 DEF Sorted, Precedes
  <2>4. Fits(iy)
    <3>1. 1 \in 1 .. BLOCK_CAP
      BY <1>2
    <3>2. ASSUME NEW c \in 1 .. Len(iy) PROVE Len(iy[c]) \in 1 .. BLOCK_CAP
      <4>1. c = 1
        BY <2>2
      <4> QED
        BY <2>2, <3>1, <4>1, Zenon
    <3> QED
      BY <3>2 DEF Fits
  <2>5. \A f \in Entries : Holds(iy, f) <=> Holds(index, f) \/ f = e
    BY <2>2 DEF Holds
  <2> QED
    BY <2>1, <2>2, <2>3, <2>4, <2>5 DEF iy, key
<1>5. CASE index # <<>>
  <2>1. /\ PlaceOf(index, key, b, pos + 1) /\ b \in 1 .. Len(index)
        /\ pos \in 0 .. Len(index[b])
    BY <1>2, <1>5, PlaceIs, BlockIs, PositionIs
  <2>2. /\ index[b] \in Seq(Entries) /\ Len(index) \in Nat
        /\ \A c \in 1 .. Len(index) : Len(index[c]) \in 1 .. BLOCK_CAP
    BY <1>1, <2>1, IndexTypes DEF Fits
  <2>3. pos + 1 \in 1 .. Len(index[b]) + 1
    BY <2>1, <2>2
  <2>4. needs_block(key) <=> Len(index[b]) = BLOCK_CAP
    BY <1>5 DEF needs_block
  <2> DEFINE low == SubSeq(index[b], 1, BLOCK_HALF)
             high == SubSeq(index[b], BLOCK_HALF + 1, BLOCK_CAP)
  <2>5. iy = IF ~ needs_block(key)
               THEN ReplaceAt(index, b, InsertAt(index[b], pos + 1, e))
             ELSE IF pos <= BLOCK_HALF
               THEN InsertAt(ReplaceAt(index, b, InsertAt(low, pos + 1, e)), b + 1, high)
             ELSE InsertAt(ReplaceAt(index, b, low), b + 1,
                           InsertAt(high, pos - BLOCK_HALF + 1, e))
    BY <1>5 DEF WithEntry
  <2> HIDE DEF iy, b, pos
  <2>6. CASE ~ needs_block(key)
    <3>1. IsPut(iy, index, b, pos + 1, e)
      BY <1>1, <2>1, <2>3, <2>5, <2>6, PutIs
    <3>2. /\ Sorted(iy)
          /\ \A f \in Entries : Holds(iy, f) <=> Holds(index, f) \/ f = e
      BY <1>1, <1>3, <2>1, <2>3, <3>1, PutKeeps
    <3>3. /\ iy \in Index /\ Len(iy) = Len(index)
          /\ \A c \in 1 .. Len(index) :
               Len(iy[c]) = IF c = b THEN Len(index[c]) + 1 ELSE Len(index[c])
      BY <3>1 DEF IsPut, Shaped
    <3>4. Fits(iy)
      <4>1. ASSUME NEW c \in 1 .. Len(index)
            PROVE  Len(iy[c]) \in 1 .. BLOCK_CAP
        <5>1. Len(iy[c]) = IF c = b THEN Len(index[c]) + 1 ELSE Len(index[c])
          BY <3>3
        <5>2. Len(index[c]) \in 1 .. BLOCK_CAP /\ BLOCK_CAP \in Nat
          BY <1>2, <2>2
        <5>3. c = b => Len(index[c]) # BLOCK_CAP
          BY <2>4, <2>6
        <5> QED
          BY <5>1, <5>2, <5>3
      <4> QED
        BY <3>3, <4>1 DEF Fits
    <3> QED
      BY <2>6, <3>2, <3>3, <3>4 DEF iy
  <2>7. CASE needs_block(key)
    <3> DEFINE it == InsertAt(ReplaceAt(index, b, low), b + 1, high)
    <3>1. BLOCK_HALF \in 0 .. Len(index[b]) /\ Len(index[b]) = BLOCK_CAP
      BY <1>2, <2>4, <2>7
    <3>2. low \in Seq(Entries) /\ high \in Seq(Entries)
      BY <1>2, <2>2, <3>1, PartsAre
    <3>3. high = SubSeq(index[b], BLOCK_HALF + 1, Len(index[b]))
      BY <3>1
    <3>4. low = SubSeq(index[b], 1, BLOCK_HALF)
      OBVIOUS
    <3> HIDE DEF low, high
    <3>5. Paired(it, index, b, low, high)
      BY <1>1, <2>1, <3>2, PairIs
    <3> HIDE DEF it
    <3>6. /\ IsSplit(it, index, b, BLOCK_HALF)
          /\ Len(low) = BLOCK_HALF /\ Len(high) = BLOCK_CAP - BLOCK_HALF
      <4>1. IsSplit(it, index, b, BLOCK_HALF)
        BY <1>1, <2>1, <3>1, <3>3, <3>4, <3>5, SplitIs
      <4>2. Len(low) = BLOCK_HALF /\ Len(high) = Len(index[b]) - BLOCK_HALF
        BY <1>1, <2>1, <3>1, <3>3, <3>4, <3>5, SplitIs
      <4> QED
        BY <3>1, <4>1, <4>2
    <3>7. /\ Sorted(it) /\ it \in Index /\ Len(it) = Len(index) + 1
          /\ \A f \in Entries : Holds(it, f) <=> Holds(index, f)
      <4>1. Sorted(it) /\ \A f \in Entries : Holds(it, f) <=> Holds(index, f)
        BY <1>1, <2>1, <3>1, <3>6, SplitKeeps
      <4> QED
        BY <3>6, <4>1 DEF IsSplit, Shaped
    <3>8. /\ pos + 1 <= BLOCK_HALF + 1 => PlaceOf(it, key, b, pos + 1)
          /\ pos + 1 > BLOCK_HALF => PlaceOf(it, key, b + 1, (pos + 1) - BLOCK_HALF)
      BY <1>1, <2>1, <3>1, <3>6, PlaceInHalf
    <3>9. /\ \A c \in 1 .. Len(it) :
               Len(it[c]) = IF c < b THEN Len(index[c]) ELSE IF c = b THEN BLOCK_HALF
                      ELSE IF c = b + 1 THEN BLOCK_HALF ELSE Len(index[c - 1])
      BY <1>2, <3>1, <3>6 DEF IsSplit
    <3>10. \A c \in 1 .. Len(it) : /\ Len(it[c]) \in 1 .. BLOCK_CAP
                                   /\ c \in {b, b + 1} => Len(it[c]) < BLOCK_CAP
      <4> TAKE c \in 1 .. Len(it)
      <4>1. Len(it[c]) = IF c < b THEN Len(index[c]) ELSE IF c = b THEN BLOCK_HALF
                      ELSE IF c = b + 1 THEN BLOCK_HALF ELSE Len(index[c - 1])
        BY <3>9
      <4>2. c \in 1 .. Len(index) + 1 /\ b \in Int
        BY <2>1, <2>2, <3>7
      <4>3. /\ c < b => c \in 1 .. Len(index)
            /\ c > b + 1 => c - 1 \in 1 .. Len(index)
        BY <2>1, <2>2, <4>2
      <4> QED
        BY <1>2, <2>2, <4>1, <4>2, <4>3
    <3>11. \A f \in Entries : Holds(it, f) => Key(f) # Key(e)
      BY <1>3, <3>7
    <3>12. ASSUME NEW d \in {b, b + 1}, NEW p, p \in 1 .. Len(it[d]) + 1,
                  PlaceOf(it, key, d, p), IsPut(iy, it, d, p, e)
           PROVE  /\ iy \in Index /\ Sorted(iy) /\ Fits(iy) /\ Len(iy) = Len(index) + 1
                  /\ \A f \in Entries : Holds(iy, f) <=> Holds(index, f) \/ f = e
      <4>1. d \in 1 .. Len(it)
        BY <2>1, <2>2, <3>7
      <4>2. /\ Sorted(iy)
            /\ \A f \in Entries : Holds(iy, f) <=> Holds(it, f) \/ f = e
        BY <1>1, <3>7, <3>11, <3>12, <4>1, PutKeeps
      <4>3. /\ iy \in Index /\ Len(iy) = Len(it)
            /\ \A c \in 1 .. Len(it) :
                 Len(iy[c]) = IF c = d THEN Len(it[c]) + 1 ELSE Len(it[c])
        BY <3>12 DEF IsPut, Shaped
      <4>4. Fits(iy)
        BY <1>2, <3>10, <4>3 DEF Fits
      <4> QED
        BY <3>7, <4>2, <4>3, <4>4
    <3>13. CASE pos <= BLOCK_HALF
      <4>1. iy = InsertAt(ReplaceAt(index, b, InsertAt(low, pos + 1, e)), b + 1, high)
        BY <2>5, <2>7, <3>13
      <4>2. pos + 1 \in 1 .. Len(low) + 1
        BY <1>2, <2>1, <2>2, <3>6, <3>13
      <4>3. InsertAt(low, pos + 1, e) \in Seq(Entries)
        BY <3>2, <4>2, InsertAtIs
      <4>4. Paired(iy, index, b, InsertAt(low, pos + 1, e), high)
        BY <1>1, <2>1, <3>2, <4>1, <4>3, PairIs
      <4>5. IsPut(iy, it, b, pos + 1, e)
        BY <1>1, <2>1, <3>2, <3>5, <4>2, <4>4, PutLow
      <4>6. PlaceOf(it, key, b, pos + 1)
        BY <1>2, <2>1, <2>2, <3>8, <3>13
      <4> QED
        BY <2>7, <3>12, <4>5, <4>6 DEF PlaceOf, iy
    <3>14. CASE ~ (pos <= BLOCK_HALF)
      <4> DEFINE p == pos - BLOCK_HALF + 1
      <4>1. iy = InsertAt(ReplaceAt(index, b, low), b + 1, InsertAt(high, p, e))
        BY <2>5, <2>7, <3>14
      <4>2. p \in 1 .. Len(high) + 1 /\ p = (pos + 1) - BLOCK_HALF /\ pos + 1 > BLOCK_HALF
        BY <1>2, <2>1, <2>2, <3>1, <3>6, <3>14
      <4> HIDE DEF p
      <4>3. InsertAt(high, p, e) \in Seq(Entries)
        BY <3>2, <4>2, InsertAtIs
      <4>4. Paired(iy, index, b, low, InsertAt(high, p, e))
        BY <1>1, <2>1, <3>2, <4>1, <4>3, PairIs
      <4>5. IsPut(iy, it, b + 1, p, e)
        BY <1>1, <2>1, <3>2, <3>5, <4>2, <4>4, PutHigh
      <4>6. PlaceOf(it, key, b + 1, p)
        BY <3>8, <4>2
      <4> QED
        BY <2>7, <3>12, <4>5, <4>6 DEF PlaceOf, iy
    <3> QED
      BY <3>13, <3>14
  <2> QED
    BY <2>6, <2>7
<1> QED
  BY <1>4, <1>5
-----------------------------------------------------------------------------
(* Shard::remove                                                           *)

(* An empty block is dropped.                                              *)
LEMMA DropKeeps ==
    ASSUME NEW ix \in Index, Sorted(ix), NEW b \in 1 .. Len(ix), Len(ix[b]) = 0,
           NEW iy, iy = RemoveAt(ix, b)
    PROVE  /\ iy \in Index /\ Len(iy) = Len(ix) - 1 /\ Sorted(iy)
           /\ \A f \in Entries : Holds(iy, f) <=> Holds(ix, f)
<1>1. iy \in Index /\ Removed(iy, ix, b)
  BY RemovedIs
<1>2. Len(ix) \in Nat /\ Len(iy) = Len(ix) - 1
  BY <1>1, IndexTypes DEF Removed
<1> DEFINE from(c) == IF c < b THEN c ELSE c + 1
           to(c) == IF c < b THEN c ELSE c - 1
<1>3. \A c \in 1 .. Len(iy) : iy[c] = IF c < b THEN ix[c] ELSE ix[c + 1]
  BY <1>1, <1>2 DEF Removed
<1>4. ASSUME NEW c \in 1 .. Len(iy)
      PROVE  from(c) \in 1 .. Len(ix) /\ iy[c] = ix[from(c)]
  BY <1>2, <1>3
<1>5. Sorted(iy)
  <2> SUFFICES ASSUME NEW c \in 1 .. Len(iy), NEW d \in 1 .. Len(iy),
                      NEW j \in 1 .. Len(iy[c]), NEW i \in 1 .. Len(iy[d]),
                      Precedes(c, j, d, i)
               PROVE  Key(iy[c][j]) < Key(iy[d][i])
    BY DEF Sorted
  <2>1. Precedes(from(c), j, from(d), i)
    BY <1>2 DEF Precedes
  <2>2. /\ from(c) \in 1 .. Len(ix) /\ iy[c] = ix[from(c)]
        /\ from(d) \in 1 .. Len(ix) /\ iy[d] = ix[from(d)]
    BY <1>4
  <2> HIDE DEF from
  <2> QED
    BY <2>1, <2>2 DEF Sorted
<1>6. ASSUME NEW f \in Entries PROVE Holds(iy, f) <=> Holds(ix, f)
  <2>1. ASSUME Holds(iy, f) PROVE Holds(ix, f)
    <3> HIDE DEF from
    <3> QED
      BY <1>4, <2>1 DEF Holds
  <2>2. ASSUME Holds(ix, f) PROVE Holds(iy, f)
    <3>1. PICK c \in 1 .. Len(ix) : \E j \in 1 .. Len(ix[c]) : ix[c][j] = f
      BY <2>2 DEF Holds
    <3>2. c # b
      BY <3>1
    <3>3. to(c) \in 1 .. Len(iy) /\ from(to(c)) = c
      BY <1>2, <3>2
    <3>4. iy[to(c)] = ix[c]
      BY <1>4, <3>3
    <3> HIDE DEF to, from
    <3> QED
      BY <3>1, <3>3, <3>4 DEF Holds
  <2> QED
    BY <2>1, <2>2
<1> QED
  BY <1>1, <1>2, <1>5, <1>6

(* A block that has taken what its right neighbour had is the one of which *)
(* a split makes the two.                                                  *)
LEMMA MergedIs ==
    ASSUME NEW ix \in Index, NEW b \in 1 .. Len(ix) - 1,
           NEW iy, iy = Merged(ix, b)
    PROVE  /\ iy \in Index /\ Len(iy) = Len(ix) - 1
           /\ \A c \in 1 .. Len(iy) :
                iy[c] = IF c < b THEN ix[c] ELSE IF c = b THEN ix[b] \o ix[b + 1] ELSE ix[c + 1]
<1> DEFINE blk == ix[b] \o ix[b + 1]
           it == RemoveAt(ix, b + 1)
<1>1. /\ Len(ix) \in Nat /\ b \in 1 .. Len(ix) /\ b + 1 \in 1 .. Len(ix)
  BY IndexTypes
<1>2. ix[b] \in Seq(Entries) /\ ix[b + 1] \in Seq(Entries)
  BY <1>1, IndexTypes
<1>3. blk \in Seq(Entries)
  BY <1>2, ConcatProperties
<1>4. iy = ReplaceAt(it, b, blk)
  BY DEF Merged
<1> HIDE DEF blk
<1>5. it \in Index /\ Removed(it, ix, b + 1)
  BY <1>1, RemovedIs
<1> HIDE DEF it
<1>6. /\ Len(it) = Len(ix) - 1 /\ b \in 1 .. Len(it)
      /\ \A c \in 1 .. Len(ix) - 1 : it[c] = IF c < b + 1 THEN ix[c] ELSE ix[c + 1]
  BY <1>1, <1>5 DEF Removed
<1>7. iy \in Index /\ Replaced(iy, it, b, blk)
  BY <1>3, <1>4, <1>5, <1>6, ReplacedIs
<1>8. /\ Len(iy) = Len(ix) - 1
      /\ \A c \in 1 .. Len(iy) : iy[c] = IF c = b THEN blk ELSE it[c]
  BY <1>6, <1>7 DEF Replaced
<1>9. ASSUME NEW c \in 1 .. Len(iy)
      PROVE  iy[c] = IF c < b THEN ix[c] ELSE IF c = b THEN blk ELSE ix[c + 1]
  BY <1>1, <1>6, <1>8
<1> QED
  BY <1>7, <1>8, <1>9 DEF blk

LEMMA MergedSplits ==
    ASSUME NEW ix \in Index, NEW b \in 1 .. Len(ix) - 1,
           NEW iy, iy = Merged(ix, b)
    PROVE  /\ b \in 1 .. Len(iy) /\ Len(ix[b]) \in 0 .. Len(iy[b])
           /\ Len(iy[b]) = Len(ix[b]) + Len(ix[b + 1])
           /\ IsSplit(ix, iy, b, Len(ix[b]))
<1> DEFINE k == Len(ix[b])
           n == Len(ix[b + 1])
<1>1. /\ Len(ix) \in Nat /\ b \in 1 .. Len(ix) /\ b + 1 \in 1 .. Len(ix)
  BY IndexTypes
<1>2. ix[b] \in Seq(Entries) /\ ix[b + 1] \in Seq(Entries) /\ k \in Nat /\ n \in Nat
  BY <1>1, IndexTypes
<1>3. iy \in Index /\ Len(iy) = Len(ix) - 1
  BY MergedIs
<1>4. \A c \in 1 .. Len(iy) :
        iy[c] = IF c < b THEN ix[c] ELSE IF c = b THEN ix[b] \o ix[b + 1] ELSE ix[c + 1]
  BY MergedIs
<1>5. b \in 1 .. Len(iy)
  BY <1>1, <1>3
<1>6. /\ Len(iy[b]) = k + n
      /\ \A i \in 1 .. k + n :
           iy[b][i] = IF i <= k THEN ix[b][i] ELSE ix[b + 1][i - k]
  <2>1. iy[b] = ix[b] \o ix[b + 1]
    <3>1. iy[b] = IF b < b THEN ix[b] ELSE IF b = b THEN ix[b] \o ix[b + 1] ELSE ix[b + 1]
      BY <1>4, <1>5, Zenon
    <3>2. ~ (b < b)
      BY <1>1
    <3> QED
      BY <3>1, <3>2, Zenon
  <2> DEFINE low == ix[b]
             high == ix[b + 1]
  <2>2. low \in Seq(Entries) /\ high \in Seq(Entries) /\ Len(low) = k /\ Len(high) = n
    BY <1>2
  <2>3. /\ Len(iy[b]) = k + n
        /\ \A i \in 1 .. k + n : iy[b][i] = IF i <= k THEN low[i] ELSE high[i - k]
    <3>1. iy[b] = low \o high
      BY <2>1
    <3> HIDE DEF low, high, k, n
    <3> QED
      BY <1>2, <2>2, <3>1, ConcatProperties
  <2> QED
    BY <2>3
<1>7. \A c \in 1 .. Len(ix) :
        ix[c] = IF c < b THEN iy[c] ELSE IF c = b THEN ix[b]
                ELSE IF c = b + 1 THEN ix[b + 1] ELSE iy[c - 1]
  <2> TAKE c \in 1 .. Len(ix)
  <2>1. CASE c < b
    BY <1>1, <1>3, <1>4, <2>1
  <2>2. CASE c = b \/ c = b + 1
    BY <1>1, <2>2
  <2>3. CASE c > b + 1
    <3>1. c - 1 \in 1 .. Len(iy) /\ ~ (c - 1 < b) /\ c - 1 # b /\ (c - 1) + 1 = c
      BY <1>1, <1>3, <2>3
    <3>2. iy[c - 1] = ix[c]
      BY <1>4, <3>1
    <3> QED
      BY <1>1, <2>3, <3>2
  <2> QED
    BY <1>1, <2>1, <2>2, <2>3
<1>8. \A c \in 1 .. Len(ix) :
        Len(ix[c]) = IF c < b THEN Len(iy[c]) ELSE IF c = b THEN k
                     ELSE IF c = b + 1 THEN Len(iy[b]) - k ELSE Len(iy[c - 1])
  <2>1. Len(iy[b]) - k = n
    BY <1>2, <1>6
  <2> QED
    BY <1>7, <2>1
<1>9. \A c \in 1 .. Len(ix) : \A j \in 1 .. Len(ix[c]) :
        ix[c][j] = IF c <= b THEN iy[c][j] ELSE IF c = b + 1 THEN iy[b][k + j]
                   ELSE iy[c - 1][j]
  <2> TAKE c \in 1 .. Len(ix)
  <2> TAKE j \in 1 .. Len(ix[c])
  <2>1. CASE c = b
    <3>0. j \in 1 .. k
      BY <2>1, Zenon
    <3>1. j \in 1 .. k + n /\ j <= k
      <4> HIDE DEF k, n
      <4> QED
        BY <1>2, <3>0
    <3>2. iy[b][j] = ix[b][j]
      BY <1>6, <3>1, Zenon
    <3>3. c <= b
      BY <1>1, <2>1
    <3> QED
      BY <2>1, <3>2, <3>3, Zenon
  <2>2. CASE c = b + 1
    <3>0. j \in 1 .. n
      BY <2>2, Zenon
    <3>1. k + j \in 1 .. k + n /\ ~ (k + j <= k) /\ (k + j) - k = j
      <4> HIDE DEF k, n
      <4> QED
        BY <1>2, <3>0
    <3>2. iy[b][k + j] = ix[b + 1][j]
      BY <1>6, <3>1
    <3> QED
      BY <1>1, <2>2, <3>2
  <2>3. CASE c < b \/ c > b + 1
    <3>1. ix[c] = IF c < b THEN iy[c] ELSE iy[c - 1]
      BY <1>1, <1>7, <2>3
    <3> QED
      BY <1>1, <2>3, <3>1
  <2> QED
    BY <1>1, <2>1, <2>2, <2>3
<1>10. Shaped(ix, Len(iy) + 1)
  BY <1>1, <1>3 DEF Shaped
<1>11. IsSplit(ix, iy, b, k)
  BY <1>8, <1>9, <1>10 DEF IsSplit
<1>12. k \in 0 .. Len(iy[b]) /\ Len(iy[b]) = k + n
  <2> HIDE DEF k, n
  <2> QED
    BY <1>2, <1>6
<1> QED
  BY <1>5, <1>11, <1>12

Tidy(ix) == ix \in Index /\ Sorted(ix) /\ Fits(ix)

LEMMA MergeKeeps ==
    ASSUME setup \in Setups, NEW ix, Tidy(ix), NEW b \in Int,
           NEW iy, iy = MergedIfSmall(ix, b)
    PROVE  /\ Tidy(iy) /\ Len(ix) - Len(iy) \in Nat
           /\ \A f \in Entries : Holds(iy, f) <=> Holds(ix, f)
<1>1. ix \in Index /\ Sorted(ix) /\ Fits(ix) /\ Len(ix) \in Nat
  BY IndexTypes DEF Tidy
<1> DEFINE small == b \in 1 .. Len(ix) - 1 /\ Len(ix[b]) + Len(ix[b + 1]) <= BLOCK_HALF
<1>2. CASE ~ small
  <2>1. iy = ix
    BY <1>2 DEF MergedIfSmall
  <2> QED
    BY <1>1, <2>1
<1>3. CASE small
  <2>1. b \in 1 .. Len(ix) - 1 /\ iy = Merged(ix, b)
    BY <1>3 DEF MergedIfSmall
  <2>2. iy \in Index /\ Len(iy) = Len(ix) - 1
    BY <1>1, <2>1, MergedIs
  <2>3. \A c \in 1 .. Len(iy) :
          iy[c] = IF c < b THEN ix[c] ELSE IF c = b THEN ix[b] \o ix[b + 1] ELSE ix[c + 1]
    BY <1>1, <2>1, MergedIs
  <2>4. /\ b \in 1 .. Len(iy) /\ Len(ix[b]) \in 0 .. Len(iy[b])
        /\ Len(iy[b]) = Len(ix[b]) + Len(ix[b + 1])
    BY <1>1, <2>1, MergedSplits
  <2>5. IsSplit(ix, iy, b, Len(ix[b]))
    BY <1>1, <2>1, MergedSplits
  <2>6. /\ Sorted(iy) <=> Sorted(ix)
        /\ \A f \in Entries : Holds(ix, f) <=> Holds(iy, f)
    BY <2>2, <2>4, <2>5, SplitKeeps
  <2>7. Fits(iy)
    <3>1. \A c \in 1 .. Len(ix) : Len(ix[c]) \in 1 .. BLOCK_CAP
      BY <1>1 DEF Fits
    <3>2. BLOCK_CAP = 2 * BLOCK_HALF /\ BLOCK_HALF \in Nat
      BY EntryKeys DEF BLOCK_CAP
    <3>3. ASSUME NEW c \in 1 .. Len(iy) PROVE Len(iy[c]) \in 1 .. BLOCK_CAP
      <4>1. CASE c = b
        <5>1. Len(ix[b]) \in 1 .. BLOCK_CAP /\ Len(ix[b + 1]) \in 1 .. BLOCK_CAP
          BY <1>1, <2>1, <3>1
        <5>2. QED
          <6> DEFINE k == Len(ix[b])
                     n == Len(ix[b + 1])
          <6>1. /\ k \in 1 .. BLOCK_CAP /\ n \in 1 .. BLOCK_CAP /\ Len(iy[c]) = k + n
                /\ k + n <= BLOCK_HALF
            BY <1>3, <2>4, <4>1, <5>1
          <6> HIDE DEF k, n
          <6> QED
            BY <3>2, <6>1
      <4>2. CASE c < b
        BY <1>1, <2>1, <2>3, <3>1, <4>2
      <4>3. CASE c > b
        <5>1. c + 1 \in 1 .. Len(ix) /\ iy[c] = ix[c + 1]
          BY <1>1, <2>1, <2>2, <2>3, <4>3
        <5> QED
          BY <3>1, <5>1
      <4> QED
        BY <1>1, <2>1, <2>2, <4>1, <4>2, <4>3
    <3> QED
      BY <3>3 DEF Fits
  <2> QED
    BY <1>1, <2>2, <2>6, <2>7 DEF Tidy
<1> QED
  BY <1>2, <1>3

(* A removal leaves a sorted index of sound blocks, with the one entry less. *)
LEMMA WithoutEntryIs ==
    ASSUME Ordered, NEW e \in Entries, Holds(index, e)
    PROVE  /\ Tidy(WithoutEntry(e)) /\ Len(index) - Len(WithoutEntry(e)) \in Nat
           /\ \A f \in Entries : Holds(WithoutEntry(e), f) <=> Holds(index, f) /\ f # e
<1> DEFINE b == Block(Key(e))
           p == Position(Key(e)) + 1
           ix == ReplaceAt(index, b, RemoveAt(index[b], p))
           iy == WithoutEntry(e)
<1>1. index \in Index /\ Sorted(index) /\ setup \in Setups /\ Fits(index)
  BY DEF Ordered
<1>2. b \in 1 .. Len(index) /\ p \in 1 .. Len(index[b]) /\ index[b][p] = e
  BY EntryIsThere
<1>3. iy = IF ix[b] = <<>> THEN RemoveAt(ix, b)
           ELSE MergedIfSmall(MergedIfSmall(ix, b), b - 1)
  BY DEF WithoutEntry
<1> HIDE DEF b, p
<1>4. IsCut(ix, index, b, p)
  BY <1>1, <1>2, CutIs
<1> HIDE DEF ix, iy
<1>5. /\ Sorted(ix)
      /\ \A f \in Entries : Holds(ix, f) <=> Holds(index, f) /\ f # e
  BY <1>1, <1>2, <1>4, CutKeeps
<1>6. /\ ix \in Index /\ Len(ix) = Len(index) /\ Len(index) \in Nat
      /\ \A c \in 1 .. Len(ix) :
           Len(ix[c]) = IF c = b THEN Len(index[c]) - 1 ELSE Len(index[c])
  BY <1>1, <1>4, IndexTypes DEF IsCut, Shaped
<1>7. /\ \A c \in 1 .. Len(index) : Len(index[c]) \in 1 .. BLOCK_CAP
      /\ BLOCK_CAP \in Nat
  BY <1>1, EntryKeys DEF Fits, BLOCK_CAP
<1>8. CASE ix[b] = <<>>
  <2>1. iy = RemoveAt(ix, b) /\ Len(ix[b]) = 0 /\ b \in 1 .. Len(ix)
    BY <1>2, <1>3, <1>6, <1>8
  <2>2. /\ iy \in Index /\ Len(iy) = Len(ix) - 1 /\ Sorted(iy)
        /\ \A f \in Entries : Holds(iy, f) <=> Holds(ix, f)
    <3>1. iy \in Index /\ Len(iy) = Len(ix) - 1 /\ Sorted(iy)
      BY <1>5, <1>6, <2>1, DropKeeps
    <3>2. \A f \in Entries : Holds(iy, f) <=> Holds(ix, f)
      BY <1>5, <1>6, <2>1, DropKeeps
    <3> QED
      BY <3>1, <3>2
  <2>3. \A c \in 1 .. Len(iy) : iy[c] = IF c < b THEN ix[c] ELSE ix[c + 1]
    <3>1. Removed(iy, ix, b)
      BY <1>6, <2>1, RemovedIs
    <3> QED
      BY <2>2, <3>1 DEF Removed
  <2>4. ASSUME NEW c \in 1 .. Len(iy) PROVE Len(iy[c]) \in 1 .. BLOCK_CAP
    <3> DEFINE d == IF c < b THEN c ELSE c + 1
    <3>1. d \in 1 .. Len(index) /\ d # b /\ iy[c] = ix[d]
      <4>1. d \in 1 .. Len(index) /\ d # b
        BY <1>2, <1>6, <2>2
      <4>2. iy[c] = IF c < b THEN ix[c] ELSE ix[c + 1]
        BY <2>3, Zenon
      <4> QED
        BY <4>1, <4>2
    <3> HIDE DEF d
    <3> QED
      BY <1>6, <1>7, <3>1
  <2>5. Tidy(iy)
    BY <2>2, <2>4 DEF Tidy, Fits
  <2> QED
    BY <1>5, <1>6, <2>2, <2>5 DEF iy
<1>9. CASE ix[b] # <<>>
  <2>1. iy = MergedIfSmall(MergedIfSmall(ix, b), b - 1) /\ b \in Int /\ b - 1 \in Int
    BY <1>2, <1>3, <1>9
  <2>2. Tidy(ix)
    <3>1. ix[b] \in Seq(Entries) /\ Len(ix[b]) \in Nat
      BY <1>2, <1>6, IndexTypes
    <3>2. Len(ix[b]) # 0
      BY <1>9, <3>1, EmptySeq
    <3>3. \A c \in 1 .. Len(ix) : Len(ix[c]) \in 1 .. BLOCK_CAP
      BY <1>2, <1>6, <1>7, <3>1, <3>2
    <3> QED
      BY <1>5, <1>6, <3>3 DEF Tidy, Fits
  <2> DEFINE it == MergedIfSmall(ix, b)
  <2>3. iy = MergedIfSmall(it, b - 1)
    BY <2>1
  <2>4. /\ Tidy(it) /\ Len(ix) - Len(it) \in Nat
        /\ \A f \in Entries : Holds(it, f) <=> Holds(ix, f)
    BY <1>1, <2>1, <2>2, MergeKeeps
  <2> HIDE DEF it
  <2>5. /\ Tidy(iy) /\ Len(it) - Len(iy) \in Nat
        /\ \A f \in Entries : Holds(iy, f) <=> Holds(it, f)
    BY <1>1, <2>1, <2>3, <2>4, MergeKeeps
  <2>6. Len(it) \in Nat /\ Len(iy) \in Nat
    BY <2>4, <2>5, IndexTypes DEF Tidy
  <2> QED
    BY <1>5, <1>6, <2>4, <2>5, <2>6 DEF iy
<1> QED
  BY <1>8, <1>9
-----------------------------------------------------------------------------
(* How many entries the index holds                                        *)

(* What a nonempty family of subsets of a finite set has: induction over   *)
(* finite sets, as a lemma without an operator parameter.                  *)
LEMMA SmallestSet ==
    ASSUME NEW S, IsFiniteSet(S), NEW F \in SUBSET SUBSET S, F # {}
    PROVE  \E T \in F : \A U \in F : U \subseteq T => U = T
<1> DEFINE sizes == {Cardinality(T) : T \in F}
<1>1. \A T \in F : IsFiniteSet(T) /\ Cardinality(T) \in Nat
  BY FS_Subset, FS_CardinalityType
<1>2. sizes \subseteq Nat /\ sizes # {}
  BY <1>1
<1>3. \E n \in sizes : \A m \in sizes : n =< m
  <2> HIDE DEF sizes
  <2> QED
    BY <1>2, HasLeast
<1>4. PICK T \in F : \A U \in F : Cardinality(T) =< Cardinality(U)
  BY <1>3
<1>5. ASSUME NEW U \in F, U \subseteq T
      PROVE  U = T
  <2>1. /\ Cardinality(U) <= Cardinality(T)
        /\ Cardinality(U) = Cardinality(T) => T = U
    BY <1>1, <1>5, FS_Subset
  <2> QED
    BY <1>1, <1>4, <2>1
<1> QED
  BY <1>5

(* h[b] places for each b of T, the recursion by which Sum counts them, and *)
(* the function it defines.                                                *)
Places(h, T) == UNION {{b} \X (1 .. h[b]) : b \in T}
Pick(T) == CHOOSE x \in T : TRUE
Counted(h, f, T) == IF T = {} THEN 0 ELSE h[Pick(T)] + f[T \ {Pick(T)}]
IsCount(h, S, f) == f = [T \in SUBSET S |-> Counted(h, f, T)]
CountFn(h, S) == CHOOSE f : IsCount(h, S, f)
Numbers(h, S) == \A b \in S : h[b] \in Nat

LEMMA PickIs == ASSUME NEW T, T # {} PROVE Pick(T) \in T
BY DEF Pick

LEMMA SumIs == ASSUME NEW h PROVE Sum(h) = CountFn(h, DOMAIN h)[DOMAIN h]
BY Zenon DEF Sum, FoldSeq, FoldFunction, FoldFunctionOnSet, MapThenFoldSet,
             CountFn, IsCount, Counted, Pick

LEMMA PlacesSplit ==
    ASSUME NEW T, NEW h, NEW p \in T
    PROVE  /\ Places(h, T) = ({p} \X (1 .. h[p])) \cup Places(h, T \ {p})
           /\ ({p} \X (1 .. h[p])) \cap Places(h, T \ {p}) = {}
<1>1. Places(h, T) \subseteq ({p} \X (1 .. h[p])) \cup Places(h, T \ {p})
  BY DEF Places
<1>2. ({p} \X (1 .. h[p])) \cup Places(h, T \ {p}) \subseteq Places(h, T)
  BY DEF Places
<1>3. ({p} \X (1 .. h[p])) \cap Places(h, T \ {p}) = {}
  BY DEF Places
<1> QED
  BY <1>1, <1>2, <1>3

LEMMA RowIs ==
    ASSUME NEW p, NEW n \in Nat
    PROVE  IsFiniteSet({p} \X (1 .. n)) /\ Cardinality({p} \X (1 .. n)) = n
<1>1. IsFiniteSet({p}) /\ Cardinality({p}) = 1
  BY FS_Singleton
<1>2. IsFiniteSet(1 .. n) /\ Cardinality(1 .. n) = n
  BY FS_Interval
<1>3. /\ IsFiniteSet({p} \X (1 .. n))
      /\ Cardinality({p} \X (1 .. n)) = Cardinality({p}) * Cardinality(1 .. n)
  BY <1>1, <1>2, FS_Product
<1> QED
  BY <1>1, <1>2, <1>3

LEMMA PlacesFinite ==
    ASSUME NEW S, IsFiniteSet(S), NEW h, Numbers(h, S)
    PROVE  \A T \in SUBSET S : IsFiniteSet(Places(h, T))
<1> DEFINE F == {T \in SUBSET S : ~ IsFiniteSet(Places(h, T))}
<1> SUFFICES ASSUME F # {} PROVE FALSE
  OBVIOUS
<1>1. F \in SUBSET SUBSET S
  OBVIOUS
<1>2. PICK T \in F : \A V \in F : V \subseteq T => V = T
  <2> HIDE DEF F
  <2> QED
    BY <1>1, SmallestSet
<1>3. T # {}
  <2>1. Places(h, {}) = {}
    BY DEF Places
  <2> QED
    BY <1>2, <2>1, FS_EmptySet
<1>4. PICK p \in T : TRUE
  BY <1>3
<1>5. IsFiniteSet(Places(h, T \ {p}))
  BY <1>2, <1>4
<1>6. IsFiniteSet({p} \X (1 .. h[p]))
  BY <1>2, <1>4, RowIs DEF Numbers
<1>7. Places(h, T) = ({p} \X (1 .. h[p])) \cup Places(h, T \ {p})
  BY <1>4, PlacesSplit
<1>8. IsFiniteSet(({p} \X (1 .. h[p])) \cup Places(h, T \ {p}))
  BY <1>5, <1>6, FS_Union
<1>9. ~ IsFiniteSet(Places(h, T))
  BY <1>2
<1> QED
  BY <1>7, <1>8, <1>9, Zenon

LEMMA PlacesTake ==
    ASSUME NEW S, IsFiniteSet(S), NEW h, Numbers(h, S), NEW T \in SUBSET S, NEW p \in T
    PROVE  Cardinality(Places(h, T)) = h[p] + Cardinality(Places(h, T \ {p}))
<1> DEFINE row == {p} \X (1 .. h[p])
           rest == Places(h, T \ {p})
<1>1. IsFiniteSet(rest)
  <2>1. T \ {p} \in SUBSET S
    OBVIOUS
  <2> QED
    BY <2>1, PlacesFinite
<1>2. h[p] \in Nat
  BY DEF Numbers
<1>3. IsFiniteSet(row) /\ Cardinality(row) = h[p]
  BY <1>2, RowIs
<1>4. Places(h, T) = row \cup rest /\ row \cap rest = {}
  BY PlacesSplit
<1> HIDE DEF row, rest
<1>5. Cardinality(row \cup rest) = Cardinality(row) + Cardinality(rest) - Cardinality(row \cap rest)
  BY <1>1, <1>3, FS_Union
<1>6. Cardinality(row \cap rest) = 0 /\ Cardinality(rest) \in Nat
  BY <1>1, <1>4, FS_EmptySet, FS_CardinalityType
<1>7. Cardinality(Places(h, T)) = h[p] + Cardinality(rest)
  BY <1>2, <1>3, <1>4, <1>5, <1>6
<1> QED
  BY <1>7 DEF rest

LEMMA CountsPlaces ==
    ASSUME NEW S, IsFiniteSet(S), NEW h, Numbers(h, S)
    PROVE  CountFn(h, S)[S] = Cardinality(Places(h, S))
<1> DEFINE sizes == [T \in SUBSET S |-> Cardinality(Places(h, T))]
<1>1. \A T \in SUBSET S : sizes[T] = Counted(h, sizes, T)
  <2> TAKE T \in SUBSET S
  <2>1. CASE T = {}
    <3>1. Places(h, {}) = {}
      BY DEF Places
    <3> QED
      BY <2>1, <3>1, FS_EmptySet DEF Counted
  <2>2. CASE T # {}
    <3>1. Pick(T) \in T
      BY <2>2, PickIs
    <3> DEFINE p == Pick(T)
    <3>2. Cardinality(Places(h, T)) = h[p] + Cardinality(Places(h, T \ {p}))
      BY <3>1, PlacesTake
    <3>3. T \ {p} \in SUBSET S
      OBVIOUS
    <3> QED
      BY <2>2, <3>2, <3>3 DEF Counted
  <2> QED
    BY <2>1, <2>2
<1>2. IsCount(h, S, sizes)
  <2>1. sizes = [T \in SUBSET S |-> sizes[T]]
    OBVIOUS
  <2> HIDE DEF sizes
  <2> QED
    BY <1>1, <2>1, Zenon DEF IsCount
<1> DEFINE f == CountFn(h, S)
<1>3. IsCount(h, S, f)
  BY <1>2 DEF CountFn
<1> HIDE DEF f
<1>4. \A T \in SUBSET S : f[T] = Counted(h, f, T)
  BY <1>3, Zenon DEF IsCount
<1> DEFINE F == {T \in SUBSET S : f[T] # sizes[T]}
<1>5. F = {}
  <2> SUFFICES ASSUME F # {} PROVE FALSE
    OBVIOUS
  <2>1. F \in SUBSET SUBSET S
    OBVIOUS
  <2>2. PICK T \in F : \A V \in F : V \subseteq T => V = T
    <3> HIDE DEF F
    <3> QED
      BY <2>1, SmallestSet
  <2> HIDE DEF sizes
  <2>3. f[T] = Counted(h, f, T) /\ sizes[T] = Counted(h, sizes, T) /\ f[T] # sizes[T]
    BY <1>1, <1>4, <2>2
  <2>4. T # {}
    BY <2>3 DEF Counted
  <2>5. Pick(T) \in T
    BY <2>4, PickIs
  <2>6. f[T \ {Pick(T)}] = sizes[T \ {Pick(T)}]
    BY <2>2, <2>5
  <2> QED
    BY <2>3, <2>4, <2>6 DEF Counted
<1>6. f[S] = sizes[S]
  BY <1>5
<1> QED
  BY <1>6 DEF f

LEMMA EntriesCounted ==
    ASSUME setup \in Setups, index \in Index, Sorted(index)
    PROVE  /\ IsFiniteSet({e \in Entries : Holds(index, e)})
           /\ Sum([b \in DOMAIN index |-> Len(index[b])])
                = Cardinality({e \in Entries : Holds(index, e)})
<1> DEFINE n == Len(index)
           h == [b \in DOMAIN index |-> Len(index[b])]
           S == 1 .. n
           E == {e \in Entries : Holds(index, e)}
           P == Places(h, S)
<1>1. n \in Nat /\ DOMAIN index = S
  BY IndexTypes, LenProperties DEF Index
<1>2. IsFiniteSet(S) /\ DOMAIN h = S
  BY <1>1, FS_Interval
<1>3. Numbers(h, S) /\ \A b \in S : h[b] = Len(index[b])
  BY <1>1, IndexTypes DEF Numbers
<1> HIDE DEF h
<1>4. Sum(h) = Cardinality(P)
  BY <1>2, <1>3, SumIs, CountsPlaces
<1>5. IsFiniteSet(P)
  BY <1>2, <1>3, PlacesFinite
<1>6. \A x \in P : /\ x = <<x[1], x[2]>> /\ x[1] \in 1 .. n /\ x[2] \in 1 .. Len(index[x[1]])
  BY <1>3 DEF Places
<1>7. \A b \in 1 .. n : \A i \in 1 .. Len(index[b]) : <<b, i>> \in P
  BY <1>3 DEF Places
<1> HIDE DEF P
<1> DEFINE g == [x \in P |-> index[x[1]][x[2]]]
<1>8. g \in [P -> E]
  <2>1. ASSUME NEW x \in P PROVE index[x[1]][x[2]] \in E
    <3>1. x[1] \in 1 .. n /\ x[2] \in 1 .. Len(index[x[1]])
      BY <1>6
    <3> QED
      BY <3>1, IndexTypes DEF Holds
  <2> QED
    BY <2>1
<1>9. \A e \in E : \E x \in P : g[x] = e
  <2> TAKE e \in E
  <2>1. PICK b \in 1 .. n : \E i \in 1 .. Len(index[b]) : index[b][i] = e
    BY DEF Holds
  <2>2. PICK i \in 1 .. Len(index[b]) : index[b][i] = e
    BY <2>1
  <2>3. <<b, i>> \in P
    BY <1>7
  <2> QED
    BY <2>2, <2>3
<1>10. \A x, y \in P : g[x] = g[y] => x = y
  <2> SUFFICES ASSUME NEW x \in P, NEW y \in P, g[x] = g[y] PROVE x = y
    OBVIOUS
  <2>1. /\ x = <<x[1], x[2]>> /\ x[1] \in 1 .. n /\ x[2] \in 1 .. Len(index[x[1]])
        /\ y = <<y[1], y[2]>> /\ y[1] \in 1 .. n /\ y[2] \in 1 .. Len(index[y[1]])
        /\ index[x[1]][x[2]] = index[y[1]][y[2]]
    BY <1>6
  <2>2. x[1] \in Int /\ y[1] \in Int /\ x[2] \in Int /\ y[2] \in Int
    BY <1>1, <2>1, IndexTypes
  <2>3. Key(index[x[1]][x[2]]) \in Nat
    BY <2>1, IndexTypes, EntryKeys
  <2>4. ~ Precedes(x[1], x[2], y[1], y[2]) /\ ~ Precedes(y[1], y[2], x[1], x[2])
    BY <2>1, <2>3 DEF Sorted
  <2>5. x[1] = y[1] /\ x[2] = y[2]
    BY <2>2, <2>4 DEF Precedes
  <2> QED
    BY <2>1, <2>5
<1> HIDE DEF g, E
<1>11. ExistsBijection(P, E)
  <2>1. g \in Bijection(P, E)
    BY <1>8, <1>9, <1>10, Fun_IsBij
  <2> QED
    BY <2>1 DEF ExistsBijection
<1>12. IsFiniteSet(E) /\ Cardinality(E) = Cardinality(P)
  BY <1>5, <1>11, FS_Bijection
<1> QED
  BY <1>4, <1>12 DEF E, h
-----------------------------------------------------------------------------
(* The inductive invariant                                                 *)

Free == {"idle", "l_lock", "l_find", "l_given_up"}
Registering == {"r_lock", "r_insert", "r_alloc", "i_lock", "i_given_up", "r_install",
                "r_failed"}
Removing == {"d_lock", "d_remove", "d_given_up"}
Owning == Registering \cup Removing \cup {"d_release"}
Bringing == {"i_lock", "i_given_up", "r_install"}

Referrers(e) == {t \in setup.threads : entry[t] = e /\ pc[t] \notin Free}
BlocksBrought == {t \in Threads : got[t].block = 1}
IndexesBrought == {t \in Threads : got[t].index_cap > 0}

(* The index is sorted and holds the linked entries.                       *)
ShapeInv ==
    /\ Tidy(index)
    /\ \A e \in Entries : Holds(index, e) <=> e \in Linked

(* A call is about an entry; memory is on its way to install, and nowhere  *)
(* else.                                                                   *)
CallInv ==
    \A t \in Threads :
        /\ pc[t] # "fatal"
        /\ t \notin setup.threads => pc[t] = "idle"
        /\ pc[t] # "idle" => entry[t] \in Entries
        /\ pc[t] \notin Bringing => got[t] = Nothing

(* The reference of the owner has one owner: a registration, the shard for *)
(* good, or the one call that registers or removes the entry.              *)
OwnerInv ==
    /\ held \cap retained = {}
    /\ \A t \in setup.threads : pc[t] \in Owning => entry[t] \notin held \cup retained
    /\ \A t, u \in setup.threads :
         pc[t] \in Owning /\ pc[u] \in Owning /\ entry[t] = entry[u] => t = u

RefInv ==
    \A e \in Entries :
        refs[e] = Cardinality(Referrers(e)) + IF e \in held \cup retained THEN 1 ELSE 0

MemoryInv ==
    /\ blocks = Len(index) + spare + Cardinality(BlocksBrought)
    /\ indexes = (IF cap > 0 THEN 1 ELSE 0) + Cardinality(IndexesBrought)

IInv == TypeOK /\ ShapeInv /\ CallInv /\ OwnerInv /\ RefInv /\ MemoryInv
(* A thread t goes on to a label, with an entry e and what it brings, x.   *)
StepsTo(t, label, e) ==
    /\ t \in setup.threads /\ setup' = setup
    /\ \A u \in Threads : pc'[u] = IF u = t THEN label ELSE pc[u]
    /\ \A u \in Threads : entry'[u] = IF u = t THEN e ELSE entry[u]

Brings(t, x) == \A u \in Threads : got'[u] = IF u = t THEN x ELSE got[u]

LEMMA ThreadsAre ==
    ASSUME setup \in Setups
    PROVE  /\ setup.threads \subseteq Threads /\ IsFiniteSet(Threads)
           /\ IsFiniteSet(setup.threads)
<1>1. setup.threads \in SUBSET Threads /\ IsFiniteSet(Threads)
  BY RouteDirectoryAssumption
<1>2. IsFiniteSet(setup.threads)
  BY <1>1, FS_Subset
<1> QED
  BY <1>1, <1>2

LEMMA GotoIs ==
    ASSUME TypeOK, NEW t \in setup.threads, NEW label, Goto(t, label),
           setup' = setup, entry' = entry
    PROVE  StepsTo(t, label, entry[t])
BY ThreadsAre DEF TypeOK, Goto, StepsTo

LEMMA DoneIs ==
    ASSUME TypeOK, NEW t \in setup.threads, Done(t), setup' = setup
    PROVE  StepsTo(t, "idle", NoEntry)
BY ThreadsAre DEF TypeOK, Goto, Done, StepsTo

LEMMA EnterIs ==
    ASSUME TypeOK, NEW t \in setup.threads, NEW label, Goto(t, label),
           NEW e, entry' = [entry EXCEPT ![t] = e], setup' = setup
    PROVE  StepsTo(t, label, e)
BY ThreadsAre DEF TypeOK, Goto, StepsTo

LEMMA SameEntries ==
    ASSUME setup' = setup
    PROVE  Entries' = Entries /\ Keys' = Keys /\ BLOCK_CAP' = BLOCK_CAP
BY DEF Entries, Keys, BLOCK_CAP, BLOCK_HALF

LEMMA SameTidy ==
    ASSUME setup' = setup, Tidy(index')
    PROVE  Tidy(index)'
BY SameEntries DEF Tidy, Index, Fits, Sorted, Holds, Precedes, Key

LEMMA LinkedIs ==
    ASSUME NEW e
    PROVE  e \in Linked <=> \/ e \in held \cup retained
                            \/ \E u \in setup.threads : pc[u] \in Removing /\ entry[u] = e
BY DEF Linked, Removing

LEMMA LinkedNextIs ==
    ASSUME NEW e, setup' = setup
    PROVE  e \in Linked' <=> \/ e \in held' \cup retained'
                             \/ \E u \in setup.threads : pc'[u] \in Removing /\ entry'[u] = e
BY DEF Linked, Removing

(* The references of an entry, when a thread comes to hold one, gives one  *)
(* back, or goes on with it or without one.                                *)
LEMMA ReferrersAre ==
    ASSUME setup \in Setups, NEW t, NEW label, NEW e, StepsTo(t, label, e), NEW f
    PROVE  /\ IsFiniteSet(Referrers(f)) /\ Cardinality(Referrers(f)) \in Nat
           /\ Referrers(f)' = {u \in setup.threads :
                                 IF u = t THEN e = f /\ label \notin Free
                                 ELSE entry[u] = f /\ pc[u] \notin Free}
<1>1. setup.threads \subseteq Threads /\ IsFiniteSet(setup.threads)
  BY ThreadsAre
<1>2. Referrers(f) \in SUBSET setup.threads
  BY DEF Referrers
<1>3. IsFiniteSet(Referrers(f)) /\ Cardinality(Referrers(f)) \in Nat
  BY <1>1, <1>2, FS_Subset, FS_CardinalityType
<1>4. Referrers(f)' = {u \in setup.threads : entry'[u] = f /\ pc'[u] \notin Free}
  BY DEF Referrers, StepsTo, Free
<1>5. \A u \in setup.threads : entry'[u] = f /\ pc'[u] \notin Free
         <=> IF u = t THEN e = f /\ label \notin Free ELSE entry[u] = f /\ pc[u] \notin Free
  BY <1>1 DEF StepsTo
<1> QED
  BY <1>3, <1>4, <1>5

LEMMA CountKept ==
    ASSUME setup \in Setups, NEW t, NEW label, NEW e, StepsTo(t, label, e),
           label \in Free <=> pc[t] \in Free, label \in Free \/ e = entry[t], NEW f
    PROVE  Cardinality(Referrers(f))' = Cardinality(Referrers(f))
<1>1. Referrers(f)' = Referrers(f)
  <2> DEFINE now == Referrers(f)'
             old == Referrers(f)
  <2>1. t \in setup.threads
    BY DEF StepsTo
  <2>2. now = {u \in setup.threads :
                           IF u = t THEN e = f /\ label \notin Free
                           ELSE entry[u] = f /\ pc[u] \notin Free}
    BY ReferrersAre
  <2>3. old = {u \in setup.threads : entry[u] = f /\ pc[u] \notin Free}
    BY DEF Referrers
  <2> HIDE DEF now, old
  <2>4. now = old
    BY <2>1, <2>2, <2>3
  <2> QED
    BY <2>4 DEF now, old
<1> QED
  BY <1>1

LEMMA CountGained ==
    ASSUME setup \in Setups, NEW t, NEW label, NEW e, StepsTo(t, label, e),
           label \notin Free, pc[t] \in Free, NEW f
    PROVE  Cardinality(Referrers(f))' = Cardinality(Referrers(f)) + IF f = e THEN 1 ELSE 0
<1>1. Referrers(f)' = IF f = e THEN Referrers(f) \cup {t} ELSE Referrers(f)
  <2> DEFINE now == Referrers(f)'
             old == Referrers(f)
  <2>1. t \in setup.threads
    BY DEF StepsTo
  <2>2. now = {u \in setup.threads :
                           IF u = t THEN e = f /\ label \notin Free
                           ELSE entry[u] = f /\ pc[u] \notin Free}
    BY ReferrersAre
  <2>3. old = {u \in setup.threads : entry[u] = f /\ pc[u] \notin Free}
    BY DEF Referrers
  <2> HIDE DEF now, old
  <2>4. now = IF f = e THEN old \cup {t} ELSE old
    BY <2>1, <2>2, <2>3
  <2> QED
    BY <2>4 DEF now, old
<1>2. t \notin Referrers(f)
  BY DEF Referrers
<1>3. IsFiniteSet(Referrers(f)) /\ Cardinality(Referrers(f)) \in Nat
  BY ReferrersAre
<1>4. Cardinality(Referrers(f) \cup {t}) = Cardinality(Referrers(f)) + 1
  BY <1>2, <1>3, FS_AddElement
<1> QED
  BY <1>1, <1>3, <1>4

LEMMA CountLost ==
    ASSUME setup \in Setups, NEW t, NEW label, NEW e, StepsTo(t, label, e),
           label \in Free, pc[t] \notin Free, NEW f
    PROVE  /\ Cardinality(Referrers(f))'
                = Cardinality(Referrers(f)) - IF f = entry[t] THEN 1 ELSE 0
           /\ f = entry[t] => Cardinality(Referrers(f)) > 0
<1>1. Referrers(f)' = IF f = entry[t] THEN Referrers(f) \ {t} ELSE Referrers(f)
  <2> DEFINE now == Referrers(f)'
             old == Referrers(f)
  <2>1. t \in setup.threads
    BY DEF StepsTo
  <2>2. now = {u \in setup.threads :
                           IF u = t THEN e = f /\ label \notin Free
                           ELSE entry[u] = f /\ pc[u] \notin Free}
    BY ReferrersAre
  <2>3. old = {u \in setup.threads : entry[u] = f /\ pc[u] \notin Free}
    BY DEF Referrers
  <2> HIDE DEF now, old
  <2>4. now = IF f = entry[t] THEN old \ {t} ELSE old
    BY <2>1, <2>2, <2>3
  <2> QED
    BY <2>4 DEF now, old
<1>2. f = entry[t] => t \in Referrers(f)
  BY DEF Referrers, StepsTo
<1>3. IsFiniteSet(Referrers(f)) /\ Cardinality(Referrers(f)) \in Nat
  BY ReferrersAre
<1>4. f = entry[t] => Cardinality(Referrers(f) \ {t}) = Cardinality(Referrers(f)) - 1
  BY <1>2, <1>3, FS_RemoveElement
<1>5. f = entry[t] => Cardinality(Referrers(f)) > 0
  <2>1. f = entry[t] => Referrers(f) # {}
    BY <1>2
  <2> QED
    BY <1>3, <2>1, FS_EmptySet
<1> QED
  BY <1>1, <1>3, <1>4, <1>5

(* An entry is not freed as long as the shard points to it, or a thread    *)
(* has a reference.                                                        *)
LEMMA Referred ==
    ASSUME TypeOK, RefInv, NEW e \in Entries
    PROVE  /\ e \in held \cup retained => refs[e] > 0
           /\ \A t \in setup.threads : entry[t] = e /\ pc[t] \notin Free => refs[e] > 0
<1>1. refs[e] = Cardinality(Referrers(e)) + IF e \in held \cup retained THEN 1 ELSE 0
  BY DEF RefInv
<1>2. setup.threads \subseteq Threads /\ IsFiniteSet(setup.threads)
  BY ThreadsAre DEF TypeOK
<1>3. Referrers(e) \in SUBSET setup.threads
  BY DEF Referrers
<1>4. IsFiniteSet(Referrers(e)) /\ Cardinality(Referrers(e)) \in Nat
  BY <1>2, <1>3, FS_Subset, FS_CardinalityType
<1>5. ASSUME NEW t \in setup.threads, entry[t] = e, pc[t] \notin Free
      PROVE  refs[e] > 0
  <2>1. Referrers(e) # {}
    BY <1>5 DEF Referrers
  <2>2. Cardinality(Referrers(e)) # 0
    BY <1>4, <2>1, FS_EmptySet
  <2> QED
    BY <1>1, <1>4, <2>2
<1>6. e \in held \cup retained => refs[e] > 0
  BY <1>1, <1>4
<1> QED
  BY <1>5, <1>6

LEMMA LinkedReferred ==
    ASSUME IInv, NEW e \in Entries, e \in Linked
    PROVE  refs[e] > 0
<1>1. CASE e \in held \cup retained
  BY <1>1, Referred DEF IInv
<1>2. CASE \E u \in setup.threads : pc[u] \in Removing /\ entry[u] = e
  BY <1>2, Referred DEF IInv, Removing, Free
<1> QED
  BY <1>1, <1>2, LinkedIs

(* What threads bring.                                                     *)
LEMMA BroughtAre ==
    ASSUME setup \in Setups, NEW t \in Threads, NEW x, Brings(t, x)
    PROVE  /\ Cardinality(BlocksBrought)'
                = Cardinality(BlocksBrought) - (IF got[t].block = 1 THEN 1 ELSE 0)
                  + (IF x.block = 1 THEN 1 ELSE 0)
           /\ Cardinality(IndexesBrought)'
                = Cardinality(IndexesBrought) - (IF got[t].index_cap > 0 THEN 1 ELSE 0)
                  + (IF x.index_cap > 0 THEN 1 ELSE 0)
           /\ Cardinality(BlocksBrought) \in Nat /\ Cardinality(IndexesBrought) \in Nat
<1> DEFINE B == BlocksBrought \ {t}
           I == IndexesBrought \ {t}
<1>1. IsFiniteSet(Threads)
  BY ThreadsAre
<1>2. B \in SUBSET Threads /\ I \in SUBSET Threads
  BY DEF BlocksBrought, IndexesBrought
<1>3. /\ BlocksBrought = IF got[t].block = 1 THEN B \cup {t} ELSE B
      /\ IndexesBrought = IF got[t].index_cap > 0 THEN I \cup {t} ELSE I
  BY DEF BlocksBrought, IndexesBrought
<1>4. /\ BlocksBrought' = IF x.block = 1 THEN B \cup {t} ELSE B
      /\ IndexesBrought' = IF x.index_cap > 0 THEN I \cup {t} ELSE I
  BY DEF BlocksBrought, IndexesBrought, Brings
<1>5. t \notin B /\ t \notin I
  OBVIOUS
<1> HIDE DEF B, I
<1>6. /\ IsFiniteSet(B) /\ IsFiniteSet(I)
      /\ Cardinality(B) \in Nat /\ Cardinality(I) \in Nat
  BY <1>1, <1>2, FS_Subset, FS_CardinalityType
<1>7. /\ Cardinality(B \cup {t}) = Cardinality(B) + 1
      /\ Cardinality(I \cup {t}) = Cardinality(I) + 1
  BY <1>5, <1>6, FS_AddElement
<1>8. /\ Cardinality(BlocksBrought) = Cardinality(B) + (IF got[t].block = 1 THEN 1 ELSE 0)
      /\ Cardinality(BlocksBrought)' = Cardinality(B) + (IF x.block = 1 THEN 1 ELSE 0)
  BY <1>3, <1>4, <1>6, <1>7
<1>9. /\ Cardinality(IndexesBrought)
           = Cardinality(I) + (IF got[t].index_cap > 0 THEN 1 ELSE 0)
      /\ Cardinality(IndexesBrought)' = Cardinality(I) + (IF x.index_cap > 0 THEN 1 ELSE 0)
  BY <1>3, <1>4, <1>6, <1>7
<1> QED
  BY <1>6, <1>8, <1>9
-----------------------------------------------------------------------------
(* What a step has to show of the parts of the invariant                   *)

OtherRemoves(t, f) ==
    \E u \in setup.threads \ {t} : pc[u] \in Removing /\ entry[u] = f

LEMMA LinkedParts ==
    ASSUME setup \in Setups, NEW t, NEW label, NEW e, StepsTo(t, label, e), NEW f
    PROVE  /\ f \in Linked <=> \/ f \in held \/ f \in retained
                               \/ pc[t] \in Removing /\ entry[t] = f
                               \/ OtherRemoves(t, f)
           /\ f \in Linked' <=> \/ f \in held' \/ f \in retained'
                                \/ label \in Removing /\ e = f
                                \/ OtherRemoves(t, f)
<1>1. t \in setup.threads /\ setup' = setup /\ setup.threads \subseteq Threads
  BY ThreadsAre DEF StepsTo
<1>2. f \in Linked <=> \/ f \in held \cup retained
                       \/ \E u \in setup.threads : pc[u] \in Removing /\ entry[u] = f
  BY LinkedIs
<1>3. f \in Linked' <=> \/ f \in held' \cup retained'
                        \/ \E u \in setup.threads : pc'[u] \in Removing /\ entry'[u] = f
  BY <1>1, LinkedNextIs
<1>4. \A u \in setup.threads : /\ pc'[u] = IF u = t THEN label ELSE pc[u]
                               /\ entry'[u] = IF u = t THEN e ELSE entry[u]
  BY <1>1 DEF StepsTo
<1>5. (\E u \in setup.threads : pc[u] \in Removing /\ entry[u] = f)
        <=> (pc[t] \in Removing /\ entry[t] = f) \/ OtherRemoves(t, f)
  BY <1>1 DEF OtherRemoves
<1>6. (\E u \in setup.threads : pc'[u] \in Removing /\ entry'[u] = f)
        <=> (label \in Removing /\ e = f) \/ OtherRemoves(t, f)
  BY <1>1, <1>4 DEF OtherRemoves
<1> QED
  BY <1>2, <1>3, <1>5, <1>6

LEMMA LinkedIsEntry ==
    ASSUME IInv, NEW f \in Linked
    PROVE  f \in Entries
<1>1. CASE f \in held \cup retained
  BY <1>1 DEF IInv, TypeOK
<1>2. CASE \E u \in setup.threads : pc[u] \in Removing /\ entry[u] = f
  BY <1>2, ThreadsAre DEF IInv, TypeOK, CallInv, Removing
<1> QED
  BY <1>1, <1>2, LinkedIs

LEMMA ShapeAfter ==
    ASSUME setup' = setup, Tidy(index'),
           \A f \in Entries : Holds(index', f) <=> f \in Linked'
    PROVE  ShapeInv'
<1>1. Tidy(index)' /\ Entries' = Entries
  BY SameTidy, SameEntries
<1>2. \A f \in Entries' : Holds(index, f)' <=> f \in Linked'
  BY <1>1 DEF Holds
<1> QED
  BY <1>1, <1>2 DEF ShapeInv

LEMMA CallAfter ==
    ASSUME setup \in Setups, CallInv, NEW t, NEW label, NEW e, StepsTo(t, label, e),
           NEW x, Brings(t, x), label # "fatal", label = "idle" \/ e \in Entries,
           label \in Bringing \/ x = Nothing
    PROVE  CallInv'
<1>1. t \in setup.threads /\ setup' = setup /\ setup.threads \subseteq Threads
  BY ThreadsAre DEF StepsTo
<1>2. Entries' = Entries
  BY <1>1, SameEntries
<1>3. ASSUME NEW u \in Threads
      PROVE  /\ pc'[u] # "fatal"
             /\ u \notin setup'.threads => pc'[u] = "idle"
             /\ pc'[u] # "idle" => entry'[u] \in Entries'
             /\ pc'[u] \notin Bringing => got'[u] = Nothing
  <2>1. /\ pc'[u] = IF u = t THEN label ELSE pc[u]
        /\ entry'[u] = IF u = t THEN e ELSE entry[u]
        /\ got'[u] = IF u = t THEN x ELSE got[u]
    BY DEF StepsTo, Brings
  <2> QED
    BY <1>1, <1>2, <2>1 DEF CallInv
<1> QED
  BY <1>3 DEF CallInv, Bringing, Nothing

LEMMA OwnerAfter ==
    ASSUME setup \in Setups, OwnerInv, NEW t, NEW label, NEW e, StepsTo(t, label, e),
           held' \cap retained' = {},
           label \in Owning => /\ e \notin held' \cup retained'
                               /\ \A u \in setup.threads \ {t} :
                                    pc[u] \in Owning => entry[u] # e,
           \A u \in setup.threads \ {t} :
             pc[u] \in Owning => entry[u] \notin held' \cup retained'
    PROVE  OwnerInv'
<1>1. t \in setup.threads /\ setup' = setup /\ setup.threads \subseteq Threads
  BY ThreadsAre DEF StepsTo
<1>2. \A u \in setup.threads : /\ pc'[u] = IF u = t THEN label ELSE pc[u]
                               /\ entry'[u] = IF u = t THEN e ELSE entry[u]
  BY <1>1 DEF StepsTo
<1>3. ASSUME NEW u \in setup.threads, pc'[u] \in Owning
      PROVE  entry'[u] \notin held' \cup retained'
  BY <1>2, <1>3
<1>4. ASSUME NEW u \in setup.threads, NEW v \in setup.threads,
             pc'[u] \in Owning, pc'[v] \in Owning, entry'[u] = entry'[v]
      PROVE  u = v
  BY <1>2, <1>4 DEF OwnerInv
<1> QED
  BY <1>1, <1>3, <1>4 DEF OwnerInv, Owning, Registering, Removing

LEMMA RefAfter ==
    ASSUME setup' = setup,
           \A f \in Entries :
             refs'[f] = Cardinality(Referrers(f))'
                        + IF f \in held' \cup retained' THEN 1 ELSE 0
    PROVE  RefInv'
<1>1. Entries' = Entries
  BY SameEntries
<1> QED
  BY <1>1 DEF RefInv

LEMMA MemoryKept ==
    ASSUME MemoryInv, UNCHANGED <<shardVars, got, memVars>>
    PROVE  MemoryInv'
BY DEF MemoryInv, shardVars, memVars, BlocksBrought, IndexesBrought

LEMMA BringsNothingNew ==
    ASSUME UNCHANGED got, NEW t
    PROVE  Brings(t, got[t])
BY DEF Brings

(* A step that changes nothing but how far a call is.                      *)
LEMMA QuietKeeps ==
    ASSUME IInv, NEW t, NEW label, NEW e, StepsTo(t, label, e),
           UNCHANGED <<index, held, retained, refs>>,
           label \in Free <=> pc[t] \in Free, label \in Removing <=> pc[t] \in Removing,
           label \in Owning <=> pc[t] \in Owning, label \in Free \/ e = entry[t]
    PROVE  ShapeInv' /\ OwnerInv' /\ RefInv'
<1>1. setup \in Setups /\ setup' = setup /\ t \in setup.threads
  BY DEF IInv, TypeOK, StepsTo
<1>2. \A f : f \in Linked' <=> f \in Linked
  <2> TAKE f
  <2>1. label \in Removing => e = entry[t]
    BY DEF Removing, Free
  <2> QED
    BY <1>1, <2>1, LinkedParts
<1>3. ShapeInv'
  <2>1. Tidy(index') /\ \A f \in Entries : Holds(index', f) <=> f \in Linked'
    BY <1>2 DEF IInv, ShapeInv
  <2> QED
    BY <1>1, <2>1, ShapeAfter
<1>4. OwnerInv'
  <2>1. label \in Owning => e = entry[t] /\ pc[t] \in Owning
    BY DEF Owning, Registering, Removing, Free
  <2>2. held' \cap retained' = {}
    BY DEF IInv, OwnerInv
  <2>3. label \in Owning => /\ e \notin held' \cup retained'
                            /\ \A u \in setup.threads \ {t} :
                                    pc[u] \in Owning => entry[u] # e
    BY <1>1, <2>1 DEF IInv, OwnerInv
  <2>4. \A u \in setup.threads \ {t} :
          pc[u] \in Owning => entry[u] \notin held' \cup retained'
    BY DEF IInv, OwnerInv
  <2>5. OwnerInv
    BY DEF IInv
  <2> QED
    BY <1>1, <2>2, <2>3, <2>4, <2>5, OwnerAfter
<1>5. RefInv'
  <2>1. \A f \in Entries :
          refs'[f] = Cardinality(Referrers(f))' + IF f \in held' \cup retained' THEN 1 ELSE 0
    <3> TAKE f \in Entries
    <3>1. Cardinality(Referrers(f))' = Cardinality(Referrers(f))
      BY <1>1, CountKept
    <3>2. refs[f] = Cardinality(Referrers(f)) + IF f \in held \cup retained THEN 1 ELSE 0
      BY DEF IInv, RefInv
    <3> QED
      BY <3>1, <3>2
  <2> QED
    BY <1>1, <2>1, RefAfter
<1> QED
  BY <1>3, <1>4, <1>5

(* The last reference of a call goes, to an entry that is linked no more   *)
(* or that the call only looked up.                                        *)
LEMMA DroppedKeeps ==
    ASSUME IInv, NEW t, pc[t] \notin Free, pc[t] \notin Removing, entry[t] \in Entries,
           StepsTo(t, "idle", NoEntry), Dropped(entry[t]),
           UNCHANGED <<index, held, retained>>
    PROVE  ShapeInv' /\ OwnerInv' /\ RefInv' /\ refs' \in [Entries -> Nat]
<1>1. setup \in Setups /\ setup' = setup /\ t \in setup.threads
  BY DEF IInv, TypeOK, StepsTo
<1>2. \A f : f \in Linked' <=> f \in Linked
  <2> TAKE f
  <2>1. "idle" \notin Removing
    BY DEF Removing
  <2> QED
    BY <1>1, <2>1, LinkedParts
<1>3. ShapeInv'
  <2>1. Tidy(index') /\ \A f \in Entries : Holds(index', f) <=> f \in Linked'
    BY <1>2 DEF IInv, ShapeInv
  <2> QED
    BY <1>1, <2>1, ShapeAfter
<1>4. OwnerInv'
  <2>1. "idle" \notin Owning
    BY DEF Owning, Registering, Removing
  <2>2. held' \cap retained' = {} /\ OwnerInv
    BY DEF IInv, OwnerInv
  <2>3. \A u \in setup.threads \ {t} :
          pc[u] \in Owning => entry[u] \notin held' \cup retained'
    BY DEF IInv, OwnerInv
  <2> QED
    BY <1>1, <2>1, <2>2, <2>3, OwnerAfter
<1>5. refs \in [Entries -> Nat] /\ refs' = [refs EXCEPT ![entry[t]] = refs[entry[t]] - 1]
  BY DEF IInv, TypeOK, Dropped
<1>6. refs[entry[t]] > 0
  BY <1>1, Referred DEF IInv
<1>7. refs' \in [Entries -> Nat]
  BY <1>5, <1>6
<1>8. RefInv'
  <2>1. \A f \in Entries :
          refs'[f] = Cardinality(Referrers(f))' + IF f \in held' \cup retained' THEN 1 ELSE 0
    <3> TAKE f \in Entries
    <3>1. Cardinality(Referrers(f))' = Cardinality(Referrers(f)) - IF f = entry[t] THEN 1 ELSE 0
      <4>1. "idle" \in Free
        BY DEF Free
      <4> QED
        BY <1>1, <4>1, CountLost
    <3>2. refs[f] = Cardinality(Referrers(f)) + IF f \in held \cup retained THEN 1 ELSE 0
      BY DEF IInv, RefInv
    <3>3. Cardinality(Referrers(f)) \in Nat
      BY <1>1, ReferrersAre
    <3>4. refs'[f] = refs[f] - IF f = entry[t] THEN 1 ELSE 0
      BY <1>5
    <3> QED
      BY <3>1, <3>2, <3>3, <3>4
  <2> QED
    BY <1>1, <2>1, RefAfter
<1> QED
  BY <1>3, <1>4, <1>7, <1>8
-----------------------------------------------------------------------------
(* The steps                                                               *)

LEMMA AtIs ==
    ASSUME IInv, NEW t, NEW label, At(t, label)
    PROVE  /\ t \in setup.threads /\ t \in Threads /\ pc[t] = label /\ setup \in Setups
           /\ label # "idle" => entry[t] \in Entries
           /\ label \notin Bringing => got[t] = Nothing
BY ThreadsAre DEF IInv, TypeOK, CallInv, At

LEMMA LockKeeps ==
    ASSUME IInv, NEW t, NEW here \in PCs, NEW locked \in PCs, NEW give_up \in PCs,
           Lock(t, here, locked, give_up), here # "idle",
           \A l \in {locked, give_up} :
             /\ l \in Free <=> here \in Free
             /\ l \in Removing <=> here \in Removing
             /\ l \in Owning <=> here \in Owning
             /\ l \in Bringing <=> here \in Bringing
             /\ l # "fatal" /\ l # "idle"
    PROVE  IInv'
<1>1. /\ t \in setup.threads /\ t \in Threads /\ pc[t] = here /\ setup \in Setups
      /\ entry[t] \in Entries
      /\ here \notin Bringing => got[t] = Nothing
  BY AtIs DEF Lock
<1>2. UNCHANGED <<setup, shardVars, refs, held, retained, callVars, memVars, exitVars>>
  BY DEF Lock
<1>3. PICK l \in {locked, give_up} : Goto(t, l) /\ lock' \in {t, lock}
  BY DEF Lock
<1>4. StepsTo(t, l, entry[t])
  BY <1>1, <1>2, <1>3, GotoIs DEF IInv, callVars
<1>5. ShapeInv' /\ OwnerInv' /\ RefInv'
  <2>1. UNCHANGED <<index, held, retained, refs>>
    BY <1>2 DEF shardVars
  <2> QED
    BY <1>1, <1>4, <2>1, QuietKeeps
<1>6. CallInv'
  <2>1. Brings(t, got[t])
    BY <1>2, BringsNothingNew DEF callVars
  <2>2. l \in Bringing \/ got[t] = Nothing
    BY <1>1
  <2> QED
    BY <1>1, <1>4, <2>1, <2>2, CallAfter DEF IInv
<1>7. MemoryInv'
  BY <1>2, MemoryKept DEF IInv, callVars
<1>8. TypeOK'
  <2>1. /\ index' = index /\ cap' = cap /\ spare' = spare /\ Entries' = Entries
        /\ setup' = setup /\ refs' = refs /\ held' = held /\ retained' = retained
        /\ entry' = entry /\ want' = want /\ got' = got
        /\ exiting' = exiting /\ killed' = killed
    BY <1>2, SameEntries DEF shardVars, callVars, exitVars
  <2>2. lock' \in Threads \cup {Nobody}
    BY <1>1, <1>3 DEF IInv, TypeOK
  <2>3. pc' \in [Threads -> PCs]
    BY <1>1, <1>3 DEF IInv, TypeOK, Goto
  <2> QED
    BY <2>1, <2>2, <2>3 DEF IInv, TypeOK
<1> QED
  BY <1>5, <1>6, <1>7, <1>8 DEF IInv

LEMMA DropsKeep ==
    ASSUME IInv, NEW t, NEW label \in {"r_failed", "pinned", "d_release"}, At(t, label),
           Dropped(entry[t]), Done(t),
           UNCHANGED <<setup, shardVars, lock, held, retained, want, got, memVars, exitVars>>
    PROVE  IInv'
<1>1. /\ t \in setup.threads /\ t \in Threads /\ pc[t] = label /\ setup \in Setups
      /\ entry[t] \in Entries /\ got[t] = Nothing
  BY AtIs DEF Bringing
<1>2. StepsTo(t, "idle", NoEntry)
  BY <1>1, DoneIs DEF IInv
<1>3. ShapeInv' /\ OwnerInv' /\ RefInv' /\ refs' \in [Entries -> Nat]
  <2>1. UNCHANGED <<index, held, retained>>
    BY DEF shardVars
  <2>2. pc[t] \notin Free /\ pc[t] \notin Removing
    BY <1>1 DEF Free, Removing
  <2> QED
    BY <1>1, <1>2, <2>1, <2>2, DroppedKeeps
<1>4. CallInv'
  <2>1. Brings(t, Nothing)
    BY <1>1, BringsNothingNew
  <2> QED
    BY <1>1, <1>2, <2>1, CallAfter DEF IInv
<1>5. MemoryInv'
  BY MemoryKept DEF IInv
<1>6. TypeOK'
  <2>1. Entries' = Entries
    BY SameEntries
  <2>2. pc' \in [Threads -> PCs] /\ entry' \in [Threads -> Entries \cup {NoEntry}]
    BY DEF IInv, TypeOK, Done, Goto, PCs
  <2> QED
    BY <1>3, <2>1, <2>2 DEF IInv, TypeOK, shardVars, exitVars
<1> QED
  BY <1>3, <1>4, <1>5, <1>6 DEF IInv

LEMMA RegisterKeeps ==
    ASSUME IInv, NEW t, NEW key, Register(t, key)
    PROVE  IInv'
<1>1. /\ t \in setup.threads /\ t \in Threads /\ pc[t] = "idle" /\ setup \in Setups
      /\ got[t] = Nothing
  BY AtIs DEF Register, Bringing
<1>2. PICK e \in Entries : /\ refs[e] = 0 /\ refs' = [refs EXCEPT ![e] = 1]
                           /\ entry' = [entry EXCEPT ![t] = e]
  BY DEF Register
<1>3. /\ Goto(t, "r_lock")
      /\ UNCHANGED <<setup, shardVars, lock, held, retained, want, got, memVars, exitVars>>
  BY DEF Register
<1>4. StepsTo(t, "r_lock", e)
  BY <1>1, <1>2, <1>3, EnterIs DEF IInv
<1>5. Entries' = Entries
  BY <1>3, SameEntries
<1>6. /\ e \notin held \cup retained
      /\ \A u \in setup.threads : pc[u] \in Owning => entry[u] # e
  <2>1. TypeOK /\ RefInv
    BY DEF IInv
  <2>2. e \notin held \cup retained
    BY <1>2, <2>1, Referred
  <2>3. ASSUME NEW u \in setup.threads, pc[u] \in Owning, entry[u] = e PROVE FALSE
    <3>1. pc[u] \notin Free
      BY <2>3 DEF Owning, Registering, Removing, Free
    <3> QED
      BY <1>2, <2>1, <2>3, <3>1, Referred
  <2> QED
    BY <2>2, <2>3
<1>7. ShapeInv'
  <2>1. "r_lock" \notin Removing /\ "idle" \notin Removing
    BY DEF Removing
  <2>2. \A f : f \in Linked' <=> f \in Linked
    BY <1>1, <1>3, <1>4, <2>1, LinkedParts
  <2>3. Tidy(index') /\ \A f \in Entries : Holds(index', f) <=> f \in Linked'
    BY <1>3, <2>2 DEF IInv, ShapeInv, shardVars
  <2> QED
    BY <1>3, <2>3, ShapeAfter
<1>8. OwnerInv'
  <2>1. held' \cap retained' = {} /\ OwnerInv /\ e \notin held' \cup retained'
    BY <1>3, <1>6 DEF IInv, OwnerInv
  <2>2. \A u \in setup.threads \ {t} :
          pc[u] \in Owning => entry[u] \notin held' \cup retained'
    BY <1>3 DEF IInv, OwnerInv
  <2>3. \A u \in setup.threads \ {t} : pc[u] \in Owning => entry[u] # e
    BY <1>6
  <2> QED
    BY <1>1, <1>4, <2>1, <2>2, <2>3, OwnerAfter
<1>9. RefInv'
  <2>1. \A f \in Entries :
          refs'[f] = Cardinality(Referrers(f))' + IF f \in held' \cup retained' THEN 1 ELSE 0
    <3> TAKE f \in Entries
    <3>1. Cardinality(Referrers(f))' = Cardinality(Referrers(f)) + IF f = e THEN 1 ELSE 0
      <4>1. "r_lock" \notin Free /\ pc[t] \in Free
        BY <1>1 DEF Free
      <4> QED
        BY <1>1, <1>4, <4>1, CountGained
    <3>2. refs[f] = Cardinality(Referrers(f)) + IF f \in held \cup retained THEN 1 ELSE 0
      BY DEF IInv, RefInv
    <3>3. Cardinality(Referrers(f)) \in Nat
      BY <1>1, <1>4, ReferrersAre
    <3>4. refs'[f] = refs[f] + IF f = e THEN 1 ELSE 0
      BY <1>2 DEF IInv, TypeOK
    <3>5. held' = held /\ retained' = retained
      BY <1>3
    <3> QED
      BY <3>1, <3>2, <3>3, <3>4, <3>5
  <2> QED
    BY <1>3, <2>1, RefAfter
<1>10. CallInv'
  <2>1. Brings(t, Nothing)
    BY <1>1, <1>3, BringsNothingNew
  <2> QED
    BY <1>1, <1>4, <2>1, CallAfter DEF IInv
<1>11. MemoryInv'
  BY <1>3, MemoryKept DEF IInv
<1>12. TypeOK'
  <2>1. pc' \in [Threads -> PCs] /\ entry' \in [Threads -> Entries \cup {NoEntry}]
    BY <1>2, <1>3 DEF IInv, TypeOK, Goto, PCs
  <2>2. refs' \in [Entries -> Nat]
    BY <1>2 DEF IInv, TypeOK
  <2> QED
    BY <1>3, <1>5, <2>1, <2>2 DEF IInv, TypeOK, shardVars, exitVars
<1> QED
  BY <1>7, <1>8, <1>9, <1>10, <1>11, <1>12 DEF IInv

LEMMA DeregisterKeeps ==
    ASSUME IInv, NEW t, NEW e \in Entries, Deregister(t, e)
    PROVE  IInv'
<1>1. /\ t \in setup.threads /\ t \in Threads /\ pc[t] = "idle" /\ setup \in Setups
      /\ got[t] = Nothing
  BY AtIs DEF Deregister, Bringing
<1>2. /\ e \in held /\ held' = held \ {e} /\ entry' = [entry EXCEPT ![t] = e]
      /\ Goto(t, "d_lock")
      /\ UNCHANGED <<setup, shardVars, lock, refs, retained, want, got, memVars, exitVars>>
  BY DEF Deregister
<1>3. StepsTo(t, "d_lock", e)
  BY <1>1, <1>2, EnterIs DEF IInv
<1>4. Entries' = Entries
  BY <1>2, SameEntries
<1>5. e \notin retained /\ \A u \in setup.threads : pc[u] \in Owning => entry[u] # e
  BY <1>2 DEF IInv, OwnerInv
<1>6. ShapeInv'
  <2>1. "d_lock" \in Removing /\ "idle" \notin Removing
    BY DEF Removing
  <2>2. \A f : f \in Linked' <=> f \in Linked
    BY <1>1, <1>2, <1>3, <2>1, LinkedParts
  <2>3. Tidy(index') /\ \A f \in Entries : Holds(index', f) <=> f \in Linked'
    BY <1>2, <2>2 DEF IInv, ShapeInv, shardVars
  <2> QED
    BY <1>2, <2>3, ShapeAfter
<1>7. OwnerInv'
  <2>1. held' \cap retained' = {} /\ OwnerInv /\ e \notin held' \cup retained'
    BY <1>2, <1>5 DEF IInv, OwnerInv
  <2>2. \A u \in setup.threads \ {t} :
          pc[u] \in Owning => entry[u] \notin held' \cup retained'
    BY <1>2 DEF IInv, OwnerInv
  <2>3. \A u \in setup.threads \ {t} : pc[u] \in Owning => entry[u] # e
    BY <1>5
  <2> QED
    BY <1>1, <1>3, <2>1, <2>2, <2>3, OwnerAfter
<1>8. RefInv'
  <2>1. \A f \in Entries :
          refs'[f] = Cardinality(Referrers(f))' + IF f \in held' \cup retained' THEN 1 ELSE 0
    <3> TAKE f \in Entries
    <3>1. Cardinality(Referrers(f))' = Cardinality(Referrers(f)) + IF f = e THEN 1 ELSE 0
      <4>1. "d_lock" \notin Free /\ pc[t] \in Free
        BY <1>1 DEF Free
      <4> QED
        BY <1>1, <1>3, <4>1, CountGained
    <3>2. refs[f] = Cardinality(Referrers(f)) + IF f \in held \cup retained THEN 1 ELSE 0
      BY DEF IInv, RefInv
    <3>3. Cardinality(Referrers(f)) \in Nat
      BY <1>1, <1>3, ReferrersAre
    <3> QED
      BY <1>2, <1>5, <3>1, <3>2, <3>3
  <2> QED
    BY <1>2, <2>1, RefAfter
<1>9. CallInv'
  <2>1. Brings(t, Nothing)
    BY <1>1, <1>2, BringsNothingNew
  <2> QED
    BY <1>1, <1>3, <2>1, CallAfter DEF IInv
<1>10. MemoryInv'
  BY <1>2, MemoryKept DEF IInv
<1>11. TypeOK'
  <2>1. pc' \in [Threads -> PCs] /\ entry' \in [Threads -> Entries \cup {NoEntry}]
    BY <1>2 DEF IInv, TypeOK, Goto, PCs
  <2> QED
    BY <1>2, <1>4, <2>1 DEF IInv, TypeOK, shardVars, exitVars
<1> QED
  BY <1>6, <1>7, <1>8, <1>9, <1>10, <1>11 DEF IInv

LEMMA RemoveGivenUpKeeps ==
    ASSUME IInv, NEW t, RemoveGivenUp(t)
    PROVE  IInv'
<1>1. /\ t \in setup.threads /\ t \in Threads /\ pc[t] = "d_given_up" /\ setup \in Setups
      /\ entry[t] \in Entries /\ got[t] = Nothing
  BY AtIs DEF RemoveGivenUp, Bringing
<1>2. /\ retained' = retained \cup {entry[t]} /\ Done(t)
      /\ UNCHANGED <<setup, shardVars, lock, refs, held, want, got, memVars, exitVars>>
  BY DEF RemoveGivenUp
<1>3. StepsTo(t, "idle", NoEntry)
  BY <1>1, <1>2, DoneIs DEF IInv
<1>4. Entries' = Entries
  BY <1>2, SameEntries
<1>5. /\ pc[t] \in Removing /\ pc[t] \in Owning /\ pc[t] \notin Free
      /\ "idle" \notin Removing /\ "idle" \notin Owning /\ "idle" \in Free
  BY <1>1 DEF Removing, Owning, Registering, Free
<1>6. /\ entry[t] \notin held \cup retained
      /\ \A u \in setup.threads \ {t} : pc[u] \in Owning => entry[u] # entry[t]
  BY <1>1, <1>5 DEF IInv, OwnerInv
<1>7. ShapeInv'
  <2>2. \A f : f \in Linked' <=> f \in Linked
    BY <1>1, <1>2, <1>3, <1>5, LinkedParts
  <2>3. Tidy(index') /\ \A f \in Entries : Holds(index', f) <=> f \in Linked'
    BY <1>2, <2>2 DEF IInv, ShapeInv, shardVars
  <2> QED
    BY <1>2, <2>3, ShapeAfter
<1>8. OwnerInv'
  <2>1. held' \cap retained' = {} /\ OwnerInv
    BY <1>2, <1>6 DEF IInv, OwnerInv
  <2>2. \A u \in setup.threads \ {t} :
          pc[u] \in Owning => entry[u] \notin held' \cup retained'
    BY <1>2, <1>6 DEF IInv, OwnerInv
  <2> QED
    BY <1>1, <1>3, <1>5, <2>1, <2>2, OwnerAfter
<1>9. RefInv'
  <2>1. \A f \in Entries :
          refs'[f] = Cardinality(Referrers(f))' + IF f \in held' \cup retained' THEN 1 ELSE 0
    <3> TAKE f \in Entries
    <3>1. Cardinality(Referrers(f))'
            = Cardinality(Referrers(f)) - IF f = entry[t] THEN 1 ELSE 0
      BY <1>1, <1>3, <1>5, CountLost
    <3>2. refs[f] = Cardinality(Referrers(f)) + IF f \in held \cup retained THEN 1 ELSE 0
      BY DEF IInv, RefInv
    <3>3. Cardinality(Referrers(f)) \in Nat
      BY <1>1, <1>3, ReferrersAre
    <3> QED
      BY <1>2, <1>6, <3>1, <3>2, <3>3
  <2> QED
    BY <1>2, <2>1, RefAfter
<1>10. CallInv'
  <2>1. Brings(t, Nothing)
    BY <1>1, <1>2, BringsNothingNew
  <2> QED
    BY <1>1, <1>3, <2>1, CallAfter DEF IInv
<1>11. MemoryInv'
  BY <1>2, MemoryKept DEF IInv
<1>12. TypeOK'
  <2>1. pc' \in [Threads -> PCs] /\ entry' \in [Threads -> Entries \cup {NoEntry}]
    BY <1>2 DEF IInv, TypeOK, Done, Goto, PCs
  <2> QED
    BY <1>1, <1>2, <1>4, <2>1 DEF IInv, TypeOK, shardVars, exitVars
<1> QED
  BY <1>7, <1>8, <1>9, <1>10, <1>11, <1>12 DEF IInv
LEMMA LookupKeeps ==
    ASSUME IInv, NEW t, NEW key \in setup.pinned, Lookup(t, key)
    PROVE  IInv'
<1>1. /\ t \in setup.threads /\ t \in Threads /\ pc[t] = "idle" /\ setup \in Setups
      /\ got[t] = Nothing
  BY AtIs DEF Lookup, Bringing
<1>2. /\ entry' = [entry EXCEPT ![t] = <<key, 0>>] /\ Goto(t, "l_lock")
      /\ UNCHANGED <<setup, shardVars, lock, refs, held, retained, want, got, memVars, exitVars>>
  BY DEF Lookup
<1>3. <<key, 0>> \in Entries
  <2>1. key \in Keys
    BY <1>1, RouteDirectoryAssumption DEF Keys
  <2> QED
    BY <2>1 DEF Entries
<1>4. StepsTo(t, "l_lock", <<key, 0>>)
  BY <1>1, <1>2, EnterIs DEF IInv
<1>5. ShapeInv' /\ OwnerInv' /\ RefInv'
  <2>1. UNCHANGED <<index, held, retained, refs>>
    BY <1>2 DEF shardVars
  <2>2. /\ "l_lock" \in Free /\ pc[t] \in Free /\ "l_lock" \notin Owning /\ pc[t] \notin Owning
        /\ "l_lock" \notin Removing /\ pc[t] \notin Removing
    BY <1>1 DEF Free, Owning, Registering, Removing
  <2> QED
    BY <1>4, <2>1, <2>2, QuietKeeps
<1>6. CallInv'
  <2>1. Brings(t, Nothing)
    BY <1>1, <1>2, BringsNothingNew
  <2> QED
    BY <1>1, <1>3, <1>4, <2>1, CallAfter DEF IInv
<1>7. MemoryInv'
  BY <1>2, MemoryKept DEF IInv
<1>8. TypeOK'
  <2>1. pc' \in [Threads -> PCs] /\ entry' \in [Threads -> Entries \cup {NoEntry}]
    BY <1>2, <1>3 DEF IInv, TypeOK, Goto, PCs
  <2>2. Entries' = Entries
    BY <1>2, SameEntries
  <2> QED
    BY <1>2, <2>1, <2>2 DEF IInv, TypeOK, shardVars, exitVars
<1> QED
  BY <1>5, <1>6, <1>7, <1>8 DEF IInv

LEMMA LeavesLookup ==
    ASSUME IInv, NEW t, NEW label \in {"l_given_up", "l_find"}, At(t, label), Done(t),
           lock' \in {lock, Nobody},
           UNCHANGED <<setup, shardVars, refs, held, retained, want, got, memVars, exitVars>>
    PROVE  IInv'
<1>1. /\ t \in setup.threads /\ t \in Threads /\ pc[t] = label /\ setup \in Setups
      /\ got[t] = Nothing
  BY AtIs DEF Bringing
<1>2. StepsTo(t, "idle", NoEntry)
  BY <1>1, DoneIs DEF IInv
<1>3. ShapeInv' /\ OwnerInv' /\ RefInv'
  <2>1. UNCHANGED <<index, held, retained, refs>>
    BY DEF shardVars
  <2>2. /\ "idle" \in Free /\ pc[t] \in Free /\ "idle" \notin Owning /\ pc[t] \notin Owning
        /\ "idle" \notin Removing /\ pc[t] \notin Removing
    BY <1>1 DEF Free, Owning, Registering, Removing
  <2> QED
    BY <1>2, <2>1, <2>2, QuietKeeps
<1>4. CallInv'
  <2>1. Brings(t, Nothing)
    BY <1>1, BringsNothingNew
  <2> QED
    BY <1>1, <1>2, <2>1, CallAfter DEF IInv
<1>5. MemoryInv'
  BY MemoryKept DEF IInv
<1>6. TypeOK'
  <2>1. pc' \in [Threads -> PCs] /\ entry' \in [Threads -> Entries \cup {NoEntry}]
    BY DEF IInv, TypeOK, Done, Goto, PCs
  <2>2. Entries' = Entries
    BY SameEntries
  <2> QED
    BY <2>1, <2>2 DEF IInv, TypeOK, shardVars, exitVars
<1> QED
  BY <1>3, <1>4, <1>5, <1>6 DEF IInv

LEMMA OrderedHere ==
    ASSUME IInv
    PROVE  Ordered
BY DEF IInv, TypeOK, ShapeInv, Tidy, Ordered

LEMMA FindKeeps ==
    ASSUME IInv, NEW t, Find(t)
    PROVE  IInv'
<1>1. /\ t \in setup.threads /\ t \in Threads /\ pc[t] = "l_find" /\ setup \in Setups
      /\ entry[t] \in Entries /\ got[t] = Nothing
  BY AtIs DEF Find, Bringing
<1>2. /\ lock' = Nobody
      /\ UNCHANGED <<setup, shardVars, held, retained, want, got, memVars, exitVars>>
  BY DEF Find
<1> DEFINE e == find(Key(entry[t]))
<1>3. IF e = NoEntry THEN Done(t) /\ UNCHANGED refs
      ELSE IF refs[e] = 0 THEN Goto(t, "fatal") /\ UNCHANGED <<refs, entry>>
      ELSE /\ refs' = [refs EXCEPT ![e] = refs[e] + 1]
           /\ entry' = [entry EXCEPT ![t] = e]
           /\ Goto(t, "pinned")
  BY DEF Find
<1>4. e # NoEntry => e \in Entries /\ Holds(index, e)
  BY <1>1, OrderedHere, EntryKeys, FindIs
<1> HIDE DEF e
<1>5. CASE e = NoEntry
  BY <1>1, <1>2, <1>3, <1>5, LeavesLookup DEF Find
<1>6. CASE e # NoEntry
  <2>1. e \in Entries /\ e \in Linked
    BY <1>4, <1>6 DEF IInv, ShapeInv
  <2>2. refs[e] > 0
    BY <2>1, LinkedReferred
  <2>3. /\ refs' = [refs EXCEPT ![e] = refs[e] + 1]
        /\ entry' = [entry EXCEPT ![t] = e] /\ Goto(t, "pinned")
    BY <1>3, <1>6, <2>2
  <2>4. StepsTo(t, "pinned", e)
    BY <1>1, <1>2, <2>3, EnterIs DEF IInv
  <2>5. /\ "pinned" \notin Free /\ pc[t] \in Free /\ "pinned" \notin Owning
        /\ "pinned" \notin Removing /\ pc[t] \notin Removing
    BY <1>1 DEF Free, Owning, Registering, Removing
  <2>6. Entries' = Entries
    BY <1>2, SameEntries
  <2>7. ShapeInv'
    <3>1. \A f : f \in Linked' <=> f \in Linked
      BY <1>1, <1>2, <2>4, <2>5, LinkedParts
    <3>2. Tidy(index') /\ \A f \in Entries : Holds(index', f) <=> f \in Linked'
      BY <1>2, <3>1 DEF IInv, ShapeInv, shardVars
    <3> QED
      BY <1>2, <3>2, ShapeAfter
  <2>8. OwnerInv'
    <3>1. held' \cap retained' = {} /\ OwnerInv
      BY <1>2 DEF IInv, OwnerInv
    <3>2. \A u \in setup.threads \ {t} :
            pc[u] \in Owning => entry[u] \notin held' \cup retained'
      BY <1>2 DEF IInv, OwnerInv
    <3> QED
      BY <1>1, <2>4, <2>5, <3>1, <3>2, OwnerAfter
  <2>9. RefInv'
    <3>1. \A f \in Entries :
            refs'[f] = Cardinality(Referrers(f))' + IF f \in held' \cup retained' THEN 1 ELSE 0
      <4> TAKE f \in Entries
      <4>1. Cardinality(Referrers(f))' = Cardinality(Referrers(f)) + IF f = e THEN 1 ELSE 0
        BY <1>1, <2>4, <2>5, CountGained
      <4>2. refs[f] = Cardinality(Referrers(f)) + IF f \in held \cup retained THEN 1 ELSE 0
        BY DEF IInv, RefInv
      <4>3. Cardinality(Referrers(f)) \in Nat
        BY <1>1, <2>4, ReferrersAre
      <4>4. refs'[f] = refs[f] + IF f = e THEN 1 ELSE 0
        BY <2>3 DEF IInv, TypeOK
      <4>5. held' = held /\ retained' = retained
        BY <1>2
      <4> QED
        BY <4>1, <4>2, <4>3, <4>4, <4>5
    <3> QED
      BY <1>2, <3>1, RefAfter
  <2>10. CallInv'
    <3>1. Brings(t, Nothing)
      BY <1>1, <1>2, BringsNothingNew
    <3> QED
      BY <1>1, <2>1, <2>4, <3>1, CallAfter DEF IInv
  <2>11. MemoryInv'
    BY <1>2, MemoryKept DEF IInv
  <2>12. TypeOK'
    <3>1. pc' \in [Threads -> PCs] /\ entry' \in [Threads -> Entries \cup {NoEntry}]
      BY <2>1, <2>3 DEF IInv, TypeOK, Goto, PCs
    <3>2. refs' \in [Entries -> Nat]
      BY <2>1, <2>3 DEF IInv, TypeOK
    <3> QED
      BY <1>2, <2>6, <3>1, <3>2 DEF IInv, TypeOK, shardVars, exitVars
  <2> QED
    BY <2>7, <2>8, <2>9, <2>10, <2>11, <2>12 DEF IInv
<1> QED
  BY <1>5, <1>6

(* What the calls that register bring or leave, while nothing is linked.   *)
LEMMA RegistersOn ==
    ASSUME IInv, NEW t, pc[t] \in Registering, NEW label \in Registering, Goto(t, label),
           t \in setup.threads,
           UNCHANGED <<setup, index, refs, held, retained, entry, exitVars>>
    PROVE  /\ ShapeInv' /\ OwnerInv' /\ RefInv' /\ StepsTo(t, label, entry[t])
           /\ pc' \in [Threads -> PCs] /\ Entries' = Entries
<1>1. StepsTo(t, label, entry[t])
  BY GotoIs DEF IInv
<1>2. /\ label \notin Free /\ pc[t] \notin Free /\ label \in Owning /\ pc[t] \in Owning
      /\ label \notin Removing /\ pc[t] \notin Removing
  BY DEF Free, Owning, Registering, Removing
<1>3. ShapeInv' /\ OwnerInv' /\ RefInv'
  BY <1>1, <1>2, QuietKeeps
<1>4. pc' \in [Threads -> PCs]
  BY DEF IInv, TypeOK, Goto, PCs, Registering
<1> QED
  BY <1>1, <1>3, <1>4, SameEntries

Parcels == [block : {0, 1}, index_cap : Nat]

LEMMA BringsIs ==
    ASSUME TypeOK, NEW t, NEW x, got' = [got EXCEPT ![t] = x]
    PROVE  Brings(t, x) /\ (x \in Parcels => got' \in [Threads -> Parcels])
BY DEF TypeOK, Brings, Parcels

LEMMA AllocateKeeps ==
    ASSUME IInv, NEW t, Allocate(t)
    PROVE  IInv'
<1>1. /\ t \in setup.threads /\ t \in Threads /\ pc[t] = "r_alloc" /\ setup \in Setups
      /\ entry[t] \in Entries /\ got[t] = Nothing
  BY AtIs DEF Allocate, Bringing
<1>2. /\ want' = [want EXCEPT ![t] = Nothing]
      /\ UNCHANGED <<setup, shardVars, lock, refs, held, retained, entry, exitVars>>
  BY DEF Allocate
<1>3. want[t] \in Parcels /\ want' \in [Threads -> Parcels] /\ Nothing \in Parcels
  BY <1>1, <1>2 DEF IInv, TypeOK, Parcels, Nothing
<1>4. UNCHANGED <<setup, index, refs, held, retained, entry, exitVars>>
  BY <1>2 DEF shardVars
<1>5. PICK label \in {"i_lock", "r_failed"} :
        /\ Goto(t, label)
        /\ label = "i_lock" => /\ got' = [got EXCEPT ![t] = want[t]]
                               /\ blocks' = blocks + want[t].block
                               /\ indexes' = indexes + IF want[t].index_cap > 0 THEN 1 ELSE 0
        /\ label = "r_failed" => UNCHANGED <<got, memVars>>
  BY DEF Allocate
<1>6. /\ ShapeInv' /\ OwnerInv' /\ RefInv' /\ StepsTo(t, label, entry[t])
      /\ pc' \in [Threads -> PCs] /\ Entries' = Entries
  BY <1>1, <1>4, <1>5, RegistersOn DEF Registering
<1>7. CASE label = "i_lock"
  <2>1. Brings(t, want[t]) /\ got' \in [Threads -> Parcels]
    BY <1>3, <1>5, <1>7, BringsIs DEF IInv
  <2>2. CallInv'
    BY <1>1, <1>6, <1>7, <2>1, CallAfter DEF IInv, Bringing
  <2>3. MemoryInv'
    <3>1. /\ Cardinality(BlocksBrought)'
                = Cardinality(BlocksBrought) + (IF want[t].block = 1 THEN 1 ELSE 0)
          /\ Cardinality(IndexesBrought)'
                = Cardinality(IndexesBrought) + (IF want[t].index_cap > 0 THEN 1 ELSE 0)
          /\ Cardinality(BlocksBrought) \in Nat /\ Cardinality(IndexesBrought) \in Nat
      <4>1. got[t].block = 0 /\ got[t].index_cap = 0
        BY <1>1 DEF Nothing
      <4> QED
        BY <1>1, <2>1, <4>1, BroughtAre
    <3>2. index' = index /\ spare' = spare /\ cap' = cap
      BY <1>2 DEF shardVars
    <3>3. Len(index) \in Nat /\ spare \in Nat
      BY IndexTypes DEF IInv, TypeOK, ShapeInv, Tidy
    <3>4. want[t].block = IF want[t].block = 1 THEN 1 ELSE 0
      BY <1>3 DEF Parcels
    <3>5. /\ blocks = Len(index) + spare + Cardinality(BlocksBrought)
          /\ indexes = (IF cap > 0 THEN 1 ELSE 0) + Cardinality(IndexesBrought)
      BY DEF IInv, MemoryInv
    <3>6. blocks' = Len(index) + spare + Cardinality(BlocksBrought)'
      BY <1>5, <1>7, <3>1, <3>3, <3>4, <3>5
    <3>7. indexes' = (IF cap > 0 THEN 1 ELSE 0) + Cardinality(IndexesBrought)'
      BY <1>5, <1>7, <3>1, <3>5
    <3> QED
      BY <3>2, <3>6, <3>7 DEF MemoryInv
  <2>4. TypeOK'
    BY <1>2, <1>3, <1>6, <2>1 DEF IInv, TypeOK, shardVars, exitVars, Parcels
  <2> QED
    BY <1>6, <2>2, <2>3, <2>4 DEF IInv
<1>8. CASE label = "r_failed"
  <2>1. UNCHANGED <<got, memVars>> /\ Brings(t, Nothing)
    BY <1>1, <1>5, <1>8, BringsNothingNew
  <2>2. CallInv'
    BY <1>1, <1>6, <1>8, <2>1, CallAfter DEF IInv
  <2>3. MemoryInv'
    BY <1>2, <2>1, MemoryKept DEF IInv
  <2>4. TypeOK'
    BY <1>2, <1>3, <1>6, <2>1 DEF IInv, TypeOK, shardVars, exitVars, Parcels
  <2> QED
    BY <1>6, <2>2, <2>3, <2>4 DEF IInv
<1> QED
  BY <1>7, <1>8

LEMMA InstallKeeps ==
    ASSUME IInv, NEW t, Install(t)
    PROVE  IInv'
<1>1. /\ t \in setup.threads /\ t \in Threads /\ pc[t] = "r_install" /\ setup \in Setups
      /\ entry[t] \in Entries
  BY AtIs DEF Install
<1>2. /\ lock' = Nobody /\ spare' = Larger(spare, got[t].block)
      /\ blocks' = blocks - Surplus(t)
      /\ cap' = IF Len(index) = cap THEN Larger(cap, got[t].index_cap) ELSE cap
      /\ indexes' = IF got[t].index_cap > 0 /\ cap > 0 THEN indexes - 1 ELSE indexes
      /\ got' = [got EXCEPT ![t] = Nothing] /\ Goto(t, "r_lock")
      /\ UNCHANGED <<setup, index, refs, held, retained, entry, want, exitVars>>
  BY DEF Install
<1>3. got[t].block \in {0, 1} /\ got[t].index_cap \in Nat /\ Nothing \in Parcels
  BY <1>1 DEF IInv, TypeOK, Nothing, Parcels
<1>4. Brings(t, Nothing) /\ got' \in [Threads -> Parcels]
  BY <1>2, <1>3, BringsIs DEF IInv
<1>5. /\ ShapeInv' /\ OwnerInv' /\ RefInv' /\ StepsTo(t, "r_lock", entry[t])
      /\ pc' \in [Threads -> PCs] /\ Entries' = Entries
  BY <1>1, <1>2, RegistersOn DEF Registering
<1>6. CallInv'
  BY <1>1, <1>4, <1>5, CallAfter DEF IInv
<1>7. /\ Len(index) \in Nat /\ cap \in Nat /\ Len(index) <= cap /\ spare \in {0, 1}
  BY IndexTypes DEF IInv, TypeOK, ShapeInv, Tidy
<1>8. MemoryInv'
  <2>1. /\ Cardinality(BlocksBrought)'
              = Cardinality(BlocksBrought) - (IF got[t].block = 1 THEN 1 ELSE 0)
        /\ Cardinality(IndexesBrought)'
              = Cardinality(IndexesBrought) - (IF got[t].index_cap > 0 THEN 1 ELSE 0)
        /\ Cardinality(BlocksBrought) \in Nat /\ Cardinality(IndexesBrought) \in Nat
    <3>1. Nothing.block = 0 /\ Nothing.index_cap = 0
      BY DEF Nothing
    <3> HIDE DEF Nothing
    <3>2. /\ Cardinality(BlocksBrought)'
                = Cardinality(BlocksBrought) - (IF got[t].block = 1 THEN 1 ELSE 0)
                  + (IF Nothing.block = 1 THEN 1 ELSE 0)
          /\ Cardinality(IndexesBrought)'
                = Cardinality(IndexesBrought) - (IF got[t].index_cap > 0 THEN 1 ELSE 0)
                  + (IF Nothing.index_cap > 0 THEN 1 ELSE 0)
          /\ Cardinality(BlocksBrought) \in Nat /\ Cardinality(IndexesBrought) \in Nat
      BY <1>1, <1>4, BroughtAre
    <3> QED
      BY <3>1, <3>2
  <2>2. blocks' = Len(index') + spare' + Cardinality(BlocksBrought)'
    <3>1. spare' = spare + got[t].block - Surplus(t) /\ Surplus(t) \in {0, 1}
      BY <1>2, <1>3, <1>7 DEF Larger, Surplus
    <3>2. blocks = Len(index) + spare + Cardinality(BlocksBrought)
      BY DEF IInv, MemoryInv
    <3>3. Cardinality(BlocksBrought)' = Cardinality(BlocksBrought) - got[t].block
      BY <1>3, <2>1
    <3>4. Len(index') = Len(index) /\ blocks' = blocks - Surplus(t)
      BY <1>2
    <3> DEFINE n == Len(index)
               c == Cardinality(BlocksBrought)
               g == got[t].block
               s == Surplus(t)
    <3>5. n \in Nat /\ c \in Nat /\ g \in Nat /\ s \in Nat /\ spare \in Nat
      BY <1>3, <1>7, <2>1, <3>1
    <3>6. blocks' = (n + spare + c) - s /\ spare' = spare + g - s
      BY <3>1, <3>2, <3>4, Zenon
    <3>7. Cardinality(BlocksBrought)' = c - g /\ Len(index') = n
      BY <3>3, <3>4
    <3> HIDE DEF n, c, g, s
    <3> QED
      BY <3>5, <3>6, <3>7
  <2>3. indexes' = (IF cap' > 0 THEN 1 ELSE 0) + Cardinality(IndexesBrought)'
    <3>1. indexes = (IF cap > 0 THEN 1 ELSE 0) + Cardinality(IndexesBrought)
      BY DEF IInv, MemoryInv
    <3>2. CASE cap > 0
      <4>1. cap' > 0
        BY <1>2, <1>3, <1>7, <3>2 DEF Larger
      <4> QED
        BY <1>2, <1>3, <1>7, <2>1, <3>1, <3>2, <4>1
    <3>3. CASE ~ (cap > 0)
      <4>1. Len(index) = cap /\ cap = 0
        BY <1>7, <3>3
      <4>2. cap' > 0 <=> got[t].index_cap > 0
        BY <1>2, <1>3, <4>1 DEF Larger
      <4> QED
        BY <1>2, <1>3, <2>1, <3>1, <3>3, <4>2
    <3> QED
      BY <3>2, <3>3
  <2> QED
    BY <2>2, <2>3 DEF MemoryInv
<1>9. TypeOK'
  <2>1. spare' \in {0, 1} /\ cap' \in Nat /\ Len(index) <= cap'
    BY <1>2, <1>3, <1>7 DEF Larger
  <2> QED
    BY <1>2, <1>4, <1>5, <2>1 DEF IInv, TypeOK, exitVars, Parcels
<1> QED
  BY <1>5, <1>6, <1>8, <1>9 DEF IInv

LEMMA InstallGivenUpKeeps ==
    ASSUME IInv, NEW t, InstallGivenUp(t)
    PROVE  IInv'
<1>1. /\ t \in setup.threads /\ t \in Threads /\ pc[t] = "i_given_up" /\ setup \in Setups
      /\ entry[t] \in Entries
  BY AtIs DEF InstallGivenUp
<1>2. /\ blocks' = blocks - got[t].block
      /\ indexes' = indexes - IF got[t].index_cap > 0 THEN 1 ELSE 0
      /\ got' = [got EXCEPT ![t] = Nothing] /\ Goto(t, "r_failed")
      /\ UNCHANGED <<setup, shardVars, lock, refs, held, retained, entry, want, exitVars>>
  BY DEF InstallGivenUp
<1>3. got[t].block \in {0, 1} /\ got[t].index_cap \in Nat /\ Nothing \in Parcels
  BY <1>1 DEF IInv, TypeOK, Nothing, Parcels
<1>4. Brings(t, Nothing) /\ got' \in [Threads -> Parcels]
  BY <1>2, <1>3, BringsIs DEF IInv
<1>5. /\ ShapeInv' /\ OwnerInv' /\ RefInv' /\ StepsTo(t, "r_failed", entry[t])
      /\ pc' \in [Threads -> PCs] /\ Entries' = Entries
  <2>1. UNCHANGED <<setup, index, refs, held, retained, entry, exitVars>>
    BY <1>2 DEF shardVars
  <2> QED
    BY <1>1, <1>2, <2>1, RegistersOn DEF Registering
<1>6. CallInv'
  BY <1>1, <1>4, <1>5, CallAfter DEF IInv
<1>7. MemoryInv'
  <2>1. /\ Cardinality(BlocksBrought)'
              = Cardinality(BlocksBrought) - (IF got[t].block = 1 THEN 1 ELSE 0)
        /\ Cardinality(IndexesBrought)'
              = Cardinality(IndexesBrought) - (IF got[t].index_cap > 0 THEN 1 ELSE 0)
        /\ Cardinality(BlocksBrought) \in Nat /\ Cardinality(IndexesBrought) \in Nat
    <3>1. Nothing.block = 0 /\ Nothing.index_cap = 0
      BY DEF Nothing
    <3> HIDE DEF Nothing
    <3>2. /\ Cardinality(BlocksBrought)'
                = Cardinality(BlocksBrought) - (IF got[t].block = 1 THEN 1 ELSE 0)
                  + (IF Nothing.block = 1 THEN 1 ELSE 0)
          /\ Cardinality(IndexesBrought)'
                = Cardinality(IndexesBrought) - (IF got[t].index_cap > 0 THEN 1 ELSE 0)
                  + (IF Nothing.index_cap > 0 THEN 1 ELSE 0)
          /\ Cardinality(BlocksBrought) \in Nat /\ Cardinality(IndexesBrought) \in Nat
      BY <1>1, <1>4, BroughtAre
    <3> QED
      BY <3>1, <3>2
  <2>2. index' = index /\ spare' = spare /\ cap' = cap
    BY <1>2 DEF shardVars
  <2>3. Len(index) \in Nat /\ spare \in Nat
    BY IndexTypes DEF IInv, TypeOK, ShapeInv, Tidy
  <2>4. blocks' = Len(index)' + spare' + Cardinality(BlocksBrought)'
    <3>1. blocks = Len(index) + spare + Cardinality(BlocksBrought)
      BY DEF IInv, MemoryInv
    <3>2. Cardinality(BlocksBrought)' = Cardinality(BlocksBrought) - got[t].block
      BY <1>3, <2>1
    <3>3. blocks' = blocks - got[t].block /\ Len(index)' = Len(index)
      BY <1>2, <2>2
    <3> DEFINE n == Len(index)
               c == Cardinality(BlocksBrought)
               g == got[t].block
    <3>4. n \in Nat /\ c \in Nat /\ g \in Nat /\ spare \in Nat
      BY <1>3, <2>1, <2>3
    <3>5. /\ blocks' = (n + spare + c) - g /\ Len(index)' = n
          /\ Cardinality(BlocksBrought)' = c - g
      BY <3>1, <3>2, <3>3, Zenon
    <3> HIDE DEF n, c, g
    <3> QED
      BY <2>2, <3>4, <3>5
  <2>5. indexes' = (IF cap' > 0 THEN 1 ELSE 0) + Cardinality(IndexesBrought)'
    <3>1. indexes = (IF cap > 0 THEN 1 ELSE 0) + Cardinality(IndexesBrought)
      BY DEF IInv, MemoryInv
    <3>2. indexes' = indexes - IF got[t].index_cap > 0 THEN 1 ELSE 0
      BY <1>2
    <3> QED
      BY <1>3, <2>1, <2>2, <3>1, <3>2
  <2> QED
    BY <2>4, <2>5 DEF MemoryInv
<1>8. TypeOK'
  BY <1>2, <1>4, <1>5 DEF IInv, TypeOK, shardVars, exitVars, Parcels
<1> QED
  BY <1>5, <1>6, <1>7, <1>8 DEF IInv
(* The outcomes of an insert: the key is taken or memory is needed, and    *)
(* nothing is linked, or the entry goes to its place.                      *)
LEMMA InsertWaits ==
    ASSUME IInv, NEW t, At(t, "r_insert"), lock' = Nobody,
           NEW label \in {"r_failed", "r_alloc"}, Goto(t, label),
           want' \in [Threads -> Parcels],
           UNCHANGED <<setup, shardVars, refs, held, retained, entry, got, memVars, exitVars>>
    PROVE  IInv'
<1>1. /\ t \in setup.threads /\ t \in Threads /\ pc[t] = "r_insert" /\ setup \in Setups
      /\ entry[t] \in Entries /\ got[t] = Nothing
  BY AtIs DEF Bringing
<1>2. /\ ShapeInv' /\ OwnerInv' /\ RefInv' /\ StepsTo(t, label, entry[t])
      /\ pc' \in [Threads -> PCs] /\ Entries' = Entries
  <2>1. UNCHANGED <<setup, index, refs, held, retained, entry, exitVars>>
    BY DEF shardVars
  <2> QED
    BY <1>1, <2>1, RegistersOn DEF Registering
<1>3. CallInv'
  <2>1. Brings(t, Nothing)
    BY <1>1, BringsNothingNew
  <2> QED
    BY <1>1, <1>2, <2>1, CallAfter DEF IInv
<1>4. MemoryInv'
  BY MemoryKept DEF IInv
<1>5. TypeOK'
  BY <1>2 DEF IInv, TypeOK, shardVars, exitVars, Parcels
<1> QED
  BY <1>2, <1>3, <1>4, <1>5 DEF IInv

LEMMA InsertLinks ==
    ASSUME IInv, NEW t, At(t, "r_insert"), NEW e, e = entry[t], lock' = Nobody,
           find(Key(e)) = NoEntry, Need(Key(e)) = Nothing,
           index' = WithEntry(e), spare' = IF needs_block(Key(e)) THEN 0 ELSE spare,
           held' = held \cup {e}, Done(t),
           UNCHANGED <<setup, cap, want, refs, retained, got, memVars, exitVars>>
    PROVE  IInv'
<1>1. /\ t \in setup.threads /\ t \in Threads /\ pc[t] = "r_insert" /\ setup \in Setups
      /\ e \in Entries /\ got[t] = Nothing
  BY AtIs DEF Bringing
<1>2. StepsTo(t, "idle", NoEntry)
  BY <1>1, DoneIs DEF IInv
<1>3. Entries' = Entries
  BY SameEntries
<1>4. /\ pc[t] \notin Removing /\ pc[t] \in Owning /\ pc[t] \notin Free
      /\ "idle" \notin Removing /\ "idle" \notin Owning /\ "idle" \in Free
  BY <1>1 DEF Removing, Owning, Registering, Free
<1>5. /\ e \notin held \cup retained
      /\ \A u \in setup.threads \ {t} : pc[u] \in Owning => entry[u] # e
  BY <1>1, <1>4 DEF IInv, OwnerInv
<1>6. /\ index' \in Index /\ Sorted(index') /\ Fits(index')
      /\ Len(index') = IF needs_block(Key(e)) THEN Len(index) + 1 ELSE Len(index)
  BY <1>1, OrderedHere, WithEntryIs
<1>7. \A f \in Entries : Holds(index', f) <=> Holds(index, f) \/ f = e
  BY <1>1, OrderedHere, WithEntryIs
<1>8. ShapeInv'
  <2>1. \A f \in Entries : f \in Linked' <=> f \in Linked \/ f = e
    <3> TAKE f \in Entries
    <3>1. f \in Linked <=> f \in held \/ f \in retained \/ OtherRemoves(t, f)
      BY <1>1, <1>2, <1>4, LinkedParts
    <3>2. f \in Linked' <=> f \in held' \/ f \in retained' \/ OtherRemoves(t, f)
      BY <1>1, <1>2, <1>4, LinkedParts
    <3> QED
      BY <3>1, <3>2
  <2>2. \A f \in Entries : Holds(index', f) <=> f \in Linked'
    BY <1>7, <2>1 DEF IInv, ShapeInv
  <2>3. Tidy(index')
    BY <1>6 DEF Tidy
  <2> QED
    BY <2>2, <2>3, ShapeAfter
<1>9. OwnerInv'
  <2>1. held' \cap retained' = {} /\ OwnerInv
    BY <1>5 DEF IInv, OwnerInv
  <2>2. \A u \in setup.threads \ {t} :
          pc[u] \in Owning => entry[u] \notin held' \cup retained'
    BY <1>5 DEF IInv, OwnerInv
  <2> QED
    BY <1>1, <1>2, <1>4, <2>1, <2>2, OwnerAfter
<1>10. RefInv'
  <2>1. \A f \in Entries :
          refs'[f] = Cardinality(Referrers(f))' + IF f \in held' \cup retained' THEN 1 ELSE 0
    <3> TAKE f \in Entries
    <3>1. Cardinality(Referrers(f))' = Cardinality(Referrers(f)) - IF f = e THEN 1 ELSE 0
      BY <1>1, <1>2, <1>4, CountLost
    <3>2. refs[f] = Cardinality(Referrers(f)) + IF f \in held \cup retained THEN 1 ELSE 0
      BY DEF IInv, RefInv
    <3>3. Cardinality(Referrers(f)) \in Nat
      BY <1>1, <1>2, ReferrersAre
    <3> QED
      BY <1>5, <3>1, <3>2, <3>3
  <2> QED
    BY <2>1, RefAfter
<1>11. CallInv'
  <2>1. Brings(t, Nothing)
    BY <1>1, BringsNothingNew
  <2> QED
    BY <1>1, <1>2, <2>1, CallAfter DEF IInv
<1>12. /\ Len(index) \in Nat /\ cap \in Nat /\ Len(index) <= cap /\ spare \in {0, 1}
       /\ INITIAL_INDEX_CAP \in Nat \ {0}
  BY IndexTypes, RouteDirectoryAssumption DEF IInv, TypeOK, ShapeInv, Tidy
<1>13. needs_block(Key(e)) => spare = 1 /\ Len(index) < cap
  <2>1. /\ (IF needs_block(Key(e)) THEN 1 - spare ELSE 0) = 0
        /\ (IF ~ needs_block(Key(e)) \/ Len(index) < cap THEN 0
            ELSE IF cap = 0 THEN INITIAL_INDEX_CAP ELSE 2 * cap) = 0
    BY DEF Need, Nothing
  <2> QED
    BY <1>12, <2>1
<1>14. MemoryInv'
  <2>1. blocks = Len(index) + spare + Cardinality(BlocksBrought)
    BY DEF IInv, MemoryInv
  <2>2. indexes = (IF cap > 0 THEN 1 ELSE 0) + Cardinality(IndexesBrought)
    BY DEF IInv, MemoryInv
  <2>3. /\ Cardinality(BlocksBrought)' = Cardinality(BlocksBrought)
        /\ Cardinality(IndexesBrought)' = Cardinality(IndexesBrought)
    BY DEF BlocksBrought, IndexesBrought
  <2>4. Len(index') + spare' = Len(index) + spare
    BY <1>6, <1>12, <1>13
  <2> QED
    BY <2>1, <2>2, <2>3, <2>4 DEF MemoryInv, memVars
<1>15. TypeOK'
  <2>1. pc' \in [Threads -> PCs] /\ entry' \in [Threads -> Entries \cup {NoEntry}]
    BY DEF IInv, TypeOK, Done, Goto, PCs
  <2>2. Len(index') <= cap' /\ spare' \in {0, 1} /\ index' \in Seq(Seq(Entries))
    BY <1>6, <1>12, <1>13 DEF Index
  <2> QED
    BY <1>1, <1>3, <2>1, <2>2 DEF IInv, TypeOK, exitVars
<1> QED
  BY <1>8, <1>9, <1>10, <1>11, <1>14, <1>15 DEF IInv

LEMMA InsertKeeps ==
    ASSUME IInv, NEW t, Insert(t)
    PROVE  IInv'
<1> DEFINE e == entry[t]
           need == Need(Key(e))
<1>1. /\ At(t, "r_insert") /\ lock' = Nobody
      /\ UNCHANGED <<setup, refs, retained, got, memVars, exitVars>>
  BY DEF Insert
<1>2. IF find(Key(e)) # NoEntry
        THEN Goto(t, "r_failed") /\ UNCHANGED <<shardVars, held, entry, want>>
      ELSE IF need # Nothing
        THEN Goto(t, "r_alloc") /\ want' = [want EXCEPT ![t] = need]
             /\ UNCHANGED <<shardVars, held, entry>>
      ELSE /\ index' = WithEntry(e)
           /\ spare' = IF needs_block(Key(e)) THEN 0 ELSE spare
           /\ held' = held \cup {e}
           /\ Done(t)
           /\ UNCHANGED <<cap, want>>
  BY Zenon DEF Insert
<1>3. want \in [Threads -> Parcels]
  BY DEF IInv, TypeOK, Parcels
<1>4. need \in Parcels
  <2>1. need = [block |-> IF needs_block(Key(e)) THEN 1 - spare ELSE 0,
                index_cap |-> IF ~ needs_block(Key(e)) \/ Len(index) < cap THEN 0
                   ELSE IF cap = 0 THEN INITIAL_INDEX_CAP ELSE 2 * cap]
    BY DEF Need
  <2>2. spare \in {0, 1} /\ cap \in Nat /\ INITIAL_INDEX_CAP \in Nat
    BY RouteDirectoryAssumption DEF IInv, TypeOK
  <2> QED
    BY <2>1, <2>2 DEF Parcels
<1> HIDE DEF need
<1>5. CASE find(Key(e)) # NoEntry
  BY <1>1, <1>2, <1>3, <1>5, InsertWaits
<1>6. CASE find(Key(e)) = NoEntry /\ need # Nothing
  <2>1. want' \in [Threads -> Parcels]
    BY <1>2, <1>3, <1>4, <1>6
  <2> QED
    BY <1>1, <1>2, <1>6, <2>1, InsertWaits
<1>7. CASE find(Key(e)) = NoEntry /\ need = Nothing
  BY <1>1, <1>2, <1>7, InsertLinks DEF need
<1> QED
  BY <1>5, <1>6, <1>7

LEMMA UnlinkKeeps ==
    ASSUME IInv, NEW t, Unlink(t)
    PROVE  IInv'
<1> DEFINE e == entry[t]
           retired == Len(index) - Len(WithoutEntry(e))
           kept == Smaller(1 - spare, retired)
<1>1. /\ t \in setup.threads /\ t \in Threads /\ pc[t] = "d_remove" /\ setup \in Setups
      /\ e \in Entries /\ got[t] = Nothing
  BY AtIs DEF Unlink, Bringing
<1>2. /\ lock' = Nobody
      /\ UNCHANGED <<setup, cap, refs, held, retained, callVars, indexes, exitVars>>
  BY DEF Unlink
<1>3. Holds(index, e)
  <2>1. e \in Linked
    BY <1>1, LinkedIs DEF Removing
  <2> QED
    BY <1>1, <2>1 DEF IInv, ShapeInv
<1>4. find(Key(e)) = e
  BY <1>1, <1>3, OrderedHere, EntryKeys, FindIs
<1>5. /\ index' = WithoutEntry(e) /\ spare' = spare + kept
      /\ blocks' = blocks - (retired - kept) /\ Goto(t, "d_release")
  BY <1>4 DEF Unlink
<1>6. Tidy(index') /\ Len(index) - Len(index') \in Nat
  BY <1>1, <1>3, <1>5, OrderedHere, WithoutEntryIs
<1>7. \A f \in Entries : Holds(index', f) <=> Holds(index, f) /\ f # e
  BY <1>1, <1>3, <1>5, OrderedHere, WithoutEntryIs
<1>8. retired = Len(index) - Len(index')
  BY <1>5
<1> HIDE DEF retired
<1>9. StepsTo(t, "d_release", e)
  BY <1>1, <1>2, <1>5, GotoIs DEF IInv, callVars
<1>10. Entries' = Entries
  BY <1>2, SameEntries
<1>11. /\ pc[t] \in Removing /\ pc[t] \in Owning /\ pc[t] \notin Free
       /\ "d_release" \notin Removing /\ "d_release" \in Owning /\ "d_release" \notin Free
  BY <1>1 DEF Removing, Owning, Registering, Free
<1>12. /\ e \notin held \cup retained
       /\ \A u \in setup.threads \ {t} : pc[u] \in Owning => entry[u] # e
  BY <1>1, <1>11 DEF IInv, OwnerInv
<1>13. ShapeInv'
  <2>1. ~ OtherRemoves(t, e)
    BY <1>12 DEF OtherRemoves, Owning
  <2>2. \A f \in Entries : f \in Linked' <=> f \in Linked /\ f # e
    <3> TAKE f \in Entries
    <3>1. f \in Linked <=> f \in held \/ f \in retained \/ f = e \/ OtherRemoves(t, f)
      BY <1>1, <1>9, <1>11, LinkedParts
    <3>2. f \in Linked' <=> f \in held' \/ f \in retained' \/ OtherRemoves(t, f)
      BY <1>1, <1>9, <1>11, LinkedParts
    <3> QED
      BY <1>2, <1>12, <2>1, <3>1, <3>2
  <2>3. \A f \in Entries : Holds(index', f) <=> f \in Linked'
    BY <1>7, <2>2 DEF IInv, ShapeInv
  <2> QED
    BY <1>2, <1>6, <2>3, ShapeAfter
<1>14. OwnerInv'
  <2>1. held' \cap retained' = {} /\ OwnerInv /\ e \notin held' \cup retained'
    BY <1>2, <1>12 DEF IInv, OwnerInv
  <2>2. \A u \in setup.threads \ {t} :
          pc[u] \in Owning => entry[u] \notin held' \cup retained'
    BY <1>2 DEF IInv, OwnerInv
  <2> QED
    BY <1>1, <1>9, <1>12, <2>1, <2>2, OwnerAfter
<1>15. RefInv'
  <2>1. \A f \in Entries :
          refs'[f] = Cardinality(Referrers(f))' + IF f \in held' \cup retained' THEN 1 ELSE 0
    <3> TAKE f \in Entries
    <3>1. Cardinality(Referrers(f))' = Cardinality(Referrers(f))
      BY <1>1, <1>9, <1>11, CountKept
    <3>2. refs[f] = Cardinality(Referrers(f)) + IF f \in held \cup retained THEN 1 ELSE 0
      BY DEF IInv, RefInv
    <3> QED
      BY <1>2, <3>1, <3>2
  <2> QED
    BY <1>2, <2>1, RefAfter
<1>16. CallInv'
  <2>1. Brings(t, Nothing)
    BY <1>1, <1>2, BringsNothingNew DEF callVars
  <2> QED
    BY <1>1, <1>9, <2>1, CallAfter DEF IInv
<1>17. /\ Len(index) \in Nat /\ Len(index') \in Nat /\ cap \in Nat /\ Len(index) <= cap
       /\ spare \in {0, 1} /\ retired \in Nat
  <2>1. index \in Index /\ index' \in Index
    BY <1>6 DEF IInv, ShapeInv, Tidy
  <2> QED
    BY <1>6, <1>8, <2>1, IndexTypes DEF IInv, TypeOK
<1>18. kept \in Nat /\ spare' \in {0, 1} /\ spare' = spare + kept
  BY <1>5, <1>17 DEF Smaller
<1> HIDE DEF kept
<1>19. MemoryInv'
  <2>1. blocks = Len(index) + spare + Cardinality(BlocksBrought)
    BY DEF IInv, MemoryInv
  <2>2. indexes = (IF cap > 0 THEN 1 ELSE 0) + Cardinality(IndexesBrought)
    BY DEF IInv, MemoryInv
  <2>3. /\ Cardinality(BlocksBrought)' = Cardinality(BlocksBrought)
        /\ Cardinality(IndexesBrought)' = Cardinality(IndexesBrought)
    BY <1>2 DEF BlocksBrought, IndexesBrought, callVars
  <2>4. Cardinality(BlocksBrought) \in Nat
    <3>1. BlocksBrought \in SUBSET Threads /\ IsFiniteSet(Threads)
      BY <1>1, ThreadsAre DEF BlocksBrought
    <3> QED
      BY <3>1, FS_Subset, FS_CardinalityType
  <2>5. blocks' = Len(index') + spare' + Cardinality(BlocksBrought)'
    <3> DEFINE n == Len(index)
               m == Len(index')
               c == Cardinality(BlocksBrought)
    <3>1. n \in Nat /\ m \in Nat /\ c \in Nat /\ retired = n - m
      BY <1>8, <1>17, <2>4
    <3>2. blocks = n + spare + c /\ Cardinality(BlocksBrought)' = c
      BY <2>1, <2>3
    <3>3. blocks' = blocks - (retired - kept)
      BY <1>5
    <3> HIDE DEF n, m, c
    <3>4. blocks' = m + spare' + c
      BY <1>17, <1>18, <3>1, <3>2, <3>3
    <3> QED
      BY <3>2, <3>4 DEF m
  <2> QED
    BY <1>2, <2>2, <2>3, <2>5 DEF MemoryInv
<1>20. TypeOK'
  <2>1. pc' \in [Threads -> PCs]
    BY <1>5 DEF IInv, TypeOK, Goto, PCs
  <2>2. Len(index') <= cap' /\ index' \in Seq(Seq(Entries))
    <3>1. Len(index') <= cap
      BY <1>6, <1>17
    <3> QED
      BY <1>2, <1>6, <3>1 DEF Tidy, Index
  <2> QED
    BY <1>2, <1>10, <1>18, <2>1, <2>2 DEF IInv, TypeOK, exitVars, callVars
<1> QED
  BY <1>13, <1>14, <1>15, <1>16, <1>19, <1>20 DEF IInv
LEMMA StutterKeeps ==
    ASSUME IInv, UNCHANGED <<setup, shardVars, lock, refs, held, retained, pc, callVars, memVars>>,
           exiting' \in Threads \cup {Nobody}, killed' \subseteq Threads
    PROVE  IInv'
<1>1. /\ setup' = setup /\ index' = index /\ cap' = cap /\ spare' = spare /\ lock' = lock
      /\ refs' = refs /\ held' = held /\ retained' = retained /\ pc' = pc
      /\ entry' = entry /\ want' = want /\ got' = got /\ blocks' = blocks
      /\ indexes' = indexes /\ Entries' = Entries /\ BLOCK_CAP' = BLOCK_CAP
  BY SameEntries DEF shardVars, callVars, memVars
<1>2. Linked' = Linked
  BY <1>1 DEF Linked
<1>3. ShapeInv'
  BY <1>1, <1>2 DEF IInv, ShapeInv, Tidy, Index, Sorted, Fits, Holds, Precedes, Key
<1>4. CallInv'
  BY <1>1 DEF IInv, CallInv
<1>5. OwnerInv'
  BY <1>1 DEF IInv, OwnerInv
<1>6. RefInv'
  BY <1>1 DEF IInv, RefInv, Referrers
<1>7. MemoryInv'
  BY <1>1 DEF IInv, MemoryInv, BlocksBrought, IndexesBrought
<1>8. TypeOK'
  BY <1>1 DEF IInv, TypeOK
<1> QED
  BY <1>3, <1>4, <1>5, <1>6, <1>7, <1>8 DEF IInv

LEMMA InitHolds == Init => IInv
<1> SUFFICES ASSUME Init PROVE IInv
  OBVIOUS
<1>1. /\ setup \in Setups /\ index = <<>> /\ cap = 0 /\ spare = 0 /\ lock = Nobody
      /\ refs = [e \in Entries |-> 0] /\ held = {} /\ retained = {}
      /\ pc = [t \in Threads |-> "idle"] /\ entry = [t \in Threads |-> NoEntry]
      /\ want = [t \in Threads |-> Nothing] /\ got = [t \in Threads |-> Nothing]
      /\ blocks = 0 /\ indexes = 0 /\ exiting = Nobody /\ killed = {}
  BY DEF Init
<1>2. setup.threads \subseteq Threads
  BY <1>1, ThreadsAre
<1>3. Len(index) = 0 /\ index \in Index
  BY <1>1 DEF Index
<1>4. TypeOK
  <2>1. "idle" \in PCs /\ Nothing \in [block : {0, 1}, index_cap : Nat]
    BY DEF PCs, Nothing
  <2> QED
    BY <1>1, <1>3, <2>1 DEF TypeOK, Index
<1>5. ShapeInv
  <2>1. Tidy(index) /\ \A e \in Entries : ~ Holds(index, e)
    BY <1>3 DEF Tidy, Sorted, Fits, Holds
  <2>2. \A e : e \notin Linked
    <3> TAKE e
    <3>1. \A u \in setup.threads : pc[u] \notin Removing
      BY <1>1, <1>2 DEF Removing
    <3> QED
      BY <1>1, <3>1, LinkedIs
  <2> QED
    BY <2>1, <2>2 DEF ShapeInv
<1>6. CallInv
  BY <1>1, <1>2 DEF CallInv
<1>7. OwnerInv
  BY <1>1, <1>2 DEF OwnerInv, Owning, Registering, Removing
<1>8. RefInv
  <2>1. ASSUME NEW e \in Entries PROVE Referrers(e) = {}
    BY <1>1, <1>2 DEF Referrers, Free
  <2> QED
    <3>1. ASSUME NEW e \in Entries
          PROVE  refs[e] = Cardinality(Referrers(e)) + IF e \in held \cup retained THEN 1 ELSE 0
      <4>1. Cardinality(Referrers(e)) = 0
        BY <2>1, FS_EmptySet
      <4> QED
        BY <1>1, <4>1
    <3> QED
      BY <3>1 DEF RefInv
<1>9. MemoryInv
  <2>1. BlocksBrought = {} /\ IndexesBrought = {}
    BY <1>1 DEF BlocksBrought, IndexesBrought, Nothing
  <2> QED
    BY <1>1, <1>3, <2>1, FS_EmptySet DEF MemoryInv
<1> QED
  BY <1>4, <1>5, <1>6, <1>7, <1>8, <1>9 DEF IInv

LEMMA StepKeeps ==
    ASSUME IInv, NEW t, Step(t)
    PROVE  IInv'
<1>1. CASE Lock(t, "r_lock", "r_insert", "r_failed")
  <2>1. "r_lock" \in PCs /\ "r_insert" \in PCs /\ "r_failed" \in PCs /\ "r_lock" # "idle"
    BY DEF PCs
  <2>2. \A l \in {"r_insert", "r_failed"} :
             /\ l \in Free <=> "r_lock" \in Free
             /\ l \in Removing <=> "r_lock" \in Removing
             /\ l \in Owning <=> "r_lock" \in Owning
             /\ l \in Bringing <=> "r_lock" \in Bringing
             /\ l # "fatal" /\ l # "idle"
    BY DEF Free, Owning, Registering, Removing, Bringing
  <2> QED
    BY <1>1, <2>1, <2>2, LockKeeps
<1>2. CASE Lock(t, "i_lock", "r_install", "i_given_up")
  <2>1. "i_lock" \in PCs /\ "r_install" \in PCs /\ "i_given_up" \in PCs /\ "i_lock" # "idle"
    BY DEF PCs
  <2>2. \A l \in {"r_install", "i_given_up"} :
             /\ l \in Free <=> "i_lock" \in Free
             /\ l \in Removing <=> "i_lock" \in Removing
             /\ l \in Owning <=> "i_lock" \in Owning
             /\ l \in Bringing <=> "i_lock" \in Bringing
             /\ l # "fatal" /\ l # "idle"
    BY DEF Free, Owning, Registering, Removing, Bringing
  <2> QED
    BY <1>2, <2>1, <2>2, LockKeeps
<1>3. CASE Lock(t, "l_lock", "l_find", "l_given_up")
  <2>1. "l_lock" \in PCs /\ "l_find" \in PCs /\ "l_given_up" \in PCs /\ "l_lock" # "idle"
    BY DEF PCs
  <2>2. \A l \in {"l_find", "l_given_up"} :
             /\ l \in Free <=> "l_lock" \in Free
             /\ l \in Removing <=> "l_lock" \in Removing
             /\ l \in Owning <=> "l_lock" \in Owning
             /\ l \in Bringing <=> "l_lock" \in Bringing
             /\ l # "fatal" /\ l # "idle"
    BY DEF Free, Owning, Registering, Removing, Bringing
  <2> QED
    BY <1>3, <2>1, <2>2, LockKeeps
<1>4. CASE Lock(t, "d_lock", "d_remove", "d_given_up")
  <2>1. "d_lock" \in PCs /\ "d_remove" \in PCs /\ "d_given_up" \in PCs /\ "d_lock" # "idle"
    BY DEF PCs
  <2>2. \A l \in {"d_remove", "d_given_up"} :
             /\ l \in Free <=> "d_lock" \in Free
             /\ l \in Removing <=> "d_lock" \in Removing
             /\ l \in Owning <=> "d_lock" \in Owning
             /\ l \in Bringing <=> "d_lock" \in Bringing
             /\ l # "fatal" /\ l # "idle"
    BY DEF Free, Owning, Registering, Removing, Bringing
  <2> QED
    BY <1>4, <2>1, <2>2, LockKeeps
<1>5. CASE Insert(t)
  BY <1>5, InsertKeeps
<1>6. CASE Allocate(t)
  BY <1>6, AllocateKeeps
<1>7. CASE RegisterFailed(t)
  BY <1>7, DropsKeep DEF RegisterFailed
<1>8. CASE Install(t)
  BY <1>8, InstallKeeps
<1>9. CASE InstallGivenUp(t)
  BY <1>9, InstallGivenUpKeeps
<1>10. CASE Find(t)
  BY <1>10, FindKeeps
<1>11. CASE LookupGivenUp(t)
  BY <1>11, LeavesLookup DEF LookupGivenUp
<1>12. CASE Unpin(t)
  BY <1>12, DropsKeep DEF Unpin
<1>13. CASE Unlink(t)
  BY <1>13, UnlinkKeeps
<1>14. CASE Release(t)
  BY <1>14, DropsKeep DEF Release
<1>15. CASE RemoveGivenUp(t)
  BY <1>15, RemoveGivenUpKeeps
<1> QED
  BY <1>1, <1>2, <1>3, <1>4, <1>5, <1>6, <1>7, <1>8, <1>9, <1>10, <1>11, <1>12, <1>13,
     <1>14, <1>15 DEF Step

LEMMA NextKeeps == IInv /\ [Next]_vars => IInv'
<1> SUFFICES ASSUME IInv, [Next]_vars PROVE IInv'
  OBVIOUS
<1>1. CASE UNCHANGED vars
  <2>1. /\ UNCHANGED <<setup, shardVars, lock, refs, held, retained, pc, callVars, memVars>>
        /\ UNCHANGED exitVars
    BY <1>1 DEF vars
  <2>2. exiting' \in Threads \cup {Nobody} /\ killed' \subseteq Threads
    BY <2>1 DEF IInv, TypeOK, exitVars
  <2> QED
    BY <2>1, <2>2, StutterKeeps
<1>2. ASSUME NEW t \in Threads, Step(t) PROVE IInv'
  BY <1>2, StepKeeps
<1>3. ASSUME NEW t \in Threads, ExitProcess(t) PROVE IInv'
  <2>1. exiting' \in Threads \cup {Nobody} /\ killed' \subseteq Threads
    BY <1>3, ThreadsAre DEF IInv, TypeOK, ExitProcess
  <2> QED
    BY <1>3, <2>1, StutterKeeps DEF ExitProcess
<1>4. ASSUME NEW t \in Threads, NEW key \in Keys, Register(t, key) PROVE IInv'
  BY <1>4, RegisterKeeps
<1>5. ASSUME NEW t \in Threads, NEW key \in setup.pinned, Lookup(t, key) PROVE IInv'
  BY <1>5, LookupKeeps
<1>6. ASSUME NEW t \in Threads, NEW e \in Entries, Deregister(t, e) PROVE IInv'
  BY <1>6, DeregisterKeeps
<1> QED
  BY <1>1, <1>2, <1>3, <1>4, <1>5, <1>6 DEF Next

LEMMA InvariantMeans == IInv => DirectoryIsSound
<1> SUFFICES ASSUME IInv PROVE DirectoryIsSound
  OBVIOUS
<1>1. setup \in Setups /\ index \in Index /\ Sorted(index) /\ Fits(index) /\ TypeOK
  BY DEF IInv, TypeOK, ShapeInv, Tidy
<1>2. DOMAIN index = 1 .. Len(index)
  BY <1>1, LenProperties DEF Index
<1>3. Linked = {e \in Entries : Holds(index, e)}
  <2>1. \A e \in Linked : e \in Entries
    BY LinkedIsEntry
  <2> QED
    BY <2>1 DEF IInv, ShapeInv
<1>4. RouteIsFound
  <2>1. ASSUME NEW e \in Linked PROVE find(Key(e)) = e
    <3>1. e \in Entries /\ Holds(index, e)
      BY <1>3
    <3> QED
      BY <1>1, <3>1, OrderedHere, EntryKeys, FindIs
  <2>2. \A b \in DOMAIN index : Len(index[b]) \in 1 .. BLOCK_CAP
    BY <1>1, <1>2 DEF Fits
  <2>3. Sum([b \in DOMAIN index |-> Len(index[b])]) = Cardinality(Linked)
    BY <1>1, <1>3, EntriesCounted
  <2> QED
    BY <2>1, <2>2, <2>3 DEF RouteIsFound
<1>5. RefsAreExact
  <2>1. \A e \in Entries :
         refs[e] = Cardinality({t \in setup.threads :
                                  entry[t] = e /\ pc[t] \notin {"idle", "l_lock", "l_find",
                                                                "l_given_up"}})
                   + IF e \in held \cup retained THEN 1 ELSE 0
    BY DEF IInv, RefInv, Referrers, Free
  <2>2. ASSUME NEW b \in DOMAIN index, NEW i \in DOMAIN index[b] PROVE refs[index[b][i]] > 0
    <3>1. b \in 1 .. Len(index)
      BY <1>2
    <3>2. index[b] \in Seq(Entries)
      BY <1>1, <3>1, IndexTypes
    <3>3. i \in 1 .. Len(index[b])
      BY <3>2, LenProperties
    <3>4. index[b][i] \in Entries /\ Holds(index, index[b][i])
      BY <1>1, <3>1, <3>3, IndexTypes DEF Holds
    <3>5. index[b][i] \in Linked
      BY <1>3, <3>4
    <3> QED
      BY <3>4, <3>5, LinkedReferred
  <2>3. \A t \in Threads : pc[t] # "fatal"
    BY DEF IInv, CallInv
  <2> QED
    BY <2>1, <2>2, <2>3 DEF RefsAreExact
<1>6. MemoryIsAccounted
  BY <1>1, <1>5 DEF MemoryIsAccounted, IInv, MemoryInv, BlocksBrought, IndexesBrought
<1> QED
  BY <1>4, <1>6 DEF DirectoryIsSound

(* Whatever registers, looks up and unregisters, and wherever the process  *)
(* exit stops the others: the shard finds every linked entry and nothing   *)
(* else in blocks that are neither empty nor too full, no entry is freed   *)
(* that the shard or a pin leads to, and every block and index array the   *)
(* system has given out is in the shard or on its way there (Shard::find,  *)
(* insert, install, remove; EntryHandle::drop).                            *)
THEOREM DirectoryStaysSound == Spec => []DirectoryIsSound
<1>1. Spec => []IInv
  BY InitHolds, NextKeeps, PTL DEF Spec
<1> QED
  BY <1>1, InvariantMeans, PTL

-----------------------------------------------------------------------------
(* The exact-object table, for any number of threads and addresses, any    *)
(* hash and any first capacity of two or more.                             *)

(* An array whose probes find what is in it: no address has two buckets,   *)
(* and no EMPTY one lies between an address and where its probe starts.    *)
Probes(table, n) ==
    /\ table \in [0 .. n - 1 -> Addrs \cup {EMPTY, TOMB}]
    /\ \A i, j \in 0 .. n - 1 : table[i] = table[j] /\ table[i] \in Addrs => i = j
    /\ \A i, j \in 0 .. n - 1 :
         table[i] \in Addrs /\ Table!Far(table[i], n, j) < Table!Far(table[i], n, i)
           => table[j] # EMPTY

Taken(table) == {i \in DOMAIN table : table[i] # EMPTY}
Described(table) == {i \in DOMAIN table : table[i] \in Addrs}

(* The buckets are counted, and some are EMPTY.                            *)
SlotsInv ==
    /\ Table!cap \in Nat \ {1}
    /\ Probes(slots, Table!cap)
    /\ used = Cardinality(Taken(slots))
    /\ live = Cardinality(Described(slots)) /\ live_hint = live
    /\ Table!cap > 0 => used < Table!cap

Known == {slots[i] : i \in Described(slots)}

HolderPcs == {"insert", "reg_release", "oom_release", "take", "take_release", "miss_release"}
RegPcs == {"reg_lock", "reg_spin", "insert", "oom_release", "reg_failed"}
TakePcs == {"take_hint", "take_lock", "take_spin", "take"}
TakenPcs == {"take_release", "sys_free"}

CallTypes ==
    /\ xlock \in Threads \cup {Nobody}
    /\ block \in [Addrs -> Table!Origin]
    /\ xexiting \in Threads \cup {Nobody}
    /\ xkilled \subseteq Threads
    /\ xpc \in [Threads -> Table!PCs]
    /\ addr \in [Threads -> Addrs \cup {EMPTY}]

(* One thread at a time has the lock, and one the block it is about.       *)
HoldersInv ==
    \A t \in Threads :
        /\ xlock = t <=> xpc[t] \in HolderPcs
        /\ xpc[t] = "idle" <=> addr[t] = EMPTY
        /\ \A u \in Threads : addr[t] = addr[u] /\ addr[t] # EMPTY => t = u

(* What a call knows of its block.                                         *)
TableCall(t) ==
    LET a == addr[t]
    IN  /\ xpc[t] # "fatal"
        /\ xpc[t] \in RegPcs => block[a] = "busy" /\ a \notin Known
        /\ xpc[t] = "reg_release" => block[a] = "exact"
        /\ xpc[t] \in TakePcs => block[a] \in {"exact", "plain", "heap"}
        /\ xpc[t] \in TakenPcs => block[a] = "exact" /\ a \notin Known
        /\ xpc[t] = "miss_release" => block[a] \in {"plain", "heap"}
        /\ xpc[t] = "heap_free" => /\ block[a] \in {"exact", "plain", "heap"}
                                   /\ xexiting = Nobody => block[a] = "heap"

(* The descriptors against the blocks.  One that could not be taken at     *)
(* process exit stays behind, with its block.                              *)
BlockInv(a) ==
    /\ a \in Known => block[a] \in {"exact", "busy"}
    /\ block[a] = "exact" =>
         a \in Known \/ \E t \in Threads : addr[t] = a /\ xpc[t] \in TakenPcs
    /\ block[a] = "plain" => xexiting # Nobody

TableInv ==
    /\ SlotsInv /\ CallTypes /\ HoldersInv
    /\ \A t \in Threads : TableCall(t)
    /\ \A a \in Addrs : BlockInv(a)

LEMMA TableFacts ==
    /\ EMPTY \notin Addrs /\ TOMB \notin Addrs /\ EMPTY # TOMB /\ EMPTY \notin Nat
    /\ Nobody \notin Threads /\ hash \in [Addrs -> Nat] /\ INIT_CAP \in Nat \ {0, 1}
BY TableAssumed DEF TableAssumed, Table!ExactAssumption

(* ExactObject's copy of an operator of the library.                       *)
LEMMA SameCardinality == ASSUME NEW S PROVE Table!Cardinality(S) = Cardinality(S)
BY DEF Table!Cardinality, Cardinality

(* How a number is made of a multiple of n and what is left.               *)
LEMMA SameRest ==
    ASSUME NEW n \in Nat \ {0}, NEW x \in Int, NEW y \in Int, x % n = y % n,
           x - y < n, y - x < n
    PROVE  x = y
<1> DEFINE p == x \div n
           q == y \div n
<1>1. p \in Int /\ q \in Int /\ x = n * p + (x % n) /\ y = n * q + (y % n)
  OBVIOUS
<1> HIDE DEF p, q
<1>2. x % n \in Int /\ y % n \in Int
  OBVIOUS
<1>3. x - y = n * (p - q)
  <2>1. n * p - n * q = n * (p - q)
    BY <1>1
  <2> QED
    BY <1>1, <1>2, <2>1
<1>4. CASE p - q >= 1
  <2>1. n * (p - q) >= n
    BY <1>1, <1>4
  <2> QED
    BY <1>3, <2>1
<1>5. CASE q - p >= 1
  <2>1. n * (q - p) >= n
    BY <1>1, <1>5
  <2>2. n * (q - p) = y - x
    BY <1>1, <1>3
  <2> QED
    BY <2>1, <2>2
<1>6. CASE p = q
  BY <1>1, <1>3, <1>6
<1> QED
  BY <1>1, <1>4, <1>5, <1>6

LEMMA FarTyped ==
    ASSUME NEW n \in Nat \ {0}, NEW a \in Addrs, NEW i \in 0 .. n - 1
    PROVE  Table!Far(a, n, i) \in 0 .. n - 1
BY TableFacts DEF Table!Far

LEMMA FarInjective ==
    ASSUME NEW n \in Nat \ {0}, NEW a \in Addrs, NEW i \in 0 .. n - 1, NEW j \in 0 .. n - 1,
           Table!Far(a, n, i) = Table!Far(a, n, j)
    PROVE  i = j
<1>1. hash[a] \in Nat
  BY TableFacts
<1> DEFINE x == i - hash[a]
           y == j - hash[a]
<1>2. x \in Int /\ y \in Int /\ x - y < n /\ y - x < n
  BY <1>1
<1>3. x % n = y % n
  BY DEF Table!Far
<1>4. x = y
  <2> HIDE DEF x, y
  <2> QED
    BY <1>2, <1>3, SameRest
<1> QED
  BY <1>1, <1>4

LEMMA FirstIs ==
    ASSUME NEW n \in Nat \ {0}, NEW a \in Addrs, NEW S \in SUBSET (0 .. n - 1), S # {}
    PROVE  /\ Table!FirstFrom(a, n, S) \in S
           /\ \A j \in S : Table!Far(a, n, Table!FirstFrom(a, n, S)) <= Table!Far(a, n, j)
<1> DEFINE D == {Table!Far(a, n, i) : i \in S}
<1>0. \A i \in S : Table!Far(a, n, i) \in Nat
  BY FarTyped
<1>1. D \in SUBSET Nat /\ D # {}
  BY <1>0
<1>2. PICK d \in D : \A e \in D : d <= e
  BY <1>1, HasLeast
<1>3. PICK i \in S : d = Table!Far(a, n, i)
  BY <1>2
<1>4. \A j \in S : Table!Far(a, n, i) <= Table!Far(a, n, j)
  BY <1>2, <1>3
<1> QED
  BY <1>3, <1>4 DEF Table!FirstFrom

LEMMA SomeEmpty ==
    ASSUME NEW n \in Nat, NEW table, DOMAIN table = 0 .. n - 1,
           Cardinality(Taken(table)) < n
    PROVE  \E i \in 0 .. n - 1 : table[i] = EMPTY
<1> SUFFICES ASSUME \A i \in 0 .. n - 1 : table[i] # EMPTY
             PROVE  FALSE
  OBVIOUS
<1>1. Taken(table) = 0 .. n - 1
  BY DEF Taken
<1>2. Cardinality(0 .. n - 1) = n
  BY FS_Interval
<1> QED
  BY <1>1, <1>2

(* The entries are buckets, and the buckets are finitely many.             *)
LEMMA BucketsFinite ==
    ASSUME NEW n \in Nat, NEW table, DOMAIN table = 0 .. n - 1
    PROVE  /\ Cardinality(0 .. n - 1) = n
           /\ IsFiniteSet(Taken(table)) /\ IsFiniteSet(Described(table))
           /\ Cardinality(Described(table)) <= Cardinality(Taken(table))
           /\ Cardinality(Described(table)) \in Nat /\ Cardinality(Taken(table)) \in Nat
<1>1. IsFiniteSet(0 .. n - 1) /\ Cardinality(0 .. n - 1) = n
  BY FS_Interval
<1>2. Described(table) \subseteq Taken(table) /\ Taken(table) \subseteq 0 .. n - 1
  BY TableFacts DEF Described, Taken
<1> QED
  BY <1>1, <1>2, FS_Subset, FS_CardinalityType

(* A probe finds an address exactly when it has a bucket.                  *)
LEMMA FindsListed ==
    ASSUME SlotsInv, NEW a \in Addrs
    PROVE  /\ Table!find(a) # EMPTY <=> a \in Known
           /\ Table!find(a) # EMPTY =>
                Table!find(a) \in DOMAIN slots /\ slots[Table!find(a)] = a
<1> DEFINE n == Table!cap
           S == Table!Is(slots, {EMPTY, a})
           i == Table!FirstFrom(a, n, S)
<1>0. n \in Nat /\ DOMAIN slots = 0 .. n - 1
  BY DEF SlotsInv, Probes
<1>1. CASE n = 0
  <2>1. DOMAIN slots = {}
    BY <1>0, <1>1
  <2> QED
    BY <1>1, <2>1 DEF Table!find, Known, Described
<1>2. CASE n # 0
  <2>1. S \in SUBSET (0 .. n - 1)
    BY <1>0 DEF Table!Is
  <2>2. S # {}
    <3>1. \E e \in 0 .. n - 1 : slots[e] = EMPTY
      BY <1>0, <1>2, SomeEmpty DEF SlotsInv
    <3> QED
      BY <1>0, <3>1 DEF Table!Is
  <2>3. i \in S /\ \A j \in S : Table!Far(a, n, i) <= Table!Far(a, n, j)
    BY <1>0, <1>2, <2>1, <2>2, FirstIs
  <2>4. i \in 0 .. n - 1 /\ slots[i] \in {EMPTY, a} /\ i # EMPTY
    BY <1>0, <2>1, <2>3, TableFacts DEF Table!Is
  <2>5. Table!find(a) = IF slots[i] = a THEN i ELSE EMPTY
    BY <1>2 DEF Table!find
  <2>6. ASSUME a \in Known
        PROVE  slots[i] = a
    <3>1. PICK k \in 0 .. n - 1 : slots[k] = a
      BY <1>0, <2>6 DEF Known, Described
    <3>2. k \in S
      BY <1>0, <3>1 DEF Table!Is
    <3>3. Table!Far(a, n, i) <= Table!Far(a, n, k)
      BY <2>3, <3>2
    <3>4. CASE Table!Far(a, n, i) = Table!Far(a, n, k)
      BY <1>0, <1>2, <2>4, <3>1, <3>4, FarInjective
    <3>5. CASE Table!Far(a, n, i) # Table!Far(a, n, k)
      <4>1. Table!Far(a, n, i) < Table!Far(a, n, k)
        BY <1>0, <1>2, <2>4, <3>3, <3>5, FarTyped
      <4>2. slots[i] # EMPTY
        BY <2>4, <3>1, <4>1 DEF SlotsInv, Probes
      <4> QED
        BY <2>4, <4>2
    <3> QED
      BY <3>4, <3>5
  <2>7. slots[i] = a => a \in Known
    BY <1>0, <2>4 DEF Known, Described
  <2> HIDE DEF i
  <2> QED
    BY <1>0, <2>4, <2>5, <2>6, <2>7
<1> QED
  BY <1>1, <1>2

(* Bucket b may take a: it holds no address, and no EMPTY bucket lies on   *)
(* the way to it.                                                          *)
MayGo(table, n, a, b) ==
    /\ b \in 0 .. n - 1 /\ table[b] \in {EMPTY, TOMB}
    /\ \A j \in 0 .. n - 1 :
         Table!Far(a, n, j) < Table!Far(a, n, b) => table[j] # EMPTY

Put(table, a, b) == [table EXCEPT ![b] = a]

LEMMA PutProbes ==
    ASSUME NEW n \in Nat \ {0}, NEW table, Probes(table, n), NEW a \in Addrs,
           \A i \in 0 .. n - 1 : table[i] # a,
           NEW b, MayGo(table, n, a, b)
    PROVE  /\ Probes(Put(table, a, b), n)
           /\ Taken(Put(table, a, b)) = Taken(table) \cup {b}
           /\ Described(Put(table, a, b)) = Described(table) \cup {b}
           /\ b \notin Described(table)
<1> DEFINE new == Put(table, a, b)
<1>1. /\ table \in [0 .. n - 1 -> Addrs \cup {EMPTY, TOMB}] /\ b \in 0 .. n - 1
      /\ new \in [0 .. n - 1 -> Addrs \cup {EMPTY, TOMB}]
      /\ \A i \in 0 .. n - 1 : new[i] = IF i = b THEN a ELSE table[i]
  BY DEF Probes, MayGo, Put
<1>2. table[b] \notin Addrs /\ a # EMPTY
  BY TableFacts DEF MayGo
<1> HIDE DEF new
<1>3. \A i, j \in 0 .. n - 1 : new[i] = new[j] /\ new[i] \in Addrs => i = j
  BY <1>1 DEF Probes
<1>4. ASSUME NEW i \in 0 .. n - 1, NEW j \in 0 .. n - 1, new[i] \in Addrs,
             Table!Far(new[i], n, j) < Table!Far(new[i], n, i)
      PROVE  new[j] # EMPTY
  <2>1. CASE i = b
    BY <1>1, <1>2, <1>4, <2>1 DEF MayGo
  <2>2. CASE i # b
    BY <1>1, <1>2, <1>4, <2>2 DEF Probes
  <2> QED
    BY <2>1, <2>2
<1>5. Probes(new, n)
  BY <1>1, <1>3, <1>4 DEF Probes
<1>6. Taken(new) = Taken(table) \cup {b} /\ Described(new) = Described(table) \cup {b}
  BY <1>1, <1>2 DEF Taken, Described
<1> QED
  BY <1>2, <1>5, <1>6 DEF new, Described

(* The first EMPTY bucket, and the one that insert finds.                  *)
LEMMA FirstEmptyMayGo ==
    ASSUME NEW n \in Nat \ {0}, NEW table, DOMAIN table = 0 .. n - 1, NEW a \in Addrs,
           \E i \in 0 .. n - 1 : table[i] = EMPTY
    PROVE  LET b == Table!FirstFrom(a, n, Table!Is(table, {EMPTY}))
           IN  MayGo(table, n, a, b) /\ table[b] = EMPTY
<1> DEFINE S == Table!Is(table, {EMPTY})
           b == Table!FirstFrom(a, n, S)
<1>1. S \in SUBSET (0 .. n - 1) /\ S # {}
  BY DEF Table!Is
<1>2. b \in S /\ \A j \in S : Table!Far(a, n, b) <= Table!Far(a, n, j)
  BY <1>1, FirstIs
<1>3. b \in 0 .. n - 1 /\ table[b] = EMPTY
  BY <1>1, <1>2 DEF Table!Is
<1>4. ASSUME NEW j \in 0 .. n - 1, Table!Far(a, n, j) < Table!Far(a, n, b)
      PROVE  table[j] # EMPTY
  <2>1. Table!Far(a, n, b) \in 0 .. n - 1 /\ Table!Far(a, n, j) \in 0 .. n - 1
    <3> HIDE DEF b
    <3> QED
      BY <1>3, FarTyped
  <2>2. j \notin S
    <3> HIDE DEF b, S
    <3> QED
      BY <1>2, <1>4, <2>1
  <2> QED
    BY <2>2 DEF Table!Is
<1> HIDE DEF b
<1>5. MayGo(table, n, a, b)
  BY <1>3, <1>4 DEF MayGo
<1> QED
  BY <1>3, <1>5 DEF b

LEMMA BucketMayGo ==
    ASSUME NEW n \in Nat \ {0}, NEW table, DOMAIN table = 0 .. n - 1, NEW a \in Addrs,
           \E i \in 0 .. n - 1 : table[i] = EMPTY
    PROVE  MayGo(table, n, a, Table!Bucket(table, a))
<1> DEFINE stop == Table!FirstFrom(a, n, Table!Is(table, {EMPTY}))
           between == {i \in Table!Is(table, {TOMB}) :
                         Table!Far(a, n, i) < Table!Far(a, n, stop)}
           first == Table!FirstFrom(a, n, between)
<1>0. Table!Cardinality(DOMAIN table) = n
  BY BucketsFinite, SameCardinality
<1>1. MayGo(table, n, a, stop) /\ table[stop] = EMPTY
  BY FirstEmptyMayGo
<1>2. Table!Bucket(table, a) = IF between = {} THEN stop ELSE first
  BY <1>0 DEF Table!Bucket
<1>3. ASSUME between # {}
      PROVE  MayGo(table, n, a, first)
  <2>1. between \in SUBSET (0 .. n - 1)
    BY DEF Table!Is
  <2>2. first \in between
    <3> HIDE DEF between
    <3> QED
      BY <1>3, <2>1, FirstIs
  <2>3. /\ first \in 0 .. n - 1 /\ table[first] = TOMB
        /\ Table!Far(a, n, first) < Table!Far(a, n, stop)
    <3> HIDE DEF first
    <3> QED
      BY <2>2 DEF Table!Is
  <2> HIDE DEF first, stop, between
  <2>4. ASSUME NEW j \in 0 .. n - 1, Table!Far(a, n, j) < Table!Far(a, n, first)
        PROVE  table[j] # EMPTY
    <3>1. Table!Far(a, n, j) < Table!Far(a, n, stop)
      <4>1. stop \in 0 .. n - 1
        BY <1>1 DEF MayGo
      <4> QED
        BY <2>3, <2>4, <4>1, FarTyped
    <3> QED
      BY <1>1, <3>1 DEF MayGo
  <2> QED
    BY <2>3, <2>4 DEF MayGo
<1> HIDE DEF first, stop, between
<1> QED
  BY <1>1, <1>2, <1>3

(* A TOMB in the place of an address.                                      *)
LEMMA TombProbes ==
    ASSUME NEW n \in Nat \ {0}, NEW table, Probes(table, n), NEW b \in 0 .. n - 1,
           table[b] \in Addrs
    PROVE  /\ Probes(Put(table, TOMB, b), n)
           /\ Taken(Put(table, TOMB, b)) = Taken(table)
           /\ Described(Put(table, TOMB, b)) = Described(table) \ {b}
<1> DEFINE new == Put(table, TOMB, b)
<1>1. /\ table \in [0 .. n - 1 -> Addrs \cup {EMPTY, TOMB}]
      /\ new \in [0 .. n - 1 -> Addrs \cup {EMPTY, TOMB}]
      /\ \A i \in 0 .. n - 1 : new[i] = IF i = b THEN TOMB ELSE table[i]
  BY DEF Probes, Put
<1>2. TOMB \notin Addrs /\ TOMB # EMPTY /\ table[b] # EMPTY
  BY TableFacts
<1> HIDE DEF new
<1>3. Probes(new, n)
  BY <1>1, <1>2 DEF Probes
<1>4. Taken(new) = Taken(table) /\ Described(new) = Described(table) \ {b}
  BY <1>1, <1>2 DEF Taken, Described
<1> QED
  BY <1>3, <1>4 DEF new

-----------------------------------------------------------------------------
(* The new array.  A function that looks at one bucket after the other     *)
(* exists, by induction on their number.                                   *)

Begun == [j \in 0 .. Table!NewCap - 1 |-> EMPTY]

Refills(h, k) ==
    h = [i \in 0 .. k |-> IF i = 0 THEN Begun ELSE Table!Place(h[i - 1], slots[i - 1])]

LEMMA RefillGrows ==
    ASSUME NEW k \in Nat \ {0}, NEW h, Refills(h, k - 1)
    PROVE  \E g : Refills(g, k)
<1> DEFINE g == [i \in 0 .. k |-> IF i = k THEN Table!Place(h[k - 1], slots[k - 1])
                                  ELSE h[i]]
<1>1. \A i \in 0 .. k - 1 :
         h[i] = IF i = 0 THEN Begun ELSE Table!Place(h[i - 1], slots[i - 1])
  BY Zenon DEF Refills
<1>2. ASSUME NEW i \in 0 .. k
      PROVE  g[i] = IF i = 0 THEN Begun ELSE Table!Place(g[i - 1], slots[i - 1])
  <2>1. CASE i = k
    <3>1. k - 1 \in 0 .. k /\ k - 1 # k /\ k # 0
      OBVIOUS
    <3> QED
      BY <2>1, <3>1
  <2>2. CASE i # k /\ i # 0
    <3>1. i \in 0 .. k - 1 /\ i - 1 \in 0 .. k /\ i - 1 # k
      BY <2>2
    <3> QED
      BY <1>1, <2>2, <3>1
  <2>3. CASE i # k /\ i = 0
    <3>1. i \in 0 .. k - 1
      BY <2>3
    <3> QED
      BY <1>1, <2>3, <3>1
  <2> QED
    BY <2>1, <2>2, <2>3
<1>3. g = [i \in 0 .. k |-> g[i]]
  OBVIOUS
<1> HIDE DEF g
<1>4. g = [i \in 0 .. k |-> IF i = 0 THEN Begun ELSE Table!Place(g[i - 1], slots[i - 1])]
  BY <1>2, <1>3, Zenon
<1> QED
  BY <1>4, Zenon DEF Refills

LEMMA RefillBegins == \E g : Refills(g, 0)
<1> DEFINE g == [i \in 0 .. 0 |-> Begun]
<1>1. g = [i \in 0 .. 0 |-> IF i = 0 THEN Begun ELSE Table!Place(g[i - 1], slots[i - 1])]
  OBVIOUS
<1> QED
  BY <1>1, Zenon DEF Refills

LEMMA RefillExists == ASSUME NEW k \in Nat PROVE \E h : Refills(h, k)
<1> DEFINE Bad == {i \in Nat : ~ \E h : Refills(h, i)}
<1> SUFFICES ASSUME Bad # {}
             PROVE  FALSE
  OBVIOUS
<1>1. PICK i \in Bad : \A j \in Bad : i <= j
  <2>1. Bad \in SUBSET Nat
    OBVIOUS
  <2> HIDE DEF Bad
  <2> QED
    BY <2>1, HasLeast
<1>2. i \in Nat /\ ~ \E h : Refills(h, i)
  BY <1>1
<1>3. i # 0
  BY <1>2, RefillBegins
<1>4. i - 1 \in Nat /\ i - 1 \notin Bad
  <2>1. i - 1 \in Nat /\ ~ (i <= i - 1)
    BY <1>2, <1>3
  <2> HIDE DEF Bad
  <2> QED
    BY <1>1, <2>1
<1>5. PICK h : Refills(h, i - 1)
  BY <1>4
<1> QED
  BY <1>2, <1>3, <1>5, RefillGrows

LEMMA RefilledIs ==
    ASSUME Table!cap \in Nat
    PROVE  Refills(Table!Refilled, Table!cap)
<1>1. PICK h : Refills(h, Table!cap)
  BY RefillExists
<1> QED
  BY <1>1, Zenon DEF Refills, Begun, Table!Refilled

(* What the first i buckets leave: their addresses and nothing else, one   *)
(* bucket for each.                                                        *)
Sources(i) == {k \in 0 .. i - 1 : slots[k] \in Addrs}

RefilledTo(table, i) ==
    /\ Probes(table, Table!NewCap)
    /\ \A j \in 0 .. Table!NewCap - 1 : table[j] # TOMB
    /\ \A a \in Addrs : (\E j \in 0 .. Table!NewCap - 1 : table[j] = a)
                          <=> \E k \in 0 .. i - 1 : slots[k] = a
    /\ Cardinality(Described(table)) = Cardinality(Sources(i))

LEMMA RefillOne ==
    ASSUME SlotsInv, Table!NewCap \in Nat \ {0}, live < Table!NewCap,
           NEW i \in 0 .. Table!cap - 1, NEW table, RefilledTo(table, i)
    PROVE  RefilledTo(Table!Place(table, slots[i]), i + 1)
<1> DEFINE m == Table!NewCap
           n == Table!cap
           e == slots[i]
           b == Table!FirstFrom(e, m, Table!Is(table, {EMPTY}))
<1>1. /\ n \in Nat /\ DOMAIN slots = 0 .. n - 1
      /\ m \in Nat \ {0} /\ DOMAIN table = 0 .. m - 1
      /\ e \in Addrs \cup {EMPTY, TOMB}
      /\ \A j \in 0 .. m - 1 : table[j] \in Addrs \cup {EMPTY, TOMB}
  BY DEF SlotsInv, Probes, RefilledTo
<1>2. Table!Cardinality(DOMAIN table) = m
  BY <1>1, BucketsFinite, SameCardinality
<1>3. \A k \in 0 .. (i + 1) - 1 : k \in 0 .. i - 1 \/ k = i
  BY <1>1
<1>4. i \in 0 .. (i + 1) - 1 /\ \A k \in 0 .. i - 1 : k \in 0 .. (i + 1) - 1 /\ k # i
  BY <1>1
<1>5. CASE e \notin Addrs
  <2>1. Table!Place(table, e) = table
    BY <1>5 DEF Table!Place
  <2>2. Sources(i + 1) = Sources(i)
    BY <1>3, <1>4, <1>5 DEF Sources
  <2>3. ASSUME NEW a \in Addrs
        PROVE  (\E k \in 0 .. i - 1 : slots[k] = a)
                 <=> \E k \in 0 .. (i + 1) - 1 : slots[k] = a
    BY <1>3, <1>4, <1>5
  <2> QED
    BY <2>1, <2>2, <2>3 DEF RefilledTo
<1>6. CASE e \in Addrs
  <2>1. Table!Place(table, e) = Put(table, e, b)
    BY <1>2, <1>6, Zenon DEF Table!Place, Put
  <2>2. \A j \in 0 .. m - 1 : table[j] # e
    <3>1. \A k \in 0 .. i - 1 : slots[k] # e
      BY <1>1, <1>6 DEF SlotsInv, Probes
    <3> QED
      BY <1>6, <3>1 DEF RefilledTo
  <2>3. /\ Sources(i + 1) = Sources(i) \cup {i} /\ i \notin Sources(i)
        /\ Sources(i + 1) \subseteq Described(slots)
    BY <1>1, <1>3, <1>4, <1>6 DEF Sources, Described
  <2>4. /\ IsFiniteSet(Sources(i)) /\ Cardinality(Sources(i)) \in Nat
        /\ Cardinality(Sources(i + 1)) = Cardinality(Sources(i)) + 1
        /\ Cardinality(Sources(i + 1)) <= live /\ live \in Nat
    <3>1. /\ IsFiniteSet(Described(slots)) /\ live = Cardinality(Described(slots))
          /\ live \in Nat
      BY <1>1, BucketsFinite DEF SlotsInv
    <3>2. IsFiniteSet(Sources(i + 1)) /\ Cardinality(Sources(i + 1)) <= live
      BY <2>3, <3>1, FS_Subset
    <3>3. IsFiniteSet(Sources(i))
      BY <2>3, <3>2, FS_Subset
    <3> QED
      BY <2>3, <3>1, <3>2, <3>3, FS_AddElement, FS_CardinalityType
  <2>5. Taken(table) = Described(table)
    BY <1>1, TableFacts DEF Taken, Described, RefilledTo
  <2>6. \E j \in 0 .. m - 1 : table[j] = EMPTY
    <3>1. Cardinality(Taken(table)) < m
      BY <1>1, <2>4, <2>5 DEF RefilledTo
    <3> QED
      BY <1>1, <3>1, SomeEmpty
  <2>7. MayGo(table, m, e, b)
    BY <1>1, <1>6, <2>6, FirstEmptyMayGo
  <2> HIDE DEF b
  <2>8. /\ Probes(Put(table, e, b), m)
        /\ Described(Put(table, e, b)) = Described(table) \cup {b}
        /\ b \notin Described(table)
    BY <1>1, <1>6, <2>2, <2>7, PutProbes DEF RefilledTo
  <2>9. b \in 0 .. m - 1 /\ \A j \in 0 .. m - 1 : Put(table, e, b)[j] = IF j = b THEN e ELSE table[j]
    BY <1>1, <2>7 DEF MayGo, Put
  <2>10. Cardinality(Described(Put(table, e, b))) = Cardinality(Sources(i + 1))
    <3>1. IsFiniteSet(Described(table))
      BY <1>1, BucketsFinite
    <3>2. Cardinality(Described(table) \cup {b}) = Cardinality(Described(table)) + 1
      BY <2>8, <3>1, FS_AddElement
    <3> QED
      BY <2>4, <2>8, <3>2 DEF RefilledTo
  <2>11. \A j \in 0 .. m - 1 : Put(table, e, b)[j] # TOMB
    BY <1>6, <2>9, TableFacts DEF RefilledTo
  <2>12. ASSUME NEW a \in Addrs
         PROVE  (\E j \in 0 .. m - 1 : Put(table, e, b)[j] = a)
                   <=> \E k \in 0 .. (i + 1) - 1 : slots[k] = a
    <3>1. CASE a = e
      BY <1>4, <2>9, <3>1
    <3>2. CASE a # e
      <4>1. (\E j \in 0 .. m - 1 : Put(table, e, b)[j] = a) <=> \E j \in 0 .. m - 1 : table[j] = a
        <5>1. table[b] # a
          BY <2>7, TableFacts DEF MayGo
        <5> QED
          BY <2>9, <3>2, <5>1
      <4>2. (\E k \in 0 .. i - 1 : slots[k] = a) <=> \E k \in 0 .. (i + 1) - 1 : slots[k] = a
        BY <1>3, <1>4, <3>2
      <4> QED
        BY <4>1, <4>2 DEF RefilledTo
    <3> QED
      BY <3>1, <3>2
  <2> QED
    BY <2>1, <2>8, <2>10, <2>11, <2>12 DEF RefilledTo
<1> QED
  BY <1>5, <1>6

LEMMA RefillNone ==
    ASSUME Table!NewCap \in Nat \ {0}
    PROVE  RefilledTo(Begun, 0)
<1>1. Begun \in [0 .. Table!NewCap - 1 -> {EMPTY}]
  BY DEF Begun
<1>2. Described(Begun) = {} /\ Sources(0) = {}
  BY <1>1, TableFacts DEF Described, Sources
<1>3. Probes(Begun, Table!NewCap)
  BY <1>1, TableFacts DEF Probes
<1>4. \A j \in 0 .. Table!NewCap - 1 : Begun[j] = EMPTY
  BY <1>1
<1>5. \A k : k \notin 0 .. 0 - 1
  OBVIOUS
<1>6. Cardinality(Described(Begun)) = Cardinality(Sources(0))
  BY <1>2
<1> QED
  BY <1>3, <1>4, <1>5, <1>6, TableFacts DEF RefilledTo

LEMMA RefilledRight ==
    ASSUME SlotsInv, Table!NewCap \in Nat \ {0}, live < Table!NewCap
    PROVE  RefilledTo(Table!Rehashed, Table!cap)
<1> DEFINE n == Table!cap
           Bad == {i \in Nat : i <= n /\ ~ RefilledTo(Table!Refilled[i], i)}
<1>0. n \in Nat
  BY DEF SlotsInv
<1>1. /\ Table!Refilled[0] = Begun
      /\ \A i \in 0 .. n - 1 : Table!Refilled[i + 1] = Table!Place(Table!Refilled[i], slots[i])
  <2>1. Refills(Table!Refilled, n)
    BY <1>0, RefilledIs
  <2>2. \A i \in 0 .. n : Table!Refilled[i] =
           IF i = 0 THEN Begun ELSE Table!Place(Table!Refilled[i - 1], slots[i - 1])
    BY <2>1, Zenon DEF Refills
  <2>3. 0 \in 0 .. n /\ \A i \in 0 .. n - 1 : i + 1 \in 0 .. n /\ i + 1 # 0 /\ (i + 1) - 1 = i
    BY <1>0
  <2> QED
    BY <2>2, <2>3
<1>2. Bad = {}
  <2> SUFFICES ASSUME Bad # {}
               PROVE  FALSE
    OBVIOUS
  <2>1. PICK i \in Bad : \A j \in Bad : i <= j
    <3>1. Bad \in SUBSET Nat
      OBVIOUS
    <3> HIDE DEF Bad
    <3> QED
      BY <3>1, HasLeast
  <2>2. i \in Nat /\ i <= n /\ ~ RefilledTo(Table!Refilled[i], i)
    BY <2>1
  <2>3. i # 0
    BY <1>1, <2>2, RefillNone
  <2>4. i - 1 \in 0 .. n - 1 /\ (i - 1) + 1 = i
    BY <1>0, <2>2, <2>3
  <2>5. RefilledTo(Table!Refilled[i - 1], i - 1)
    <3>1. i - 1 \notin Bad
      <4>1. ~ (i <= i - 1)
        BY <2>2
      <4> HIDE DEF Bad
      <4> QED
        BY <2>1, <4>1
    <3> QED
      BY <1>0, <2>4, <3>1
  <2>6. RefilledTo(Table!Place(Table!Refilled[i - 1], slots[i - 1]), (i - 1) + 1)
    BY <2>4, <2>5, RefillOne
  <2>7. Table!Refilled[(i - 1) + 1] = Table!Place(Table!Refilled[i - 1], slots[i - 1])
    BY <1>1, <2>4
  <2> QED
    BY <2>2, <2>4, <2>6, <2>7
<1> QED
  BY <1>0, <1>2 DEF Table!Rehashed

-----------------------------------------------------------------------------
(* The steps that change the array.                                        *)

LEMMA CapIs ==
    ASSUME NEW n \in Nat, DOMAIN slots = 0 .. n - 1
    PROVE  Table!cap = n
BY BucketsFinite, SameCardinality DEF Table!cap

LEMMA NewCapRight ==
    ASSUME SlotsInv, Table!MustRehash
    PROVE  Table!NewCap \in Nat \ {0, 1} /\ live + 1 < Table!NewCap /\ live \in Nat
<1> DEFINE n == Table!cap
<1>1. n \in Nat \ {1} /\ DOMAIN slots = 0 .. n - 1
  BY DEF SlotsInv, Probes
<1>2. live \in Nat /\ used \in Nat /\ live <= used /\ (n > 0 => used < n)
  BY <1>1, BucketsFinite DEF SlotsInv
<1>3. n = 0 => live = 0
  <2>1. n = 0 => Described(slots) = {}
    BY <1>1 DEF Described
  <2> QED
    BY <2>1, FS_EmptySet DEF SlotsInv
<1> HIDE DEF n
<1>4. CASE n = 0
  BY <1>2, <1>3, <1>4, TableFacts DEF Table!NewCap, n
<1>5. CASE n # 0 /\ live * 2 >= n
  BY <1>1, <1>2, <1>5 DEF Table!NewCap, n
<1>6. CASE n # 0 /\ ~ (live * 2 >= n)
  <2>1. Table!NewCap = n
    BY <1>6 DEF Table!NewCap, n
  <2>2. n >= 2 /\ live * 2 < n
    BY <1>1, <1>2, <1>6
  <2> QED
    BY <1>1, <1>2, <2>1, <2>2
<1> QED
  BY <1>4, <1>5, <1>6

(* What insert puts the address into: it has room, and is as the old array *)
(* when there is no new one.                                               *)
Target == IF Table!MustRehash THEN Table!Rehashed ELSE slots
TargetCap == IF Table!MustRehash THEN Table!NewCap ELSE Table!cap
TargetUsed == IF Table!MustRehash THEN live ELSE used

LEMMA TargetRight ==
    ASSUME SlotsInv
    PROVE  /\ TargetCap \in Nat \ {0, 1} /\ Probes(Target, TargetCap)
           /\ \A a \in Addrs : (\E j \in 0 .. TargetCap - 1 : Target[j] = a) <=> a \in Known
           /\ TargetUsed = Cardinality(Taken(Target)) /\ live = Cardinality(Described(Target))
           /\ TargetUsed + 1 < TargetCap
<1> DEFINE n == Table!cap
<1>1. n \in Nat \ {1} /\ DOMAIN slots = 0 .. n - 1
  BY DEF SlotsInv, Probes
<1>2. live \in Nat /\ used \in Nat
  BY <1>1, BucketsFinite DEF SlotsInv
<1>3. \A a \in Addrs : (\E j \in 0 .. n - 1 : slots[j] = a) <=> a \in Known
  BY <1>1 DEF Known, Described
<1>4. CASE ~ Table!MustRehash
  <2>1. (used + 1) * 4 <= n * 3
    BY <1>1, <1>2, <1>4 DEF Table!MustRehash
  <2>2. used + 1 < n /\ n # 0
    BY <1>1, <1>2, <2>1
  <2> QED
    BY <1>1, <1>3, <1>4, <2>2 DEF SlotsInv, Target, TargetCap, TargetUsed
<1>5. CASE Table!MustRehash
  <2> DEFINE m == Table!NewCap
             new == Table!Rehashed
  <2>1. m \in Nat \ {0, 1} /\ live + 1 < m
    BY <1>5, NewCapRight
  <2>2. RefilledTo(new, n)
    <3>1. live < m /\ m \in Nat \ {0}
      BY <1>2, <2>1
    <3> QED
      BY <3>1, RefilledRight
  <2>3. Sources(n) = Described(slots)
    BY <1>1 DEF Sources, Described
  <2>4. Taken(new) = Described(new)
    BY <2>2, TableFacts DEF RefilledTo, Probes, Taken, Described
  <2>5. live = Cardinality(Described(new)) /\ live = Cardinality(Taken(new))
    BY <2>2, <2>3, <2>4 DEF RefilledTo, SlotsInv
  <2>6. \A a \in Addrs : (\E j \in 0 .. m - 1 : new[j] = a) <=> a \in Known
    BY <1>3, <2>2 DEF RefilledTo
  <2>7. Probes(new, m)
    BY <2>2 DEF RefilledTo
  <2> HIDE DEF new, m
  <2>8. Target = new /\ TargetCap = m /\ TargetUsed = live
    BY <1>5 DEF Target, TargetCap, TargetUsed, new, m
  <2> QED
    BY <2>1, <2>5, <2>6, <2>7, <2>8
<1> QED
  BY <1>4, <1>5

LEMMA InsertSlots ==
    ASSUME SlotsInv, NEW a \in Addrs, a \notin Known,
           slots' = Put(Target, a, Table!Bucket(Target, a)),
           used' = TargetUsed + Table!NewlyUsed(Target[Table!Bucket(Target, a)]),
           live' = live + 1, live_hint' = live'
    PROVE  SlotsInv' /\ Known' = Known \cup {a}
<1> DEFINE n == TargetCap
           T == Target
           b == Table!Bucket(Target, a)
<1>1. /\ n \in Nat \ {0, 1} /\ Probes(T, n) /\ DOMAIN T = 0 .. n - 1
      /\ \A c \in Addrs : (\E j \in 0 .. n - 1 : T[j] = c) <=> c \in Known
      /\ TargetUsed = Cardinality(Taken(T)) /\ live = Cardinality(Described(T))
      /\ TargetUsed + 1 < n
  BY TargetRight DEF Probes
<1>2. TargetUsed \in Nat /\ live \in Nat /\ IsFiniteSet(Taken(T)) /\ IsFiniteSet(Described(T))
  BY <1>1, BucketsFinite
<1>3. \E i \in 0 .. n - 1 : T[i] = EMPTY
  <2>1. Cardinality(Taken(T)) < n
    BY <1>1, <1>2
  <2> QED
    BY <1>1, <2>1, SomeEmpty
<1>4. MayGo(T, n, a, b)
  BY <1>1, <1>3, BucketMayGo
<1> HIDE DEF b
<1>5. slots' = Put(T, a, b) /\ used' = TargetUsed + Table!NewlyUsed(T[b])
  BY DEF b
<1>6. \A i \in 0 .. n - 1 : T[i] # a
  BY <1>1
<1> HIDE DEF T, n
<1>7. /\ Probes(slots', n)
      /\ Taken(slots') = Taken(T) \cup {b} /\ Described(slots') = Described(T) \cup {b}
      /\ b \notin Described(T)
  BY <1>1, <1>4, <1>5, <1>6, PutProbes
<1>8. Table!cap' = n
  <2>1. DOMAIN slots' = 0 .. n - 1
    BY <1>7 DEF Probes
  <2>2. Table!cap' = Table!Cardinality(DOMAIN slots')
    BY DEF Table!cap
  <2> QED
    BY <1>1, <2>1, <2>2, BucketsFinite, SameCardinality
<1>9. live' = Cardinality(Described(slots'))
  BY <1>1, <1>2, <1>7, FS_AddElement
<1>10. used' = Cardinality(Taken(slots')) /\ used' <= TargetUsed + 1
  <2>1. CASE T[b] = EMPTY
    <3>1. b \notin Taken(T)
      BY <2>1 DEF Taken
    <3>2. used' = TargetUsed + 1
      BY <1>5, <2>1 DEF Table!NewlyUsed
    <3>3. Cardinality(Taken(T) \cup {b}) = Cardinality(Taken(T)) + 1
      BY <1>2, <3>1, FS_AddElement
    <3> QED
      BY <1>1, <1>2, <1>7, <3>2, <3>3
  <2>2. CASE T[b] # EMPTY
    <3>1. b \in Taken(T)
      BY <1>1, <1>4, <2>2 DEF Taken, MayGo
    <3>2. used' = TargetUsed
      BY <1>2, <1>5, <2>2 DEF Table!NewlyUsed
    <3>3. Taken(slots') = Taken(T)
      BY <1>7, <3>1
    <3> QED
      BY <1>1, <1>2, <3>2, <3>3
  <2> QED
    BY <2>1, <2>2
<1>11. SlotsInv'
  <2>1. used' < n /\ n \in Nat \ {1}
    <3>1. used' \in Nat
      BY <1>2, <1>5 DEF Table!NewlyUsed
    <3> QED
      BY <1>1, <1>2, <1>10, <3>1
  <2> QED
    BY <1>7, <1>8, <1>9, <1>10, <2>1 DEF SlotsInv
<1>12. Known' = Known \cup {a}
  <2>0. b \in 0 .. n - 1 /\ T \in [0 .. n - 1 -> Addrs \cup {EMPTY, TOMB}]
    BY <1>1, <1>4 DEF MayGo, Probes
  <2>1. \A j \in 0 .. n - 1 : slots'[j] = IF j = b THEN a ELSE T[j]
    BY <1>5, <2>0 DEF Put
  <2>2. \A j : j \in Described(T) <=> j \in 0 .. n - 1 /\ T[j] \in Addrs
    BY <1>1 DEF Described
  <2>3. \A c \in Known : c \in Addrs
    BY DEF Known, Described
  <2>4. \A c : c \in Known' <=> \E j \in Described(slots') : slots'[j] = c
    BY DEF Known
  <2>5. ASSUME NEW c \in Known'
        PROVE  c \in Known \cup {a}
    <3>1. PICK j \in Described(slots') : slots'[j] = c
      BY <2>4, <2>5
    <3>2. CASE j = b
      BY <2>0, <2>1, <3>1, <3>2
    <3>3. CASE j # b
      <4>1. j \in 0 .. n - 1 /\ T[j] \in Addrs
        BY <1>7, <2>2, <3>1, <3>3
      <4> QED
        BY <1>1, <2>1, <3>1, <3>3, <4>1
    <3> QED
      BY <3>2, <3>3
  <2>6. ASSUME NEW c \in Known
        PROVE  c \in Known'
    <3>1. PICK j \in 0 .. n - 1 : T[j] = c /\ c \in Addrs
      BY <1>1, <2>3, <2>6
    <3>2. j \in Described(T) /\ j # b
      BY <1>7, <2>2, <3>1
    <3> QED
      BY <1>7, <2>1, <2>4, <3>1, <3>2
  <2>7. a \in Known'
    <3>1. b \in Described(slots') /\ slots'[b] = a
      BY <1>7, <2>0, <2>1
    <3> QED
      BY <2>4, <3>1
  <2> QED
    BY <2>5, <2>6, <2>7
<1> QED
  BY <1>11, <1>12

LEMMA TakeSlots ==
    ASSUME SlotsInv, NEW i \in DOMAIN slots, slots[i] \in Addrs,
           slots' = Put(slots, TOMB, i), used' = used, live' = live - 1, live_hint' = live'
    PROVE  SlotsInv' /\ Known' = Known \ {slots[i]}
<1> DEFINE n == Table!cap
<1>1. n \in Nat \ {1} /\ DOMAIN slots = 0 .. n - 1 /\ Probes(slots, n) /\ n # 0
  BY DEF SlotsInv, Probes
<1>2. /\ Probes(slots', n) /\ Taken(slots') = Taken(slots)
      /\ Described(slots') = Described(slots) \ {i}
  BY <1>1, TombProbes
<1>3. Table!cap' = n
  <2>1. DOMAIN slots' = 0 .. n - 1
    BY <1>2 DEF Probes
  <2>2. Table!cap' = Table!Cardinality(DOMAIN slots')
    BY DEF Table!cap
  <2> HIDE DEF n
  <2> QED
    BY <1>1, <2>1, <2>2, BucketsFinite, SameCardinality
<1>4. live' = Cardinality(Described(slots'))
  <2>1. i \in Described(slots) /\ IsFiniteSet(Described(slots))
    BY <1>1, BucketsFinite DEF Described
  <2>2. Cardinality(Described(slots) \ {i}) = Cardinality(Described(slots)) - 1
    BY <2>1, FS_RemoveElement
  <2> QED
    BY <1>2, <2>2 DEF SlotsInv
<1> HIDE DEF n
<1>5. SlotsInv'
  <2>1. used = Cardinality(Taken(slots)) /\ (n > 0 => used < n)
    BY DEF SlotsInv, n
  <2> QED
    BY <1>1, <1>2, <1>3, <1>4, <2>1 DEF SlotsInv
<1>6. Known' = Known \ {slots[i]}
  <2>1. \A j \in 0 .. n - 1 : slots'[j] = IF j = i THEN TOMB ELSE slots[j]
    BY <1>1 DEF Put, Probes
  <2>2. \A j \in Described(slots) : j \in 0 .. n - 1 /\ (slots[j] = slots[i] => j = i)
    BY <1>1 DEF Described, Probes
  <2>3. \A c : c \in Known' <=> \E j \in Described(slots') : slots'[j] = c
    BY DEF Known
  <2>4. \A c : c \in Known <=> \E j \in Described(slots) : slots[j] = c
    BY DEF Known
  <2>5. \A c : c \in Known' <=> c \in Known \ {slots[i]}
    BY <1>2, <2>1, <2>2, <2>3, <2>4
  <2> QED
    BY <2>5
<1> QED
  BY <1>5, <1>6

-----------------------------------------------------------------------------
(* The calls.                                                              *)

CallsInv ==
    /\ CallTypes /\ HoldersInv
    /\ \A t \in Threads : TableCall(t)
    /\ \A a \in Addrs : BlockInv(a)

SameSlots == UNCHANGED <<Table!innerVars, live_hint>>

LEMMA KeepSlots == SlotsInv /\ SameSlots => SlotsInv' /\ Known' = Known
<1> SUFFICES ASSUME SlotsInv, SameSlots
             PROVE  SlotsInv' /\ Known' = Known
  OBVIOUS
<1>1. slots' = slots /\ used' = used /\ live' = live /\ live_hint' = live_hint
  BY DEF SameSlots, Table!innerVars
<1>2. Table!cap' = Table!cap
  BY <1>1 DEF Table!cap
<1> QED
  BY <1>1, <1>2 DEF SlotsInv, Known

(* The empty table knows no address, so a call that reads a hint of zero   *)
(* has a block without a descriptor.                                       *)
LEMMA NoHint == SlotsInv /\ live_hint = 0 => Known = {}
<1> SUFFICES ASSUME SlotsInv, live_hint = 0
             PROVE  Described(slots) = {}
  BY DEF Known
<1>1. IsFiniteSet(Described(slots)) /\ Cardinality(Described(slots)) = 0
  <2>1. Table!cap \in Nat /\ DOMAIN slots = 0 .. Table!cap - 1
    BY DEF SlotsInv, Probes
  <2> QED
    BY <2>1, BucketsFinite DEF SlotsInv
<1> QED
  BY <1>1, FS_EmptySet

(* A step of one thread that moves its label, and perhaps changes what it  *)
(* holds, its block and its descriptor.  The lock, the addresses and the   *)
(* other threads first; then each side of the step says the rest.          *)
Moves(t) ==
    /\ CallTypes'
    /\ xpc' = [xpc EXCEPT ![t] = xpc'[t]]
    /\ addr' = [addr EXCEPT ![t] = addr'[t]]
    /\ \A a \in Addrs \ {addr[t], addr'[t]} :
         block'[a] = block[a] /\ (a \in Known' <=> a \in Known)
    /\ UNCHANGED xexiting

LEMMA OthersKeep ==
    ASSUME CallsInv, NEW t \in Threads, Moves(t), NEW u \in Threads \ {t},
           \A v \in Threads \ {t} : addr[v] # addr'[t] \/ addr'[t] = EMPTY
    PROVE  TableCall(u)'
<1>1. xpc'[u] = xpc[u] /\ addr'[u] = addr[u] /\ xexiting' = xexiting
  BY DEF Moves, CallsInv, CallTypes
<1>2. xpc[u] = "idle" <=> addr[u] = EMPTY
  BY DEF CallsInv, HoldersInv
<1>3. CASE addr[u] = EMPTY
  BY <1>1, <1>2, <1>3 DEF TableCall, RegPcs, TakePcs, TakenPcs
<1>4. CASE addr[u] # EMPTY
  <2>1. addr[u] \in Addrs \ {addr[t], addr'[t]}
    BY <1>4, TableFacts DEF CallsInv, CallTypes, HoldersInv
  <2>2. block'[addr[u]] = block[addr[u]] /\ (addr[u] \in Known' <=> addr[u] \in Known)
    BY <2>1 DEF Moves
  <2>3. TableCall(u)
    BY DEF CallsInv
  <2> QED
    BY <1>1, <2>2, <2>3 DEF TableCall
<1> QED
  BY <1>3, <1>4

LEMMA BlocksKeep ==
    ASSUME CallsInv, NEW t \in Threads, Moves(t), NEW a \in Addrs \ {addr[t], addr'[t]}
    PROVE  BlockInv(a)'
<1>1. block'[a] = block[a] /\ (a \in Known' <=> a \in Known) /\ xexiting' = xexiting
  BY DEF Moves
<1>2. BlockInv(a)
  BY DEF CallsInv
<1>3. ASSUME NEW u \in Threads, addr[u] = a, xpc[u] \in TakenPcs
      PROVE  \E v \in Threads : addr'[v] = a /\ xpc'[v] \in TakenPcs
  <2>1. u # t
    BY <1>3
  <2> QED
    BY <1>3, <2>1 DEF Moves, CallsInv, CallTypes
<1> QED
  BY <1>1, <1>2, <1>3 DEF BlockInv

(* The lock: a step takes it, gives it up or leaves it alone.              *)
LEMMA HoldersKeep ==
    ASSUME CallsInv, NEW t \in Threads, Moves(t),
           \A v \in Threads \ {t} : addr[v] # addr'[t] \/ addr'[t] = EMPTY,
           xpc'[t] = "idle" <=> addr'[t] = EMPTY,
           \/ /\ xlock' = xlock
              /\ xpc[t] \in HolderPcs <=> xpc'[t] \in HolderPcs
           \/ xlock = Nobody /\ xlock' = t /\ xpc'[t] \in HolderPcs
           \/ xpc[t] \in HolderPcs /\ xlock' = Nobody /\ xpc'[t] \notin HolderPcs
    PROVE  HoldersInv'
<1>1. \A u \in Threads \ {t} : xpc'[u] = xpc[u] /\ addr'[u] = addr[u]
  BY DEF Moves, CallsInv, CallTypes
<1>2. Nobody \notin Threads
  BY TableFacts
<1> USE DEF CallsInv, HoldersInv
<1>3. \A u \in Threads : xlock' = u <=> xpc'[u] \in HolderPcs
  BY <1>1, <1>2
<1>4. \A u \in Threads : xpc'[u] = "idle" <=> addr'[u] = EMPTY
  BY <1>1
<1>5. \A u, v \in Threads : addr'[u] = addr'[v] /\ addr'[u] # EMPTY => u = v
  BY <1>1
<1> QED
  BY <1>3, <1>4, <1>5

(* What is left to show of a step: its own label and block.                *)
LEMMA CallsKept ==
    ASSUME CallsInv, NEW t \in Threads, Moves(t), TableCall(t)',
           \A v \in Threads \ {t} : addr[v] # addr'[t] \/ addr'[t] = EMPTY,
           \A a \in Addrs \cap {addr[t], addr'[t]} : BlockInv(a)',
           HoldersInv'
    PROVE  CallsInv'
<1>1. \A u \in Threads : TableCall(u)'
  BY OthersKeep
<1>2. \A a \in Addrs : BlockInv(a)'
  BY BlocksKeep
<1>3. CallTypes'
  BY DEF Moves
<1> QED
  BY <1>1, <1>2, <1>3 DEF CallsInv

(* A step of a call that runs: it moves its label and perhaps the lock.    *)
LockMoves(t) ==
    \/ /\ xlock' = xlock
       /\ xpc[t] \in HolderPcs <=> xpc'[t] \in HolderPcs
    \/ xlock = Nobody /\ xlock' = t /\ xpc'[t] \in HolderPcs
    \/ xpc[t] \in HolderPcs /\ xlock' = Nobody /\ xpc'[t] \notin HolderPcs

LEMMA LabelMoves ==
    ASSUME CallsInv, NEW t \in Threads, NEW l \in Table!PCs \ {"idle"},
           xpc' = [xpc EXCEPT ![t] = l], xpc[t] # "idle", Known' = Known,
           UNCHANGED <<block, xexiting, xkilled, addr>>,
           LockMoves(t), TableCall(t)', xpc[t] \in TakenPcs => l \in TakenPcs
    PROVE  CallsInv'
<1>1. xpc'[t] = l /\ addr' = addr /\ block' = block /\ addr[t] # EMPTY
  BY DEF CallsInv, CallTypes, HoldersInv
<1>2. CallTypes'
  BY DEF CallsInv, CallTypes, LockMoves
<1>3. Moves(t)
  <2>1. addr = [addr EXCEPT ![t] = addr[t]]
    BY DEF CallsInv, CallTypes
  <2> QED
    BY <1>1, <1>2, <2>1 DEF Moves
<1>4. \A v \in Threads \ {t} : addr[v] # addr'[t] \/ addr'[t] = EMPTY
  BY <1>1 DEF CallsInv, HoldersInv
<1>5. HoldersInv'
  BY <1>1, <1>3, <1>4, HoldersKeep DEF LockMoves
<1>6. ASSUME NEW a \in Addrs, a = addr[t]
      PROVE  BlockInv(a)'
  <2>1. BlockInv(a) /\ xexiting' = xexiting
    BY DEF CallsInv
  <2>2. ASSUME NEW u \in Threads, addr[u] = a, xpc[u] \in TakenPcs
        PROVE  addr'[u] = a /\ xpc'[u] \in TakenPcs
    BY <1>1, <2>2 DEF CallsInv, CallTypes
  <2> QED
    BY <1>1, <2>1, <2>2 DEF BlockInv
<1> QED
  BY <1>1, <1>3, <1>4, <1>5, <1>6, CallsKept

LEMMA EndMoves ==
    ASSUME CallsInv, NEW t \in Threads, NEW x \in Table!Origin,
           xpc' = [xpc EXCEPT ![t] = "idle"], xpc[t] # "idle",
           addr' = [addr EXCEPT ![t] = EMPTY], Known' = Known,
           block' = [block EXCEPT ![addr[t]] = x],
           UNCHANGED <<xexiting, xkilled>>, LockMoves(t),
           \/ x = "exact" /\ addr[t] \in Known
           \/ x = "busy"
           \/ x \in {"free", "plain"} /\ addr[t] \notin Known
              /\ (x = "plain" => xexiting # Nobody)
    PROVE  CallsInv'
<1>1. /\ xpc'[t] = "idle" /\ addr'[t] = EMPTY /\ addr[t] \in Addrs
      /\ block'[addr[t]] = x
  BY TableFacts DEF CallsInv, CallTypes, HoldersInv
<1>2. CallTypes'
  BY <1>1 DEF CallsInv, CallTypes, LockMoves, Table!PCs
<1>3. Moves(t)
  BY <1>1, <1>2 DEF Moves, CallsInv, CallTypes
<1>4. HoldersInv'
  BY <1>1, <1>3, HoldersKeep DEF LockMoves
<1>5. TableCall(t)'
  BY <1>1 DEF TableCall, RegPcs, TakePcs, TakenPcs
<1>6. \A a \in Addrs \cap {addr[t], addr'[t]} : BlockInv(a)'
  BY <1>1, TableFacts DEF BlockInv
<1> QED
  BY <1>1, <1>3, <1>4, <1>5, <1>6, CallsKept

LEMMA LockSteps ==
    ASSUME SlotsInv, CallsInv, NEW t \in Threads,
           \/ Table!TryLock(t, "reg_lock", "insert", "reg_spin")
           \/ Table!TryLock(t, "take_lock", "take", "take_spin")
           \/ Table!Spin(t, "reg_spin", "reg_lock", "reg_failed")
           \/ Table!Spin(t, "take_spin", "take_lock", "heap_free")
           \/ Table!Unlock(t, "oom_release", "reg_failed")
           \/ Table!Unlock(t, "take_release", "sys_free")
           \/ Table!Unlock(t, "miss_release", "heap_free")
           \/ Table!TakeHint(t)
    PROVE  SlotsInv' /\ CallsInv'
<1>1. SameSlots
  BY DEF Table!TryLock, Table!Spin, Table!Unlock, Table!TakeHint, SameSlots
<1>2. SlotsInv' /\ Known' = Known
  BY <1>1, KeepSlots
<1>3. /\ TableCall(t) /\ xpc \in [Threads -> Table!PCs]
      /\ addr[t] \in Addrs \cup {EMPTY} /\ (xpc[t] = "idle" <=> addr[t] = EMPTY)
  BY DEF CallsInv, CallTypes, HoldersInv
<1>4. addr[t] \in Addrs => BlockInv(addr[t])
  BY DEF CallsInv
<1> DEFINE l == xpc'[t]
<1>5. /\ xpc' = [xpc EXCEPT ![t] = l] /\ UNCHANGED <<block, xexiting, xkilled, addr>>
      /\ xpc[t] # "idle" /\ l \in Table!PCs \ {"idle"}
      /\ LockMoves(t) /\ (xpc[t] \in TakenPcs => l \in TakenPcs)
  BY <1>3 DEF Table!TryLock, Table!Spin, Table!Unlock, Table!TakeHint, Table!At,
     Table!Goto, Table!PCs, LockMoves, HolderPcs, TakenPcs
<1>6. TableCall(t)'
  <2> USE <1>2, <1>3, <1>5
      DEF TableCall, RegPcs, TakePcs, TakenPcs, Table!At, Table!Goto
  <2>1. CASE \/ Table!TryLock(t, "reg_lock", "insert", "reg_spin")
             \/ Table!TryLock(t, "take_lock", "take", "take_spin")
    BY <2>1 DEF Table!TryLock
  <2>2. CASE \/ Table!Spin(t, "reg_spin", "reg_lock", "reg_failed")
             \/ Table!Spin(t, "take_spin", "take_lock", "heap_free")
    BY <2>2 DEF Table!Spin, Table!ExitInProgress
  <2>3. CASE \/ Table!Unlock(t, "oom_release", "reg_failed")
             \/ Table!Unlock(t, "take_release", "sys_free")
    BY <2>3 DEF Table!Unlock
  <2>4. CASE Table!Unlock(t, "miss_release", "heap_free")
    <3>1. block[addr[t]] = "plain" => xexiting # Nobody
      BY <1>4 DEF BlockInv
    <3> QED
      BY <2>4, <3>1 DEF Table!Unlock
  <2>5. CASE Table!TakeHint(t)
    <3>1. CASE live_hint # 0
      BY <2>5, <3>1 DEF Table!TakeHint
    <3>2. CASE live_hint = 0
      <4>1. Known = {}
        BY <3>2, NoHint
      <4>2. xpc[t] = "take_hint"
        BY <2>5 DEF Table!TakeHint
      <4>3. \A u \in Threads : addr[u] = addr[t] => u = t
        BY <4>2 DEF CallsInv, HoldersInv
      <4>4. block[addr[t]] \in {"plain", "heap"} /\ (block[addr[t]] = "plain" => xexiting # Nobody)
        BY <1>4, <4>1, <4>2, <4>3 DEF BlockInv
      <4> QED
        BY <2>5, <3>2, <4>4 DEF Table!TakeHint
    <3> QED
      BY <3>1, <3>2
  <2> QED
    BY <2>1, <2>2, <2>3, <2>4, <2>5
<1> HIDE DEF l
<1> QED
  BY <1>2, <1>5, <1>6, LabelMoves

LEMMA EndSteps ==
    ASSUME SlotsInv, CallsInv, NEW t \in Threads,
           \/ Table!Unlock(t, "reg_release", "idle") \/ Table!RegFailed(t)
           \/ Table!SystemFree(t) \/ Table!HeapFree(t)
    PROVE  SlotsInv' /\ CallsInv'
<1>1. SameSlots
  BY DEF Table!Unlock, Table!RegFailed, Table!SystemFree, Table!HeapFree, SameSlots
<1>2. SlotsInv' /\ Known' = Known
  BY <1>1, KeepSlots
<1>3. /\ TableCall(t) /\ xpc \in [Threads -> Table!PCs]
      /\ block \in [Addrs -> Table!Origin]
      /\ addr[t] \in Addrs \cup {EMPTY} /\ (xpc[t] = "idle" <=> addr[t] = EMPTY)
  BY DEF CallsInv, CallTypes, HoldersInv
<1>4. addr[t] \in Addrs => BlockInv(addr[t])
  BY DEF CallsInv
<1> USE <1>2, <1>3 DEF Table!At, Table!Goto
<1>5. CASE Table!Unlock(t, "reg_release", "idle")
  <2>1. xpc[t] = "reg_release" /\ addr[t] \in Addrs /\ block[addr[t]] = "exact"
    BY <1>5 DEF Table!Unlock, TableCall
  <2>2. \A u \in Threads : addr[u] = addr[t] => u = t
    BY <2>1 DEF CallsInv, HoldersInv
  <2>3. addr[t] \in Known
    BY <1>4, <2>1, <2>2 DEF BlockInv, TakenPcs
  <2>4. block' = [block EXCEPT ![addr[t]] = "exact"]
    BY <1>5, <2>1 DEF Table!Unlock
  <2>5. LockMoves(t)
    BY <1>5, <2>1 DEF Table!Unlock, LockMoves, HolderPcs
  <2>6. "exact" \in Table!Origin
    BY DEF Table!Origin
  <2> QED
    BY <1>5, <2>1, <2>3, <2>4, <2>5, <2>6, EndMoves DEF Table!Unlock
<1>6. CASE Table!RegFailed(t)
  <2>1. xpc[t] = "reg_failed" /\ addr[t] \notin Known
    BY <1>6 DEF Table!RegFailed, TableCall, RegPcs
  <2>2. LockMoves(t)
    BY <1>6, <2>1 DEF Table!RegFailed, LockMoves, HolderPcs
  <2> DEFINE x == IF Table!ExitInProgress THEN "plain" ELSE "free"
  <2>3. x \in Table!Origin /\ x \in {"free", "plain"} /\ (x = "plain" => xexiting # Nobody)
    BY DEF Table!Origin, Table!ExitInProgress
  <2>4. block' = [block EXCEPT ![addr[t]] = x]
    BY <1>6 DEF Table!RegFailed
  <2> HIDE DEF x
  <2> QED
    BY <1>6, <2>1, <2>2, <2>3, <2>4, EndMoves DEF Table!RegFailed
<1>7. CASE Table!SystemFree(t)
  <2>1. xpc[t] = "sys_free" /\ addr[t] \notin Known
    BY <1>7 DEF Table!SystemFree, TableCall, TakenPcs
  <2>2. LockMoves(t) /\ "free" \in Table!Origin
    BY <1>7, <2>1 DEF Table!SystemFree, LockMoves, HolderPcs, Table!Origin
  <2> QED
    BY <1>7, <2>1, <2>2, EndMoves DEF Table!SystemFree
<1>8. CASE Table!HeapFree(t)
  <2>1. xpc[t] = "heap_free" /\ addr[t] \in Addrs
    BY <1>8 DEF Table!HeapFree
  <2>2. LockMoves(t)
    BY <1>8, <2>1 DEF Table!HeapFree, LockMoves, HolderPcs
  <2> DEFINE x == IF block[addr[t]] = "heap" THEN "free" ELSE "busy"
  <2>3. x \in Table!Origin /\ (x = "busy" \/ (x = "free" /\ addr[t] \notin Known))
    BY <1>4, <2>1 DEF Table!Origin, BlockInv
  <2>4. block' = [block EXCEPT ![addr[t]] = x]
    BY <1>8 DEF Table!HeapFree
  <2> HIDE DEF x
  <2> QED
    BY <1>8, <2>1, <2>2, <2>3, <2>4, EndMoves DEF Table!HeapFree
<1> QED
  BY <1>5, <1>6, <1>7, <1>8

LEMMA InsertStep ==
    ASSUME SlotsInv, CallsInv, NEW t \in Threads, Table!Insert(t)
    PROVE  SlotsInv' /\ CallsInv'
<1> DEFINE a == addr[t]
<1>1. xpc[t] = "insert" /\ UNCHANGED <<xlock, xexiting, xkilled, addr>>
  BY DEF Table!Insert, Table!At
<1>2. /\ a \in Addrs /\ a \notin Known /\ block[a] = "busy"
      /\ xpc \in [Threads -> Table!PCs] /\ block \in [Addrs -> Table!Origin]
  BY <1>1 DEF CallsInv, CallTypes, HoldersInv, TableCall, RegPcs
<1>3. Table!find(a) = EMPTY
  BY <1>2, FindsListed
<1>4. CASE SameSlots /\ xpc' = [xpc EXCEPT ![t] = "oom_release"] /\ block' = block
  <2>1. SlotsInv' /\ Known' = Known
    BY <1>4, KeepSlots
  <2>2. xpc'[t] = "oom_release"
    BY <1>2, <1>4
  <2>3. LockMoves(t) /\ "oom_release" \in Table!PCs \ {"idle"}
    BY <1>1, <2>2 DEF LockMoves, HolderPcs, Table!PCs
  <2>4. TableCall(t)'
    BY <1>1, <1>2, <1>4, <2>1, <2>2 DEF TableCall, RegPcs, TakePcs, TakenPcs
  <2>5. xpc[t] \notin TakenPcs /\ xpc[t] # "idle"
    BY <1>1 DEF TakenPcs
  <2> QED
    BY <1>1, <1>4, <2>1, <2>3, <2>4, <2>5, LabelMoves
<1>5. CASE /\ slots' = Put(Target, a, Table!Bucket(Target, a))
           /\ used' = TargetUsed + Table!NewlyUsed(Target[Table!Bucket(Target, a)])
           /\ live' = live + 1 /\ live_hint' = live'
           /\ block' = [block EXCEPT ![a] = "exact"]
           /\ xpc' = [xpc EXCEPT ![t] = "reg_release"]
  <2>1. SlotsInv' /\ Known' = Known \cup {a}
    BY <1>2, <1>5, InsertSlots
  <2>2. xpc'[t] = "reg_release" /\ addr'[t] = a /\ block'[a] = "exact"
    BY <1>1, <1>2, <1>5
  <2>3. CallTypes'
    BY <1>1, <1>2, <1>5 DEF CallsInv, CallTypes, Table!PCs, Table!Origin
  <2>4. Moves(t)
    <3>1. addr' = [addr EXCEPT ![t] = addr'[t]]
      BY <1>1 DEF CallsInv, CallTypes
    <3> QED
      BY <1>1, <1>2, <1>5, <2>1, <2>2, <2>3, <3>1 DEF Moves
  <2>5. \A v \in Threads \ {t} : addr[v] # addr'[t] \/ addr'[t] = EMPTY
    BY <2>2 DEF CallsInv, HoldersInv
  <2>6. HoldersInv'
    <3>1. xpc[t] \in HolderPcs /\ xpc'[t] \in HolderPcs /\ xpc'[t] # "idle" /\ a # EMPTY
      BY <1>1, <1>2, <2>2, TableFacts DEF HolderPcs
    <3> QED
      BY <1>1, <2>2, <2>4, <2>5, <3>1, HoldersKeep
  <2>7. TableCall(t)'
    BY <2>2 DEF TableCall, RegPcs, TakePcs, TakenPcs
  <2>8. \A c \in Addrs \cap {addr[t], addr'[t]} : BlockInv(c)'
    BY <2>1, <2>2 DEF BlockInv
  <2> QED
    BY <2>1, <2>4, <2>5, <2>6, <2>7, <2>8, CallsKept
<1>6. \/ SameSlots /\ xpc' = [xpc EXCEPT ![t] = "oom_release"] /\ block' = block
      \/ /\ slots' = Put(Target, a, Table!Bucket(Target, a))
         /\ used' = TargetUsed + Table!NewlyUsed(Target[Table!Bucket(Target, a)])
         /\ live' = live + 1 /\ live_hint' = live'
         /\ block' = [block EXCEPT ![a] = "exact"]
         /\ xpc' = [xpc EXCEPT ![t] = "reg_release"]
  BY <1>3, Zenon DEF Table!Insert, Table!Goto, Table!InsertHint, SameSlots, Put, Target, TargetUsed
<1> QED
  BY <1>4, <1>5, <1>6

LEMMA TakeStep ==
    ASSUME SlotsInv, CallsInv, NEW t \in Threads, Table!Take(t)
    PROVE  SlotsInv' /\ CallsInv'
<1> DEFINE a == addr[t]
<1>1. xpc[t] = "take" /\ UNCHANGED <<xlock, block, xexiting, xkilled, addr>>
  BY DEF Table!Take, Table!At
<1>2. /\ a \in Addrs /\ block[a] \in {"exact", "plain", "heap"} /\ BlockInv(a)
      /\ xpc \in [Threads -> Table!PCs] /\ block \in [Addrs -> Table!Origin]
      /\ \A u \in Threads : addr[u] = a => u = t
  BY <1>1, TableFacts DEF CallsInv, CallTypes, HoldersInv, TableCall, TakePcs
<1>3. CASE Table!find(a) = EMPTY
  <2>1. SameSlots /\ xpc' = [xpc EXCEPT ![t] = "miss_release"]
    BY <1>3 DEF Table!Take, Table!Goto, SameSlots
  <2>2. SlotsInv' /\ Known' = Known
    BY <2>1, KeepSlots
  <2>3. a \notin Known
    BY <1>2, <1>3, FindsListed
  <2>4. block[a] \in {"plain", "heap"}
    BY <1>1, <1>2, <2>3 DEF BlockInv, TakenPcs
  <2>5. xpc'[t] = "miss_release"
    BY <1>2, <2>1
  <2>6. LockMoves(t) /\ "miss_release" \in Table!PCs \ {"idle"}
    BY <1>1, <2>5 DEF LockMoves, HolderPcs, Table!PCs
  <2>7. TableCall(t)'
    BY <1>1, <2>4, <2>5 DEF TableCall, RegPcs, TakePcs, TakenPcs
  <2>8. xpc[t] \notin TakenPcs /\ xpc[t] # "idle"
    BY <1>1 DEF TakenPcs
  <2> QED
    BY <1>1, <2>1, <2>2, <2>6, <2>7, <2>8, LabelMoves
<1>4. CASE Table!find(a) # EMPTY
  <2> DEFINE i == Table!find(a)
  <2>1. i \in DOMAIN slots /\ slots[i] = a /\ a \in Known
    BY <1>2, <1>4, FindsListed
  <2>2. /\ slots' = Put(slots, TOMB, i) /\ used' = used /\ live' = live - 1
        /\ live_hint' = live' /\ xpc' = [xpc EXCEPT ![t] = "take_release"]
    BY <1>4 DEF Table!Take, Table!Goto, Put
  <2> HIDE DEF i
  <2>3. SlotsInv' /\ Known' = Known \ {a}
    BY <1>2, <2>1, <2>2, TakeSlots
  <2>4. block[a] = "exact"
    BY <1>2, <2>1 DEF BlockInv
  <2>5. xpc'[t] = "take_release" /\ addr'[t] = a
    BY <1>1, <1>2, <2>2
  <2>6. CallTypes'
    BY <1>1, <1>2, <2>2 DEF CallsInv, CallTypes, Table!PCs
  <2>7. Moves(t)
    <3>1. addr' = [addr EXCEPT ![t] = addr'[t]]
      BY <1>1 DEF CallsInv, CallTypes
    <3> QED
      BY <1>1, <1>2, <2>2, <2>3, <2>5, <2>6, <3>1 DEF Moves
  <2>8. \A v \in Threads \ {t} : addr[v] # addr'[t] \/ addr'[t] = EMPTY
    BY <1>2, <2>5
  <2>9. HoldersInv'
    <3>1. xpc[t] \in HolderPcs /\ xpc'[t] \in HolderPcs /\ xpc'[t] # "idle" /\ a # EMPTY
      BY <1>1, <1>2, <2>5, TableFacts DEF HolderPcs
    <3> QED
      BY <1>1, <2>5, <2>7, <2>8, <3>1, HoldersKeep
  <2>10. TableCall(t)'
    BY <1>1, <2>3, <2>4, <2>5 DEF TableCall, RegPcs, TakePcs, TakenPcs
  <2>11. \A c \in Addrs \cap {addr[t], addr'[t]} : BlockInv(c)'
    <3>1. a \notin Known' /\ block'[a] = "exact" /\ xpc'[t] \in TakenPcs
      BY <1>1, <2>3, <2>4, <2>5 DEF TakenPcs
    <3> QED
      BY <2>5, <3>1 DEF BlockInv
  <2> QED
    BY <2>3, <2>7, <2>8, <2>9, <2>10, <2>11, CallsKept
<1> QED
  BY <1>3, <1>4

(* A free address is nobody's, and a thread that runs no call has none.    *)
LEMMA FreeIsNobodys ==
    ASSUME CallsInv, NEW a \in Addrs, block[a] = "free"
    PROVE  a \notin Known /\ \A u \in Threads : addr[u] # a
<1>1. a \notin Known
  BY DEF CallsInv, BlockInv
<1>2. ASSUME NEW u \in Threads, addr[u] = a
      PROVE  FALSE
  <2>1. xpc[u] \in Table!PCs \ {"idle"} /\ TableCall(u)
    BY <1>2, TableFacts DEF CallsInv, CallTypes, HoldersInv
  <2> QED
    BY <1>2, <2>1 DEF TableCall, RegPcs, TakePcs, TakenPcs, Table!PCs
<1> QED
  BY <1>1, <1>2

LEMMA BeginSteps ==
    ASSUME SlotsInv, CallsInv, NEW t \in Threads, NEW a \in Addrs,
           Table!Alloc(t, a) \/ Table!Free(t, a)
    PROVE  SlotsInv' /\ CallsInv'
<1>1. SameSlots /\ xpc[t] = "idle" /\ UNCHANGED <<xlock, xexiting, xkilled>>
  BY DEF Table!Alloc, Table!Free, Table!At, SameSlots
<1>2. SlotsInv' /\ Known' = Known
  BY <1>1, KeepSlots
<1>3. /\ xpc \in [Threads -> Table!PCs] /\ block \in [Addrs -> Table!Origin]
      /\ addr \in [Threads -> Addrs \cup {EMPTY}] /\ addr[t] = EMPTY /\ BlockInv(a)
  BY <1>1 DEF CallsInv, CallTypes, HoldersInv
<1> DEFINE l == xpc'[t]
           x == block'[a]
<1>4. /\ xpc' = [xpc EXCEPT ![t] = l] /\ addr' = [addr EXCEPT ![t] = a]
      /\ block' = [block EXCEPT ![a] = x] /\ addr'[t] = a
      /\ \/ block[a] = "free" /\ x = "busy" /\ l = "reg_lock"
         \/ x = block[a] /\ x \in {"exact", "plain", "heap"} /\ l = "take_hint"
            /\ \A u \in Threads : addr[u] # a
  BY <1>3 DEF Table!Alloc, Table!Free, Table!Goto, Table!Holding
<1>5. /\ \A u \in Threads : addr[u] # a
      /\ x = "busy" => a \notin Known
  BY <1>2, <1>4, FreeIsNobodys
<1> HIDE DEF l, x
<1>6. CallTypes'
  BY <1>1, <1>3, <1>4 DEF CallsInv, CallTypes, Table!PCs, Table!Origin
<1>7. Moves(t) /\ xpc'[t] = l /\ block'[a] = x
  BY <1>1, <1>2, <1>3, <1>4, <1>6 DEF Moves
<1>8. HoldersInv'
  <2>1. xpc[t] \notin HolderPcs /\ xpc'[t] \notin HolderPcs /\ xpc'[t] # "idle" /\ a # EMPTY
    BY <1>1, <1>4, <1>7, TableFacts DEF HolderPcs
  <2> QED
    BY <1>1, <1>4, <1>5, <1>7, <2>1, HoldersKeep
<1>9. TableCall(t)'
  BY <1>2, <1>4, <1>5, <1>7 DEF TableCall, RegPcs, TakePcs, TakenPcs
<1>10. \A c \in Addrs \cap {addr[t], addr'[t]} : BlockInv(c)'
  <2>1. x = "exact" => a \in Known
    BY <1>3, <1>4, <1>5 DEF BlockInv
  <2>2. BlockInv(a)'
    BY <1>1, <1>2, <1>3, <1>4, <1>5, <1>7, <2>1 DEF BlockInv
  <2> QED
    BY <1>3, <1>4, <2>2, TableFacts
<1> QED
  BY <1>2, <1>4, <1>5, <1>7, <1>8, <1>9, <1>10, CallsKept

LEMMA HeapAllocStep ==
    ASSUME SlotsInv, CallsInv, NEW a \in Addrs, Table!HeapAlloc(a)
    PROVE  SlotsInv' /\ CallsInv'
<1>1. /\ SameSlots /\ block[a] = "free" /\ block' = [block EXCEPT ![a] = "heap"]
      /\ UNCHANGED <<xlock, xexiting, xkilled, xpc, addr>>
  BY DEF Table!HeapAlloc, SameSlots
<1>2. SlotsInv' /\ Known' = Known
  BY <1>1, KeepSlots
<1>3. a \notin Known /\ \A u \in Threads : addr[u] # a
  BY <1>1, FreeIsNobodys
<1>4. CallTypes' /\ HoldersInv'
  BY <1>1 DEF CallsInv, CallTypes, HoldersInv, Table!Origin
<1>5. ASSUME NEW t \in Threads
      PROVE  TableCall(t)'
  <2>1. TableCall(t) /\ addr[t] # a /\ (xpc[t] = "idle" <=> addr[t] = EMPTY)
        /\ addr[t] \in Addrs \cup {EMPTY} /\ block \in [Addrs -> Table!Origin]
    BY <1>3 DEF CallsInv, CallTypes, HoldersInv
  <2>2. CASE addr[t] = EMPTY
    BY <1>1, <2>1, <2>2 DEF TableCall, RegPcs, TakePcs, TakenPcs
  <2>3. CASE addr[t] # EMPTY
    <3>1. block'[addr[t]] = block[addr[t]]
      BY <1>1, <2>1, <2>3
    <3> QED
      BY <1>1, <1>2, <2>1, <3>1 DEF TableCall
  <2> QED
    BY <2>2, <2>3
<1>6. ASSUME NEW c \in Addrs
      PROVE  BlockInv(c)'
  <2>1. BlockInv(c) /\ block'[c] = IF c = a THEN "heap" ELSE block[c]
    BY <1>1 DEF CallsInv, CallTypes
  <2> QED
    BY <1>1, <1>2, <1>3, <2>1 DEF BlockInv
<1> QED
  BY <1>2, <1>4, <1>5, <1>6 DEF CallsInv

LEMMA ExitStep ==
    ASSUME SlotsInv, CallsInv, NEW t \in Threads, Table!ExitProcess(t)
    PROVE  SlotsInv' /\ CallsInv'
<1>1. /\ SameSlots /\ xexiting = Nobody /\ xexiting' = t /\ xkilled' = Threads \ {t}
      /\ UNCHANGED <<xlock, block, xpc, addr>>
  BY DEF Table!ExitProcess, Table!ExitInProgress, SameSlots
<1>2. SlotsInv' /\ Known' = Known
  BY <1>1, KeepSlots
<1>3. xexiting' # Nobody
  BY <1>1, TableFacts
<1>4. CallTypes' /\ HoldersInv'
  BY <1>1 DEF CallsInv, CallTypes, HoldersInv
<1>5. \A u \in Threads : TableCall(u)'
  BY <1>1, <1>2, <1>3 DEF CallsInv, TableCall
<1>6. \A c \in Addrs : BlockInv(c)'
  BY <1>1, <1>2, <1>3 DEF CallsInv, BlockInv
<1> QED
  BY <1>2, <1>4, <1>5, <1>6 DEF CallsInv

LEMMA TableKept ==
    SlotsInv /\ CallsInv /\ [Table!Next]_(Table!vars) => SlotsInv' /\ CallsInv'
<1> SUFFICES ASSUME SlotsInv, CallsInv, [Table!Next]_(Table!vars)
             PROVE  SlotsInv' /\ CallsInv'
  OBVIOUS
<1>1. ASSUME NEW t \in Threads, Table!AllocStep(t) \/ Table!FreeStep(t)
      PROVE  SlotsInv' /\ CallsInv'
  BY <1>1, LockSteps, EndSteps, InsertStep, TakeStep DEF Table!AllocStep, Table!FreeStep
<1>2. ASSUME NEW t \in Threads, Table!ExitProcess(t)
      PROVE  SlotsInv' /\ CallsInv'
  BY <1>2, ExitStep
<1>3. ASSUME NEW t \in Threads, NEW a \in Addrs, Table!Alloc(t, a) \/ Table!Free(t, a)
      PROVE  SlotsInv' /\ CallsInv'
  BY <1>3, BeginSteps
<1>4. ASSUME NEW a \in Addrs, Table!HeapAlloc(a)
      PROVE  SlotsInv' /\ CallsInv'
  BY <1>4, HeapAllocStep
<1>5. CASE UNCHANGED Table!vars
  <2>1. SameSlots /\ UNCHANGED <<xlock, block, xexiting, xkilled, xpc, addr>>
    BY <1>5 DEF Table!vars, SameSlots, Table!innerVars
  <2>2. SlotsInv' /\ Known' = Known
    BY <2>1, KeepSlots
  <2>3. CallTypes' /\ HoldersInv'
    BY <2>1 DEF CallsInv, CallTypes, HoldersInv
  <2>4. \A u \in Threads : TableCall(u)'
    BY <2>1, <2>2 DEF CallsInv, TableCall
  <2>5. \A c \in Addrs : BlockInv(c)'
    BY <2>1, <2>2 DEF CallsInv, BlockInv
  <2> QED
    BY <2>2, <2>3, <2>4, <2>5 DEF CallsInv
<1> QED
  BY <1>1, <1>2, <1>3, <1>4, <1>5 DEF Table!Next

LEMMA InitTable == Table!Init => SlotsInv /\ CallsInv
<1> SUFFICES ASSUME Table!Init
             PROVE  SlotsInv /\ CallsInv
  OBVIOUS
<1>1. /\ DOMAIN slots = {} /\ used = 0 /\ live = 0 /\ live_hint = 0
      /\ slots \in [0 .. 0 - 1 -> Addrs \cup {EMPTY, TOMB}]
  <2>1. 0 .. 0 - 1 = {}
    OBVIOUS
  <2>2. slots = [i \in {} |-> EMPTY]
    BY DEF Table!Init
  <2> QED
    BY <2>1, <2>2 DEF Table!Init
<1>2. Table!cap = 0
  <2>1. DOMAIN slots = 0 .. 0 - 1
    BY <1>1
  <2> QED
    BY <2>1, CapIs
<1>3. Taken(slots) = {} /\ Described(slots) = {}
  BY <1>1 DEF Taken, Described
<1>4. SlotsInv
  <2>1. Probes(slots, 0)
    BY <1>1 DEF Probes
  <2> QED
    BY <1>1, <1>2, <1>3, <2>1, FS_EmptySet DEF SlotsInv
<1>5. Known = {}
  BY <1>3 DEF Known
<1>6. CallsInv
  BY <1>5, TableFacts
     DEF Table!Init, CallsInv, CallTypes, HoldersInv, TableCall, BlockInv, HolderPcs, RegPcs,
         TakePcs, TakenPcs, Table!PCs, Table!Origin
<1> QED
  BY <1>4, <1>6

LEMMA SumIsTable == ShardsSpec => Table!Spec
<1>1. ShardsInit => Table!Init
  BY DEF ShardsInit
<1>2. [ShardsNext]_allVars => [Table!Next]_(Table!vars)
  BY DEF ShardsNext, allVars, tableVars, Table!vars, Table!innerVars
<1> QED
  BY <1>1, <1>2, PTL DEF ShardsSpec, Table!Spec

(* The table of exact objects knows exactly the blocks of the system       *)
(* allocator, however entries were removed and the array was made anew,    *)
(* and a free goes where its block came from (Inner::find, insert, rehash, *)
(* ExactShard::take, ExactNarrow::try_dealloc).                            *)
THEOREM TableStaysExact == ShardsSpec => []TableIsExact
<1>1. SlotsInv /\ CallsInv => TableIsExact
  <2> SUFFICES ASSUME SlotsInv, CallsInv
               PROVE  Table!TableIsExact /\ Table!FreeGoesHome
    BY DEF TableIsExact
  <2>1. /\ Table!cap \in Nat /\ DOMAIN slots = 0 .. Table!cap - 1
        /\ slots \in [0 .. Table!cap - 1 -> Addrs \cup {EMPTY, TOMB}]
    BY DEF SlotsInv, Probes
  <2>2. Table!TypeOK
    <3>1. used = Table!Cardinality({i \in DOMAIN slots : slots[i] # EMPTY})
      BY SameCardinality DEF SlotsInv, Taken
    <3>2. live = Table!Cardinality({i \in DOMAIN slots : slots[i] \in Addrs})
      BY SameCardinality DEF SlotsInv, Described
    <3>3. live_hint \in Nat
      BY <2>1, BucketsFinite DEF SlotsInv
    <3> QED
      BY <2>1, <3>1, <3>2, <3>3 DEF Table!TypeOK, CallsInv, CallTypes
  <2>3. Table!ProbeEnds
    <3>1. Table!cap > 0 => \E i \in 0 .. Table!cap - 1 : slots[i] = EMPTY
      BY <2>1, SomeEmpty DEF SlotsInv
    <3> QED
      BY <2>1, <3>1 DEF Table!ProbeEnds, Table!Is
  <2>4. ASSUME NEW a \in Addrs
        PROVE  /\ block[a] = "exact" /\ ~ Table!Holding(a) => Table!find(a) # EMPTY
               /\ block[a] \in {"free", "plain", "heap"} => Table!find(a) = EMPTY
    BY FindsListed DEF CallsInv, BlockInv, Table!Holding
  <2>5. Table!FreeGoesHome
    BY DEF CallsInv, TableCall, TakenPcs, Table!FreeGoesHome, Table!At, Table!ExitInProgress
  <2> QED
    BY <2>2, <2>3, <2>4, <2>5 DEF Table!TableIsExact
<1> QED
  BY <1>1, InitTable, TableKept, SumIsTable, PTL DEF Table!Spec
=============================================================================
