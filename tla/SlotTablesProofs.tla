-------------------------- MODULE SlotTablesProofs --------------------------
(***************************************************************************)
(* For every number of threads, slots and generations: a slot of the epoch *)
(* region is in one place, readers are safe, and the region is a store of  *)
(* handles.  For every table of segments, at the end: each slot is live or *)
(* on the free list, and every lookup finds what is registered.            *)
(***************************************************************************)
EXTENDS MCSlotTables, FiniteSetTheorems, SequenceTheorems,
        WellFoundedInduction, TLAPS

-----------------------------------------------------------------------------
(* The invariant                                                           *)

(* Where a thread holds the mutex, has taken a slot, has removed a handle, *)
(* looks at a slot, and where its call has not been answered.              *)
Writing  == {"hint", "drain", "install", "mint", "rehint", "redrain"}
Taking   == {"install", "mint"}
Removing == {"swap", "uncount", "relock", "rehint", "redrain", "push"}
Looking  == {"generation", "value", "validate", "use"}
Open     == {"lock", "hint", "drain", "install", "mint", "evict",
             "generation", "value", "validate"}
Labels   == Writing \cup Removing \cup Looking \cup Open \cup {"idle", "notify"}
Empty    == {"idle", "lock", "hint", "drain"}

Calls == [handle : Handles \cup {None}, got : (0 .. MAX_GEN) \cup {None},
          mine : BOOLEAN]

(* Each thread and its call.                                               *)
LocalType ==
    /\ answer \in [Threads -> Handles \cup {None, Pending}]
    /\ rpc \in [Threads -> Labels]
    /\ op \in [Threads -> Calls]
    /\ \A t \in Threads : rpc[t] \notin Empty => op[t].handle \in Handles

EpochType ==
    /\ pinned \subseteq Threads
    /\ DOMAIN limbo \subseteq Handles
    /\ \A o \in DOMAIN limbo : limbo[o] \subseteq Threads

SharedType ==
    /\ state \in Threads \cup {None}
    /\ free \in Seq(Slots) /\ queue \in Seq(Slots) /\ pending \in BOOLEAN
    /\ gen \in [Slots -> 0 .. MAX_GEN]
    /\ value \in [Slots -> (0 .. MAX_GEN) \cup {None}]
    /\ len \in Int
    /\ issued \subseteq Handles

RType == LocalType /\ EpochType /\ SharedType

MutexInv == \A t \in Threads : rpc[t] \in Writing <=> state = t

AnswerInv == \A t \in Threads : answer[t] = Pending <=> rpc[t] \in Open

(* A handle that was given out is not ahead of its slot; a slot that was   *)
(* taken is at the generation of its next handle, one whose handle has     *)
(* been removed is one further.                                            *)
GenInv ==
    /\ \A h \in issued : h.generation <= gen[h.index] /\ h.generation < MAX_GEN
    /\ \A t \in Threads :
         /\ rpc[t] \in Taking => gen[Slot(t)] = Gen(t) /\ Gen(t) < MAX_GEN
         /\ rpc[t] \in Removing => gen[Slot(t)] = Gen(t) + 1
         /\ rpc[t] = "push" => Gen(t) + 1 < MAX_GEN
         /\ rpc[t] \in Looking \cup {"evict"} => Handle(t) \in issued

(* The places of a slot: with a live handle, on the free list, in the      *)
(* queue, or with one thread.  A slot at its last generation is in none,   *)
(* once it has been let go.                                                *)
HasLive(s) == [index |-> s, generation |-> gen[s]] \in issued
In(s, q) == \E k \in 1 .. Len(q) : q[k] = s
Holds(t, s) == rpc[t] \in Taking \cup Removing /\ Slot(t) = s
Once(q) == \A j, k \in 1 .. Len(q) : q[j] = q[k] => j = k

PlaceInv ==
    /\ Once(free) /\ Once(queue)
    /\ \A s \in Slots :
         /\ In(s, free) => ~ In(s, queue)
         /\ In(s, free) \/ In(s, queue) => gen[s] # MAX_GEN /\ ~ HasLive(s)
         /\ In(s, free) \/ In(s, queue) \/ HasLive(s) => \A t \in Threads : ~ Holds(t, s)
         /\ \/ gen[s] = MAX_GEN \/ In(s, free) \/ In(s, queue) \/ HasLive(s)
            \/ \E t \in Threads : Holds(t, s)
    /\ \A s \in Slots : \A t, u \in Threads : Holds(t, s) /\ Holds(u, s) => t = u

(* A slot has a value while it has a live handle, between install and mint *)
(* and until the value is swapped out; it is that of the handle.           *)
ValueInv ==
    /\ \A s \in Slots : HasLive(s) => value[s] = gen[s]
    /\ \A s \in Slots : value[s] # None =>
         HasLive(s) \/ \E t \in Threads : rpc[t] \in {"mint", "swap"} /\ Slot(t) = s
    /\ \A t \in Threads : rpc[t] \in {"mint", "swap"} => value[Slot(t)] = Gen(t)

(* A reader is pinned.  The value it has read is that of its handle, if    *)
(* the slot has not moved on since; if it was taken out, its destruction   *)
(* waits for the reader.                                                   *)
Seen(t) == [index |-> Slot(t), generation |-> op[t].got]

Reads(t) ==
    /\ rpc[t] \in Looking => t \in pinned
    /\ rpc[t] \in {"validate", "use"} =>
         /\ op[t].got \in 0 .. MAX_GEN
         /\ gen[Slot(t)] = Gen(t) => op[t].got = Gen(t)
         /\ Seen(t) \in DOMAIN limbo => t \in limbo[Seen(t)]
    /\ rpc[t] = "use" => op[t].got = Gen(t)

ReaderInv ==
    /\ \A o \in DOMAIN limbo :
         value[o.index] # o.generation /\ o.generation < gen[o.index]
    /\ \A t \in Threads : Reads(t)

IInv == RType /\ MutexInv /\ AnswerInv /\ GenInv /\ PlaceInv /\ ValueInv /\ ReaderInv
-----------------------------------------------------------------------------
(* Lists of slots                                                          *)

LEMMA NotAboveIsLeast ==
    ASSUME NEW S \in SUBSET Nat, NEW x \in S, \A y \in S : ~ (y < x)
    PROVE  \A y \in S : x =< y
OBVIOUS

LEMMA HasLeast ==
    ASSUME NEW S \in SUBSET Nat, S # {}
    PROVE  \E x \in S : \A y \in S : x =< y
<1>1. PICK R : R = OpToRel(<, Nat)
  OBVIOUS
<1>2. IsWellFoundedOn(R, Nat)
  BY <1>1, NatLessThanWellFounded, Zenon
<1>3. PICK x \in S : \A y \in S : ~ (<<y, x>> \in R)
  BY <1>2, WFMin, Zenon
<1>4. \A y \in S : <<y, x>> \notin R => ~ (y < x)
  BY <1>1, Zenon DEF OpToRel
<1>5. \A y \in S : ~ (y < x)
  BY <1>3, <1>4, Zenon
<1>6. \A y \in S : x =< y
  BY <1>5, NotAboveIsLeast, Zenon
<1> QED
  BY <1>6, Zenon

(* Appending the next element to a prefix gives the next prefix.           *)
LEMMA PrefixGrows ==
    ASSUME NEW f \in Seq(Slots), NEW q \in Seq(Slots), NEW k \in 1 .. Len(q)
    PROVE  Append(f \o SubSeq(q, 1, k - 1), q[k]) = f \o SubSeq(q, 1, k)
OBVIOUS

LEMMA PrefixIs ==
    ASSUME NEW q \in Seq(Slots), NEW n \in 0 .. Len(q)
    PROVE  /\ SubSeq(q, 1, n) \in Seq(Slots) /\ Len(SubSeq(q, 1, n)) = n
           /\ \A k \in 1 .. n : SubSeq(q, 1, n)[k] = q[k]
OBVIOUS

LEMMA WholeIsPrefix ==
    ASSUME NEW q \in Seq(Slots)
    PROVE  SubSeq(q, 1, Len(q)) = q
OBVIOUS

(* No slot that is retired comes out of the queue, so the drain appends    *)
(* the whole of it.                                                        *)
LEMMA JoinedIs ==
    ASSUME NEW f \in Seq(Slots), NEW q \in Seq(Slots),
           \A k \in 1 .. Len(q) : gen[q[k]] # MAX_GEN
    PROVE  Joined(f, q) = f \o q
<1> DEFINE N == Len(q)
           Walk(a) == [k \in 0 .. N |->
                         IF k = 0 THEN f
                         ELSE IF gen[q[k]] = MAX_GEN THEN a[k - 1]
                         ELSE Append(a[k - 1], q[k])]
           w == [k \in 0 .. N |-> f \o SubSeq(q, 1, k)]
<1>1. N \in Nat
  BY LenProperties
<1>2. ASSUME NEW k \in 0 .. N
      PROVE  w[k] = Walk(w)[k]
  <2>1. CASE k = 0
    <3>1. f \o SubSeq(q, 1, 0) = f
      OBVIOUS
    <3> QED
      BY <2>1, <3>1
  <2>2. CASE k # 0
    <3>1. k \in 1 .. N /\ k - 1 \in 0 .. N
      BY <1>1, <2>2
    <3>2. w[k - 1] = f \o SubSeq(q, 1, k - 1) /\ w[k] = f \o SubSeq(q, 1, k)
      BY <3>1
    <3>3. w[k] = Append(w[k - 1], q[k])
      BY <3>1, <3>2, PrefixGrows
    <3> HIDE DEF w
    <3> QED
      BY <2>2, <3>1, <3>3
  <2> QED
    BY <2>1, <2>2
<1>3. w = Walk(w)
  BY <1>2, Zenon
<1>4. ASSUME NEW a, a = Walk(a)
      PROVE  a = w
  <2> DEFINE Wrong == {k \in 0 .. N : a[k] # w[k]}
  <2>1. a = [k \in 0 .. N |-> a[k]]
    BY <1>4
  <2>2. ASSUME NEW m \in Wrong, \A y \in Wrong : m =< y
        PROVE  FALSE
    <3>1. a[m] = Walk(a)[m] /\ w[m] = Walk(w)[m]
      BY <1>3, <1>4, Zenon
    <3>2. CASE m = 0
      BY <3>1, <3>2
    <3>3. CASE m # 0
      <4>1. m - 1 \in 0 .. N /\ ~ (m =< m - 1)
        BY <1>1, <3>3
      <4>2. a[m - 1] = w[m - 1]
        BY <2>2, <4>1
      <4> HIDE DEF w
      <4> QED
        BY <3>1, <3>3, <4>2
    <3> QED
      BY <3>2, <3>3
  <2>3. Wrong \in SUBSET Nat
    BY <1>1
  <2>4. Wrong = {}
    BY <2>2, <2>3, HasLeast, Zenon
  <2>5. \A k \in 0 .. N : a[k] = w[k]
    BY <2>4, Zenon
  <2> QED
    BY <2>1, <2>5, Zenon
<1>5. Joined(f, q) = (CHOOSE a : a = Walk(a))[N]
  BY DEF Joined
<1>6. (CHOOSE a : a = Walk(a)) = w
  <2> HIDE DEF Walk, w
  <2> QED
    BY <1>3, <1>4, Zenon
<1>7. w[N] = f \o SubSeq(q, 1, N)
  BY <1>1
<1>8. SubSeq(q, 1, N) = q
  BY WholeIsPrefix
<1> QED
  BY <1>5, <1>6, <1>7, <1>8, Zenon

LEMMA ListsJoin ==
    ASSUME NEW f \in Seq(Slots), NEW q \in Seq(Slots), Once(f), Once(q),
           \A s \in Slots : In(s, f) => ~ In(s, q)
    PROVE  /\ f \o q \in Seq(Slots) /\ Once(f \o q)
           /\ \A s \in Slots : In(s, f \o q) <=> In(s, f) \/ In(s, q)
<1> DEFINE r == f \o q
<1>1. /\ r \in Seq(Slots) /\ Len(f) \in Nat /\ Len(q) \in Nat
      /\ Len(r) = Len(f) + Len(q)
      /\ \A k \in 1 .. Len(f) : r[k] = f[k] /\ k \in 1 .. Len(r)
      /\ \A k \in 1 .. Len(r) : k \notin 1 .. Len(f) =>
           k - Len(f) \in 1 .. Len(q) /\ r[k] = q[k - Len(f)]
      /\ \A k \in 1 .. Len(q) : Len(f) + k \in 1 .. Len(r) /\ r[Len(f) + k] = q[k]
  OBVIOUS
<1> HIDE DEF r
<1>2. \A k \in 1 .. Len(f) : f[k] \in Slots /\ In(f[k], f)
  BY ElementOfSeq DEF In
<1>3. \A k \in 1 .. Len(q) : q[k] \in Slots /\ In(q[k], q)
  BY ElementOfSeq DEF In
<1>4. Once(r)
  <2> SUFFICES ASSUME NEW j \in 1 .. Len(r), NEW k \in 1 .. Len(r), r[j] = r[k]
               PROVE  j = k
    BY DEF Once
  <2>1. CASE j \in 1 .. Len(f) /\ k \in 1 .. Len(f)
    BY <1>1, <2>1 DEF Once
  <2>2. CASE j \notin 1 .. Len(f) /\ k \notin 1 .. Len(f)
    <3>1. q[j - Len(f)] = q[k - Len(f)] /\ j - Len(f) \in 1 .. Len(q) /\ k - Len(f) \in 1 .. Len(q)
      BY <1>1, <2>2
    <3>2. j - Len(f) = k - Len(f)
      BY <3>1, Zenon DEF Once
    <3> QED
      BY <1>1, <3>2
  <2>3. CASE j \in 1 .. Len(f) /\ k \notin 1 .. Len(f)
    BY <1>1, <1>2, <1>3, <2>3
  <2>4. CASE j \notin 1 .. Len(f) /\ k \in 1 .. Len(f)
    BY <1>1, <1>2, <1>3, <2>4
  <2> QED
    BY <2>1, <2>2, <2>3, <2>4
<1>5. ASSUME NEW s \in Slots
      PROVE  In(s, r) <=> In(s, f) \/ In(s, q)
  <2>1. In(s, r) => In(s, f) \/ In(s, q)
    <3> SUFFICES ASSUME NEW k \in 1 .. Len(r), r[k] = s
                 PROVE  In(s, f) \/ In(s, q)
      BY DEF In
    <3> QED
      BY <1>1 DEF In
  <2>2. In(s, f) \/ In(s, q) => In(s, r)
    BY <1>1 DEF In
  <2> QED
    BY <2>1, <2>2
<1> QED
  BY <1>1, <1>4, <1>5 DEF r

LEMMA ListPops ==
    ASSUME NEW q \in Seq(Slots), Once(q), q # <<>>
    PROVE  LET r == SubSeq(q, 1, Len(q) - 1)
               x == q[Len(q)]
           IN  /\ r \in Seq(Slots) /\ Once(r)
               /\ x \in Slots /\ In(x, q)
               /\ \A s \in Slots : In(s, r) <=> In(s, q) /\ s # x
<1> DEFINE r == SubSeq(q, 1, Len(q) - 1)
           x == q[Len(q)]
<1>1. /\ r \in Seq(Slots) /\ Len(q) \in Nat \ {0} /\ Len(r) = Len(q) - 1
      /\ \A k \in 1 .. Len(r) : r[k] = q[k] /\ k \in 1 .. Len(q)
      /\ \A k \in 1 .. Len(q) : k = Len(q) \/ k \in 1 .. Len(r)
  <2>1. Len(q) \in Nat /\ Len(q) # 0
    BY LenProperties, EmptySeq
  <2>2. Len(q) - 1 \in 0 .. Len(q)
    BY <2>1
  <2>3. /\ r \in Seq(Slots) /\ Len(r) = Len(q) - 1
        /\ \A k \in 1 .. Len(q) - 1 : r[k] = q[k]
    BY <2>2, PrefixIs
  <2> HIDE DEF r
  <2> QED
    BY <2>1, <2>3
<1>2. Len(q) \in 1 .. Len(q)
  BY <1>1
<1>3. x \in Slots /\ In(x, q)
  BY <1>2, ElementOfSeq DEF In
<1> HIDE DEF r
<1>4. Once(r)
  BY <1>1 DEF Once
<1>5. \A s \in Slots : In(s, r) <=> In(s, q) /\ s # x
  <2> SUFFICES ASSUME NEW s \in Slots
               PROVE  In(s, r) <=> In(s, q) /\ s # x
    OBVIOUS
  <2>1. In(s, r) => In(s, q) /\ s # x
    <3> SUFFICES ASSUME NEW k \in 1 .. Len(r), r[k] = s
                 PROVE  In(s, q) /\ s # x
      BY DEF In
    <3>1. q[k] = s /\ k \in 1 .. Len(q) /\ k # Len(q)
      BY <1>1
    <3> QED
      BY <1>2, <3>1 DEF In, Once
  <2>2. In(s, q) /\ s # x => In(s, r)
    <3> SUFFICES ASSUME NEW k \in 1 .. Len(q), q[k] = s, s # x
                 PROVE  In(s, r)
      BY DEF In
    <3>1. k \in 1 .. Len(r) /\ r[k] = s
      BY <1>1
    <3> QED
      BY <3>1 DEF In
  <2> QED
    BY <2>1, <2>2
<1> QED
  BY <1>1, <1>3, <1>4, <1>5 DEF r

LEMMA ListGrows ==
    ASSUME NEW q \in Seq(Slots), Once(q), NEW x \in Slots, ~ In(x, q)
    PROVE  /\ Append(q, x) \in Seq(Slots) /\ Once(Append(q, x))
           /\ \A s \in Slots : In(s, Append(q, x)) <=> In(s, q) \/ s = x
<1> DEFINE r == Append(q, x)
<1>1. /\ r \in Seq(Slots) /\ Len(q) \in Nat /\ Len(r) = Len(q) + 1
      /\ \A k \in 1 .. Len(q) : r[k] = q[k] /\ k \in 1 .. Len(r)
      /\ r[Len(q) + 1] = x /\ Len(q) + 1 \in 1 .. Len(r)
      /\ \A k \in 1 .. Len(r) : k = Len(q) + 1 \/ k \in 1 .. Len(q)
  OBVIOUS
<1> HIDE DEF r
<1>2. \A k \in 1 .. Len(q) : q[k] # x
  BY DEF In
<1>3. Once(r)
  BY <1>1, <1>2 DEF Once
<1>4. \A s \in Slots : In(s, r) <=> In(s, q) \/ s = x
  BY <1>1 DEF In
<1> QED
  BY <1>1, <1>3, <1>4 DEF r

-----------------------------------------------------------------------------
(* The typing and the frame of each step                                   *)

LEMMA HandleIs ==
    ASSUME NEW h \in Handles
    PROVE  /\ h.index \in Slots /\ h.generation \in 0 .. MAX_GEN
           /\ h = [index |-> h.index, generation |-> h.generation]
BY DEF Handles

LEMMA HandleMade ==
    ASSUME NEW s \in Slots, NEW g \in 0 .. MAX_GEN
    PROVE  /\ [index |-> s, generation |-> g] \in Handles
           /\ [index |-> s, generation |-> g].index = s
           /\ [index |-> s, generation |-> g].generation = g
BY DEF Handles

LEMMA HandleAt ==
    ASSUME NEW h \in Handles, NEW g \in 0 .. MAX_GEN
    PROVE  [h EXCEPT !.generation = g] = [index |-> h.index, generation |-> g]
BY DEF Handles

Step(t) ==
    \/ Insert(t) \/ Lock(t) \/ Hint(t) \/ Drain(t) \/ Install(t) \/ Mint(t)
    \/ Evict(t) \/ Stale(t) \/ Swap(t) \/ Uncount(t) \/ Push(t) \/ Notify(t)
    \/ ReadGeneration(t) \/ ReadValue(t) \/ Validate(t) \/ Use(t)
    \/ \E h \in issued : Get(t, h) \/ \E mine \in BOOLEAN : Discard(t, h, mine)

(* What a step leaves alone of the other threads.                          *)
OthersKeep(t) ==
    /\ \A u \in Threads \ {t} : rpc'[u] = rpc[u] /\ op'[u] = op[u] /\ answer'[u] = answer[u]
    /\ \A u \in Threads \ {t} : u \in pinned' <=> u \in pinned
    /\ DOMAIN rpc' = Threads /\ DOMAIN op' = Threads /\ DOMAIN answer' = Threads
    /\ rpc' = [u \in Threads |-> rpc'[u]] /\ op' = [u \in Threads |-> op'[u]]
    /\ answer' = [u \in Threads |-> answer'[u]]

LEMMA InitType == ASSUME RegionAssumption, Init PROVE RType
<1>1. LocalType
  <2>1. op \in [Threads -> Calls]
    BY DEF Init, Calls, NoCall
  <2>2. /\ answer \in [Threads -> Handles \cup {None, Pending}]
        /\ rpc \in [Threads -> Labels]
        /\ \A t \in Threads : rpc[t] \in Empty
    BY DEF Init, Labels, Empty
  <2> QED
    BY <2>1, <2>2 DEF LocalType
<1>2. EpochType
  <2>1. pinned = {} /\ limbo = <<>>
    BY DEF Init
  <2>2. DOMAIN limbo = {}
    BY <2>1
  <2> QED
    BY <2>1, <2>2 DEF EpochType
<1>3. SharedType
  <2>1. free \in Seq(Slots) /\ queue \in Seq(Slots)
    BY DEF Init, RegionAssumption, Slots
  <2>2. /\ gen \in [Slots -> 0 .. MAX_GEN]
        /\ value \in [Slots -> (0 .. MAX_GEN) \cup {None}]
    BY DEF Init, RegionAssumption
  <2>3. state = None /\ len \in Int /\ issued = {}
    BY DEF Init
  <2>4. pending \in BOOLEAN
    BY DEF Init
  <2> QED
    BY <2>1, <2>2, <2>3, <2>4, Zenon DEF SharedType
<1> QED
  BY <1>1, <1>2, <1>3 DEF RType

LEMMA StepFrame == ASSUME RType, NEW t \in Threads, Step(t) PROVE OthersKeep(t)
<1>0. rpc \in [Threads -> Labels] /\ op \in [Threads -> Calls]
      /\ answer \in [Threads -> Handles \cup {None, Pending}]
  BY DEF RType, LocalType
<1> USE <1>0 DEF Begin, Done, Goto, Answer, At, Pin, Unpin, OthersKeep,
           listVars, slotVars, epochVars
<1>1. CASE Insert(t)
  BY <1>1 DEF Insert
<1>2. CASE Lock(t)
  BY <1>2 DEF Lock
<1>3. CASE Hint(t)
  BY <1>3 DEF Hint, Take, Relist
<1>4. CASE Drain(t)
  BY <1>4 DEF Drain, Take, Relist
<1>5. CASE Install(t)
  BY <1>5 DEF Install
<1>6. CASE Mint(t)
  BY <1>6 DEF Mint
<1>7. CASE Evict(t)
  BY <1>7 DEF Evict
<1>8. CASE Stale(t)
  BY <1>8 DEF Stale
<1>9. CASE Swap(t)
  BY <1>9 DEF Swap
<1>10. CASE Uncount(t)
  BY <1>10 DEF Uncount
<1>11. CASE Push(t) \/ Notify(t)
  BY <1>11 DEF Push, Notify
<1>12. CASE ReadGeneration(t)
  BY <1>12 DEF ReadGeneration, Miss
<1>13. CASE ReadValue(t)
  BY <1>13 DEF ReadValue, Miss
<1>14. CASE Validate(t)
  BY <1>14 DEF Validate, Miss
<1>15. CASE Use(t)
  BY <1>15 DEF Use
<1>16. CASE \E h \in issued : Get(t, h) \/ \E mine \in BOOLEAN : Discard(t, h, mine)
  BY <1>16 DEF Get, Discard
<1> QED
  BY <1>1, <1>2, <1>3, <1>4, <1>5, <1>6, <1>7, <1>8, <1>9, <1>10, <1>11, <1>12, <1>13,
     <1>14, <1>15, <1>16 DEF Step

LEMMA LocalMoves ==
    ASSUME LocalType, NEW t \in Threads, OthersKeep(t),
           rpc'[t] \in Labels, op'[t] \in Calls,
           answer'[t] \in Handles \cup {None, Pending},
           rpc'[t] \in Empty \/ op'[t].handle \in Handles
    PROVE  LocalType'
<1>1. /\ rpc' \in [Threads -> Labels] /\ op' \in [Threads -> Calls]
      /\ answer' \in [Threads -> Handles \cup {None, Pending}]
  <2> HIDE DEF Labels, Calls
  <2>1. ASSUME NEW u \in Threads
        PROVE  rpc'[u] \in Labels /\ op'[u] \in Calls /\ answer'[u] \in Handles \cup {None, Pending}
    BY DEF LocalType, OthersKeep
  <2> QED
    BY <2>1 DEF OthersKeep
<1>2. \A u \in Threads : rpc'[u] \notin Empty => op'[u].handle \in Handles
  BY DEF LocalType, OthersKeep
<1> QED
  BY <1>1, <1>2 DEF LocalType

(* What each step does to the thread that takes it.                        *)
LEMMA CallWithHandle ==
    ASSUME NEW c \in Calls, NEW h \in Handles
    PROVE  /\ [c EXCEPT !.handle = h] \in Calls
           /\ [c EXCEPT !.handle = h].handle = h
BY DEF Calls

LEMMA CallWithGot ==
    ASSUME NEW c \in Calls, NEW g \in 0 .. MAX_GEN
    PROVE  /\ [c EXCEPT !.got = g] \in Calls
           /\ [c EXCEPT !.got = g].handle = c.handle
           /\ [c EXCEPT !.got = g].got = g
BY DEF Calls

LEMMA CallOpened ==
    ASSUME NEW c \in Calls, NEW h \in Handles, NEW m \in BOOLEAN
    PROVE  /\ [c EXCEPT !.handle = h, !.mine = m] \in Calls
           /\ [c EXCEPT !.handle = h, !.mine = m].handle = h
BY DEF Calls

LEMMA NoCallIs == NoCall \in Calls
BY DEF Calls, NoCall

LEMMA ThreadIs ==
    ASSUME RType, NEW t \in Threads
    PROVE  /\ rpc \in [Threads -> Labels] /\ op \in [Threads -> Calls]
           /\ answer \in [Threads -> Handles \cup {None, Pending}]
           /\ op[t] \in Calls
           /\ rpc[t] \notin Empty =>
                /\ Handle(t) \in Handles /\ Slot(t) \in Slots /\ Gen(t) \in 0 .. MAX_GEN
                /\ Handle(t) = [index |-> Slot(t), generation |-> Gen(t)]
BY HandleIs DEF RType, LocalType, Handle, Slot, Gen

(* Steps of a call that touch no slot.                                     *)
Still == UNCHANGED <<listVars, slotVars, len, issued>>

Begun(t, l) ==
    /\ rpc[t] = "idle" /\ rpc'[t] = l /\ answer'[t] = Pending
    /\ state' = state /\ Still

Ended(t) == rpc'[t] = "idle" /\ op'[t] = NoCall

LEMMA InsertDoes ==
    ASSUME RType, NEW t \in Threads, Insert(t)
    PROVE  Begun(t, "lock") /\ op'[t] = NoCall /\ UNCHANGED epochVars
BY ThreadIs DEF Insert, Begin, At, Goto, Answer, Begun, Still

LEMMA LockDoes ==
    ASSUME RType, NEW t \in Threads, Lock(t)
    PROVE  /\ state = None /\ state' = t
           /\ \/ rpc[t] = "lock" /\ rpc'[t] = "hint"
              \/ rpc[t] = "relock" /\ rpc'[t] = "rehint"
           /\ op' = op /\ answer' = answer /\ Still /\ UNCHANGED epochVars
BY ThreadIs DEF Lock, At, Goto, Still

LEMMA GetDoes ==
    ASSUME RType, NEW t \in Threads, NEW h \in issued, Get(t, h)
    PROVE  /\ Begun(t, "generation") /\ op'[t] \in Calls /\ op'[t].handle = h
           /\ Pin(t)
<1>1. h \in Handles
  BY DEF RType, SharedType
<1> QED
  BY <1>1, ThreadIs, NoCallIs, CallWithHandle DEF Get, Begin, At, Goto, Answer, Begun, Still

LEMMA DiscardDoes ==
    ASSUME RType, NEW t \in Threads, NEW h \in issued, NEW m \in BOOLEAN, Discard(t, h, m)
    PROVE  /\ Begun(t, "evict") /\ op'[t] \in Calls /\ op'[t].handle = h
           /\ Pin(t)
<1>1. h \in Handles
  BY DEF RType, SharedType
<1>2. LET c == [NoCall EXCEPT !.handle = h, !.mine = m]
      IN  c \in Calls /\ c.handle = h
  BY <1>1, NoCallIs, CallOpened, Zenon
<1> QED
  BY <1>2, ThreadIs DEF Discard, Begin, At, Goto, Answer, Begun, Still

(* A look that finds nothing, or goes on.                                  *)
Missed(t) == answer'[t] = None /\ Ended(t) /\ Unpin(t)

LEMMA StaleDoes ==
    ASSUME RType, NEW t \in Threads, Stale(t)
    PROVE  rpc[t] = "evict" /\ Missed(t) /\ state' = state /\ Still
BY ThreadIs DEF Stale, At, Goto, Answer, Done, Missed, Ended, Still

LEMMA ReadGenerationDoes ==
    ASSUME RType, NEW t \in Threads, ReadGeneration(t)
    PROVE  /\ rpc[t] = "generation" /\ state' = state /\ Still
           /\ \/ Missed(t)
              \/ /\ gen[Slot(t)] = Gen(t) /\ rpc'[t] = "value"
                 /\ UNCHANGED <<answer, op, epochVars>>
BY ThreadIs DEF ReadGeneration, Miss, At, Goto, Answer, Done, Missed, Ended, Still

LEMMA ReadValueDoes ==
    ASSUME RType, NEW t \in Threads, ReadValue(t)
    PROVE  /\ rpc[t] = "value" /\ state' = state /\ Still
           /\ \/ Missed(t)
              \/ /\ value[Slot(t)] \in 0 .. MAX_GEN /\ rpc'[t] = "validate"
                 /\ op'[t] \in Calls
                 /\ op'[t].handle = op[t].handle /\ op'[t].got = value[Slot(t)]
                 /\ UNCHANGED <<answer, epochVars>>
<1>1. rpc[t] = "value" /\ state' = state /\ Still
  BY DEF ReadValue, At, Still
<1>2. value[Slot(t)] \in (0 .. MAX_GEN) \cup {None}
  BY <1>1, ThreadIs DEF RType, SharedType, Empty
<1>3. CASE value[Slot(t)] = None
  BY <1>1, <1>3, ThreadIs DEF ReadValue, Miss, At, Goto, Answer, Done, Missed, Ended
<1>4. CASE value[Slot(t)] # None
  <2>1. LET c == [op[t] EXCEPT !.got = value[Slot(t)]]
        IN  c \in Calls /\ c.handle = op[t].handle /\ c.got = value[Slot(t)]
    <3>1. value[Slot(t)] \in 0 .. MAX_GEN
      BY <1>2, <1>4
    <3> QED
      BY <3>1, ThreadIs, CallWithGot, Zenon
  <2>2. /\ op'[t] = [op[t] EXCEPT !.got = value[Slot(t)]] /\ rpc'[t] = "validate"
        /\ UNCHANGED <<answer, epochVars>>
    BY <1>1, <1>4, ThreadIs DEF ReadValue, At, Goto
  <2> QED
    BY <1>1, <1>2, <1>4, <2>1, <2>2
<1> QED
  BY <1>3, <1>4

LEMMA ValidateDoes ==
    ASSUME RType, NEW t \in Threads, Validate(t)
    PROVE  /\ rpc[t] = "validate" /\ state' = state /\ Still
           /\ \/ Missed(t)
              \/ /\ gen[Slot(t)] = Gen(t) /\ rpc'[t] = "use"
                 /\ answer'[t] = [Handle(t) EXCEPT !.generation = op[t].got]
                 /\ UNCHANGED <<op, epochVars>>
BY ThreadIs DEF Validate, StillThere, Miss, At, Goto, Answer, Done, Missed, Ended, Still

LEMMA UseDoes ==
    ASSUME RType, NEW t \in Threads, Use(t)
    PROVE  /\ rpc[t] = "use" /\ Ended(t) /\ Unpin(t)
           /\ state' = state /\ Still /\ UNCHANGED answer
BY ThreadIs DEF Use, At, Goto, Done, Ended, Still

-----------------------------------------------------------------------------
(* What the steps that move slots do                                       *)

(* The last slot of a list is taken off it, if there is one.               *)
TakenFrom(t, list) ==
    \/ /\ list = <<>> /\ free' = list
       /\ answer'[t] = None /\ Ended(t) /\ state' = None
    \/ /\ list # <<>> /\ free' = SubSeq(list, 1, Len(list) - 1)
       /\ op'[t] \in Calls
       /\ op'[t].handle = [index |-> list[Len(list)], generation |-> gen[list[Len(list)]]]
       /\ rpc'[t] = "install" /\ answer' = answer /\ state' = state

LEMMA TakeDoes ==
    ASSUME RType, NEW t \in Threads, NEW list \in Seq(Slots), Take(t, list)
    PROVE  TakenFrom(t, list)
<1>1. CASE list = <<>>
  BY <1>1, ThreadIs DEF Take, TakenFrom, Ended, Done, Goto, Answer
<1>2. CASE list # <<>>
  <2>1. list[Len(list)] \in Slots
    BY <1>2, LenProperties, EmptySeq, ElementOfSeq
  <2>2. [index |-> list[Len(list)], generation |-> gen[list[Len(list)]]] \in Handles
    BY <2>1, HandleMade DEF RType, SharedType
  <2>3. LET h == [index |-> list[Len(list)], generation |-> gen[list[Len(list)]]]
            c == [op[t] EXCEPT !.handle = h]
        IN  c \in Calls /\ c.handle = h
    BY <2>2, ThreadIs, CallWithHandle, Zenon
  <2>4. /\ op'[t] = [op[t] EXCEPT !.handle =
                       [index |-> list[Len(list)], generation |-> gen[list[Len(list)]]]]
        /\ rpc'[t] = "install" /\ answer' = answer /\ state' = state
        /\ free' = SubSeq(list, 1, Len(list) - 1)
    BY <1>2, ThreadIs DEF Take, Goto
  <2> QED
    BY <1>2, <2>3, <2>4 DEF TakenFrom
<1> QED
  BY <1>1, <1>2

(* The slot of a removal joins a list, unless it is retired.               *)
RelistedTo(t, list) ==
    /\ free' = IF Reusable(t) THEN Append(list, Slot(t)) ELSE list
    /\ state' = None /\ Ended(t) /\ Unpin(t) /\ answer' = answer

LEMMA RelistDoes ==
    ASSUME RType, NEW t \in Threads, NEW list, Relist(t, list)
    PROVE  RelistedTo(t, list)
BY ThreadIs DEF Relist, RelistedTo, Ended, Done, Goto

LEMMA HintDoes ==
    ASSUME RType, NEW t \in Threads, Hint(t)
    PROVE  /\ UNCHANGED <<queue, pending, slotVars, len, issued>>
           /\ \/ /\ \/ rpc[t] = "hint" /\ rpc'[t] = "drain"
                    \/ rpc[t] = "rehint" /\ rpc'[t] = "redrain"
                 /\ UNCHANGED <<state, free, epochVars, answer, op>>
              \/ /\ rpc[t] = "hint" /\ free # <<>>
                 /\ TakenFrom(t, free) /\ UNCHANGED epochVars
              \/ rpc[t] = "rehint" /\ RelistedTo(t, free)
<1>0. free \in Seq(Slots)
  BY DEF RType, SharedType
<1>1. UNCHANGED <<queue, pending, slotVars, len, issued>> /\ rpc[t] \in {"hint", "rehint"}
  BY DEF Hint
<1>2. PICK hint \in {pending, FALSE} :
         IF MustDrain(t, hint)
           THEN /\ Goto(t, IF At(t, "hint") THEN "drain" ELSE "redrain")
                /\ UNCHANGED <<state, free, epochVars, answer, op>>
         ELSE IF At(t, "hint") THEN Take(t, free) /\ UNCHANGED epochVars
         ELSE Relist(t, free)
  BY DEF Hint
<1>3. CASE MustDrain(t, hint)
  BY <1>1, <1>2, <1>3, ThreadIs DEF Goto, At
<1>4. CASE ~ MustDrain(t, hint) /\ rpc[t] = "hint"
  BY <1>0, <1>1, <1>2, <1>4, TakeDoes DEF At, MustDrain
<1>5. CASE ~ MustDrain(t, hint) /\ rpc[t] = "rehint"
  BY <1>1, <1>2, <1>5, RelistDoes DEF At
<1> QED
  BY <1>1, <1>3, <1>4, <1>5

(* The queue as PlaceInv has it: nothing in it is retired.                 *)
LEMMA DrainDoes ==
    ASSUME RType, PlaceInv, NEW t \in Threads, Drain(t)
    PROVE  /\ pending' = FALSE /\ queue' = <<>> /\ UNCHANGED <<slotVars, len, issued>>
           /\ free \o queue \in Seq(Slots) /\ Once(free \o queue)
           /\ \A s \in Slots : In(s, free \o queue) <=> In(s, free) \/ In(s, queue)
           /\ \/ rpc[t] = "drain" /\ TakenFrom(t, free \o queue) /\ UNCHANGED epochVars
              \/ rpc[t] = "redrain" /\ RelistedTo(t, free \o queue)
<1>0. free \in Seq(Slots) /\ queue \in Seq(Slots)
  BY DEF RType, SharedType
<1>1. \A k \in 1 .. Len(queue) : queue[k] \in Slots /\ gen[queue[k]] # MAX_GEN
  BY <1>0, ElementOfSeq DEF PlaceInv, In
<1>2. Joined(free, queue) = free \o queue
  BY <1>0, <1>1, JoinedIs
<1>3. /\ free \o queue \in Seq(Slots) /\ Once(free \o queue)
      /\ \A s \in Slots : In(s, free \o queue) <=> In(s, free) \/ In(s, queue)
  BY <1>0, ListsJoin DEF PlaceInv
<1>4. /\ pending' = FALSE /\ queue' = <<>> /\ UNCHANGED <<slotVars, len, issued>>
      /\ rpc[t] \in {"drain", "redrain"}
      /\ IF rpc[t] = "drain" THEN Take(t, free \o queue) /\ UNCHANGED epochVars
         ELSE Relist(t, free \o queue)
  BY <1>2, Zenon DEF Drain, At
<1>5. CASE rpc[t] = "drain"
  BY <1>3, <1>4, <1>5, TakeDoes
<1>6. CASE rpc[t] = "redrain"
  BY <1>3, <1>4, <1>6, RelistDoes
<1> QED
  BY <1>3, <1>4, <1>5, <1>6

LEMMA InstallDoes ==
    ASSUME RType, NEW t \in Threads, Install(t)
    PROVE  /\ rpc[t] = "install" /\ rpc'[t] = "mint"
           /\ value' = [value EXCEPT ![Slot(t)] = Gen(t)]
           /\ UNCHANGED <<state, listVars, gen, len, epochVars, issued, answer, op>>
BY ThreadIs DEF Install, At, Goto

LEMMA MintDoes ==
    ASSUME RType, NEW t \in Threads, Mint(t)
    PROVE  LET h == [index |-> Slot(t), generation |-> gen[Slot(t)]]
           IN  /\ rpc[t] = "mint" /\ Ended(t)
               /\ h \in Handles /\ issued' = issued \cup {h} /\ answer'[t] = h
               /\ len' = len + 1 /\ state' = None
               /\ UNCHANGED <<listVars, slotVars, epochVars>>
<1>1. rpc[t] = "mint"
  BY DEF Mint, At
<1>2. [index |-> Slot(t), generation |-> gen[Slot(t)]] \in Handles
  BY <1>1, ThreadIs, HandleMade DEF RType, SharedType, Empty
<1> QED
  BY <1>1, <1>2, ThreadIs DEF Mint, Done, Goto, Answer, Ended

LEMMA EvictDoes ==
    ASSUME RType, NEW t \in Threads, Evict(t)
    PROVE  /\ rpc[t] = "evict" /\ rpc'[t] = "swap" /\ answer'[t] = Handle(t)
           /\ Gen(t) # MAX_GEN /\ gen[Slot(t)] = Gen(t)
           /\ gen' = [gen EXCEPT ![Slot(t)] = Gen(t) + 1]
           /\ UNCHANGED <<state, listVars, value, len, epochVars, issued, op>>
BY ThreadIs DEF Evict, At, Goto, Answer, RType, SharedType

LEMMA SwapDoes ==
    ASSUME RegionAssumption, RType, ValueInv, NEW t \in Threads, Swap(t)
    PROVE  /\ rpc[t] = "swap" /\ rpc'[t] = "uncount"
           /\ value' = [value EXCEPT ![Slot(t)] = None]
           /\ limbo' = [o \in DOMAIN limbo \cup {Handle(t)} |->
                          IF o = Handle(t) THEN pinned ELSE limbo[o]]
           /\ UNCHANGED <<state, listVars, gen, len, pinned, issued, answer, op>>
<1>1. rpc[t] = "swap" /\ UNCHANGED <<state, listVars, gen, len, issued>>
      /\ value' = [value EXCEPT ![Slot(t)] = None]
  BY DEF Swap, At
<1>2. value[Slot(t)] = Gen(t) /\ Gen(t) \in 0 .. MAX_GEN /\ Handle(t) \in Handles
      /\ Handle(t) = [index |-> Slot(t), generation |-> Gen(t)]
  BY <1>1, ThreadIs DEF ValueInv, Empty
<1>3. [Handle(t) EXCEPT !.generation = value[Slot(t)]] = Handle(t)
  BY <1>2, HandleAt DEF Slot
<1>4. value[Slot(t)] # None
  BY <1>2 DEF RegionAssumption
<1> QED
  BY <1>1, <1>3, <1>4, ThreadIs DEF Swap, Goto, At

LEMMA UncountDoes ==
    ASSUME RType, NEW t \in Threads, Uncount(t)
    PROVE  /\ rpc[t] = "uncount" /\ len' = len - 1
           /\ UNCHANGED <<state, listVars, slotVars, issued, answer>>
           /\ \/ rpc'[t] = "relock" /\ UNCHANGED <<op, epochVars>>
              \/ Reusable(t) /\ rpc'[t] = "push" /\ UNCHANGED <<op, epochVars>>
              \/ ~ Reusable(t) /\ Ended(t) /\ Unpin(t)
BY ThreadIs DEF Uncount, At, Goto, Done, Ended

LEMMA PushDoes ==
    ASSUME RType, NEW t \in Threads, Push(t)
    PROVE  /\ rpc[t] = "push" /\ rpc'[t] = "notify" /\ queue' = Append(queue, Slot(t))
           /\ UNCHANGED <<state, free, pending, slotVars, len, epochVars, issued, answer, op>>
BY ThreadIs DEF Push, At, Goto

LEMMA NotifyDoes ==
    ASSUME RType, NEW t \in Threads, Notify(t)
    PROVE  /\ rpc[t] = "notify" /\ pending' = TRUE /\ Ended(t) /\ Unpin(t)
           /\ UNCHANGED <<state, free, queue, slotVars, len, issued, answer>>
BY ThreadIs DEF Notify, At, Goto, Done, Ended

-----------------------------------------------------------------------------
(* What a step keeps, by what it does                                      *)

Holding == Taking \cup Removing
SlotsStill == UNCHANGED <<free, queue, slotVars, issued>>

LEMMA MutexMoves ==
    ASSUME RegionAssumption, MutexInv, NEW t \in Threads, OthersKeep(t),
           \/ state' = state /\ (rpc[t] \in Writing <=> rpc'[t] \in Writing)
           \/ state = None /\ state' = t /\ rpc'[t] \in Writing
           \/ rpc[t] \in Writing /\ rpc'[t] \notin Writing /\ state' = None
    PROVE  MutexInv'
<1> HIDE DEF Writing
<1> QED
  BY DEF MutexInv, OthersKeep, RegionAssumption

LEMMA AnswerMoves ==
    ASSUME AnswerInv, NEW t \in Threads, OthersKeep(t),
           answer'[t] = Pending <=> rpc'[t] \in Open
    PROVE  AnswerInv'
<1> HIDE DEF Open
<1> QED
  BY DEF AnswerInv, OthersKeep

(* A step that leaves the slots alone, of a thread that holds the same     *)
(* slot before and after, or none.                                         *)
SameHold(t) ==
    /\ rpc[t] \in Holding <=> rpc'[t] \in Holding
    /\ rpc'[t] \in Holding => op'[t] = op[t]
    /\ rpc[t] \notin {"mint", "swap"}
    /\ rpc'[t] \notin Taking \cup {"swap"}
    /\ rpc[t] \notin Taking
    /\ rpc'[t] = "push" => Gen(t) + 1 < MAX_GEN
    /\ rpc'[t] \in Looking \cup {"evict"} => op'[t].handle \in issued

LEMMA HoldsSame ==
    ASSUME NEW t \in Threads, OthersKeep(t),
           rpc[t] \in Holding <=> rpc'[t] \in Holding,
           rpc'[t] \in Holding => op'[t] = op[t]
    PROVE  \A u \in Threads, s \in Slots : Holds(u, s)' <=> Holds(u, s)
<1> HIDE DEF Taking, Removing
<1> QED
  BY DEF OthersKeep, Holding, Holds, Slot, Handle

LEMMA StillPlaces ==
    ASSUME PlaceInv, SlotsStill,
           \A u \in Threads, s \in Slots : Holds(u, s)' <=> Holds(u, s)
    PROVE  PlaceInv'
<1>1. /\ free' = free /\ queue' = queue /\ gen' = gen
      /\ \A s \in Slots : /\ In(s, free)' <=> In(s, free)
                          /\ In(s, queue)' <=> In(s, queue)
                          /\ HasLive(s)' <=> HasLive(s)
      /\ Once(free)' <=> Once(free)
      /\ Once(queue)' <=> Once(queue)
  BY DEF SlotsStill, slotVars, In, HasLive, Once
<1> HIDE DEF In, HasLive, Once, Holds
<1> QED
  BY <1>1 DEF PlaceInv

LEMMA StillSlots ==
    ASSUME GenInv, PlaceInv, ValueInv, NEW t \in Threads, OthersKeep(t), SlotsStill, SameHold(t)
    PROVE  GenInv' /\ PlaceInv' /\ ValueInv'
<1>1. gen' = gen /\ value' = value /\ issued' = issued
  BY DEF SlotsStill, slotVars
<1>2. PlaceInv'
  BY HoldsSame, StillPlaces DEF SameHold
<1>3. GenInv'
  <2>1. ASSUME NEW u \in Threads
        PROVE  /\ rpc'[u] \in Taking => gen[Slot(u)'] = Gen(u)' /\ Gen(u)' < MAX_GEN
               /\ rpc'[u] \in Removing => gen[Slot(u)'] = Gen(u)' + 1
               /\ rpc'[u] = "push" => Gen(u)' + 1 < MAX_GEN
               /\ rpc'[u] \in Looking \cup {"evict"} => Handle(u)' \in issued
    <3>1. CASE u # t
      BY <3>1 DEF OthersKeep, GenInv, Slot, Gen, Handle
    <3>2. CASE u = t
      BY <3>2 DEF GenInv, Slot, Gen, Handle, SameHold, Holding, Taking, Removing
    <3> QED
      BY <3>1, <3>2
  <2> QED
    BY <1>1, <2>1 DEF GenInv
<1>4. ValueInv'
  <2>1. \A s \in Slots : HasLive(s)' <=> HasLive(s)
    BY <1>1 DEF HasLive
  <2>2. \A u \in Threads : rpc'[u] \in {"mint", "swap"} => u # t
    BY DEF SameHold, Taking
  <2>3. \A u \in Threads : rpc[u] \in {"mint", "swap"} => u # t
    BY DEF SameHold
  <2> QED
    BY <1>1, <2>1, <2>2, <2>3 DEF ValueInv, OthersKeep, Slot, Gen, Handle
<1> QED
  BY <1>2, <1>3, <1>4

(* The readers after a step that moves no generation and no value.         *)
LEMMA StillReaders ==
    ASSUME EpochType, ReaderInv, NEW t \in Threads, OthersKeep(t), UNCHANGED slotVars,
           Unpin(t) \/ UNCHANGED epochVars \/ Pin(t),
           Reads(t)'
    PROVE  ReaderInv'
<1>1. gen' = gen /\ value' = value
  BY DEF slotVars
<1>2. /\ DOMAIN limbo' = DOMAIN limbo
      /\ \A o \in DOMAIN limbo, u \in Threads \ {t} : u \in limbo[o] => u \in limbo'[o]
  BY DEF Unpin, Pin, epochVars
<1>3. \A o \in DOMAIN limbo' : value'[o.index] # o.generation /\ o.generation < gen'[o.index]
  BY <1>1, <1>2 DEF ReaderInv
<1>4. ASSUME NEW u \in Threads, u # t
      PROVE  Reads(u)'
  BY <1>1, <1>2, <1>4 DEF ReaderInv, Reads, OthersKeep, Seen, Slot, Gen, Handle
<1> QED
  BY <1>3, <1>4 DEF ReaderInv

LEMMA NotReading ==
    ASSUME NEW t \in Threads, rpc'[t] \notin {"validate", "use"},
           rpc'[t] \in Looking => t \in pinned'
    PROVE  Reads(t)'
BY DEF Reads

(* The epoch and what the threads have at hand stay well typed.            *)
LEMMA UnpinType ==
    ASSUME EpochType, NEW t \in Threads, Unpin(t) \/ UNCHANGED epochVars \/ Pin(t)
    PROVE  EpochType'
BY DEF EpochType, Unpin, Pin, epochVars

-----------------------------------------------------------------------------
(* The steps that move no slot                                             *)

LEMMA StillType ==
    ASSUME SharedType, SlotsStill, value' = value, gen' = gen, len' \in Int, pending' \in BOOLEAN,
           state' \in Threads \cup {None}
    PROVE  SharedType'
BY DEF SharedType, SlotsStill, listVars

(* Everything but the mutex, the answer and the readers, of such a step.   *)
LEMMA StillKeeps ==
    ASSUME RegionAssumption, IInv, NEW t \in Threads, Step(t), Still, SameHold(t),
           Unpin(t) \/ UNCHANGED epochVars \/ Pin(t),
           rpc'[t] \in Labels, op'[t] \in Calls,
           answer'[t] \in Handles \cup {None, Pending},
           rpc'[t] \in Empty \/ op'[t].handle \in Handles,
           state' \in Threads \cup {None}
    PROVE  RType' /\ GenInv' /\ PlaceInv' /\ ValueInv' /\ OthersKeep(t)
<1>1. OthersKeep(t)
  BY StepFrame DEF IInv
<1>2. SlotsStill /\ value' = value /\ gen' = gen /\ len' = len /\ pending' = pending
  BY DEF Still, SlotsStill, listVars, slotVars
<1>3. GenInv' /\ PlaceInv' /\ ValueInv'
  BY <1>1, <1>2, StillSlots DEF IInv
<1>4. LocalType'
  BY <1>1, LocalMoves DEF IInv, RType
<1>5. EpochType'
  BY UnpinType DEF IInv, RType
<1>6. len' \in Int /\ pending' \in BOOLEAN
  BY <1>2 DEF IInv, RType, SharedType
<1>7. SharedType'
  BY <1>2, <1>6, StillType DEF IInv, RType
<1> QED
  BY <1>1, <1>3, <1>4, <1>5, <1>7 DEF RType

LEMMA StateTyped == ASSUME IInv PROVE state \in Threads \cup {None}
BY DEF IInv, RType, SharedType

LEMMA BeginKeeps ==
    ASSUME RegionAssumption, IInv, NEW t \in Threads, Step(t), NEW l \in {"lock", "generation", "evict"},
           Begun(t, l), op'[t] \in Calls,
           \/ l = "lock" /\ UNCHANGED epochVars
           \/ l # "lock" /\ op'[t].handle \in issued /\ Pin(t)
    PROVE  IInv'
<1>1. /\ rpc[t] = "idle" /\ rpc'[t] = l /\ answer'[t] = Pending /\ state' = state /\ Still
  BY DEF Begun
<1>2. SameHold(t)
  BY <1>1 DEF SameHold, Holding, Taking, Removing, Looking
<1>3. rpc'[t] \in Empty \/ op'[t].handle \in Handles
  BY <1>1 DEF Empty, IInv, RType, SharedType
<1>4. rpc'[t] \in Labels
  BY <1>1 DEF Labels, Open
<1>5. RType' /\ GenInv' /\ PlaceInv' /\ ValueInv' /\ OthersKeep(t)
  BY <1>1, <1>2, <1>3, <1>4, StateTyped, StillKeeps
<1>6. MutexInv'
  BY <1>1, <1>5, MutexMoves DEF IInv, Writing
<1>7. AnswerInv'
  BY <1>1, <1>5, AnswerMoves DEF IInv, Open
<1>8. rpc'[t] \in Looking => t \in pinned'
  BY <1>1 DEF Looking, Pin
<1>9. ReaderInv'
  BY <1>1, <1>5, <1>8, StillReaders, NotReading DEF IInv, RType, Still
<1> QED
  BY <1>5, <1>6, <1>7, <1>9 DEF IInv

LEMMA LockKeeps ==
    ASSUME RegionAssumption, IInv, NEW t \in Threads, Step(t), Lock(t)
    PROVE  IInv'
<1>1. /\ state = None /\ state' = t
      /\ \/ rpc[t] = "lock" /\ rpc'[t] = "hint"
         \/ rpc[t] = "relock" /\ rpc'[t] = "rehint"
      /\ op' = op /\ answer' = answer /\ Still /\ UNCHANGED epochVars
  BY LockDoes DEF IInv
<1>2. SameHold(t)
  BY <1>1 DEF SameHold, Holding, Taking, Removing, Looking
<1>3. /\ op'[t] \in Calls /\ answer'[t] \in Handles \cup {None, Pending}
      /\ rpc'[t] \in Labels /\ (rpc'[t] \in Empty \/ op'[t].handle \in Handles)
  BY <1>1, ThreadIs DEF IInv, Labels, Writing, Empty, Handle
<1>5. RType' /\ GenInv' /\ PlaceInv' /\ ValueInv' /\ OthersKeep(t)
  BY <1>1, <1>2, <1>3, StillKeeps
<1>6. MutexInv'
  BY <1>1, <1>5, MutexMoves DEF IInv, Writing
<1>7. AnswerInv'
  BY <1>1, <1>5, AnswerMoves DEF IInv, Open, AnswerInv
<1>9. ReaderInv'
  BY <1>1, <1>5, StillReaders, NotReading DEF IInv, RType, Still, Looking
<1> QED
  BY <1>5, <1>6, <1>7, <1>9 DEF IInv

(* A call that ends without a slot in its hand.                            *)
LEMMA EndKeeps ==
    ASSUME RegionAssumption, IInv, NEW t \in Threads, Step(t), Ended(t), Unpin(t),
           rpc[t] \in Looking \cup {"evict"},
           answer'[t] \in Handles \cup {None}, state' = state, Still
    PROVE  IInv'
<1>1. rpc'[t] = "idle" /\ op'[t] \in Calls
  BY NoCallIs DEF Ended
<1>2. SameHold(t)
  BY <1>1 DEF SameHold, Holding, Taking, Removing, Looking
<1>3. rpc'[t] \in Labels /\ rpc'[t] \in Empty /\ answer'[t] # Pending
  BY <1>1 DEF Labels, Empty, RegionAssumption
<1>5. RType' /\ GenInv' /\ PlaceInv' /\ ValueInv' /\ OthersKeep(t)
  BY <1>1, <1>2, <1>3, StateTyped, StillKeeps
<1>6. MutexInv'
  BY <1>1, <1>5, MutexMoves DEF IInv, Writing, Looking
<1>7. AnswerInv'
  BY <1>1, <1>3, <1>5, AnswerMoves DEF IInv, Open
<1>9. ReaderInv'
  BY <1>1, <1>5, StillReaders, NotReading DEF IInv, RType, Still, Looking
<1> QED
  BY <1>5, <1>6, <1>7, <1>9 DEF IInv

LEMMA ReadGenerationKeeps ==
    ASSUME RegionAssumption, IInv, NEW t \in Threads, Step(t), ReadGeneration(t)
    PROVE  IInv'
<1>1. /\ rpc[t] = "generation" /\ state' = state /\ Still
      /\ \/ Missed(t)
         \/ /\ gen[Slot(t)] = Gen(t) /\ rpc'[t] = "value"
            /\ UNCHANGED <<answer, op, epochVars>>
  BY ReadGenerationDoes DEF IInv
<1>2. CASE Missed(t)
  BY <1>1, <1>2, EndKeeps DEF Missed, Looking
<1>3. CASE rpc'[t] = "value" /\ UNCHANGED <<answer, op, epochVars>>
  <2>2. SameHold(t)
    BY <1>1, <1>3 DEF SameHold, Holding, Taking, Removing, Looking, IInv, GenInv, Handle
  <2>3. /\ op'[t] \in Calls /\ answer'[t] \in Handles \cup {None, Pending}
        /\ rpc'[t] \in Labels /\ op'[t].handle \in Handles
    BY <1>1, <1>3, ThreadIs DEF IInv, Labels, Looking, Empty, Handle
  <2>5. RType' /\ GenInv' /\ PlaceInv' /\ ValueInv' /\ OthersKeep(t)
    BY <1>1, <1>3, <2>2, <2>3, StateTyped, StillKeeps
  <2>6. MutexInv'
    BY <1>1, <1>3, <2>5, MutexMoves DEF IInv, Writing
  <2>7. AnswerInv'
    BY <1>1, <1>3, <2>5, AnswerMoves DEF IInv, Open, AnswerInv
  <2>8. t \in pinned'
    BY <1>1, <1>3 DEF IInv, ReaderInv, Reads, Looking, epochVars
  <2>9. ReaderInv'
    BY <1>1, <1>3, <2>5, <2>8, StillReaders, NotReading DEF IInv, RType, Still
  <2> QED
    BY <2>5, <2>6, <2>7, <2>9 DEF IInv
<1> QED
  BY <1>1, <1>2, <1>3

LEMMA ReadValueKeeps ==
    ASSUME RegionAssumption, IInv, NEW t \in Threads, Step(t), ReadValue(t)
    PROVE  IInv'
<1>1. /\ rpc[t] = "value" /\ state' = state /\ Still
      /\ \/ Missed(t)
         \/ /\ value[Slot(t)] \in 0 .. MAX_GEN /\ rpc'[t] = "validate"
            /\ op'[t] \in Calls
            /\ op'[t].handle = op[t].handle /\ op'[t].got = value[Slot(t)]
            /\ UNCHANGED <<answer, epochVars>>
  BY ReadValueDoes DEF IInv
<1>2. CASE Missed(t)
  BY <1>1, <1>2, EndKeeps DEF Missed, Looking
<1>3. CASE /\ value[Slot(t)] \in 0 .. MAX_GEN /\ rpc'[t] = "validate"
           /\ op'[t] \in Calls
           /\ op'[t].handle = op[t].handle /\ op'[t].got = value[Slot(t)]
           /\ UNCHANGED <<answer, epochVars>>
  <2>1. /\ Handle(t) \in issued /\ Handle(t) \in Handles /\ Slot(t) \in Slots
        /\ Handle(t) = [index |-> Slot(t), generation |-> Gen(t)]
    BY <1>1, ThreadIs DEF IInv, GenInv, Looking, Empty
  <2>2. SameHold(t)
    BY <1>1, <1>3, <2>1 DEF SameHold, Holding, Taking, Removing, Looking, Handle
  <2>3. /\ answer'[t] \in Handles \cup {None, Pending}
        /\ rpc'[t] \in Labels /\ op'[t].handle \in Handles
    BY <1>1, <1>3, <2>1, ThreadIs DEF IInv, Labels, Looking, Handle
  <2>5. RType' /\ GenInv' /\ PlaceInv' /\ ValueInv' /\ OthersKeep(t)
    BY <1>1, <1>3, <2>2, <2>3, StateTyped, StillKeeps
  <2>6. MutexInv'
    BY <1>1, <1>3, <2>5, MutexMoves DEF IInv, Writing
  <2>7. AnswerInv'
    BY <1>1, <1>3, <2>5, AnswerMoves DEF IInv, Open, AnswerInv
  <2>8. gen[Slot(t)] = Gen(t) => value[Slot(t)] = Gen(t)
    BY <2>1 DEF IInv, ValueInv, HasLive
  <2>9. [index |-> Slot(t), generation |-> value[Slot(t)]] \notin DOMAIN limbo
    BY <1>3, <2>1, HandleMade DEF IInv, ReaderInv
  <2>10. t \in pinned
    BY <1>1 DEF IInv, ReaderInv, Reads, Looking
  <2>11. Reads(t)'
    BY <1>1, <1>3, <2>8, <2>9, <2>10
       DEF Reads, Seen, Slot, Gen, Handle, Still, slotVars, epochVars
  <2>12. ReaderInv'
    BY <1>1, <1>3, <2>5, <2>11, StillReaders DEF IInv, RType, Still
  <2> QED
    BY <2>5, <2>6, <2>7, <2>12 DEF IInv
<1> QED
  BY <1>1, <1>2, <1>3

LEMMA ValidateKeeps ==
    ASSUME RegionAssumption, IInv, NEW t \in Threads, Step(t), Validate(t)
    PROVE  IInv'
<1>1. /\ rpc[t] = "validate" /\ state' = state /\ Still
      /\ \/ Missed(t)
         \/ /\ gen[Slot(t)] = Gen(t) /\ rpc'[t] = "use"
            /\ answer'[t] = [Handle(t) EXCEPT !.generation = op[t].got]
            /\ UNCHANGED <<op, epochVars>>
  BY ValidateDoes DEF IInv
<1>2. CASE Missed(t)
  BY <1>1, <1>2, EndKeeps DEF Missed, Looking
<1>3. CASE /\ gen[Slot(t)] = Gen(t) /\ rpc'[t] = "use"
           /\ answer'[t] = [Handle(t) EXCEPT !.generation = op[t].got]
           /\ UNCHANGED <<op, epochVars>>
  <2>1. /\ Handle(t) \in issued /\ Handle(t) \in Handles
        /\ Handle(t) = [index |-> Slot(t), generation |-> Gen(t)]
        /\ op[t] \in Calls
    BY <1>1, ThreadIs DEF IInv, GenInv, Looking, Empty
  <2>a. op[t].got = Gen(t) /\ t \in pinned /\ Reads(t)
    BY <1>1, <1>3 DEF IInv, ReaderInv, Reads, Looking
  <2>b. answer'[t] \in Handles
    BY <1>3, <2>1, <2>a, HandleIs, HandleAt DEF Gen
  <2>2. SameHold(t)
    BY <1>1, <1>3, <2>1 DEF SameHold, Holding, Taking, Removing, Looking, Handle
  <2>3. op'[t] \in Calls /\ rpc'[t] \in Labels /\ op'[t].handle \in Handles
    BY <1>1, <1>3, <2>1 DEF Labels, Looking, Handle
  <2>5. RType' /\ GenInv' /\ PlaceInv' /\ ValueInv' /\ OthersKeep(t)
    BY <1>1, <1>3, <2>2, <2>3, <2>b, StateTyped, StillKeeps
  <2>6. MutexInv'
    BY <1>1, <1>3, <2>5, MutexMoves DEF IInv, Writing
  <2>c. answer'[t] # Pending
    BY <2>b DEF RegionAssumption
  <2>7. AnswerInv'
    BY <1>1, <1>3, <2>5, <2>c, AnswerMoves DEF IInv, Open
  <2>11. Reads(t)'
    BY <1>1, <1>3, <2>a DEF Reads, Seen, Slot, Gen, Handle, Still, slotVars, epochVars
  <2>12. ReaderInv'
    BY <1>1, <1>3, <2>5, <2>11, StillReaders DEF IInv, RType, Still
  <2> QED
    BY <2>5, <2>6, <2>7, <2>12 DEF IInv
<1> QED
  BY <1>1, <1>2, <1>3

LEMMA UseKeeps ==
    ASSUME RegionAssumption, IInv, NEW t \in Threads, Step(t), Use(t) \/ Stale(t)
    PROVE  IInv'
<1>1. CASE Use(t)
  <2>1. /\ rpc[t] = "use" /\ Ended(t) /\ Unpin(t)
        /\ state' = state /\ Still /\ UNCHANGED answer
    BY <1>1, UseDoes DEF IInv
  <2>2. answer'[t] \in Handles \cup {None}
    BY <2>1, ThreadIs DEF IInv, AnswerInv, Open
  <2> QED
    BY <2>1, <2>2, EndKeeps DEF Looking
<1>2. CASE Stale(t)
  <2>1. rpc[t] = "evict" /\ Missed(t) /\ state' = state /\ Still
    BY <1>2, StaleDoes DEF IInv
  <2> QED
    BY <2>1, EndKeeps DEF Missed
<1> QED
  BY <1>1, <1>2

-----------------------------------------------------------------------------
(* Slots that go from the lists to a thread and back                       *)

(* The slots of both lists, after the queue has joined the free list or    *)
(* not.                                                                    *)
Pooled(list, q) ==
    /\ list \in Seq(Slots) /\ Once(list) /\ q \in Seq(Slots) /\ Once(q)
    /\ \A s \in Slots : /\ In(s, list) \/ In(s, q) <=> In(s, free) \/ In(s, queue)
                        /\ In(s, list) => ~ In(s, q)

LEMMA PooledBefore == ASSUME IInv PROVE Pooled(free, queue)
BY DEF IInv, RType, SharedType, PlaceInv, Pooled

LEMMA EmptyOnce == /\ <<>> \in Seq(Slots) /\ Once(<<>>)
                   /\ \A s \in Slots : ~ In(s, <<>>)
BY DEF Once, In

LEMMA PooledDrained ==
    ASSUME RType, PlaceInv, NEW t \in Threads, Drain(t)
    PROVE  Pooled(free \o queue, <<>>)
BY DrainDoes, EmptyOnce DEF Pooled

(* What the lists tell of their slots.                                     *)
LEMMA PooledSlots ==
    ASSUME IInv, NEW list, NEW q, Pooled(list, q), NEW s \in Slots, In(s, list) \/ In(s, q)
    PROVE  /\ gen[s] # MAX_GEN /\ ~ HasLive(s) /\ value[s] = None
           /\ \A u \in Threads : ~ Holds(u, s)
<1>1. /\ gen[s] # MAX_GEN /\ ~ HasLive(s)
      /\ \A u \in Threads : ~ Holds(u, s)
  BY DEF Pooled, IInv, PlaceInv
<1>2. value[s] = None
  BY <1>1 DEF IInv, ValueInv, Holds, Taking, Removing
<1> QED
  BY <1>1, <1>2

LEMMA TakenPlaces ==
    ASSUME IInv, NEW t \in Threads, OthersKeep(t), NEW list, Pooled(list, queue'),
           TakenFrom(t, list), rpc[t] \in {"hint", "drain"},
           UNCHANGED <<slotVars, issued>>
    PROVE  PlaceInv' /\ free' \in Seq(Slots)
<1>1. \A s \in Slots : HasLive(s)' <=> HasLive(s)
  BY DEF HasLive, slotVars
<1>2. \A s \in Slots : ~ Holds(t, s)
  BY DEF Holds, Taking, Removing
<1>3. \A u \in Threads \ {t}, s \in Slots : Holds(u, s)' <=> Holds(u, s)
  BY DEF Holds, OthersKeep, Slot, Handle
<1>4. gen' = gen
  BY DEF slotVars
<1>5. CASE list = <<>>
  <2>1. \A s \in Slots : ~ Holds(t, s)'
    BY <1>5 DEF TakenFrom, Holds, Taking, Removing, Ended
  <2>2. free' = list
    BY <1>5 DEF TakenFrom
  <2> QED
    BY <1>1, <1>2, <1>3, <1>4, <2>1, <2>2 DEF Pooled, IInv, PlaceInv
<1>6. CASE list # <<>>
  <2> DEFINE x == list[Len(list)]
  <2>1. /\ free' = SubSeq(list, 1, Len(list) - 1)
        /\ op'[t].handle = [index |-> x, generation |-> gen[x]]
        /\ rpc'[t] = "install"
    BY <1>6 DEF TakenFrom
  <2>2. /\ free' \in Seq(Slots) /\ Once(free')
        /\ x \in Slots /\ In(x, list)
        /\ \A s \in Slots : In(s, free') <=> In(s, list) /\ s # x
    BY <1>6, <2>1, ListPops DEF Pooled
  <2>3. \A s \in Slots : Holds(t, s)' <=> s = x
    BY <2>1, <2>2 DEF Holds, Taking, Slot, Handle
  <2>4. gen[x] # MAX_GEN /\ ~ HasLive(x) /\ \A u \in Threads : ~ Holds(u, x)
    BY <2>2, PooledSlots
  <2> HIDE DEF x
  <2>5. \A s \in Slots : In(s, free)' <=> In(s, free')
    BY DEF In
  <2>6. Once(free') <=> Once(free)'
    BY DEF Once
  <2> QED
    BY <1>1, <1>2, <1>3, <1>4, <2>2, <2>3, <2>4, <2>5, <2>6 DEF Pooled, IInv, PlaceInv
<1> QED
  BY <1>5, <1>6

LEMMA RelistedPlaces ==
    ASSUME RegionAssumption, IInv, NEW t \in Threads, OthersKeep(t), NEW list, Pooled(list, queue'),
           RelistedTo(t, list), rpc[t] \in {"rehint", "redrain"},
           UNCHANGED <<slotVars, issued>>
    PROVE  PlaceInv' /\ free' \in Seq(Slots)
<1>1. \A s \in Slots : HasLive(s)' <=> HasLive(s)
  BY DEF HasLive, slotVars
<1>2. /\ Slot(t) \in Slots /\ Gen(t) \in 0 .. MAX_GEN
      /\ \A s \in Slots : Holds(t, s) <=> s = Slot(t)
  BY ThreadIs DEF IInv, Holds, Removing, Empty
<1>3. /\ \A u \in Threads \ {t}, s \in Slots : Holds(u, s)' <=> Holds(u, s)
      /\ \A s \in Slots : ~ Holds(t, s)'
  BY DEF Holds, OthersKeep, Slot, Handle, RelistedTo, Ended, Taking, Removing
<1>4. gen' = gen /\ gen[Slot(t)] = Gen(t) + 1
  BY DEF slotVars, IInv, GenInv, Removing
<1>5. ~ In(Slot(t), list) /\ ~ In(Slot(t), queue') /\ ~ HasLive(Slot(t))
      /\ \A u \in Threads : Holds(u, Slot(t)) => u = t
  BY <1>2 DEF Pooled, IInv, PlaceInv
<1>6. CASE Reusable(t)
  <2>1. free' = Append(list, Slot(t)) /\ gen[Slot(t)] # MAX_GEN
    BY <1>4, <1>6 DEF RelistedTo, Reusable
  <2>2. /\ free' \in Seq(Slots) /\ Once(free')
        /\ \A s \in Slots : In(s, free') <=> In(s, list) \/ s = Slot(t)
    BY <1>2, <1>5, <2>1, ListGrows DEF Pooled
  <2>3. (\A s \in Slots : In(s, free)' <=> In(s, free')) /\ (Once(free') <=> Once(free)')
    BY DEF In, Once
  <2> QED
    BY <1>1, <1>2, <1>3, <1>4, <1>5, <2>1, <2>2, <2>3 DEF Pooled, IInv, PlaceInv
<1>7. CASE ~ Reusable(t)
  <2>1. free' = list /\ gen[Slot(t)] = MAX_GEN
    BY <1>4, <1>7 DEF RelistedTo, Reusable
  <2>3. (\A s \in Slots : In(s, free)' <=> In(s, free')) /\ (Once(free') <=> Once(free)')
    BY DEF In, Once
  <2> QED
    BY <1>1, <1>2, <1>3, <1>4, <1>5, <2>1, <2>3 DEF Pooled, IInv, PlaceInv
<1> QED
  BY <1>6, <1>7

(* The generations and the values, of a step that moves none and takes no  *)
(* thread where they tell of it, but for one that takes a slot.            *)
LEMMA TableKeeps ==
    ASSUME GenInv, ValueInv, NEW t \in Threads, OthersKeep(t), UNCHANGED <<slotVars, issued>>,
           rpc[t] \notin {"mint", "swap"},
           \/ rpc'[t] \in {"idle", "drain", "notify"}
           \/ rpc'[t] \in {"relock", "redrain"} /\ rpc[t] \in Removing /\ op'[t] = op[t]
           \/ rpc'[t] = "push" /\ rpc[t] \in Removing /\ op'[t] = op[t] /\ Gen(t) + 1 < MAX_GEN
           \/ rpc'[t] = "uncount" /\ rpc[t] = "swap" /\ op'[t] = op[t]
           \/ rpc'[t] = "install" /\ gen[Slot(t)'] = Gen(t)' /\ Gen(t)' < MAX_GEN
    PROVE  GenInv' /\ ValueInv'
<1>1. gen' = gen /\ value' = value /\ issued' = issued
  BY DEF slotVars
<1>2. GenInv'
  <2>1. ASSUME NEW u \in Threads
        PROVE  /\ rpc'[u] \in Taking => gen[Slot(u)'] = Gen(u)' /\ Gen(u)' < MAX_GEN
               /\ rpc'[u] \in Removing => gen[Slot(u)'] = Gen(u)' + 1
               /\ rpc'[u] = "push" => Gen(u)' + 1 < MAX_GEN
               /\ rpc'[u] \in Looking \cup {"evict"} => Handle(u)' \in issued
    <3>1. CASE u # t
      BY <3>1 DEF OthersKeep, GenInv, Slot, Gen, Handle
    <3>2. CASE u = t
      BY <3>2 DEF GenInv, Slot, Gen, Handle, Taking, Removing, Looking
    <3> QED
      BY <3>1, <3>2
  <2> QED
    BY <1>1, <2>1 DEF GenInv
<1>3. ValueInv'
  <2>1. \A s \in Slots : HasLive(s)' <=> HasLive(s)
    BY <1>1 DEF HasLive
  <2>2. \A u \in Threads : rpc'[u] \in {"mint", "swap"} => u # t
    OBVIOUS
  <2>3. \A u \in Threads : rpc[u] \in {"mint", "swap"} => u # t
    OBVIOUS
  <2> QED
    BY <1>1, <2>1, <2>2, <2>3 DEF ValueInv, OthersKeep, Slot, Gen, Handle
<1> QED
  BY <1>2, <1>3

LEMMA PoolTyped ==
    ASSUME SharedType, free' \in Seq(Slots), queue' \in Seq(Slots), pending' \in BOOLEAN,
           UNCHANGED <<slotVars, issued>>, len' \in Int, state' \in Threads \cup {None}
    PROVE  SharedType'
BY DEF SharedType, slotVars

(* An insert takes a slot or is refused; a removal gives its slot back.    *)
LEMMA TakenKeeps ==
    ASSUME RegionAssumption, IInv, NEW t \in Threads, Step(t), NEW list, Pooled(list, queue'),
           rpc[t] \in {"hint", "drain"}, TakenFrom(t, list), UNCHANGED epochVars,
           UNCHANGED <<slotVars, len, issued>>, pending' \in BOOLEAN
    PROVE  IInv'
<1>1. OthersKeep(t)
  BY StepFrame DEF IInv
<1>2. PlaceInv' /\ free' \in Seq(Slots)
  BY <1>1, TakenPlaces
<1>3. queue' \in Seq(Slots) /\ len' \in Int /\ state' \in Threads \cup {None}
  BY StateTyped DEF Pooled, IInv, RType, SharedType, TakenFrom
<1>4. SharedType'
  BY <1>2, <1>3, PoolTyped DEF IInv, RType
<1>5. EpochType'
  BY UnpinType DEF IInv, RType
<1>6. CASE list = <<>>
  <2>1. answer'[t] = None /\ rpc'[t] = "idle" /\ op'[t] = NoCall /\ state' = None
    BY <1>6 DEF TakenFrom, Ended
  <2>2. LocalType'
    BY <1>1, <2>1, NoCallIs, LocalMoves DEF IInv, RType, Labels, Empty
  <2>3. GenInv' /\ ValueInv'
    BY <1>1, <2>1, TableKeeps DEF IInv
  <2>4. MutexInv'
    BY <1>1, <2>1, MutexMoves DEF IInv, Writing
  <2>5. AnswerInv'
    BY <1>1, <2>1, AnswerMoves DEF Open, RegionAssumption, IInv
  <2>6. ReaderInv'
    BY <1>1, <2>1, NotReading, StillReaders DEF IInv, RType, Looking
  <2> QED
    BY <1>2, <1>4, <1>5, <2>2, <2>3, <2>4, <2>5, <2>6 DEF IInv, RType
<1>7. CASE list # <<>>
  <2> DEFINE x == list[Len(list)]
  <2>1. /\ op'[t] \in Calls /\ op'[t].handle = [index |-> x, generation |-> gen[x]]
        /\ rpc'[t] = "install" /\ answer' = answer /\ state' = state
    BY <1>7 DEF TakenFrom
  <2>2. x \in Slots /\ In(x, list)
    BY <1>7, ListPops DEF Pooled
  <2>3. gen[x] \in 0 .. MAX_GEN /\ gen[x] # MAX_GEN
    BY <2>2, PooledSlots DEF IInv, RType, SharedType
  <2> HIDE DEF x
  <2>4. /\ op'[t].handle \in Handles /\ Slot(t)' = x /\ Gen(t)' = gen[x]
        /\ gen[x] < MAX_GEN
    BY <2>1, <2>2, <2>3, HandleMade DEF RegionAssumption, Slot, Gen, Handle
  <2>5. answer'[t] \in Handles \cup {None, Pending}
    BY <2>1, ThreadIs DEF IInv
  <2>6. LocalType'
    BY <1>1, <2>1, <2>4, <2>5, LocalMoves DEF IInv, RType, Labels, Open
  <2>7. GenInv' /\ ValueInv'
    BY <1>1, <2>1, <2>4, TableKeeps DEF IInv
  <2>8. MutexInv'
    BY <1>1, <2>1, MutexMoves DEF IInv, Writing
  <2>9. AnswerInv'
    BY <1>1, <2>1, AnswerMoves DEF Open, AnswerInv, IInv
  <2>10. ReaderInv'
    BY <1>1, <2>1, NotReading, StillReaders DEF IInv, RType, Looking
  <2> QED
    BY <1>2, <1>4, <1>5, <2>6, <2>7, <2>8, <2>9, <2>10 DEF IInv, RType
<1> QED
  BY <1>6, <1>7

LEMMA RelistedKeeps ==
    ASSUME RegionAssumption, IInv, NEW t \in Threads, Step(t), NEW list, Pooled(list, queue'),
           rpc[t] \in {"rehint", "redrain"}, RelistedTo(t, list),
           UNCHANGED <<slotVars, len, issued>>, pending' \in BOOLEAN
    PROVE  IInv'
<1>1. OthersKeep(t)
  BY StepFrame DEF IInv
<1>2. PlaceInv' /\ free' \in Seq(Slots)
  BY <1>1, RelistedPlaces
<1>3. queue' \in Seq(Slots) /\ len' \in Int /\ state' \in Threads \cup {None}
  BY DEF Pooled, IInv, RType, SharedType, RelistedTo
<1>4. SharedType'
  BY <1>2, <1>3, PoolTyped DEF IInv, RType
<1>5. EpochType'
  BY UnpinType DEF IInv, RType, RelistedTo
<1>6. answer' = answer /\ rpc'[t] = "idle" /\ op'[t] = NoCall /\ state' = None
  BY DEF RelistedTo, Ended
<1>7. answer'[t] \in Handles \cup {None, Pending}
  BY <1>6, ThreadIs DEF IInv
<1>8. LocalType'
  BY <1>1, <1>6, <1>7, NoCallIs, LocalMoves DEF IInv, RType, Labels, Empty
<1>9. GenInv' /\ ValueInv'
  BY <1>1, <1>6, TableKeeps DEF IInv
<1>10. MutexInv'
  BY <1>1, <1>6, MutexMoves DEF IInv, Writing
<1>11. AnswerInv'
  BY <1>1, <1>6, AnswerMoves DEF Open, AnswerInv, IInv
<1>12. ReaderInv'
  BY <1>1, <1>6, NotReading, StillReaders DEF IInv, RType, Looking, RelistedTo
<1> QED
  BY <1>2, <1>4, <1>5, <1>8, <1>9, <1>10, <1>11, <1>12 DEF IInv, RType

LEMMA HintKeeps ==
    ASSUME RegionAssumption, IInv, NEW t \in Threads, Step(t), Hint(t)
    PROVE  IInv'
<1>1. /\ UNCHANGED <<queue, pending, slotVars, len, issued>>
      /\ \/ /\ \/ rpc[t] = "hint" /\ rpc'[t] = "drain"
               \/ rpc[t] = "rehint" /\ rpc'[t] = "redrain"
            /\ UNCHANGED <<state, free, epochVars, answer, op>>
         \/ /\ rpc[t] = "hint" /\ free # <<>>
            /\ TakenFrom(t, free) /\ UNCHANGED epochVars
         \/ rpc[t] = "rehint" /\ RelistedTo(t, free)
  BY HintDoes DEF IInv
<1>2. Pooled(free, queue') /\ pending' \in BOOLEAN
  BY <1>1, PooledBefore DEF IInv, RType, SharedType
<1>3. CASE /\ \/ rpc[t] = "hint" /\ rpc'[t] = "drain"
              \/ rpc[t] = "rehint" /\ rpc'[t] = "redrain"
           /\ UNCHANGED <<state, free, epochVars, answer, op>>
  <2>1. Still /\ SameHold(t)
    BY <1>1, <1>3 DEF Still, listVars, SameHold, Holding, Taking, Removing, Looking
  <2>2. /\ op'[t] \in Calls /\ answer'[t] \in Handles \cup {None, Pending}
        /\ rpc'[t] \in Labels /\ (rpc'[t] \in Empty \/ op'[t].handle \in Handles)
    BY <1>3, ThreadIs DEF IInv, Labels, Writing, Empty, Handle
  <2>3. RType' /\ GenInv' /\ PlaceInv' /\ ValueInv' /\ OthersKeep(t)
    BY <1>3, <2>1, <2>2, StateTyped, StillKeeps
  <2>4. MutexInv'
    BY <1>3, <2>3, MutexMoves DEF IInv, Writing
  <2>5. AnswerInv'
    BY <1>3, <2>3, AnswerMoves DEF IInv, Open, AnswerInv
  <2>6. ReaderInv'
    BY <1>1, <1>3, <2>3, StillReaders, NotReading DEF IInv, RType, Looking
  <2> QED
    BY <2>3, <2>4, <2>5, <2>6 DEF IInv
<1>4. CASE rpc[t] = "hint" /\ TakenFrom(t, free) /\ UNCHANGED epochVars
  BY <1>1, <1>2, <1>4, TakenKeeps
<1>5. CASE rpc[t] = "rehint" /\ RelistedTo(t, free)
  BY <1>1, <1>2, <1>5, RelistedKeeps
<1> QED
  BY <1>1, <1>3, <1>4, <1>5

LEMMA DrainKeeps ==
    ASSUME RegionAssumption, IInv, NEW t \in Threads, Step(t), Drain(t)
    PROVE  IInv'
<1>1. /\ pending' = FALSE /\ queue' = <<>> /\ UNCHANGED <<slotVars, len, issued>>
      /\ \/ rpc[t] = "drain" /\ TakenFrom(t, free \o queue) /\ UNCHANGED epochVars
         \/ rpc[t] = "redrain" /\ RelistedTo(t, free \o queue)
  BY DrainDoes DEF IInv
<1>2. Pooled(free \o queue, queue')
  BY <1>1, PooledDrained DEF IInv
<1>3. pending' \in BOOLEAN
  BY <1>1, Zenon
<1> QED
  BY <1>1, <1>2, <1>3, TakenKeeps, RelistedKeeps

-----------------------------------------------------------------------------
(* The steps that move a slot                                              *)

LEMMA TakerIs ==
    ASSUME RegionAssumption, IInv, NEW t \in Threads, rpc[t] \in Taking \cup Removing
    PROVE  /\ Slot(t) \in Slots /\ Gen(t) \in 0 .. MAX_GEN /\ gen[Slot(t)] \in 0 .. MAX_GEN
           /\ Handle(t) \in Handles /\ Handle(t) = [index |-> Slot(t), generation |-> Gen(t)]
           /\ op[t] \in Calls /\ answer[t] \in Handles \cup {None, Pending}
           /\ ~ HasLive(Slot(t)) /\ ~ In(Slot(t), free) /\ ~ In(Slot(t), queue)
           /\ \A u \in Threads \ {t} : ~ Holds(u, Slot(t))
           /\ \A s \in Slots : Holds(t, s) <=> s = Slot(t)
<1>1. /\ Slot(t) \in Slots /\ Gen(t) \in 0 .. MAX_GEN
      /\ Handle(t) \in Handles /\ Handle(t) = [index |-> Slot(t), generation |-> Gen(t)]
      /\ op[t] \in Calls /\ answer[t] \in Handles \cup {None, Pending}
  BY ThreadIs DEF IInv, Taking, Removing, Empty
<1>2. gen[Slot(t)] \in 0 .. MAX_GEN
  BY <1>1 DEF IInv, RType, SharedType
<1>3. \A s \in Slots : Holds(t, s) <=> s = Slot(t)
  BY DEF Holds
<1> QED
  BY <1>1, <1>2, <1>3 DEF IInv, PlaceInv

(* Who else is between taking a slot and giving it away.                   *)
LEMMA OtherHolders ==
    ASSUME RegionAssumption, IInv, NEW t \in Threads, OthersKeep(t)
    PROVE  /\ \A u \in Threads \ {t} : /\ Slot(u)' = Slot(u) /\ Gen(u)' = Gen(u)
                                       /\ Handle(u)' = Handle(u)
           /\ \A u \in Threads \ {t} : \A s \in Slots : Holds(u, s)' <=> Holds(u, s)
           /\ \A u \in Threads \ {t} : rpc[u] \in Taking \cup Removing => Holds(u, Slot(u))
BY DEF OthersKeep, Slot, Gen, Handle, Holds

(* A reader whom a step of another thread tells nothing of its handle.     *)
LEMMA OtherReads ==
    ASSUME NEW t \in Threads, OthersKeep(t), NEW u \in Threads, u # t, Reads(u),
           rpc[u] \in {"validate", "use"} /\ gen'[Slot(u)] = Gen(u) => gen[Slot(u)] = Gen(u),
           rpc[u] \in {"validate", "use"} /\ Seen(u) \in DOMAIN limbo' =>
             \/ u \in limbo'[Seen(u)]
             \/ Seen(u) \in DOMAIN limbo /\ limbo'[Seen(u)] = limbo[Seen(u)]
    PROVE  Reads(u)'
<1>1. /\ rpc'[u] = rpc[u] /\ op'[u] = op[u] /\ (u \in pinned => u \in pinned')
      /\ Slot(u)' = Slot(u) /\ Gen(u)' = Gen(u) /\ Seen(u)' = Seen(u)
  BY DEF OthersKeep, Slot, Gen, Handle, Seen
<1> HIDE DEF Seen, Slot, Gen
<1> QED
  BY <1>1 DEF Reads, Looking

LEMMA InstallKeeps ==
    ASSUME RegionAssumption, IInv, NEW t \in Threads, Step(t), Install(t)
    PROVE  IInv'
<1> DEFINE s == Slot(t)
<1>1. /\ rpc[t] = "install" /\ rpc'[t] = "mint"
      /\ value' = [value EXCEPT ![s] = Gen(t)]
      /\ UNCHANGED <<state, free, queue, pending, gen, len, pinned, limbo, issued, answer, op>>
  BY InstallDoes DEF IInv, listVars, epochVars
<1>2. OthersKeep(t)
  BY StepFrame DEF IInv
<1>3. /\ s \in Slots /\ Gen(t) \in 0 .. MAX_GEN /\ gen[s] = Gen(t) /\ Gen(t) < MAX_GEN
      /\ Handle(t) \in Handles /\ op[t] \in Calls /\ answer[t] \in Handles \cup {None, Pending}
      /\ ~ HasLive(s) /\ \A u \in Threads \ {t} : ~ Holds(u, s)
  BY <1>1, TakerIs DEF IInv, GenInv, Taking
<1>4. /\ op'[t] = op[t] /\ answer'[t] = answer[t]
      /\ Slot(t)' = s /\ Gen(t)' = Gen(t) /\ Handle(t)' = Handle(t)
  BY <1>1 DEF Slot, Gen, Handle
<1>5. value \in [Slots -> (0 .. MAX_GEN) \cup {None}]
  BY DEF IInv, RType, SharedType
<1>6. value'[s] = Gen(t) /\ \A r \in Slots \ {s} : value'[r] = value[r]
  BY <1>1, <1>3, <1>5
<1>7. RType'
  <2>1. LocalType'
    BY <1>1, <1>2, <1>3, <1>4, LocalMoves DEF IInv, RType, Labels, Open, Handle
  <2>2. EpochType'
    BY <1>1, UnpinType DEF IInv, RType, epochVars
  <2>3. SharedType'
    <3>1. value' \in [Slots -> (0 .. MAX_GEN) \cup {None}]
      BY <1>1, <1>3, <1>5
    <3> QED
      BY <1>1, <3>1, Zenon DEF IInv, RType, SharedType
  <2> QED
    BY <2>1, <2>2, <2>3 DEF RType
<1> HIDE DEF s
<1>8. MutexInv' /\ AnswerInv'
  BY <1>1, <1>2, <1>4, MutexMoves, AnswerMoves DEF IInv, Writing, Open, AnswerInv
<1>9. GenInv'
  <2>1. \A u \in Threads \ {t} : rpc'[u] = rpc[u]
    BY <1>2 DEF OthersKeep
  <2> QED
    BY <1>1, <1>2, <1>3, <1>4, <2>1, OtherHolders DEF IInv, GenInv, Taking, Removing, Looking, s
<1>10. PlaceInv'
  <2>1. \A u \in Threads, r \in Slots : Holds(u, r)' <=> Holds(u, r)
    BY <1>1, <1>2, HoldsSame DEF Holding, Taking
  <2>2. /\ \A r \in Slots : /\ In(r, free)' <=> In(r, free)
                            /\ In(r, queue)' <=> In(r, queue)
                            /\ HasLive(r)' <=> HasLive(r)
        /\ Once(free)' <=> Once(free)
        /\ Once(queue)' <=> Once(queue)
    BY <1>1 DEF In, HasLive, Once
  <2> QED
    BY <1>1, <2>1, <2>2 DEF IInv, PlaceInv
<1>11. ValueInv'
  <2>1. \A r \in Slots : HasLive(r)' <=> HasLive(r)
    BY <1>1 DEF HasLive
  <2>2. ASSUME NEW u \in Threads, rpc'[u] \in {"mint", "swap"}, u # t
        PROVE  /\ Slot(u)' = Slot(u) /\ Slot(u) \in Slots \ {s}
               /\ value'[Slot(u)] = value[Slot(u)] /\ Gen(u)' = Gen(u)
               /\ rpc[u] \in {"mint", "swap"}
    <3>1. rpc[u] \in {"mint", "swap"}
      BY <1>2, <2>2 DEF OthersKeep
    <3>2. Holds(u, Slot(u)) /\ Slot(u) \in Slots
      BY <3>1, TakerIs DEF Holds, Taking, Removing
    <3>3. Slot(u) # s
      BY <1>3, <2>2, <3>2
    <3> QED
      BY <1>2, <1>6, <2>2, <3>1, <3>2, <3>3, OtherHolders
  <2>3. \A r \in Slots : HasLive(r)' => value'[r] = gen'[r]
    BY <1>1, <1>3, <1>6, <2>1 DEF IInv, ValueInv
  <2>4. \A u \in Threads : rpc'[u] \in {"mint", "swap"} => value'[Slot(u)'] = Gen(u)'
    BY <1>4, <1>6, <2>2 DEF IInv, ValueInv
  <2>5. ASSUME NEW r \in Slots, value'[r] # None
        PROVE  HasLive(r)' \/ \E u \in Threads : rpc'[u] \in {"mint", "swap"} /\ Slot(u)' = r
    <3>1. CASE r = s
      BY <1>1, <1>4, <3>1
    <3>2. CASE r # s /\ ~ HasLive(r)
      <4>1. PICK u \in Threads : rpc[u] \in {"mint", "swap"} /\ Slot(u) = r
        BY <1>6, <2>5, <3>2 DEF IInv, ValueInv
      <4>2. u # t
        BY <1>1, <4>1
      <4> QED
        BY <1>2, <4>1, <4>2, OtherHolders DEF OthersKeep
    <3> QED
      BY <2>1, <3>1, <3>2
  <2> QED
    BY <2>3, <2>4, <2>5 DEF ValueInv
<1>12. ReaderInv'
  <2>1. ASSUME NEW o \in DOMAIN limbo
        PROVE  value'[o.index] # o.generation /\ o.generation < gen[o.index]
    <3>1. o \in Handles
      BY DEF IInv, RType, EpochType
    <3>2. o.index \in Slots /\ o.generation \in 0 .. MAX_GEN
      BY <3>1, HandleIs
    <3>3. value[o.index] # o.generation /\ o.generation < gen[o.index]
      BY DEF IInv, ReaderInv
    <3> QED
      BY <1>3, <1>6, <3>2, <3>3
  <2>2. ASSUME NEW u \in Threads
        PROVE  Reads(u)'
    <3>1. CASE u # t
      <4>1. Reads(u)
        BY DEF IInv, ReaderInv
      <4> QED
        BY <1>1, <1>2, <3>1, <4>1, OtherReads
    <3>2. CASE u = t
      BY <1>1, <3>2, NotReading DEF Looking
    <3> QED
      BY <3>1, <3>2
  <2> QED
    BY <1>1, <2>1, <2>2 DEF ReaderInv
<1> QED
  BY <1>7, <1>8, <1>9, <1>10, <1>11, <1>12 DEF IInv

LEMMA MintKeeps ==
    ASSUME RegionAssumption, IInv, NEW t \in Threads, Step(t), Mint(t)
    PROVE  IInv'
<1> DEFINE s == Slot(t)
           h == [index |-> s, generation |-> gen[s]]
<1>1. /\ rpc[t] = "mint" /\ rpc'[t] = "idle" /\ op'[t] = NoCall
      /\ h \in Handles /\ issued' = issued \cup {h} /\ answer'[t] = h
      /\ len' = len + 1 /\ state' = None
      /\ UNCHANGED <<free, queue, pending, gen, value, pinned, limbo>>
  BY MintDoes DEF IInv, Ended, listVars, slotVars, epochVars
<1>2. OthersKeep(t)
  BY StepFrame DEF IInv
<1>3. /\ s \in Slots /\ Gen(t) \in 0 .. MAX_GEN /\ gen[s] = Gen(t) /\ Gen(t) < MAX_GEN
      /\ ~ In(s, free) /\ ~ In(s, queue) /\ value[s] = Gen(t)
      /\ \A u \in Threads \ {t} : ~ Holds(u, s)
      /\ \A r \in Slots : Holds(t, r) <=> r = s
  BY <1>1, TakerIs DEF IInv, GenInv, ValueInv, Taking
<1>4. answer'[t] # Pending
  BY <1>1 DEF RegionAssumption
<1>5. RType'
  <2>1. LocalType'
    BY <1>1, <1>2, NoCallIs, LocalMoves DEF IInv, RType, Labels, Empty
  <2>2. EpochType'
    BY <1>1, UnpinType DEF IInv, RType, epochVars
  <2>3. SharedType'
    <3>1. len' \in Int /\ issued' \subseteq Handles
      BY <1>1 DEF IInv, RType, SharedType
    <3> QED
      BY <1>1, <3>1, Zenon DEF IInv, RType, SharedType
  <2> QED
    BY <2>1, <2>2, <2>3 DEF RType
<1>6. h.index = s /\ h.generation = gen[s]
  OBVIOUS
<1> HIDE DEF s
<1>7. \A r \in Slots : HasLive(r)' <=> HasLive(r) \/ r = s
  BY <1>1 DEF HasLive
<1> HIDE DEF h
<1>8. MutexInv'
  BY <1>1, <1>2, MutexMoves DEF IInv, Writing
<1>9. AnswerInv'
  BY <1>1, <1>2, <1>4, AnswerMoves DEF IInv, Open
<1>10. GenInv'
  <2>1. \A u \in Threads \ {t} : rpc'[u] = rpc[u]
    BY <1>2 DEF OthersKeep
  <2>2. \A g \in issued' : g.generation <= gen[g.index] /\ g.generation < MAX_GEN
    BY <1>1, <1>3, <1>6 DEF IInv, GenInv
  <2>3. ASSUME NEW u \in Threads
        PROVE  /\ rpc'[u] \in Taking => gen[Slot(u)'] = Gen(u)' /\ Gen(u)' < MAX_GEN
               /\ rpc'[u] \in Removing => gen[Slot(u)'] = Gen(u)' + 1
               /\ rpc'[u] = "push" => Gen(u)' + 1 < MAX_GEN
               /\ rpc'[u] \in Looking \cup {"evict"} => Handle(u)' \in issued'
    <3>1. CASE u = t
      BY <1>1, <3>1 DEF Taking, Removing, Looking
    <3>2. CASE u # t
      BY <1>1, <1>2, <2>1, <3>2, OtherHolders DEF IInv, GenInv
    <3> QED
      BY <3>1, <3>2
  <2> QED
    BY <1>1, <2>2, <2>3 DEF GenInv
<1>11. PlaceInv'
  <2>1. \A u \in Threads, r \in Slots : Holds(u, r)' <=> Holds(u, r) /\ u # t
    <3>1. \A r \in Slots : ~ Holds(t, r)'
      BY <1>1 DEF Holds, Taking, Removing
    <3> QED
      BY <1>2, <3>1, OtherHolders
  <2>2. /\ \A r \in Slots : /\ In(r, free)' <=> In(r, free)
                            /\ In(r, queue)' <=> In(r, queue)
        /\ Once(free)' <=> Once(free)
        /\ Once(queue)' <=> Once(queue)
    BY <1>1 DEF In, Once
  <2> QED
    BY <1>1, <1>3, <1>7, <2>1, <2>2 DEF IInv, PlaceInv
<1>12. ValueInv'
  <2>1. \A r \in Slots : HasLive(r)' => value[r] = gen[r]
    BY <1>3, <1>7 DEF IInv, ValueInv
  <2>2. \A u \in Threads : rpc'[u] \in {"mint", "swap"} =>
          u # t /\ rpc[u] = rpc'[u] /\ Slot(u)' = Slot(u) /\ Gen(u)' = Gen(u)
    BY <1>1, <1>2, OtherHolders DEF OthersKeep
  <2>3. ASSUME NEW r \in Slots, value[r] # None
        PROVE  HasLive(r)' \/ \E u \in Threads : rpc'[u] \in {"mint", "swap"} /\ Slot(u)' = r
    <3>1. CASE r = s
      BY <1>7, <3>1
    <3>2. CASE r # s /\ ~ HasLive(r)
      <4>1. PICK u \in Threads : rpc[u] \in {"mint", "swap"} /\ Slot(u) = r
        BY <2>3, <3>2 DEF IInv, ValueInv
      <4>2. u # t
        BY <3>2, <4>1 DEF s
      <4> QED
        BY <1>2, <4>1, <4>2, OtherHolders DEF OthersKeep
    <3> QED
      BY <1>7, <3>1, <3>2
  <2> QED
    BY <1>1, <2>1, <2>2, <2>3 DEF IInv, ValueInv
<1>13. ReaderInv'
  <2>1. Reads(t)'
    BY <1>1, NotReading DEF Looking
  <2> QED
    BY <1>1, <1>2, <2>1, StillReaders DEF IInv, RType, epochVars, slotVars
<1> QED
  BY <1>5, <1>8, <1>9, <1>10, <1>11, <1>12, <1>13 DEF IInv

LEMMA EvictKeeps ==
    ASSUME RegionAssumption, IInv, NEW t \in Threads, Step(t), Evict(t)
    PROVE  IInv'
<1> DEFINE s == Slot(t)
<1>1. /\ rpc[t] = "evict" /\ rpc'[t] = "swap" /\ answer'[t] = Handle(t)
      /\ Gen(t) # MAX_GEN /\ gen[s] = Gen(t)
      /\ gen' = [gen EXCEPT ![s] = Gen(t) + 1]
      /\ UNCHANGED <<state, free, queue, pending, value, len, pinned, limbo, issued, op>>
  BY EvictDoes DEF IInv, listVars, epochVars
<1>2. OthersKeep(t)
  BY StepFrame DEF IInv
<1>3. /\ s \in Slots /\ Gen(t) \in 0 .. MAX_GEN /\ Handle(t) \in Handles
      /\ Handle(t) = [index |-> s, generation |-> Gen(t)] /\ op[t] \in Calls
      /\ Handle(t) \in issued
  BY <1>1, ThreadIs DEF IInv, GenInv, Empty
<1>4. HasLive(s) /\ \A u \in Threads : ~ Holds(u, s)
  BY <1>1, <1>3 DEF HasLive, IInv, PlaceInv
<1>5. ~ In(s, free) /\ ~ In(s, queue) /\ value[s] = Gen(t)
  BY <1>1, <1>3, <1>4 DEF IInv, PlaceInv, ValueInv
<1>6. gen \in [Slots -> 0 .. MAX_GEN] /\ Gen(t) + 1 \in 0 .. MAX_GEN
  BY <1>1, <1>3 DEF IInv, RType, SharedType, RegionAssumption
<1>7. gen'[s] = Gen(t) + 1 /\ \A r \in Slots \ {s} : gen'[r] = gen[r]
  BY <1>1, <1>3, <1>6
<1>8. /\ op'[t] = op[t] /\ Slot(t)' = s /\ Gen(t)' = Gen(t) /\ Handle(t)' = Handle(t)
  BY <1>1 DEF Slot, Gen, Handle
<1>9. RType'
  <2>1. LocalType'
    BY <1>1, <1>2, <1>3, <1>8, LocalMoves DEF IInv, RType, Labels, Removing, Handle
  <2>2. EpochType'
    BY <1>1, UnpinType DEF IInv, RType, epochVars
  <2>3. SharedType'
    <3>1. gen' \in [Slots -> 0 .. MAX_GEN]
      BY <1>1, <1>3, <1>6
    <3> QED
      BY <1>1, <3>1, Zenon DEF IInv, RType, SharedType
  <2> QED
    BY <2>1, <2>2, <2>3 DEF RType
<1>10. answer'[t] # Pending
  BY <1>1, <1>3 DEF RegionAssumption
<1> HIDE DEF s
<1>11. MutexInv' /\ AnswerInv'
  BY <1>1, <1>2, <1>10, MutexMoves, AnswerMoves DEF IInv, Writing, Open
<1>12. \A g \in issued : g \in Handles /\ g.index \in Slots /\ g.generation \in 0 .. MAX_GEN
                         /\ g.generation <= gen[g.index] /\ g.generation < MAX_GEN
  BY HandleIs DEF IInv, GenInv, RType, SharedType
<1>13. \A r \in Slots : HasLive(r)' <=> HasLive(r) /\ r # s
  <2>1. ASSUME [index |-> s, generation |-> Gen(t) + 1] \in issued
        PROVE  FALSE
    BY <1>1, <1>3, <1>6, <1>12, <2>1
  <2> QED
    BY <1>1, <1>7, <2>1 DEF HasLive
<1>14. GenInv'
  <2>1. \A u \in Threads \ {t} : rpc'[u] = rpc[u]
    BY <1>2 DEF OthersKeep
  <2>2. \A g \in issued : g.generation <= gen'[g.index]
    BY <1>1, <1>3, <1>7, <1>12
  <2>3. ASSUME NEW u \in Threads
        PROVE  /\ rpc'[u] \in Taking => gen'[Slot(u)'] = Gen(u)' /\ Gen(u)' < MAX_GEN
               /\ rpc'[u] \in Removing => gen'[Slot(u)'] = Gen(u)' + 1
               /\ rpc'[u] = "push" => Gen(u)' + 1 < MAX_GEN
               /\ rpc'[u] \in Looking \cup {"evict"} => Handle(u)' \in issued
    <3>1. CASE u = t
      BY <1>1, <1>3, <1>7, <1>8, <3>1 DEF Taking, Looking
    <3>2. CASE u # t
      <4>1. rpc[u] \in Taking \cup Removing => gen'[Slot(u)] = gen[Slot(u)]
        <5> SUFFICES ASSUME rpc[u] \in Taking \cup Removing
                     PROVE  gen'[Slot(u)] = gen[Slot(u)]
          OBVIOUS
        <5>1. Slot(u) \in Slots /\ Holds(u, Slot(u))
          BY TakerIs DEF Holds
        <5> QED
          BY <1>4, <1>7, <5>1
      <4> QED
        BY <1>1, <1>2, <2>1, <3>2, <4>1, OtherHolders DEF IInv, GenInv
    <3> QED
      BY <3>1, <3>2
  <2> QED
    BY <1>1, <1>12, <2>2, <2>3 DEF GenInv
<1>15. PlaceInv'
  <2>1. \A u \in Threads, r \in Slots : Holds(u, r)' <=> Holds(u, r) \/ (u = t /\ r = s)
    <3>1. \A r \in Slots : ~ Holds(t, r) /\ (Holds(t, r)' <=> r = s)
      BY <1>1, <1>8 DEF Holds, Taking, Removing
    <3> QED
      BY <1>2, <3>1, OtherHolders
  <2>2. /\ \A r \in Slots : /\ In(r, free)' <=> In(r, free)
                            /\ In(r, queue)' <=> In(r, queue)
        /\ Once(free)' <=> Once(free)
        /\ Once(queue)' <=> Once(queue)
    BY <1>1 DEF In, Once
  <2> QED
    BY <1>1, <1>4, <1>5, <1>7, <1>13, <2>1, <2>2 DEF IInv, PlaceInv
<1>16. ValueInv'
  <2>1. \A r \in Slots : HasLive(r)' => value[r] = gen'[r]
    BY <1>7, <1>13 DEF IInv, ValueInv
  <2>2. \A u \in Threads \ {t} : /\ rpc'[u] = rpc[u] /\ Slot(u)' = Slot(u)
                                 /\ Gen(u)' = Gen(u)
    BY <1>2, OtherHolders DEF OthersKeep
  <2>3. \A u \in Threads : rpc'[u] \in {"mint", "swap"} => value[Slot(u)'] = Gen(u)'
    BY <1>5, <1>8, <2>2 DEF IInv, ValueInv
  <2>4. ASSUME NEW r \in Slots, value[r] # None
        PROVE  HasLive(r)' \/ \E u \in Threads : rpc'[u] \in {"mint", "swap"} /\ Slot(u)' = r
    <3>1. CASE r = s
      BY <1>1, <1>8, <3>1
    <3>2. CASE r # s /\ ~ HasLive(r)
      <4>1. PICK u \in Threads : rpc[u] \in {"mint", "swap"} /\ Slot(u) = r
        BY <2>4, <3>2 DEF IInv, ValueInv
      <4>2. u # t
        BY <1>1, <4>1
      <4> QED
        BY <2>2, <4>1, <4>2
    <3> QED
      BY <1>13, <3>1, <3>2
  <2> QED
    BY <1>1, <2>1, <2>3, <2>4 DEF ValueInv
<1>17. ReaderInv'
  <2>1. ASSUME NEW o \in DOMAIN limbo
        PROVE  value[o.index] # o.generation /\ o.generation < gen'[o.index]
    <3>1. o \in Handles
      BY DEF IInv, RType, EpochType
    <3>2. o.index \in Slots /\ o.generation \in 0 .. MAX_GEN
      BY <3>1, HandleIs
    <3>3. value[o.index] # o.generation /\ o.generation < gen[o.index]
      BY DEF IInv, ReaderInv
    <3> QED
      BY <1>1, <1>3, <1>7, <3>2, <3>3
  <2>2. ASSUME NEW u \in Threads
        PROVE  Reads(u)'
    <3>1. CASE u # t
      <4>1. Reads(u)
        BY DEF IInv, ReaderInv
      <4>2. rpc[u] \in {"validate", "use"} => Handle(u) \in issued
        BY DEF IInv, GenInv, Looking
      <4>3. rpc[u] \in {"validate", "use"} /\ gen'[Slot(u)] = Gen(u) => gen[Slot(u)] = Gen(u)
        BY <1>1, <1>3, <1>7, <1>12, <4>2 DEF Slot, Gen
      <4> QED
        BY <1>1, <1>2, <3>1, <4>1, <4>3, OtherReads
    <3>2. CASE u = t
      BY <1>1, <3>2, NotReading DEF Looking
    <3> QED
      BY <3>1, <3>2
  <2> QED
    BY <1>1, <2>1, <2>2 DEF ReaderInv
<1> QED
  BY <1>9, <1>11, <1>14, <1>15, <1>16, <1>17 DEF IInv

LEMMA SwapKeeps ==
    ASSUME RegionAssumption, IInv, NEW t \in Threads, Step(t), Swap(t)
    PROVE  IInv'
<1> DEFINE s == Slot(t)
           h == Handle(t)
<1>1. /\ rpc[t] = "swap" /\ rpc'[t] = "uncount"
      /\ value' = [value EXCEPT ![s] = None]
      /\ limbo' = [o \in DOMAIN limbo \cup {h} |-> IF o = h THEN pinned ELSE limbo[o]]
      /\ UNCHANGED <<state, free, queue, pending, gen, len, pinned, issued, answer, op>>
  BY SwapDoes DEF IInv, listVars
<1>2. OthersKeep(t)
  BY StepFrame DEF IInv
<1>3. /\ s \in Slots /\ Gen(t) \in 0 .. MAX_GEN /\ gen[s] = Gen(t) + 1
      /\ h \in Handles /\ h = [index |-> s, generation |-> Gen(t)]
      /\ op[t] \in Calls /\ answer[t] \in Handles \cup {None, Pending}
      /\ ~ HasLive(s) /\ \A u \in Threads \ {t} : ~ Holds(u, s)
  BY <1>1, TakerIs DEF IInv, GenInv, Removing
<1>4. h.index = s /\ h.generation = Gen(t)
  BY DEF Slot, Gen
<1>5. value \in [Slots -> (0 .. MAX_GEN) \cup {None}]
  BY DEF IInv, RType, SharedType
<1>6. value'[s] = None /\ \A r \in Slots \ {s} : value'[r] = value[r]
  BY <1>1, <1>3, <1>5
<1>7. /\ op'[t] = op[t] /\ answer'[t] = answer[t]
      /\ Slot(t)' = s /\ Gen(t)' = Gen(t) /\ Handle(t)' = h
  BY <1>1 DEF Slot, Gen, Handle
<1>8. RType'
  <2>1. LocalType'
    BY <1>1, <1>2, <1>3, <1>7, LocalMoves DEF IInv, RType, Labels, Removing, Handle
  <2>2. EpochType'
    BY <1>1, <1>3 DEF IInv, RType, EpochType
  <2>3. SharedType'
    <3>1. value' \in [Slots -> (0 .. MAX_GEN) \cup {None}]
      BY <1>1, <1>3, <1>5
    <3> QED
      BY <1>1, <3>1, Zenon DEF IInv, RType, SharedType
  <2> QED
    BY <2>1, <2>2, <2>3 DEF RType
<1> HIDE DEF s, h
<1>9. MutexInv' /\ AnswerInv'
  BY <1>1, <1>2, <1>7, MutexMoves, AnswerMoves DEF IInv, Writing, Open, AnswerInv
<1>10. \A u \in Threads \ {t} : /\ rpc'[u] = rpc[u] /\ Slot(u)' = Slot(u)
                                /\ Gen(u)' = Gen(u) /\ Handle(u)' = Handle(u)
  BY <1>2, OtherHolders DEF OthersKeep
<1>11. GenInv'
  <2>1. ASSUME NEW u \in Threads
        PROVE  /\ rpc'[u] \in Taking => gen[Slot(u)'] = Gen(u)' /\ Gen(u)' < MAX_GEN
               /\ rpc'[u] \in Removing => gen[Slot(u)'] = Gen(u)' + 1
               /\ rpc'[u] = "push" => Gen(u)' + 1 < MAX_GEN
               /\ rpc'[u] \in Looking \cup {"evict"} => Handle(u)' \in issued
    <3>1. CASE u = t
      BY <1>1, <1>3, <1>7, <3>1 DEF Taking, Looking
    <3>2. CASE u # t
      BY <1>10, <3>2 DEF IInv, GenInv
    <3> QED
      BY <3>1, <3>2
  <2> QED
    BY <1>1, <2>1 DEF IInv, GenInv
<1>12. PlaceInv'
  <2>1. \A u \in Threads, r \in Slots : Holds(u, r)' <=> Holds(u, r)
    BY <1>1, <1>2, HoldsSame DEF Holding, Removing
  <2>2. /\ \A r \in Slots : /\ In(r, free)' <=> In(r, free)
                            /\ In(r, queue)' <=> In(r, queue)
                            /\ HasLive(r)' <=> HasLive(r)
        /\ Once(free)' <=> Once(free)
        /\ Once(queue)' <=> Once(queue)
    BY <1>1 DEF In, HasLive, Once
  <2> QED
    BY <1>1, <2>1, <2>2 DEF IInv, PlaceInv
<1>13. ValueInv'
  <2>1. \A r \in Slots : HasLive(r)' <=> HasLive(r)
    BY <1>1 DEF HasLive
  <2>2. ASSUME NEW u \in Threads, rpc'[u] \in {"mint", "swap"}
        PROVE  value'[Slot(u)'] = Gen(u)'
    <3>1. u # t
      BY <1>1, <2>2
    <3>2. rpc[u] \in {"mint", "swap"} /\ value[Slot(u)] = Gen(u)
      BY <1>10, <2>2, <3>1 DEF IInv, ValueInv
    <3>3. Holds(u, Slot(u)) /\ Slot(u) \in Slots
      BY <3>2, TakerIs DEF Holds, Taking, Removing
    <3>4. Slot(u) # s
      BY <1>3, <3>1, <3>3
    <3> QED
      BY <1>6, <1>10, <3>1, <3>2, <3>3, <3>4
  <2>3. \A r \in Slots : HasLive(r)' => value'[r] = gen'[r]
    BY <1>1, <1>3, <1>6, <2>1 DEF IInv, ValueInv
  <2>4. ASSUME NEW r \in Slots, value'[r] # None, ~ HasLive(r)
        PROVE  \E u \in Threads : rpc'[u] \in {"mint", "swap"} /\ Slot(u)' = r
    <3>1. r # s /\ value[r] # None
      BY <1>6, <2>4
    <3>2. PICK u \in Threads : rpc[u] \in {"mint", "swap"} /\ Slot(u) = r
      BY <2>4, <3>1 DEF IInv, ValueInv
    <3>3. u # t
      BY <3>1, <3>2 DEF s
    <3> QED
      BY <1>10, <3>2, <3>3
  <2> QED
    BY <2>1, <2>2, <2>3, <2>4 DEF ValueInv
<1>14. ReaderInv'
  <2>1. ASSUME NEW o \in DOMAIN limbo'
        PROVE  value'[o.index] # o.generation /\ o.generation < gen[o.index]
    <3>1. o \in Handles /\ (o = h \/ o \in DOMAIN limbo)
      BY <1>1, <1>3 DEF IInv, RType, EpochType
    <3>2. o.index \in Slots /\ o.generation \in 0 .. MAX_GEN
      BY <3>1, HandleIs
    <3>3. CASE o = h
      BY <1>3, <1>4, <1>6, <3>3 DEF RegionAssumption
    <3>4. CASE o \in DOMAIN limbo
      <4>1. value[o.index] # o.generation /\ o.generation < gen[o.index]
        BY <3>4 DEF IInv, ReaderInv
      <4> QED
        BY <1>6, <3>2, <4>1 DEF RegionAssumption
    <3> QED
      BY <3>1, <3>3, <3>4
  <2>2. ASSUME NEW u \in Threads
        PROVE  Reads(u)'
    <3>1. CASE u # t
      <4>1. Reads(u)
        BY DEF IInv, ReaderInv
      <4>2. rpc[u] \in {"validate", "use"} => u \in pinned
        BY <4>1 DEF Reads, Looking
      <4>3. rpc[u] \in {"validate", "use"} /\ Seen(u) \in DOMAIN limbo' =>
              \/ u \in limbo'[Seen(u)]
              \/ Seen(u) \in DOMAIN limbo /\ limbo'[Seen(u)] = limbo[Seen(u)]
        <5> HIDE DEF Seen
        <5> QED
          BY <1>1, <4>2
      <4> QED
        BY <1>1, <1>2, <3>1, <4>1, <4>3, OtherReads
    <3>2. CASE u = t
      BY <1>1, <3>2, NotReading DEF Looking
    <3> QED
      BY <3>1, <3>2
  <2> QED
    BY <1>1, <2>1, <2>2 DEF ReaderInv
<1> QED
  BY <1>8, <1>9, <1>11, <1>12, <1>13, <1>14 DEF IInv

LEMMA UncountKeeps ==
    ASSUME RegionAssumption, IInv, NEW t \in Threads, Step(t), Uncount(t)
    PROVE  IInv'
<1>1. /\ rpc[t] = "uncount" /\ len' = len - 1
      /\ UNCHANGED <<state, free, queue, pending, slotVars, issued, answer>>
      /\ \/ rpc'[t] = "relock" /\ UNCHANGED <<op, epochVars>>
         \/ Reusable(t) /\ rpc'[t] = "push" /\ UNCHANGED <<op, epochVars>>
         \/ ~ Reusable(t) /\ Ended(t) /\ Unpin(t)
  BY UncountDoes DEF IInv, listVars
<1>2. OthersKeep(t)
  BY StepFrame DEF IInv
<1>3. /\ Slot(t) \in Slots /\ gen[Slot(t)] = Gen(t) + 1 /\ gen[Slot(t)] \in 0 .. MAX_GEN
      /\ Gen(t) \in 0 .. MAX_GEN
      /\ Handle(t) \in Handles /\ op[t] \in Calls /\ answer[t] \in Handles \cup {None, Pending}
      /\ ~ HasLive(Slot(t)) /\ ~ In(Slot(t), free) /\ ~ In(Slot(t), queue)
      /\ \A u \in Threads \ {t} : ~ Holds(u, Slot(t))
      /\ \A s \in Slots : Holds(t, s) <=> s = Slot(t)
  BY <1>1, TakerIs DEF IInv, GenInv, Removing
<1>4. \/ rpc'[t] = "relock" /\ op'[t] = op[t]
      \/ rpc'[t] = "push" /\ op'[t] = op[t] /\ Gen(t) + 1 < MAX_GEN
      \/ rpc'[t] = "idle" /\ op'[t] = NoCall /\ gen[Slot(t)] = MAX_GEN
  BY <1>1, <1>3 DEF Reusable, Ended, RegionAssumption
<1>5. SharedType' /\ EpochType'
  <2>1. len' \in Int
    BY <1>1 DEF IInv, RType, SharedType
  <2> QED
    BY <1>1, <2>1, StillType, UnpinType DEF IInv, RType, SharedType, SlotsStill, slotVars
<1>6. LocalType'
  <2>1. answer'[t] = answer[t]
    BY <1>1
  <2> QED
    BY <1>2, <1>3, <1>4, <2>1, NoCallIs, LocalMoves
       DEF IInv, RType, Labels, Removing, Empty, Handle
<1>7. MutexInv' /\ AnswerInv'
  BY <1>1, <1>2, <1>4, MutexMoves, AnswerMoves DEF IInv, Writing, Open, AnswerInv
<1>8. GenInv' /\ ValueInv'
  BY <1>1, <1>2, <1>4, TableKeeps DEF IInv, Removing
<1>9. PlaceInv'
  <2>1. CASE rpc'[t] # "idle"
    <3>1. \A u \in Threads, s \in Slots : Holds(u, s)' <=> Holds(u, s)
      BY <1>1, <1>2, <1>4, <2>1, HoldsSame DEF Holding, Removing
    <3> QED
      BY <1>1, <3>1, StillPlaces DEF IInv, SlotsStill
  <2>2. CASE rpc'[t] = "idle"
    <3>1. \A u \in Threads, s \in Slots : Holds(u, s)' <=> Holds(u, s) /\ u # t
      <4>1. \A s \in Slots : ~ Holds(t, s)'
        BY <2>2 DEF Holds, Taking, Removing
      <4> QED
        BY <1>2, <4>1, OtherHolders
    <3>2. /\ \A r \in Slots : /\ In(r, free)' <=> In(r, free)
                              /\ In(r, queue)' <=> In(r, queue)
                              /\ HasLive(r)' <=> HasLive(r)
          /\ Once(free)' <=> Once(free)
          /\ Once(queue)' <=> Once(queue)
          /\ gen' = gen
      BY <1>1 DEF In, HasLive, Once, slotVars
    <3>3. gen[Slot(t)] = MAX_GEN
      BY <1>4, <2>2
    <3> QED
      BY <1>3, <3>1, <3>2, <3>3 DEF IInv, PlaceInv
  <2> QED
    BY <2>1, <2>2
<1>10. ReaderInv'
  <2>1. Reads(t)'
    BY <1>4, NotReading DEF Looking
  <2> QED
    BY <1>1, <1>2, <2>1, StillReaders DEF IInv, RType
<1> QED
  BY <1>5, <1>6, <1>7, <1>8, <1>9, <1>10 DEF IInv, RType

LEMMA PushKeeps ==
    ASSUME RegionAssumption, IInv, NEW t \in Threads, Step(t), Push(t)
    PROVE  IInv'
<1>1. /\ rpc[t] = "push" /\ rpc'[t] = "notify" /\ queue' = Append(queue, Slot(t))
      /\ UNCHANGED <<state, free, pending, slotVars, len, epochVars, issued, answer, op>>
  BY PushDoes DEF IInv
<1>2. OthersKeep(t)
  BY StepFrame DEF IInv
<1>3. /\ Slot(t) \in Slots /\ gen[Slot(t)] = Gen(t) + 1 /\ Gen(t) + 1 < MAX_GEN
      /\ gen[Slot(t)] \in 0 .. MAX_GEN
      /\ Handle(t) \in Handles /\ op[t] \in Calls /\ answer[t] \in Handles \cup {None, Pending}
      /\ ~ HasLive(Slot(t)) /\ ~ In(Slot(t), free) /\ ~ In(Slot(t), queue)
      /\ \A u \in Threads \ {t} : ~ Holds(u, Slot(t))
      /\ \A s \in Slots : Holds(t, s) <=> s = Slot(t)
  BY <1>1, TakerIs DEF IInv, GenInv, Removing
<1>4. /\ queue' \in Seq(Slots) /\ Once(queue')
      /\ \A s \in Slots : In(s, queue') <=> In(s, queue) \/ s = Slot(t)
  BY <1>1, <1>3, ListGrows DEF IInv, RType, SharedType, PlaceInv
<1>5. answer'[t] = answer[t] /\ op'[t] = op[t]
  BY <1>1
<1>6. SharedType' /\ EpochType'
  <2>1. free' \in Seq(Slots) /\ pending' \in BOOLEAN /\ len' \in Int
        /\ state' \in Threads \cup {None}
    BY <1>1, Zenon DEF IInv, RType, SharedType
  <2> QED
    BY <1>1, <1>4, <2>1, PoolTyped, UnpinType DEF IInv, RType
<1>7. LocalType'
  BY <1>1, <1>2, <1>3, <1>5, LocalMoves DEF IInv, RType, Labels, Handle
<1>8. MutexInv' /\ AnswerInv'
  BY <1>1, <1>2, <1>5, MutexMoves, AnswerMoves DEF IInv, Writing, Open, AnswerInv
<1>9. GenInv' /\ ValueInv'
  BY <1>1, <1>2, TableKeeps DEF IInv
<1>10. PlaceInv'
  <2>1. \A u \in Threads, s \in Slots : Holds(u, s)' <=> Holds(u, s) /\ u # t
    <3>1. \A s \in Slots : ~ Holds(t, s)'
      BY <1>1 DEF Holds, Taking, Removing
    <3> QED
      BY <1>2, <3>1, OtherHolders
  <2>2. /\ \A r \in Slots : /\ In(r, free)' <=> In(r, free)
                            /\ In(r, queue)' <=> In(r, queue')
                            /\ HasLive(r)' <=> HasLive(r)
        /\ Once(free)' <=> Once(free)
        /\ Once(queue)' <=> Once(queue')
        /\ gen' = gen
    BY <1>1 DEF In, HasLive, Once, slotVars
  <2>3. gen[Slot(t)] # MAX_GEN
    BY <1>3 DEF RegionAssumption
  <2> QED
    BY <1>3, <1>4, <2>1, <2>2, <2>3 DEF IInv, PlaceInv
<1>11. ReaderInv'
  <2>1. Reads(t)'
    BY <1>1, NotReading DEF Looking
  <2> QED
    BY <1>1, <1>2, <2>1, StillReaders DEF IInv, RType
<1> QED
  BY <1>6, <1>7, <1>8, <1>9, <1>10, <1>11 DEF IInv, RType

LEMMA NotifyKeeps ==
    ASSUME RegionAssumption, IInv, NEW t \in Threads, Step(t), Notify(t)
    PROVE  IInv'
<1>1. /\ rpc[t] = "notify" /\ pending' = TRUE /\ Ended(t) /\ Unpin(t)
      /\ UNCHANGED <<state, free, queue, slotVars, len, issued, answer>>
  BY NotifyDoes DEF IInv
<1>2. OthersKeep(t)
  BY StepFrame DEF IInv
<1>3. rpc'[t] = "idle" /\ op'[t] = NoCall /\ answer'[t] = answer[t]
  BY <1>1 DEF Ended
<1>4. answer[t] \in Handles \cup {None, Pending}
  BY ThreadIs DEF IInv
<1>5. SharedType' /\ EpochType'
  <2>1. pending' \in BOOLEAN
    BY <1>1, Zenon
  <2>2. free' \in Seq(Slots) /\ queue' \in Seq(Slots) /\ len' \in Int
        /\ state' \in Threads \cup {None}
    BY <1>1, Zenon DEF IInv, RType, SharedType
  <2> QED
    BY <1>1, <2>1, <2>2, PoolTyped, UnpinType DEF IInv, RType
<1>6. LocalType'
  BY <1>2, <1>3, <1>4, NoCallIs, LocalMoves DEF IInv, RType, Labels, Empty
<1>7. MutexInv' /\ AnswerInv'
  BY <1>1, <1>2, <1>3, MutexMoves, AnswerMoves DEF IInv, Writing, Open, AnswerInv
<1>8. GenInv' /\ ValueInv'
  BY <1>1, <1>2, <1>3, TableKeeps DEF IInv
<1>9. PlaceInv'
  <2>1. \A u \in Threads, s \in Slots : Holds(u, s)' <=> Holds(u, s)
    BY <1>1, <1>2, <1>3, HoldsSame DEF Holding, Taking, Removing
  <2> QED
    BY <1>1, <2>1, StillPlaces DEF IInv, SlotsStill
<1>10. ReaderInv'
  <2>1. Reads(t)'
    BY <1>3, NotReading DEF Looking
  <2> QED
    BY <1>1, <1>2, <2>1, StillReaders DEF IInv, RType
<1> QED
  BY <1>5, <1>6, <1>7, <1>8, <1>9, <1>10 DEF IInv, RType

-----------------------------------------------------------------------------
(* The invariant holds                                                     *)

LEMMA InitInv == ASSUME RegionAssumption, Init PROVE IInv
<1>1. RType
  BY InitType
<1>2. \A t \in Threads : rpc[t] = "idle" /\ answer[t] = None
  BY DEF Init
<1>3. /\ free = [i \in 1 .. CAP |-> i - 1] /\ queue = <<>> /\ issued = {} /\ state = None
      /\ limbo = <<>> /\ \A s \in Slots : gen[s] = 0 /\ value[s] = None
  BY DEF Init
<1>4. MutexInv /\ AnswerInv
  BY <1>2, <1>3 DEF MutexInv, AnswerInv, Writing, Open, RegionAssumption
<1>5. GenInv /\ ValueInv
  BY <1>2, <1>3 DEF GenInv, ValueInv, HasLive, Taking, Removing, Looking
<1>6. PlaceInv
  <2>1. Len(free) = CAP /\ \A i \in 1 .. CAP : free[i] = i - 1
    BY <1>3 DEF RegionAssumption
  <2>2. Once(free)
    BY <2>1 DEF Once, RegionAssumption
  <2>3. ASSUME NEW s \in Slots
        PROVE  In(s, free)
    <3>1. s + 1 \in 1 .. CAP /\ (s + 1) - 1 = s
      BY DEF Slots, RegionAssumption
    <3>2. free[s + 1] = s
      BY <2>1, <3>1
    <3> QED
      BY <2>1, <3>1, <3>2, Zenon DEF In
  <2>4. Once(queue) /\ \A s \in Slots : ~ In(s, queue)
    BY <1>3, EmptyOnce
  <2>5. \A s \in Slots : gen[s] # MAX_GEN /\ ~ HasLive(s)
    BY <1>3 DEF RegionAssumption, HasLive
  <2>6. \A t \in Threads : \A s \in Slots : ~ Holds(t, s)
    BY <1>2 DEF Holds, Taking, Removing
  <2> QED
    BY <2>2, <2>3, <2>4, <2>5, <2>6 DEF PlaceInv
<1>7. ReaderInv
  <2>1. DOMAIN limbo = {}
    BY <1>3
  <2> QED
    BY <1>2, <2>1 DEF ReaderInv, Reads, Looking
<1> QED
  BY <1>1, <1>4, <1>5, <1>6, <1>7 DEF IInv

LEMMA StutterInv == ASSUME IInv, UNCHANGED vars PROVE IInv'
<1>1. /\ state' = state /\ free' = free /\ queue' = queue /\ pending' = pending
      /\ gen' = gen /\ value' = value /\ len' = len /\ pinned' = pinned /\ limbo' = limbo
      /\ issued' = issued /\ answer' = answer /\ rpc' = rpc /\ op' = op
  BY DEF vars, listVars, slotVars, epochVars
<1>2. RType'
  BY <1>1, Zenon DEF IInv, RType, LocalType, EpochType, SharedType
<1>3. \A t \in Threads : /\ Slot(t)' = Slot(t) /\ Gen(t)' = Gen(t) /\ Handle(t)' = Handle(t)
                         /\ Reads(t)' <=> Reads(t)
                         /\ \A s \in Slots : Holds(t, s)' <=> Holds(t, s)
  BY <1>1 DEF Slot, Gen, Handle, Reads, Seen, Holds
<1>4. \A s \in Slots : HasLive(s)' <=> HasLive(s)
  BY <1>1 DEF HasLive
<1>5. MutexInv' /\ AnswerInv' /\ GenInv'
  BY <1>1, <1>3 DEF IInv, MutexInv, AnswerInv, GenInv
<1>6. PlaceInv'
  BY <1>1, <1>3, StillPlaces DEF IInv, SlotsStill, slotVars
<1>7. ValueInv' /\ ReaderInv'
  BY <1>1, <1>3, <1>4 DEF IInv, ValueInv, ReaderInv
<1> QED
  BY <1>2, <1>5, <1>6, <1>7 DEF IInv

LEMMA StepInv ==
    ASSUME RegionAssumption, IInv, NEW t \in Threads, Step(t)
    PROVE  IInv'
<1>1. CASE Insert(t)
  <2>1. Begun(t, "lock") /\ op'[t] = NoCall /\ UNCHANGED epochVars
    BY <1>1, InsertDoes DEF IInv
  <2> QED
    BY <2>1, NoCallIs, BeginKeeps
<1>2. ASSUME NEW h \in issued, Get(t, h)
      PROVE  IInv'
  <2>1. Begun(t, "generation") /\ op'[t] \in Calls /\ op'[t].handle = h /\ Pin(t)
    BY <1>2, GetDoes DEF IInv
  <2> QED
    BY <2>1, BeginKeeps
<1>3. ASSUME NEW h \in issued, NEW mine \in BOOLEAN, Discard(t, h, mine)
      PROVE  IInv'
  <2>1. Begun(t, "evict") /\ op'[t] \in Calls /\ op'[t].handle = h /\ Pin(t)
    BY <1>3, DiscardDoes DEF IInv
  <2> QED
    BY <2>1, BeginKeeps
<1> QED
  BY <1>1, <1>2, <1>3, LockKeeps, HintKeeps, DrainKeeps, InstallKeeps, MintKeeps, EvictKeeps,
     SwapKeeps, UncountKeeps, PushKeeps, NotifyKeeps, ReadGenerationKeeps, ReadValueKeeps,
     ValidateKeeps, UseKeeps DEF Step

LEMMA NextIs == Next <=> \E t \in Threads : Step(t)
BY DEF Next, Step

LEMMA NextInv == ASSUME RegionAssumption, IInv, [Next]_vars PROVE IInv'
BY NextIs, StepInv, StutterInv

LEMMA RegionInv == ASSUME RegionAssumption PROVE Spec => []IInv
<1>1. Init => IInv
  BY InitInv
<1>2. IInv /\ [Next]_vars => IInv'
  BY NextInv
<1> QED
  BY <1>1, <1>2, PTL DEF Spec

-----------------------------------------------------------------------------
(* The count of the values                                                 *)

Counted == {t \in Threads : rpc[t] \in {"swap", "uncount"}}

LenInv == IsFiniteSet(Live) /\ len = Cardinality(Live) + Cardinality(Counted)

LEMMA CountedFinite == ASSUME RegionAssumption PROVE IsFiniteSet(Counted)
BY FS_Subset DEF RegionAssumption, Counted

LEMMA CountedMoves ==
    ASSUME NEW t \in Threads, OthersKeep(t)
    PROVE  /\ (rpc[t] \in {"swap", "uncount"} <=> rpc'[t] \in {"swap", "uncount"})
                => Counted' = Counted
           /\ rpc[t] \notin {"swap", "uncount"} /\ rpc'[t] \in {"swap", "uncount"}
                => Counted' = Counted \cup {t} /\ t \notin Counted
           /\ rpc[t] \in {"swap", "uncount"} /\ rpc'[t] \notin {"swap", "uncount"}
                => Counted' = Counted \ {t} /\ t \in Counted
BY DEF OthersKeep, Counted

(* Most steps count nothing.                                               *)
LEMMA LenSame ==
    ASSUME LenInv, NEW t \in Threads, OthersKeep(t), UNCHANGED <<gen, len, issued>>,
           rpc[t] \in {"swap", "uncount"} <=> rpc'[t] \in {"swap", "uncount"}
    PROVE  LenInv'
<1>1. Live' = Live /\ Counted' = Counted
  BY CountedMoves DEF Live
<1> QED
  BY <1>1 DEF LenInv

LEMMA MintCounts ==
    ASSUME RegionAssumption, IInv, LenInv, NEW t \in Threads, Step(t), Mint(t)
    PROVE  LenInv'
<1> DEFINE h == [index |-> Slot(t), generation |-> gen[Slot(t)]]
<1>1. /\ rpc[t] = "mint" /\ rpc'[t] = "idle"
      /\ issued' = issued \cup {h} /\ len' = len + 1 /\ gen' = gen
  BY MintDoes DEF IInv, Ended, slotVars
<1>2. h \notin issued
  BY <1>1, TakerIs DEF HasLive, Taking
<1>3. gen[h.index] = h.generation
  OBVIOUS
<1> HIDE DEF h
<1>4. Live' = Live \cup {h} /\ h \notin Live
  BY <1>1, <1>2, <1>3 DEF Live
<1>5. IsFiniteSet(Live') /\ Cardinality(Live') = Cardinality(Live) + 1
  BY <1>4, FS_AddElement DEF LenInv
<1>6. Counted' = Counted
  BY <1>1, CountedMoves, StepFrame DEF IInv
<1>7. Cardinality(Live) \in Nat /\ Cardinality(Counted) \in Nat
  BY CountedFinite, FS_CardinalityType DEF LenInv
<1> QED
  BY <1>1, <1>5, <1>6, <1>7 DEF LenInv

(* A removal that moves the generation on ends one live handle.            *)
LEMMA EvictedLive ==
    ASSUME RegionAssumption, IInv, NEW t \in Threads, Evict(t)
    PROVE  Handle(t) \in Live /\ Live' = Live \ {Handle(t)} /\ issued' = issued
<1> DEFINE h == Handle(t)
<1>1. /\ rpc[t] = "evict"
      /\ gen[Slot(t)] = Gen(t) /\ gen' = [gen EXCEPT ![Slot(t)] = Gen(t) + 1]
      /\ issued' = issued
  BY EvictDoes DEF IInv
<1>2. /\ h \in issued /\ Slot(t) \in Slots /\ Gen(t) \in 0 .. MAX_GEN
      /\ h.index = Slot(t) /\ h.generation = Gen(t)
      /\ h = [index |-> Slot(t), generation |-> Gen(t)]
  BY <1>1, ThreadIs DEF IInv, GenInv, Empty, Slot, Gen
<1>3. gen \in [Slots -> 0 .. MAX_GEN]
  BY DEF IInv, RType, SharedType
<1>4. gen'[Slot(t)] = Gen(t) + 1 /\ \A r \in Slots \ {Slot(t)} : gen'[r] = gen[r]
  BY <1>1, <1>2, <1>3
<1> HIDE DEF h
<1>5. ASSUME NEW g \in issued
      PROVE  gen'[g.index] = g.generation <=> gen[g.index] = g.generation /\ g # h
  <2>1. g \in Handles /\ g.generation <= gen[g.index]
    BY DEF IInv, GenInv, RType, SharedType
  <2>2. /\ g.index \in Slots /\ g.generation \in 0 .. MAX_GEN
        /\ g = [index |-> g.index, generation |-> g.generation]
    BY <2>1, HandleIs
  <2> QED
    BY <1>1, <1>2, <1>4, <2>1, <2>2
<1>6. Live' = Live \ {h} /\ h \in Live
  BY <1>1, <1>2, <1>5 DEF Live
<1> QED
  BY <1>1, <1>6 DEF h

LEMMA EvictCounts ==
    ASSUME RegionAssumption, IInv, LenInv, NEW t \in Threads, Step(t), Evict(t)
    PROVE  LenInv'
<1>1. Handle(t) \in Live /\ Live' = Live \ {Handle(t)}
  BY EvictedLive
<1>2. rpc[t] = "evict" /\ rpc'[t] = "swap" /\ len' = len
  BY EvictDoes DEF IInv
<1>3. IsFiniteSet(Live') /\ Cardinality(Live') = Cardinality(Live) - 1
  BY <1>1, FS_RemoveElement DEF LenInv
<1>4. Counted' = Counted \cup {t} /\ t \notin Counted
  BY <1>2, CountedMoves, StepFrame DEF IInv
<1>5. Cardinality(Counted') = Cardinality(Counted) + 1
  BY <1>4, CountedFinite, FS_AddElement
<1>6. Cardinality(Live) \in Nat /\ Cardinality(Counted) \in Nat
  BY CountedFinite, FS_CardinalityType DEF LenInv
<1> QED
  BY <1>2, <1>3, <1>5, <1>6 DEF LenInv

LEMMA UncountCounts ==
    ASSUME RegionAssumption, IInv, LenInv, NEW t \in Threads, Step(t), Uncount(t)
    PROVE  LenInv'
<1>1. /\ rpc[t] = "uncount" /\ rpc'[t] \in {"relock", "push", "idle"} /\ len' = len - 1
      /\ gen' = gen /\ issued' = issued
  BY UncountDoes DEF IInv, slotVars, Ended
<1>2. Live' = Live
  BY <1>1 DEF Live
<1>3. Counted' = Counted \ {t} /\ t \in Counted
  BY <1>1, CountedMoves, StepFrame DEF IInv
<1>4. Cardinality(Counted') = Cardinality(Counted) - 1
  BY <1>3, CountedFinite, FS_RemoveElement
<1>5. Cardinality(Live) \in Nat /\ Cardinality(Counted) \in Nat
  BY CountedFinite, FS_CardinalityType DEF LenInv
<1> QED
  BY <1>1, <1>2, <1>4, <1>5 DEF LenInv

LEMMA StepLen ==
    ASSUME RegionAssumption, IInv, LenInv, NEW t \in Threads, Step(t)
    PROVE  LenInv'
<1>0. OthersKeep(t) /\ RType /\ ValueInv /\ PlaceInv
  BY StepFrame DEF IInv
<1>1. CASE Insert(t) \/ Lock(t) \/ Stale(t) \/ Use(t)
  BY <1>0, <1>1, InsertDoes, LockDoes, StaleDoes, UseDoes, LenSame
     DEF Begun, Still, slotVars, Missed, Ended
<1>2. CASE Hint(t)
  BY <1>0, <1>2, HintDoes, LenSame DEF TakenFrom, RelistedTo, Ended, slotVars
<1>3. CASE Drain(t)
  BY <1>0, <1>3, DrainDoes, LenSame DEF TakenFrom, RelistedTo, Ended, slotVars
<1>4. CASE Install(t) \/ Swap(t)
  BY <1>0, <1>4, InstallDoes, SwapDoes, LenSame
<1>5. CASE Push(t) \/ Notify(t)
  BY <1>0, <1>5, PushDoes, NotifyDoes, LenSame DEF slotVars, Ended
<1>6. CASE ReadGeneration(t) \/ ReadValue(t) \/ Validate(t)
  BY <1>0, <1>6, ReadGenerationDoes, ReadValueDoes, ValidateDoes, LenSame
     DEF Still, slotVars, Missed, Ended
<1>7. CASE \E h \in issued : Get(t, h) \/ \E mine \in BOOLEAN : Discard(t, h, mine)
  BY <1>0, <1>7, GetDoes, DiscardDoes, LenSame DEF Begun, Still, slotVars
<1> QED
  BY <1>1, <1>2, <1>3, <1>4, <1>5, <1>6, <1>7, MintCounts, EvictCounts, UncountCounts DEF Step

LEMMA RegionLen == ASSUME RegionAssumption PROVE Spec => []LenInv
<1>1. Init => LenInv
  <2> SUFFICES ASSUME Init PROVE LenInv
    OBVIOUS
  <2>1. Live = {} /\ Counted = {} /\ len = 0
    BY DEF Init, Live, Counted
  <2> QED
    BY <2>1, FS_EmptySet DEF LenInv
<1>2. IInv /\ LenInv /\ [Next]_vars => LenInv'
  <2> SUFFICES ASSUME IInv, LenInv, [Next]_vars PROVE LenInv'
    OBVIOUS
  <2>1. CASE UNCHANGED vars
    BY <2>1 DEF LenInv, Live, Counted, vars, slotVars
  <2>2. CASE Next
    BY <2>2, NextIs, StepLen
  <2> QED
    BY <2>1, <2>2
<1>3. Spec => []IInv
  BY RegionInv
<1> QED
  BY <1>1, <1>2, <1>3, PTL DEF Spec

-----------------------------------------------------------------------------
(* What the invariant gives: the accounts of the region                    *)

(* How often a slot is on a list that has it at most once.                 *)
LEMMA OccursOnce ==
    ASSUME NEW q \in Seq(Slots), Once(q), NEW s
    PROVE  Occurrences(s, q) = IF In(s, q) THEN 1 ELSE 0
<1> DEFINE K == {i \in DOMAIN q : q[i] = s}
<1>1. K = {i \in 1 .. Len(q) : q[i] = s}
  OBVIOUS
<1>2. CASE In(s, q)
  <2>1. PICK k \in 1 .. Len(q) : q[k] = s
    BY <1>2 DEF In
  <2>2. K = {k}
    BY <1>1, <2>1 DEF Once
  <2> QED
    BY <1>2, <2>2, FS_Singleton DEF Occurrences
<1>3. CASE ~ In(s, q)
  <2>1. K = {}
    BY <1>1, <1>3 DEF In
  <2> QED
    BY <1>3, <2>1, FS_EmptySet DEF Occurrences
<1> QED
  BY <1>2, <1>3

LEMMA LiveOnce ==
    ASSUME IInv, NEW s \in Slots
    PROVE  /\ Cardinality({h \in Live : h.index = s}) = IF HasLive(s) THEN 1 ELSE 0
           /\ HasLive(s) <=> \E h \in Live : h.index = s
<1> DEFINE H == {h \in Live : h.index = s}
           x == [index |-> s, generation |-> gen[s]]
<1>1. ASSUME NEW h \in H
      PROVE  h = x
  <2>1. h \in Handles /\ h.index = s /\ h.generation = gen[s]
    BY DEF Live, IInv, RType, SharedType
  <2> QED
    BY <2>1, HandleIs
<1>2. x \in H <=> x \in issued
  <2>1. x.index = s /\ x.generation = gen[s]
    OBVIOUS
  <2> HIDE DEF x
  <2> QED
    BY <2>1 DEF Live
<1> HIDE DEF H, x
<1>3. CASE HasLive(s)
  <2>1. H = {x}
    BY <1>1, <1>2, <1>3 DEF HasLive, x
  <2> QED
    BY <1>3, <2>1, FS_Singleton DEF H
<1>4. CASE ~ HasLive(s)
  <2>1. H = {}
    BY <1>1, <1>2, <1>4 DEF HasLive, x
  <2> QED
    BY <1>4, <2>1, FS_EmptySet DEF H
<1> QED
  BY <1>3, <1>4

LEMMA HeldOnce ==
    ASSUME IInv, NEW s \in Slots
    PROVE  Cardinality(Installers(s) \cup Evicting(s))
             = IF \E t \in Threads : Holds(t, s) THEN 1 ELSE 0
<1>1. Installers(s) \cup Evicting(s) = {t \in Threads : Holds(t, s)}
  BY DEF Installers, Evicting, Holds, Taking, Removing
<1>2. CASE \E t \in Threads : Holds(t, s)
  <2>1. PICK t \in Threads : Holds(t, s)
    BY <1>2
  <2>2. {u \in Threads : Holds(u, s)} = {t}
    BY <2>1 DEF IInv, PlaceInv
  <2> QED
    BY <1>1, <1>2, <2>2, FS_Singleton
<1>3. CASE ~ \E t \in Threads : Holds(t, s)
  <2>1. {u \in Threads : Holds(u, s)} = {}
    BY <1>3
  <2> QED
    BY <1>1, <1>3, <2>1, FS_EmptySet
<1> QED
  BY <1>2, <1>3

LEMMA OnePlace ==
    ASSUME RegionAssumption, IInv, LenInv
    PROVE  SlotsHaveOnePlace
<1> SUFFICES ASSUME NEW s \in Slots
             PROVE  /\ Cardinality({h \in Live : h.index = s}) + Occurrences(s, free)
                         + Occurrences(s, queue) + Cardinality(Installers(s) \cup Evicting(s))
                         = IF gen[s] = MAX_GEN /\ Evicting(s) = {} THEN 0 ELSE 1
                    /\ value[s] # None <=>
                         \/ \E h \in Live : h.index = s
                         \/ \E t \in Installers(s) : At(t, "mint")
                         \/ \E t \in Evicting(s) : At(t, "swap")
  BY DEF SlotsHaveOnePlace, LenInv, Counted
<1>1. /\ Occurrences(s, free) = IF In(s, free) THEN 1 ELSE 0
      /\ Occurrences(s, queue) = IF In(s, queue) THEN 1 ELSE 0
  BY OccursOnce DEF IInv, RType, SharedType, PlaceInv
<1>2. CASE gen[s] = MAX_GEN /\ Evicting(s) = {}
  <2>1. ~ HasLive(s)
    BY <1>2, HandleIs DEF HasLive, IInv, GenInv, RType, SharedType, RegionAssumption
  <2>2. ~ In(s, free) /\ ~ In(s, queue)
    BY <1>2 DEF IInv, PlaceInv
  <2>3. ~ \E t \in Threads : Holds(t, s)
    <3> SUFFICES ASSUME NEW t \in Threads, Holds(t, s)
                 PROVE  FALSE
      OBVIOUS
    <3>1. rpc[t] \in Taking
      BY <1>2 DEF Holds, Evicting, Removing
    <3>2. gen[s] = Gen(t) /\ Gen(t) < MAX_GEN
      BY <3>1 DEF Holds, IInv, GenInv
    <3> QED
      BY <1>2, <3>2 DEF RegionAssumption
  <2> QED
    <3>1. Cardinality({h \in Live : h.index = s}) + Occurrences(s, free)
                         + Occurrences(s, queue) + Cardinality(Installers(s) \cup Evicting(s))
                         = 0
      BY <1>1, <2>1, <2>2, <2>3, LiveOnce, HeldOnce
    <3>2. value[s] = None
      BY <2>1, <2>3 DEF IInv, ValueInv, Holds, Taking, Removing
    <3>3. ~ \E t \in Installers(s) \cup Evicting(s) : TRUE
      BY <2>3 DEF Installers, Evicting, Holds, Taking, Removing
    <3> QED
      BY <1>2, <2>1, <3>1, <3>2, <3>3, LiveOnce
<1>3. CASE ~ (gen[s] = MAX_GEN /\ Evicting(s) = {})
  <2>1. \/ In(s, free) \/ In(s, queue) \/ HasLive(s)
        \/ \E t \in Threads : Holds(t, s)
    <3>1. Evicting(s) # {} => \E t \in Threads : Holds(t, s)
      BY DEF Evicting, Holds, Removing
    <3> QED
      BY <1>3, <3>1 DEF IInv, PlaceInv
  <2>2. /\ In(s, free) => ~ In(s, queue) /\ ~ HasLive(s) /\ ~ \E t \in Threads : Holds(t, s)
        /\ In(s, queue) => ~ HasLive(s) /\ ~ \E t \in Threads : Holds(t, s)
        /\ HasLive(s) => ~ \E t \in Threads : Holds(t, s)
    BY DEF IInv, PlaceInv
  <2>3. Cardinality({h \in Live : h.index = s}) + Occurrences(s, free)
                         + Occurrences(s, queue) + Cardinality(Installers(s) \cup Evicting(s))
                         = 1
    BY <1>1, <2>1, <2>2, LiveOnce, HeldOnce
  <2>4. HasLive(s) => value[s] # None
    BY DEF IInv, ValueInv, RType, SharedType, RegionAssumption
  <2>5. \A t \in Threads : rpc[t] \in {"mint", "swap"} /\ Slot(t) = s => value[s] # None
    BY ThreadIs DEF IInv, ValueInv, RegionAssumption, Empty
  <2>6. value[s] # None => HasLive(s) \/ \E t \in Threads : rpc[t] \in {"mint", "swap"} /\ Slot(t) = s
    BY DEF IInv, ValueInv
  <2>7. (\E t \in Threads : rpc[t] \in {"mint", "swap"} /\ Slot(t) = s)
          <=> \/ \E t \in Installers(s) : At(t, "mint")
              \/ \E t \in Evicting(s) : At(t, "swap")
    BY DEF Installers, Evicting, At
  <2> QED
    BY <1>3, <2>3, <2>4, <2>5, <2>6, <2>7, LiveOnce
<1> QED
  BY <1>2, <1>3

LEMMA SafeReaders == ASSUME IInv PROVE ReadersAreSafe
<1> SUFFICES ASSUME NEW t \in Threads, rpc[t] = "use"
             PROVE  op[t].got = Gen(t) /\ ~ Gone([Handle(t) EXCEPT !.generation = op[t].got])
  BY DEF ReadersAreSafe, At
<1>1. op[t].got = Gen(t) /\ (Seen(t) \in DOMAIN limbo => t \in limbo[Seen(t)])
  BY DEF IInv, ReaderInv, Reads
<1>2. /\ Handle(t) \in Handles /\ Gen(t) \in 0 .. MAX_GEN
      /\ Handle(t) = [index |-> Slot(t), generation |-> Gen(t)]
  BY ThreadIs DEF IInv, Empty
<1>3. [Handle(t) EXCEPT !.generation = op[t].got] = Seen(t)
  BY <1>1, <1>2, HandleAt DEF Seen, Slot
<1> QED
  BY <1>1, <1>3 DEF Gone

(* However many threads insert, remove and read: a slot of the epoch       *)
(* region is live, free, queued, with one thread or retired, never two of  *)
(* these; it has a value exactly when it should; len counts them; and a    *)
(* reader uses the value of its own handle, which is still there           *)
(* (try_evict_at, drain_remote_free, read_with).                           *)
THEOREM RegionAccountsHold == ASSUME RegionAssumption PROVE Spec => []RegionAccounts
<1>1. IInv /\ LenInv => RegionAccounts
  BY OnePlace, SafeReaders DEF RegionAccounts
<1> QED
  BY <1>1, RegionInv, RegionLen, PTL

-----------------------------------------------------------------------------
(* The region is a store of handles                                        *)

LEMMA AnswerIs ==
    ASSUME RType, NEW t \in Threads, OthersKeep(t)
    PROVE  answer' = [answer EXCEPT ![t] = answer'[t]]
<1>1. answer \in [Threads -> Handles \cup {None, Pending}] /\ DOMAIN answer' = Threads
      /\ answer' = [u \in Threads |-> answer'[u]]
      /\ \A u \in Threads \ {t} : answer'[u] = answer[u]
  BY DEF RType, LocalType, OthersKeep
<1> QED
  BY <1>1

LEMMA LiveStill ==
    ASSUME UNCHANGED <<gen, issued>>
    PROVE  Live' = Live /\ (issued \ Live)' = issued \ Live
BY DEF Live

(* The calls, as the store has them.                                       *)
Asks == [u \in Threads |-> Asked(u)]

LEMMA AskedIs ==
    ASSUME NEW t \in Threads
    PROVE  /\ rpc[t] \in {"lock", "hint", "drain", "install", "mint"} => Asked(t) = <<"insert">>
           /\ rpc[t] \in {"generation", "value", "validate"} =>
                Asked(t) = <<"get", Handle(t)>>
           /\ rpc[t] = "evict" => Asked(t) = <<"remove", Handle(t)>>
           /\ rpc[t] \notin Open => Asked(t) = None
BY DEF Asked, Open, At

LEMMA AskedThen ==
    ASSUME NEW t \in Threads
    PROVE  /\ rpc'[t] \in {"lock", "hint", "drain", "install", "mint"} =>
                Asked(t)' = <<"insert">>
           /\ rpc'[t] \in {"generation", "value", "validate"} =>
                Asked(t)' = <<"get", op'[t].handle>>
           /\ rpc'[t] = "evict" => Asked(t)' = <<"remove", op'[t].handle>>
           /\ rpc'[t] \notin Open => Asked(t)' = None
BY DEF Asked, Open, At, Handle

LEMMA AsksAre ==
    ASSUME NEW t \in Threads, OthersKeep(t)
    PROVE  Asks' = [Asks EXCEPT ![t] = Asked(t)'] /\ Asks[t] = Asked(t)
<1>1. \A u \in Threads \ {t} : Asked(u)' = Asked(u)
  BY DEF Asked, OthersKeep, At, Handle
<1> QED
  BY <1>1 DEF Asks

(* A step that the store does not see.                                     *)
LEMMA StoreStutters ==
    ASSUME RType, NEW t \in Threads, OthersKeep(t), UNCHANGED <<gen, issued>>,
           answer'[t] = answer[t], Asked(t)' = Asked(t)
    PROVE  UNCHANGED Store!vars
<1>1. answer \in [Threads -> Handles \cup {None, Pending}]
  BY DEF RType, LocalType
<1>2. answer' = answer
  BY <1>1, AnswerIs
<1>3. Asks' = Asks
  BY AsksAre DEF Asks
<1> QED
  BY <1>2, <1>3, LiveStill DEF Store!vars, Asks

LEMMA StoreCalls ==
    ASSUME IInv, NEW t \in Threads, OthersKeep(t), NEW l, Begun(t, l), NEW c, Asked(t)' = c
    PROVE  Store!Ask(t, c)
<1>1. answer'[t] = Pending /\ UNCHANGED <<gen, issued>> /\ Asked(t) = None
  BY AskedIs DEF Begun, Still, slotVars, Open
<1>2. Asks[t] = None /\ Asks' = [Asks EXCEPT ![t] = c]
  BY <1>1, AsksAre
<1> QED
  BY <1>1, <1>2, AnswerIs, LiveStill DEF Store!Ask, Asks, IInv

(* A step that answers a call.                                             *)
LEMMA StoreReturns ==
    ASSUME IInv, NEW t \in Threads, OthersKeep(t), NEW c, NEW r,
           Asked(t) = c, Asked(t)' = None, answer'[t] = r
    PROVE  Store!Return(t, c, r)
<1>1. Asks[t] = c /\ Asks' = [Asks EXCEPT ![t] = None]
  BY AsksAre
<1> QED
  BY <1>1, AnswerIs DEF Store!Return, Asks, IInv

LEMMA StoreRefuses ==
    ASSUME IInv, NEW t \in Threads, OthersKeep(t), UNCHANGED <<gen, issued>>,
           rpc[t] \in {"hint", "drain"}, rpc'[t] = "idle", answer'[t] = None
    PROVE  Store!Next
<1>1. Asked(t) = <<"insert">> /\ Asked(t)' = None
  BY AskedIs, AskedThen DEF Open
<1>2. Store!Refuse(t)
  BY <1>1, StoreReturns, LiveStill DEF Store!Refuse, Store!InsertCall
<1> QED
  BY <1>2 DEF Store!Next

(* A get that finds nothing: its handle is not live.                       *)
LEMMA StoreMisses ==
    ASSUME IInv, NEW t \in Threads, OthersKeep(t), UNCHANGED <<gen, issued>>,
           rpc[t] \in {"generation", "value", "validate"}, rpc'[t] = "idle",
           answer'[t] = None, Handle(t) \notin Live
    PROVE  Store!Next
<1>1. Asked(t) = <<"get", Handle(t)>> /\ Asked(t)' = None
  BY AskedIs, AskedThen DEF Open
<1>2. Handle(t) \in issued \ Live
  BY DEF IInv, GenInv, Looking
<1>3. Store!Get(t, Handle(t))
  BY <1>1, <1>2, StoreReturns, LiveStill DEF Store!Get, Store!GetCall, Store!Found
<1> QED
  BY <1>2, <1>3 DEF Store!Next

(* A slot with a live handle has a value.                                  *)
LEMMA LiveHasValue ==
    ASSUME RegionAssumption, IInv, NEW t \in Threads, rpc[t] \in Looking \cup {"evict"}
    PROVE  /\ Handle(t) \in Live => gen[Slot(t)] = Gen(t) /\ Gen(t) # MAX_GEN
           /\ Handle(t) \in Live => value[Slot(t)] # None
<1> SUFFICES ASSUME Handle(t) \in Live
             PROVE  gen[Slot(t)] = Gen(t) /\ Gen(t) # MAX_GEN /\ value[Slot(t)] # None
  OBVIOUS
<1>1. /\ Handle(t) \in issued /\ Slot(t) \in Slots /\ Gen(t) \in 0 .. MAX_GEN
      /\ Handle(t) = [index |-> Slot(t), generation |-> Gen(t)]
  BY ThreadIs DEF IInv, Looking, Empty, Live
<1>2. gen[Slot(t)] = Gen(t)
  BY DEF Live, Slot, Gen
<1>3. Gen(t) < MAX_GEN
  BY <1>1 DEF IInv, GenInv, Gen
<1>4. value[Slot(t)] = Gen(t)
  BY <1>1, <1>2 DEF IInv, ValueInv, HasLive
<1> QED
  BY <1>1, <1>2, <1>3, <1>4 DEF RegionAssumption

LEMMA StoreInserts ==
    ASSUME RegionAssumption, IInv, NEW t \in Threads, Step(t), Mint(t)
    PROVE  Store!Next
<1> DEFINE h == [index |-> Slot(t), generation |-> gen[Slot(t)]]
<1>1. /\ rpc[t] = "mint" /\ h \in Handles /\ answer'[t] = h /\ rpc'[t] = "idle"
      /\ issued' = issued \cup {h} /\ gen' = gen
  BY MintDoes DEF IInv, slotVars, Ended
<1>2. h \notin issued
  BY <1>1, TakerIs DEF HasLive, Taking
<1>3. gen[h.index] = h.generation
  OBVIOUS
<1>4. Asked(t) = <<"insert">> /\ Asked(t)' = None
  BY <1>1, AskedIs, AskedThen DEF Open
<1> HIDE DEF h
<1>5. /\ Live' = Live \cup {h} /\ (issued \ Live)' = issued \ Live
      /\ h \notin Live \cup (issued \ Live)
  BY <1>1, <1>2, <1>3 DEF Live
<1>6. Store!Insert(t, h)
  BY <1>1, <1>4, <1>5, StoreReturns, StepFrame DEF Store!Insert, Store!InsertCall, IInv
<1> QED
  BY <1>1, <1>6 DEF Store!Next

LEMMA StoreRemoves ==
    ASSUME RegionAssumption, IInv, NEW t \in Threads, Step(t), Evict(t)
    PROVE  Store!Next
<1> DEFINE h == Handle(t)
<1>1. h \in Live /\ Live' = Live \ {h} /\ issued' = issued
  BY EvictedLive
<1>2. rpc[t] = "evict" /\ answer'[t] = h /\ rpc'[t] = "swap"
  BY EvictDoes DEF IInv
<1>3. Asked(t) = <<"remove", h>> /\ Asked(t)' = None
  BY <1>2, AskedIs, AskedThen DEF Open
<1> HIDE DEF h
<1>4. h \in issued
  BY <1>1 DEF Live
<1>5. (issued \ Live)' = (issued \ Live) \cup (Live \cap {h})
  BY <1>1, <1>4
<1>6. Store!Return(t, <<"remove", h>>, h)
  BY <1>2, <1>3, StoreReturns, StepFrame DEF IInv
<1>7. Store!Remove(t, h)
  BY <1>1, <1>5, <1>6 DEF Store!Remove, Store!RemoveCall, Store!Found
<1>8. h \in Live \cup (issued \ Live)
  BY <1>1
<1> QED
  BY <1>7, <1>8 DEF Store!Next

(* A removal that comes too late.                                          *)
LEMMA StoreStale ==
    ASSUME RegionAssumption, IInv, NEW t \in Threads, Step(t), Stale(t)
    PROVE  Store!Next
<1>1. /\ rpc[t] = "evict" /\ answer'[t] = None /\ rpc'[t] = "idle"
      /\ UNCHANGED <<gen, issued>>
  BY StaleDoes DEF IInv, Missed, Ended, Still, slotVars
<1>2. Gen(t) = MAX_GEN \/ gen[Slot(t)] # Gen(t)
  BY DEF Stale
<1>3. Handle(t) \in issued \ Live
  BY <1>1, <1>2, LiveHasValue DEF IInv, GenInv
<1>4. Asked(t) = <<"remove", Handle(t)>> /\ Asked(t)' = None
  BY <1>1, AskedIs, AskedThen DEF Open
<1>5. Store!Return(t, <<"remove", Handle(t)>>, None)
  BY <1>1, <1>4, StoreReturns, StepFrame DEF IInv
<1>6. Live' = Live \ {Handle(t)}
      /\ (issued \ Live)' = (issued \ Live) \cup (Live \cap {Handle(t)})
  BY <1>1, <1>3, LiveStill
<1>7. Store!Remove(t, Handle(t))
  BY <1>3, <1>5, <1>6 DEF Store!Remove, Store!RemoveCall, Store!Found
<1> QED
  BY <1>3, <1>7 DEF Store!Next

LEMMA StoreGets ==
    ASSUME RegionAssumption, IInv, NEW t \in Threads, Step(t), Validate(t)
    PROVE  Store!Next
<1>1. /\ rpc[t] = "validate" /\ UNCHANGED <<gen, issued>>
      /\ \/ answer'[t] = None /\ rpc'[t] = "idle" /\ gen[Slot(t)] # Gen(t)
         \/ /\ gen[Slot(t)] = Gen(t) /\ rpc'[t] = "use"
            /\ answer'[t] = [Handle(t) EXCEPT !.generation = op[t].got]
  <2>1. gen[Slot(t)] = Gen(t) => rpc'[t] = "use"
    BY ThreadIs DEF Validate, StillThere, Goto, IInv
  <2> QED
    BY <2>1, ValidateDoes DEF IInv, Still, slotVars, Missed, Ended
<1>2. CASE answer'[t] = None /\ rpc'[t] = "idle" /\ gen[Slot(t)] # Gen(t)
  <2>1. Handle(t) \notin Live
    BY <1>1, <1>2, LiveHasValue DEF Looking
  <2> QED
    BY <1>1, <1>2, <2>1, StoreMisses, StepFrame DEF IInv
<1>3. CASE /\ gen[Slot(t)] = Gen(t) /\ rpc'[t] = "use"
           /\ answer'[t] = [Handle(t) EXCEPT !.generation = op[t].got]
  <2>1. /\ Handle(t) \in issued /\ Handle(t) \in Handles /\ Gen(t) \in 0 .. MAX_GEN
        /\ Handle(t) = [index |-> Slot(t), generation |-> Gen(t)]
    BY <1>1, ThreadIs DEF IInv, GenInv, Looking, Empty
  <2>2. op[t].got = Gen(t)
    BY <1>1, <1>3 DEF IInv, ReaderInv, Reads
  <2>3. answer'[t] = Handle(t)
    BY <1>3, <2>1, <2>2, HandleAt DEF Slot
  <2>4. Handle(t) \in Live
    BY <1>3, <2>1 DEF Live, Slot, Gen
  <2>5. Asked(t) = <<"get", Handle(t)>> /\ Asked(t)' = None
    BY <1>1, <1>3, AskedIs, AskedThen DEF Open
  <2>6. Store!Return(t, <<"get", Handle(t)>>, Handle(t))
    BY <2>3, <2>5, StoreReturns, StepFrame DEF IInv
  <2>7. Store!Get(t, Handle(t))
    BY <1>1, <2>4, <2>6, LiveStill DEF Store!Get, Store!GetCall, Store!Found
  <2> QED
    BY <2>4, <2>7 DEF Store!Next
<1> QED
  BY <1>1, <1>2, <1>3

LEMMA StoreReads ==
    ASSUME RegionAssumption, IInv, NEW t \in Threads, Step(t),
           ReadGeneration(t) \/ ReadValue(t)
    PROVE  Store!Next \/ UNCHANGED Store!vars
<1>1. /\ rpc[t] \in {"generation", "value"} /\ UNCHANGED <<gen, issued>> /\ OthersKeep(t)
      /\ \/ /\ answer'[t] = None /\ rpc'[t] = "idle"
            /\ gen[Slot(t)] # Gen(t) \/ value[Slot(t)] = None
         \/ /\ rpc'[t] \in {"value", "validate"} /\ op'[t].handle = op[t].handle
            /\ answer'[t] = answer[t]
  <2>1. ReadGeneration(t) /\ gen[Slot(t)] = Gen(t) => rpc'[t] = "value" /\ op' = op
    BY ThreadIs DEF ReadGeneration, Goto, IInv
  <2>2. ReadValue(t) /\ value[Slot(t)] # None => rpc'[t] = "validate"
    BY ThreadIs DEF ReadValue, Goto, IInv
  <2>3. CASE ReadGeneration(t)
    BY <2>1, <2>3, ReadGenerationDoes, StepFrame DEF IInv, Still, slotVars, Missed, Ended
  <2>4. CASE ReadValue(t)
    BY <2>2, <2>4, ReadValueDoes, StepFrame DEF IInv, Still, slotVars, Missed, Ended
  <2> QED
    BY <2>3, <2>4
<1>2. CASE answer'[t] = None /\ rpc'[t] = "idle"
           /\ (gen[Slot(t)] # Gen(t) \/ value[Slot(t)] = None)
  <2>1. Handle(t) \notin Live
    BY <1>1, <1>2, LiveHasValue DEF Looking
  <2> QED
    BY <1>1, <1>2, <2>1, StoreMisses
<1>3. CASE rpc'[t] \in {"value", "validate"} /\ op'[t].handle = op[t].handle
           /\ answer'[t] = answer[t]
  <2>1. Asked(t)' = Asked(t)
    BY <1>1, <1>3, AskedIs, AskedThen DEF Handle
  <2> QED
    BY <1>1, <1>3, <2>1, StoreStutters DEF IInv
<1> QED
  BY <1>1, <1>2, <1>3

LEMMA StoreAsks ==
    ASSUME IInv, NEW t \in Threads, Step(t),
           Insert(t) \/ \E h \in issued : Get(t, h) \/ \E mine \in BOOLEAN : Discard(t, h, mine)
    PROVE  Store!Next
<1>0. OthersKeep(t) /\ RType
  BY StepFrame DEF IInv
<1>1. CASE Insert(t)
  <2>1. Begun(t, "lock") /\ Asked(t)' = <<"insert">>
    BY <1>0, <1>1, InsertDoes, AskedThen DEF Begun
  <2>2. Store!Ask(t, <<"insert">>)
    BY <1>0, <2>1, StoreCalls
  <2> QED
    BY <2>2 DEF Store!Next, Store!InsertCall
<1>2. ASSUME NEW h \in issued, Get(t, h) PROVE Store!Next
  <2>1. Begun(t, "generation") /\ Asked(t)' = <<"get", h>>
    BY <1>0, <1>2, GetDoes, AskedThen DEF Begun
  <2>2. Store!Ask(t, <<"get", h>>)
    BY <1>0, <2>1, StoreCalls
  <2>3. h \in Live \cup (issued \ Live)
    OBVIOUS
  <2> QED
    BY <2>2, <2>3 DEF Store!Next, Store!GetCall
<1>3. ASSUME NEW h \in issued, NEW mine \in BOOLEAN, Discard(t, h, mine) PROVE Store!Next
  <2>1. Begun(t, "evict") /\ Asked(t)' = <<"remove", h>>
    BY <1>0, <1>3, DiscardDoes, AskedThen DEF Begun
  <2>2. Store!Ask(t, <<"remove", h>>)
    BY <1>0, <2>1, StoreCalls
  <2>3. h \in Live \cup (issued \ Live)
    OBVIOUS
  <2> QED
    BY <2>2, <2>3 DEF Store!Next, Store!RemoveCall
<1> QED
  BY <1>1, <1>2, <1>3

LEMMA StepStore ==
    ASSUME RegionAssumption, IInv, NEW t \in Threads, Step(t)
    PROVE  Store!Next \/ UNCHANGED Store!vars
<1>0. OthersKeep(t) /\ RType /\ ValueInv /\ PlaceInv
  BY StepFrame DEF IInv
<1>1. CASE Insert(t) \/ \E h \in issued : Get(t, h) \/ \E mine \in BOOLEAN : Discard(t, h, mine)
  BY <1>1, StoreAsks
<1>2. ASSUME UNCHANGED <<gen, issued>>, answer'[t] = answer[t],
             \/ {rpc[t], rpc'[t]} \subseteq {"lock", "hint", "drain", "install", "mint"}
             \/ rpc[t] \notin Open /\ rpc'[t] \notin Open
      PROVE  UNCHANGED Store!vars
  <2>1. Asked(t)' = Asked(t)
    BY <1>2, AskedIs, AskedThen
  <2> QED
    BY <1>0, <1>2, <2>1, StoreStutters
<1>3. CASE Lock(t) \/ Use(t)
  <2>1. /\ UNCHANGED <<gen, issued>> /\ answer'[t] = answer[t]
        /\ \/ rpc[t] = "lock" /\ rpc'[t] = "hint"
           \/ rpc[t] = "relock" /\ rpc'[t] = "rehint"
           \/ rpc[t] = "use" /\ rpc'[t] = "idle"
    BY <1>0, <1>3, LockDoes, UseDoes DEF Still, slotVars, Ended
  <2> QED
    BY <1>2, <2>1 DEF Open
<1>4. CASE Hint(t) \/ Drain(t)
  <2>1. /\ UNCHANGED <<gen, issued>>
        /\ \/ /\ rpc[t] \in {"hint", "drain"} /\ rpc'[t] = "idle" /\ answer'[t] = None
           \/ /\ rpc[t] \in {"hint", "drain"} /\ rpc'[t] \in {"drain", "install"}
              /\ answer'[t] = answer[t]
           \/ /\ rpc[t] \in {"rehint", "redrain"} /\ rpc'[t] \in {"redrain", "idle"}
              /\ answer'[t] = answer[t]
    BY <1>0, <1>4, HintDoes, DrainDoes DEF TakenFrom, RelistedTo, slotVars, Ended
  <2> QED
    BY <1>0, <1>2, <2>1, StoreRefuses DEF Open
<1>5. CASE Install(t) \/ Swap(t) \/ Uncount(t) \/ Push(t) \/ Notify(t)
  <2>1. /\ UNCHANGED <<gen, issued>> /\ answer'[t] = answer[t]
        /\ \/ rpc[t] = "install" /\ rpc'[t] = "mint"
           \/ /\ rpc[t] \in {"swap", "uncount", "push", "notify"}
              /\ rpc'[t] \in {"uncount", "relock", "push", "notify", "idle"}
    BY <1>0, <1>5, InstallDoes, SwapDoes, UncountDoes, PushDoes, NotifyDoes DEF slotVars, Ended
  <2> QED
    BY <1>2, <2>1 DEF Open
<1> QED
  BY <1>1, <1>3, <1>4, <1>5, StoreInserts, StoreRemoves, StoreStale, StoreGets, StoreReads
     DEF Step

(* A refused insert has found no slot on the free list or in the queue.    *)
LEMMA StepRefusal ==
    ASSUME IInv, NEW t \in Threads, Step(t), NEW u \in Threads,
           rpc[u] \in {"hint", "drain"}, rpc'[u] = "idle"
    PROVE  free = <<>> /\ queue = <<>>
<1>1. u = t
  BY StepFrame DEF OthersKeep, IInv
<1>2. Hint(t) \/ Drain(t)
  <2>1. ~ (Lock(t) \/ Install(t) \/ Mint(t) \/ Evict(t) \/ Stale(t))
    BY <1>1 DEF Lock, Install, Mint, Evict, Stale, At
  <2>2. ~ (Swap(t) \/ Uncount(t) \/ Push(t) \/ Notify(t))
    BY <1>1 DEF Swap, Uncount, Push, Notify, At
  <2>3. ~ (ReadGeneration(t) \/ ReadValue(t) \/ Validate(t) \/ Use(t))
    BY <1>1 DEF ReadGeneration, ReadValue, Validate, Use, At
  <2>4. rpc[t] # "idle"
    BY <1>1
  <2>5. ~ Insert(t) /\ \A h, mine : ~ Get(t, h) /\ ~ Discard(t, h, mine)
    BY <2>4, Zenon DEF Insert, Get, Discard, Begin, At
  <2> QED
    BY <2>1, <2>2, <2>3, <2>5 DEF Step
<1>3. ~ Hint(t)
  BY <1>1, HintDoes DEF TakenFrom, IInv
<1>4. free \o queue = <<>>
  BY <1>1, <1>2, <1>3, DrainDoes DEF TakenFrom, IInv
<1>5. free \in Seq(Slots) /\ queue \in Seq(Slots)
  BY DEF IInv, RType, SharedType
<1>6. Len(free) = 0 /\ Len(queue) = 0
  <2>1. Len(free \o queue) = Len(free) + Len(queue)
    BY <1>5, ConcatProperties
  <2> QED
    BY <1>4, <1>5, <2>1, LenProperties, EmptySeq
<1> QED
  BY <1>5, <1>6, EmptySeq

(* Whoever inserts, removes and reads meanwhile: a handle is given out     *)
(* once; every get of it returns its own value until one removal, and only *)
(* one, takes that away, and every get and removal of it afterwards finds  *)
(* nothing (EpochHandle); an insert is refused only when no slot is left   *)
(* on the free list or in the queue (insert).                              *)
THEOREM RegionIsHandleStore == ASSUME RegionAssumption PROVE Spec => IsHandleStore
<1>1. Init => Store!Init
  <2> SUFFICES ASSUME Init PROVE Store!Init
    OBVIOUS
  <2>1. issued = {} /\ Live = {} /\ answer = [t \in Threads |-> None]
    BY DEF Init, Live
  <2>2. \A t \in Threads : rpc[t] = "idle"
    BY DEF Init
  <2>3. Asks = [t \in Threads |-> None]
    BY <2>2, AskedIs DEF Asks, Open
  <2> QED
    BY <2>1, <2>3 DEF Store!Init, Asks
<1>2. IInv /\ [Next]_vars => [Store!Next]_(Store!vars)
  <2> SUFFICES ASSUME IInv, [Next]_vars PROVE Store!Next \/ UNCHANGED Store!vars
    OBVIOUS
  <2>1. CASE UNCHANGED vars
    BY <2>1 DEF Store!vars, Live, Asked, At, Handle, vars, slotVars
  <2>2. CASE Next
    BY <2>2, NextIs, StepStore
  <2> QED
    BY <2>1, <2>2
<1>3. IInv /\ [Next]_vars =>
        [\A t \in Threads :
            rpc[t] \in {"hint", "drain"} /\ rpc'[t] = "idle" => free = <<>> /\ queue = <<>>]_vars
  BY NextIs, StepRefusal
<1>4. Spec => []IInv
  BY RegionInv
<1>5. Spec => Store!Spec
  BY <1>1, <1>2, <1>4, PTL DEF Spec, Store!Spec
<1>6. Spec => [][\A t \in Threads :
            rpc[t] \in {"hint", "drain"} /\ rpc'[t] = "idle" => free = <<>> /\ queue = <<>>]_vars
  BY <1>3, <1>4, PTL DEF Spec
<1> QED
  BY <1>5, <1>6 DEF IsHandleStore

-----------------------------------------------------------------------------
(* The table of a heap's segments.                                         *)

Buckets == 0 .. HASH_CAPACITY - 1
Segments == 0 .. MAX_SEGMENTS - 1

LEMMA TableFacts ==
    /\ MAX_SEGMENTS \in Nat \ {0} /\ OWN_CACHE_SIZE \in Nat \ {0} /\ WORD \in Nat \ {0}
    /\ HASH_CAPACITY \in Nat \ {0} /\ HASH_CAPACITY > MAX_SEGMENTS
    /\ Keys \subseteq Nat /\ Primordial \in Keys
    /\ hash_index \in [Keys -> Buckets]
    /\ None \notin T!Roots /\ None \notin Keys \X Segments /\ None \notin Keys \X T!Roots
    /\ None \notin Segments
    /\ T!Buckets = Buckets /\ T!Slots = Segments
BY TableAssumed DEF TableAssumed, T!TableAssumption, T!Buckets, T!Slots, Buckets, Segments

(* Around the hash table.                                                  *)
LEMMA DistanceIs ==
    ASSUME NEW b \in Buckets, NEW c \in Buckets
    PROVE  T!Distance(b, c) = IF b <= c THEN c - b ELSE (c - b) + HASH_CAPACITY
<1>1. HASH_CAPACITY \in Nat \ {0}
  BY TableFacts
<1>2. CASE b <= c
  <2>1. (c - b) \in 0 .. HASH_CAPACITY - 1
    BY <1>1, <1>2 DEF Buckets
  <2>2. \A x \in 0 .. HASH_CAPACITY - 1 : x % HASH_CAPACITY = x
    BY <1>1
  <2> QED
    BY <1>2, <2>1, <2>2 DEF T!Distance
<1>3. CASE ~ (b <= c)
  <2>1. (c - b) + HASH_CAPACITY \in 0 .. HASH_CAPACITY - 1 /\ c - b \in Int
    BY <1>1, <1>3 DEF Buckets
  <2>2. \A x \in Int : x + HASH_CAPACITY \in 0 .. HASH_CAPACITY - 1 =>
           x % HASH_CAPACITY = x + HASH_CAPACITY
    BY <1>1
  <2> QED
    BY <1>3, <2>1, <2>2 DEF T!Distance
<1> QED
  BY <1>2, <1>3

LEMMA DistanceFacts ==
    ASSUME NEW b \in Buckets, NEW c \in Buckets
    PROVE  /\ T!Distance(b, c) \in Buckets
           /\ T!Distance(b, c) = 0 <=> b = c
           /\ \A d \in Buckets : T!Distance(b, c) = T!Distance(b, d) => c = d
<1>1. T!Distance(b, c) = IF b <= c THEN c - b ELSE (c - b) + HASH_CAPACITY
  BY DistanceIs
<1>2. ASSUME NEW d \in Buckets, T!Distance(b, c) = T!Distance(b, d) PROVE c = d
  <2>1. T!Distance(b, d) = IF b <= d THEN d - b ELSE (d - b) + HASH_CAPACITY
    BY DistanceIs
  <2> QED
    BY <1>1, <1>2, <2>1, TableFacts DEF Buckets
<1> QED
  BY <1>1, <1>2, TableFacts DEF Buckets

LEMMA DistanceNat == \A b, c \in Buckets : T!Distance(b, c) \in Nat
<1> TAKE b, c \in Buckets
<1>1. T!Distance(b, c) \in Buckets
  BY DistanceFacts
<1> QED
  BY <1>1 DEF Buckets

LEMMA AfterIs ==
    ASSUME NEW b \in Buckets, NEW n \in Buckets
    PROVE  T!After(b, n) \in Buckets /\ T!Distance(b, T!After(b, n)) = n
<1>1. HASH_CAPACITY \in Nat \ {0}
  BY TableFacts
<1>2. \A x \in 0 .. HASH_CAPACITY - 1 : x % HASH_CAPACITY = x
  BY <1>1
<1>3. \A x \in Nat : x >= HASH_CAPACITY /\ x < 2 * HASH_CAPACITY =>
         x % HASH_CAPACITY = x - HASH_CAPACITY
  BY <1>1
<1>4. T!After(b, n) = IF b + n < HASH_CAPACITY THEN b + n ELSE (b + n) - HASH_CAPACITY
  BY <1>1, <1>2, <1>3 DEF T!After, Buckets
<1>5. T!After(b, n) \in Buckets
  BY <1>1, <1>4 DEF Buckets
<1> QED
  BY <1>1, <1>4, <1>5, DistanceIs DEF Buckets

(* Of three buckets in the order in which they come after b, the second is *)
(* on the way from the first to the third, and so on every way to the      *)
(* third that leads over the first.                                        *)
Gap(N, b, c) == IF b <= c THEN c - b ELSE (c - b) + N

LEMMA GapBetween ==
    ASSUME NEW N \in Nat, NEW b \in 0 .. N - 1, NEW c \in 0 .. N - 1,
           NEW d \in 0 .. N - 1, NEW e \in 0 .. N - 1, NEW h \in 0 .. N - 1,
           Gap(N, b, c) < Gap(N, b, d), Gap(N, b, d) < Gap(N, b, e),
           Gap(N, h, c) < Gap(N, h, e)
    PROVE  Gap(N, h, d) < Gap(N, h, e)
BY DEF Gap

LEMMA Between ==
    ASSUME NEW b \in Buckets, NEW c \in Buckets, NEW d \in Buckets, NEW e \in Buckets,
           NEW h \in Buckets,
           T!Distance(b, c) < T!Distance(b, d), T!Distance(b, d) < T!Distance(b, e),
           T!Distance(h, c) < T!Distance(h, e)
    PROVE  T!Distance(h, d) < T!Distance(h, e)
<1>1. \A x, y \in Buckets : T!Distance(x, y) = Gap(HASH_CAPACITY, x, y)
  BY DistanceIs DEF Gap
<1>2. HASH_CAPACITY \in Nat /\ Buckets = 0 .. HASH_CAPACITY - 1
  BY TableFacts DEF Buckets
<1>3. /\ Gap(HASH_CAPACITY, b, c) < Gap(HASH_CAPACITY, b, d)
      /\ Gap(HASH_CAPACITY, b, d) < Gap(HASH_CAPACITY, b, e)
      /\ Gap(HASH_CAPACITY, h, c) < Gap(HASH_CAPACITY, h, e)
  BY <1>1
<1>4. Gap(HASH_CAPACITY, h, d) < Gap(HASH_CAPACITY, h, e)
  BY <1>2, <1>3, GapBetween
<1> QED
  BY <1>1, <1>4

(* The same for a way from the second that leads past b to the first.      *)
LEMMA GapAround ==
    ASSUME NEW N \in Nat, NEW b \in 0 .. N - 1, NEW c \in 0 .. N - 1,
           NEW d \in 0 .. N - 1, NEW e \in 0 .. N - 1, NEW h \in 0 .. N - 1,
           Gap(N, b, e) < Gap(N, b, c), Gap(N, b, c) < Gap(N, b, d),
           Gap(N, h, c) < Gap(N, h, e)
    PROVE  Gap(N, h, d) < Gap(N, h, e)
BY DEF Gap

LEMMA Around ==
    ASSUME NEW b \in Buckets, NEW c \in Buckets, NEW d \in Buckets, NEW e \in Buckets,
           NEW h \in Buckets,
           T!Distance(b, e) < T!Distance(b, c), T!Distance(b, c) < T!Distance(b, d),
           T!Distance(h, c) < T!Distance(h, e)
    PROVE  T!Distance(h, d) < T!Distance(h, e)
<1>1. \A x, y \in Buckets : T!Distance(x, y) = Gap(HASH_CAPACITY, x, y)
  BY DistanceIs DEF Gap
<1>2. HASH_CAPACITY \in Nat /\ Buckets = 0 .. HASH_CAPACITY - 1
  BY TableFacts DEF Buckets
<1>3. /\ Gap(HASH_CAPACITY, b, e) < Gap(HASH_CAPACITY, b, c)
      /\ Gap(HASH_CAPACITY, b, c) < Gap(HASH_CAPACITY, b, d)
      /\ Gap(HASH_CAPACITY, h, c) < Gap(HASH_CAPACITY, h, e)
  BY <1>1
<1>4. Gap(HASH_CAPACITY, h, d) < Gap(HASH_CAPACITY, h, e)
  BY <1>2, <1>3, GapAround
<1> QED
  BY <1>1, <1>4

-----------------------------------------------------------------------------
(* A table is whole if no bucket on the way from the home of an entry to   *)
(* its bucket is vacant.                                                   *)
Listings == Keys \X Segments
Tables == [Buckets -> Listings \cup {None}]
Home(e) == hash_index[e[1]]
OnWay(e, c, b) == T!Distance(Home(e), c) < T!Distance(Home(e), b)

Whole(h) == \A b, c \in Buckets : h[b] # None /\ OnWay(h[b], c, b) => h[c] # None
OnePerKey(h) ==
    \A b, c \in Buckets : h[b] # None /\ h[c] # None /\ h[b][1] = h[c][1] => b = c
Lists(h, e) == \E b \in Buckets : h[b] = e

(* The hash table lists what the slots hold.                               *)
HoldsKey(i, k) == slots[i] # None /\ (slots[i] # None => slots[i].key = k)

HashInv ==
    /\ hash \in Tables /\ Whole(hash) /\ OnePerKey(hash)
    /\ \A e \in Listings : Lists(hash, e) <=> HoldsKey(e[2], e[1])

LEMMA ListingFacts ==
    /\ None \notin Listings
    /\ \A e \in Listings : e[1] \in Keys /\ e[2] \in Segments /\ Home(e) \in Buckets
                           /\ e = <<e[1], e[2]>>
    /\ \A k \in Keys, i \in Segments : <<k, i>> \in Listings
    /\ \A h \in Tables, b \in Buckets : h[b] # None => h[b] \in Listings
<1>1. None \notin Listings
  BY TableFacts DEF Listings
<1>2. ASSUME NEW e \in Listings
      PROVE  /\ e[1] \in Keys /\ e[2] \in Segments /\ Home(e) \in Buckets
             /\ e = <<e[1], e[2]>>
  <2>1. e[1] \in Keys /\ e[2] \in Segments /\ e = <<e[1], e[2]>>
    BY DEF Listings
  <2> QED
    BY <2>1, TableFacts DEF Home
<1>3. \A k \in Keys, i \in Segments : <<k, i>> \in Listings
  BY DEF Listings
<1>4. \A h \in Tables, b \in Buckets : h[b] # None => h[b] \in Listings
  BY DEF Tables
<1> QED
  BY <1>1, <1>2, <1>3, <1>4

(* There are more buckets than slots.                                      *)
LEMMA SomeVacant ==
    ASSUME HashInv
    PROVE  \E v \in Buckets : hash[v] = None
<1> SUFFICES ASSUME \A v \in Buckets : hash[v] # None
             PROVE  FALSE
  OBVIOUS
<1> DEFINE f == [b \in Buckets |-> hash[b][2]]
<1>1. \A b \in Buckets : hash[b] \in Listings /\ Lists(hash, hash[b])
  BY ListingFacts DEF HashInv, Lists
<1>2. f \in [Buckets -> Segments]
  BY <1>1, ListingFacts
<1>3. /\ IsFiniteSet(Buckets) /\ Cardinality(Buckets) = HASH_CAPACITY
      /\ IsFiniteSet(Segments) /\ Cardinality(Segments) = MAX_SEGMENTS
  BY TableFacts, FS_Interval DEF Buckets, Segments
<1>4. PICK b \in Buckets, c \in Buckets : b # c /\ f[b] = f[c]
  <2> HIDE DEF f
  <2> QED
    BY <1>2, <1>3, TableFacts, FS_PigeonHole
<1>5. hash[b][2] = hash[c][2]
  BY <1>4
<1>6. slots[hash[b][2]].key = hash[b][1] /\ slots[hash[c][2]].key = hash[c][1]
  BY <1>1 DEF HashInv, HoldsKey
<1>7. hash[b][1] = hash[c][1]
  BY <1>5, <1>6
<1> QED
  BY <1>1, <1>4, <1>7, ListingFacts DEF HashInv, OnePerKey

(* The bucket nearest behind the home of a key.                            *)
LEMMA ProbeIs ==
    ASSUME NEW k \in Keys, NEW S \in SUBSET Buckets, S # {}
    PROVE  /\ T!Probe(k, S) \in S
           /\ \A c \in S : T!Distance(hash_index[k], T!Probe(k, S))
                             <= T!Distance(hash_index[k], c)
<1> DEFINE home == hash_index[k]
           D == {T!Distance(home, c) : c \in S}
<1>0. home \in Buckets
  BY TableFacts
<1>1. \A c \in S : T!Distance(home, c) \in Nat
  BY <1>0, DistanceFacts, TableFacts DEF Buckets
<1>2. D \in SUBSET Nat /\ D # {}
  BY <1>1
<1>3. PICK d \in D : \A e \in D : d <= e
  BY <1>2, HasLeast
<1>4. PICK b \in S : d = T!Distance(home, b)
  BY <1>3
<1>5. \A c \in S : T!Distance(home, b) <= T!Distance(home, c)
  BY <1>3, <1>4
<1> QED
  BY <1>5 DEF T!Probe

LEMMA VacantAre == T!Vacant = {b \in Buckets : hash[b] = None}
BY TableFacts DEF T!Vacant

(* A probe for a key that is listed ends at its bucket, for any other key  *)
(* at a vacant one.                                                        *)
LEMMA BucketIs ==
    ASSUME HashInv, NEW k \in Keys
    PROVE  /\ T!BucketOf(k) \in Buckets
           /\ \A b \in Buckets : hash[b] # None /\ hash[b][1] = k => T!BucketOf(k) = b
           /\ hash[T!BucketOf(k)] # None => hash[T!BucketOf(k)][1] = k
<1> DEFINE S == {b \in Buckets : hash[b] = None \/ (hash[b] # None /\ hash[b][1] = k)}
           p == T!BucketOf(k)
           home == hash_index[k]
<1>1. T!Vacant \cup {b \in T!Buckets \ T!Vacant : hash[b][1] = k} = S
  BY VacantAre, TableFacts
<1>2. p = T!Probe(k, S)
  BY <1>1 DEF T!BucketOf
<1>3. S \in SUBSET Buckets /\ S # {}
  BY SomeVacant
<1>4. /\ p \in S
      /\ \A c \in S : T!Distance(home, p) <= T!Distance(home, c)
  <2> HIDE DEF S, p
  <2> QED
    BY <1>2, <1>3, ProbeIs
<1>5. ASSUME NEW b \in Buckets, hash[b] # None, hash[b][1] = k
      PROVE  p = b
  <2>1. home \in Buckets /\ Home(hash[b]) = home
    BY <1>5, TableFacts DEF Home
  <2>2. T!Distance(home, p) <= T!Distance(home, b) /\ p \in Buckets
    BY <1>4, <1>5
  <2> HIDE DEF p
  <2>3. T!Distance(home, p) \in Buckets /\ T!Distance(home, b) \in Buckets
    BY <2>1, <2>2, DistanceFacts
  <2>4. CASE T!Distance(home, p) = T!Distance(home, b)
    BY <2>1, <2>2, <2>4, DistanceFacts
  <2>5. CASE T!Distance(home, p) < T!Distance(home, b)
    <3>1. OnWay(hash[b], p, b)
      BY <2>1, <2>5 DEF OnWay
    <3>2. hash[p] # None
      BY <1>5, <2>2, <3>1 DEF HashInv, Whole
    <3>3. hash[p][1] = k
      BY <1>4, <3>2
    <3> QED
      BY <1>5, <2>2, <3>2, <3>3 DEF HashInv, OnePerKey
  <2> QED
    BY <2>2, <2>3, <2>4, <2>5, TableFacts DEF Buckets
<1> QED
  BY <1>4, <1>5

(* So a lookup finds the root with that key.                               *)
LEMMA FindIs ==
    ASSUME HashInv, NEW k \in Keys
    PROVE  /\ \A i \in Segments : HoldsKey(i, k) => T!hash_find(k) = slots[i]
           /\ (\A i \in Segments : ~ HoldsKey(i, k)) => T!hash_find(k) = None
<1> DEFINE p == T!BucketOf(k)
<1>1. T!hash_find(k) = IF hash[p] = None THEN None ELSE slots[hash[p][2]]
  BY DEF T!hash_find
<1>2. p \in Buckets /\ (hash[p] # None => hash[p][1] = k)
  BY BucketIs
<1> HIDE DEF p
<1>3. ASSUME NEW i \in Segments, HoldsKey(i, k)
      PROVE  T!hash_find(k) = slots[i]
  <2>1. <<k, i>> \in Listings /\ <<k, i>>[1] = k /\ <<k, i>>[2] = i
    BY ListingFacts
  <2>2. PICK b \in Buckets : hash[b] = <<k, i>>
    BY <1>3, <2>1 DEF HashInv, Lists
  <2>3. p = b
    BY <2>1, <2>2, BucketIs, ListingFacts DEF p
  <2> QED
    BY <1>1, <2>1, <2>2, <2>3, ListingFacts
<1>4. ASSUME \A i \in Segments : ~ HoldsKey(i, k), hash[p] # None
      PROVE  FALSE
  <2>1. hash[p] \in Listings /\ Lists(hash, hash[p]) /\ hash[p][2] \in Segments
    BY <1>2, <1>4, ListingFacts DEF HashInv, Lists
  <2> QED
    BY <1>2, <1>4, <2>1 DEF HashInv
<1> QED
  BY <1>1, <1>3, <1>4

LEMMA NotListed ==
    ASSUME HashInv, NEW k \in Keys, \A j \in Segments : ~ HoldsKey(j, k)
    PROVE  \A b \in Buckets : hash[b] # None => hash[b][1] # k
<1> SUFFICES ASSUME NEW b \in Buckets, hash[b] # None, hash[b][1] = k
             PROVE  FALSE
  OBVIOUS
<1>1. hash[b] \in Listings /\ Lists(hash, hash[b]) /\ hash[b][2] \in Segments
  BY ListingFacts DEF HashInv, Lists
<1> QED
  BY <1>1 DEF HashInv

(* A key goes to the first vacant bucket from its home on.                 *)
LEMMA InsertListed ==
    ASSUME HashInv, NEW k \in Keys, NEW i \in Segments,
           \A j \in Segments : ~ HoldsKey(j, k)
    PROVE  LET h == T!hash_insert_identity(k, i)
           IN  /\ h \in Tables /\ Whole(h) /\ OnePerKey(h)
               /\ \A e \in Listings : Lists(h, e) <=> Lists(hash, e) \/ e = <<k, i>>
<1> DEFINE h == T!hash_insert_identity(k, i)
           p == T!Probe(k, T!Vacant)
           home == hash_index[k]
           e == <<k, i>>
<1>0. /\ e \in Listings /\ e[1] = k /\ Home(e) = home /\ home \in Buckets /\ e # None
      /\ None \notin Listings
  BY ListingFacts DEF Home
<1>1. T!Vacant \in SUBSET Buckets /\ T!Vacant # {}
  BY VacantAre, SomeVacant
<1>2. /\ p \in Buckets /\ hash[p] = None
      /\ \A c \in Buckets : hash[c] = None => T!Distance(home, p) <= T!Distance(home, c)
  BY <1>1, VacantAre, ProbeIs
<1>3. hash \in [Buckets -> Listings \cup {None}]
  BY DEF HashInv, Tables
<1>4. /\ h \in [Buckets -> Listings \cup {None}]
      /\ h[p] = e /\ \A b \in Buckets : b # p => h[b] = hash[b]
  BY <1>0, <1>2, <1>3 DEF T!hash_insert_identity
<1> HIDE DEF h, p, e, home
<1>5. ASSUME NEW b \in Buckets, NEW c \in Buckets, h[b] # None, OnWay(h[b], c, b)
      PROVE  h[c] # None
  <2>1. CASE c = p
    BY <1>0, <1>4, <2>1
  <2>2. CASE c # p /\ b = p
    <3>1. T!Distance(home, c) < T!Distance(home, p)
      BY <1>0, <1>4, <1>5, <2>2 DEF OnWay
    <3>2. T!Distance(home, c) \in Nat /\ T!Distance(home, p) \in Nat
      BY <1>0, <1>2, DistanceNat
    <3>3. hash[c] # None
      BY <1>2, <3>1, <3>2
    <3> QED
      BY <1>4, <2>2, <3>3
  <2>3. CASE c # p /\ b # p
    BY <1>4, <1>5, <2>3 DEF HashInv, Whole
  <2> QED
    BY <2>1, <2>2, <2>3
<1>6. ASSUME NEW b \in Buckets, NEW c \in Buckets, h[b] # None, h[c] # None,
             h[b][1] = h[c][1]
      PROVE  b = c
  <2>1. \A d \in Buckets : d # p /\ h[d] # None => h[d][1] # k
    BY <1>4, NotListed
  <2>2. CASE b # p /\ c # p
    BY <1>4, <1>6, <2>2 DEF HashInv, OnePerKey
  <2>3. CASE b = p \/ c = p
    BY <1>0, <1>4, <1>6, <2>1, <2>3
  <2> QED
    BY <2>2, <2>3
<1>7. ASSUME NEW f \in Listings
      PROVE  Lists(h, f) <=> Lists(hash, f) \/ f = e
  BY <1>0, <1>2, <1>4 DEF Lists
<1>8. h \in Tables /\ Whole(h) /\ OnePerKey(h)
  BY <1>4, <1>5, <1>6 DEF Tables, Whole, OnePerKey
<1> QED
  BY <1>7, <1>8 DEF h, e

-----------------------------------------------------------------------------
(* The backward shift of hash_remove: n buckets behind the removed entry,  *)
(* in bucket i, have been looked at.                                       *)
Shifted(w, i, n) ==
    /\ w.hash \in Tables /\ w.hole \in Buckets
    /\ T!Distance(i, w.hole) <= n
    /\ \A b \in Buckets : w.hash[b] = None <=> hash[b] = None
    /\ \A b \in Buckets : T!Distance(i, b) > n => w.hash[b] = hash[b]
    /\ hash[w.hole] # None

(* The walk is over when it has met a vacant bucket behind the hole.       *)
Stopped(w, i, n) ==
    /\ ~ w.over => \A b \in Buckets : T!Distance(i, b) <= n => hash[b] # None
    /\ w.over => \E v \in Buckets : /\ hash[v] = None
                                    /\ T!Distance(i, v) <= n
                                    /\ T!Distance(i, w.hole) < T!Distance(i, v)

(* But for the hole, the entries are those of the table but for the        *)
(* removed one, and for those looked at the hole is not on their way.      *)
Closing(w, i, n) ==
    /\ \A e \in Listings : (\E b \in Buckets : b # w.hole /\ w.hash[b] = e)
                             <=> \E b \in Buckets : b # i /\ hash[b] = e
    /\ \A b, c \in Buckets :
         b # w.hole /\ c # w.hole /\ w.hash[b] # None /\ w.hash[c] # None
         /\ w.hash[b][1] = w.hash[c][1] => b = c
    /\ \A b, c \in Buckets :
         b # w.hole /\ w.hash[b] # None /\ OnWay(w.hash[b], c, b) => w.hash[c] # None
    /\ \A b \in Buckets :
         b # w.hole /\ w.hash[b] # None /\ T!Distance(i, b) <= n
           => ~ OnWay(w.hash[b], w.hole, b)

Walking(w, i, n) == Shifted(w, i, n) /\ Stopped(w, i, n) /\ Closing(w, i, n)

LEMMA WalkBegins ==
    ASSUME HashInv, NEW i \in Buckets, hash[i] # None
    PROVE  Walking([hash |-> hash, hole |-> i, over |-> FALSE], i, 0)
<1> DEFINE w == [hash |-> hash, hole |-> i, over |-> FALSE]
<1>1. w.hash = hash /\ w.hole = i /\ w.over = FALSE
  OBVIOUS
<1>2. \A b \in Buckets : T!Distance(i, b) \in Nat /\ (T!Distance(i, b) = 0 <=> i = b)
  BY DistanceFacts DEF Buckets
<1> HIDE DEF w
<1>3. \A b \in Buckets : T!Distance(i, b) <= 0 => b = i
  BY <1>2
<1>4. Shifted(w, i, 0)
  <2>1. T!Distance(i, i) <= 0
    BY <1>2
  <2> QED
    BY <1>1, <1>2, <1>3, <2>1 DEF Shifted, HashInv
<1>5. Stopped(w, i, 0)
  BY <1>1, <1>3 DEF Stopped
<1>6. Closing(w, i, 0)
  BY <1>1, <1>3 DEF Closing, HashInv, Whole, OnePerKey
<1> QED
  BY <1>4, <1>5, <1>6 DEF Walking, w

(* Once over, it stays over.                                               *)
LEMMA WalkIsOver ==
    ASSUME HashInv, NEW i \in Buckets, hash[i] # None,
           NEW n \in 0 .. HASH_CAPACITY - 2, NEW w, Walking(w, i, n), w.over
    PROVE  Walking(w, i, n + 1)
<1>0. n \in Nat /\ n + 1 \in Nat /\ n + 1 > n
  BY TableFacts
<1>1. /\ w.hole \in Buckets /\ w.hash \in Tables
      /\ \A b \in Buckets : T!Distance(i, b) \in Nat
  BY DistanceNat DEF Walking, Shifted
<1>2. PICK v \in Buckets : /\ hash[v] = None /\ T!Distance(i, v) <= n
                           /\ T!Distance(i, w.hole) < T!Distance(i, v)
  BY DEF Walking, Stopped
<1>3. Shifted(w, i, n + 1)
  <2>1. \A b \in Buckets : T!Distance(i, b) > n + 1 => T!Distance(i, b) > n
    BY <1>0, <1>1
  <2>2. T!Distance(i, w.hole) <= n + 1
    BY <1>0, <1>1 DEF Walking, Shifted
  <2> QED
    BY <2>1, <2>2 DEF Walking, Shifted
<1>4. Stopped(w, i, n + 1)
  BY <1>0, <1>1, <1>2 DEF Stopped
<1>5. ASSUME NEW b \in Buckets, b # w.hole, w.hash[b] # None, T!Distance(i, b) <= n + 1,
             OnWay(w.hash[b], w.hole, b)
      PROVE  FALSE
  <2>1. T!Distance(i, b) > n
    BY <1>0, <1>1, <1>5 DEF Walking, Closing
  <2>2. w.hash[b] \in Listings /\ Home(w.hash[b]) \in Buckets
    BY <1>1, <1>5, ListingFacts
  <2>3. OnWay(w.hash[b], v, b)
    <3>1. T!Distance(i, v) < T!Distance(i, b)
      BY <1>0, <1>1, <1>2, <2>1
    <3> QED
      BY <1>1, <1>2, <1>5, <2>2, <3>1, Between DEF OnWay
  <2>4. w.hash[v] # None
    BY <1>5, <2>3 DEF Walking, Closing
  <2> QED
    BY <1>2, <2>4 DEF Walking, Shifted
<1>6. Closing(w, i, n + 1)
  BY <1>5 DEF Walking, Closing
<1> QED
  BY <1>3, <1>4, <1>6 DEF Walking

LEMMA WalkStops ==
    ASSUME HashInv, NEW i \in Buckets, hash[i] # None,
           NEW n \in 0 .. HASH_CAPACITY - 2, NEW w, Walking(w, i, n), ~ w.over,
           w.hash[T!After(i, n + 1)] = None
    PROVE  Walking([w EXCEPT !.over = TRUE], i, n + 1)
<1> DEFINE j == T!After(i, n + 1)
           v == [w EXCEPT !.over = TRUE]
<1>0. n \in Nat /\ n + 1 \in Nat /\ n + 1 > n /\ n + 1 \in Buckets
  BY TableFacts DEF Buckets
<1>1. /\ w.hole \in Buckets /\ w.hash \in Tables
      /\ \A b \in Buckets : T!Distance(i, b) \in Nat
  BY DistanceNat DEF Walking, Shifted
<1>2. j \in Buckets /\ T!Distance(i, j) = n + 1
  BY <1>0, AfterIs
<1>3. hash[j] = None
  BY <1>2 DEF Walking, Shifted
<1>4. v.hash = w.hash /\ v.hole = w.hole /\ v.over = TRUE
  OBVIOUS
<1> HIDE DEF v, j
<1>5. \A b \in Buckets : T!Distance(i, b) <= n + 1 => T!Distance(i, b) <= n \/ b = j
  BY <1>0, <1>1, <1>2, DistanceFacts
<1>6. w.hash[j] = None
  BY <1>2, <1>3 DEF Walking, Shifted
<1>7. T!Distance(i, w.hole) <= n
  BY DEF Walking, Shifted
<1>8. Shifted(v, i, n + 1)
  <2>1. \A b \in Buckets : T!Distance(i, b) > n + 1 => T!Distance(i, b) > n
    BY <1>0, <1>1
  <2>2. T!Distance(i, w.hole) <= n + 1
    BY <1>0, <1>1, <1>7
  <2> QED
    BY <1>4, <2>1, <2>2 DEF Walking, Shifted
<1>9. Stopped(v, i, n + 1)
  <2>1. T!Distance(i, w.hole) < T!Distance(i, j) /\ T!Distance(i, j) <= n + 1
    BY <1>0, <1>1, <1>2, <1>7
  <2> QED
    BY <1>2, <1>3, <1>4, <2>1 DEF Stopped
<1>10. Closing(v, i, n + 1)
  BY <1>4, <1>5, <1>6 DEF Walking, Closing
<1> QED
  BY <1>8, <1>9, <1>10 DEF Walking, v

(* The entry stays: the hole is not on its way.                            *)
LEMMA WalkPasses ==
    ASSUME HashInv, NEW i \in Buckets, hash[i] # None,
           NEW n \in 0 .. HASH_CAPACITY - 2, NEW w, Walking(w, i, n), ~ w.over,
           w.hash[T!After(i, n + 1)] # None,
           ~ T!Eligible(Home(w.hash[T!After(i, n + 1)]), w.hole, T!After(i, n + 1))
    PROVE  Walking(w, i, n + 1)
<1> DEFINE j == T!After(i, n + 1)
<1>0. n \in Nat /\ n + 1 \in Nat /\ n + 1 > n /\ n + 1 \in Buckets
  BY TableFacts DEF Buckets
<1>1. /\ w.hole \in Buckets /\ w.hash \in Tables
      /\ \A b \in Buckets : T!Distance(i, b) \in Nat
  BY DistanceNat DEF Walking, Shifted
<1>2. j \in Buckets /\ T!Distance(i, j) = n + 1
  BY <1>0, AfterIs
<1>3. ~ OnWay(w.hash[j], w.hole, j)
  <2>1. Home(w.hash[j]) \in Buckets
    BY <1>1, <1>2, ListingFacts
  <2>2. /\ T!Distance(Home(w.hash[j]), w.hole) \in Nat
        /\ T!Distance(Home(w.hash[j]), j) \in Nat
    BY <1>1, <1>2, <2>1, DistanceNat
  <2>3. ~ (T!Distance(Home(w.hash[j]), w.hole) <= T!Distance(Home(w.hash[j]), j))
    BY DEF T!Eligible
  <2> HIDE DEF j
  <2> QED
    BY <2>2, <2>3 DEF OnWay
<1>4. hash[j] # None
  BY <1>2 DEF Walking, Shifted
<1> HIDE DEF j
<1>5. \A b \in Buckets : T!Distance(i, b) <= n + 1 => T!Distance(i, b) <= n \/ b = j
  BY <1>0, <1>1, <1>2, DistanceFacts
<1>7. T!Distance(i, w.hole) <= n
  BY DEF Walking, Shifted
<1>8. Shifted(w, i, n + 1)
  <2>1. \A b \in Buckets : T!Distance(i, b) > n + 1 => T!Distance(i, b) > n
    BY <1>0, <1>1
  <2>2. T!Distance(i, w.hole) <= n + 1
    BY <1>0, <1>1, <1>7
  <2> QED
    BY <2>1, <2>2 DEF Walking, Shifted
<1>9. Stopped(w, i, n + 1)
  BY <1>4, <1>5 DEF Walking, Stopped
<1>10. Closing(w, i, n + 1)
  BY <1>3, <1>5 DEF Walking, Closing
<1> QED
  BY <1>8, <1>9, <1>10 DEF Walking

(* The entry moves up, and leaves a hole that is on nobody's way: such a   *)
(* way would lead over a vacant bucket.                                    *)
LEMMA WalkMoves ==
    ASSUME HashInv, NEW i \in Buckets, hash[i] # None,
           NEW n \in 0 .. HASH_CAPACITY - 2, NEW w, Walking(w, i, n), ~ w.over,
           w.hash[T!After(i, n + 1)] # None,
           T!Eligible(Home(w.hash[T!After(i, n + 1)]), w.hole, T!After(i, n + 1)),
           NEW x, x.over = w.over, x.hole = T!After(i, n + 1),
           x.hash = [w.hash EXCEPT ![w.hole] = w.hash[T!After(i, n + 1)]]
    PROVE  Walking(x, i, n + 1)
<1> DEFINE j == T!After(i, n + 1)
           e == w.hash[j]
<1>0. n \in Nat /\ n + 1 \in Nat /\ n + 1 > n /\ n + 1 \in Buckets
  BY TableFacts DEF Buckets
<1>1. /\ w.hole \in Buckets /\ w.hash \in Tables
      /\ \A b \in Buckets : T!Distance(i, b) \in Nat
  BY DistanceNat DEF Walking, Shifted
<1>2. j \in Buckets /\ T!Distance(i, j) = n + 1
  BY <1>0, AfterIs
<1>3. e \in Listings /\ Home(e) \in Buckets /\ e # None
  BY <1>1, <1>2, ListingFacts
<1>4. ~ OnWay(e, j, w.hole)
  <2>1. /\ T!Distance(Home(e), w.hole) \in Nat /\ T!Distance(Home(e), j) \in Nat
    BY <1>1, <1>2, <1>3, DistanceNat
  <2>2. T!Distance(Home(e), w.hole) <= T!Distance(Home(e), j)
    BY DEF T!Eligible
  <2> HIDE DEF j, e
  <2> QED
    BY <2>1, <2>2 DEF OnWay
<1>5. \A c \in Buckets : OnWay(e, c, w.hole) => OnWay(e, c, j)
  <2>1. /\ T!Distance(Home(e), w.hole) \in Nat /\ T!Distance(Home(e), j) \in Nat
        /\ \A c \in Buckets : T!Distance(Home(e), c) \in Nat
    BY <1>1, <1>2, <1>3, DistanceNat
  <2>2. T!Distance(Home(e), w.hole) <= T!Distance(Home(e), j)
    BY DEF T!Eligible
  <2> HIDE DEF j, e
  <2> QED
    BY <2>1, <2>2 DEF OnWay
<1>6. x.hole = j /\ x.over = FALSE /\ w.over = FALSE
  BY DEF Walking, Shifted
<1>7. /\ x.hash \in Tables
      /\ x.hash[w.hole] = e /\ \A b \in Buckets : b # w.hole => x.hash[b] = w.hash[b]
  BY <1>1, <1>3 DEF Tables
<1>8. hash[j] # None
  BY <1>2, <1>3 DEF Walking, Shifted
<1>9. w.hash[j] = e
  OBVIOUS
<1> HIDE DEF j, e
<1>10. \A b \in Buckets : T!Distance(i, b) <= n + 1 => T!Distance(i, b) <= n \/ b = j
  BY <1>0, <1>1, <1>2, DistanceFacts
<1>11. T!Distance(i, w.hole) <= n /\ j # w.hole
  <2>1. T!Distance(i, w.hole) <= n
    BY DEF Walking, Shifted
  <2> QED
    BY <1>0, <1>1, <1>2, <2>1
<1>12. \A b \in Buckets : x.hash[b] = None <=> hash[b] = None
  BY <1>1, <1>3, <1>7 DEF Walking, Shifted
<1>13. Shifted(x, i, n + 1)
  <2>1. \A b \in Buckets : T!Distance(i, b) > n + 1 => T!Distance(i, b) > n /\ b # w.hole
    BY <1>0, <1>1, <1>11
  <2>2. T!Distance(i, j) <= n + 1
    BY <1>0, <1>2
  <2> QED
    BY <1>2, <1>6, <1>7, <1>8, <1>12, <2>1, <2>2 DEF Walking, Shifted
<1>14. \A b \in Buckets : T!Distance(i, b) <= n + 1 => hash[b] # None
  BY <1>6, <1>8, <1>10 DEF Walking, Stopped
<1>15. Stopped(x, i, n + 1)
  BY <1>6, <1>14 DEF Stopped
<1>16. ASSUME NEW f \in Listings
       PROVE  (\E b \in Buckets : b # x.hole /\ x.hash[b] = f)
                <=> \E b \in Buckets : b # i /\ hash[b] = f
  <2>1. (\E b \in Buckets : b # j /\ x.hash[b] = f)
          <=> \E b \in Buckets : b # w.hole /\ w.hash[b] = f
    BY <1>1, <1>2, <1>7, <1>9, <1>11
  <2> QED
    BY <1>6, <2>1 DEF Walking, Closing
<1>17. ASSUME NEW b \in Buckets, NEW c \in Buckets, b # j, c # j,
              x.hash[b] # None, x.hash[c] # None, x.hash[b][1] = x.hash[c][1]
       PROVE  b = c
  <2> DEFINE from(d) == IF d = w.hole THEN j ELSE d
  <2>1. /\ from(b) \in Buckets /\ from(c) \in Buckets
        /\ from(b) # w.hole /\ from(c) # w.hole
        /\ x.hash[b] = w.hash[from(b)] /\ x.hash[c] = w.hash[from(c)]
    BY <1>2, <1>7, <1>9, <1>11
  <2>2. from(b) = from(c)
    <3> HIDE DEF from
    <3> QED
      BY <1>17, <2>1 DEF Walking, Closing
  <2> QED
    BY <1>17, <2>2
<1>18. ASSUME NEW b \in Buckets, NEW c \in Buckets, b # j, x.hash[b] # None,
              OnWay(x.hash[b], c, b)
       PROVE  x.hash[c] # None
  <2>1. CASE b = w.hole
    <3>1. OnWay(e, c, j)
      BY <1>5, <1>7, <1>18, <2>1
    <3>2. w.hash[c] # None
      BY <1>2, <1>3, <1>9, <1>11, <3>1 DEF Walking, Closing
    <3> QED
      BY <1>3, <1>7, <3>2
  <2>2. CASE b # w.hole
    <3>1. w.hash[c] # None
      BY <1>7, <1>18, <2>2 DEF Walking, Closing
    <3> QED
      BY <1>3, <1>7, <3>1
  <2> QED
    BY <2>1, <2>2
<1>19. ASSUME NEW b \in Buckets, b # j, x.hash[b] # None, T!Distance(i, b) <= n + 1,
              OnWay(x.hash[b], j, b)
       PROVE  FALSE
  <2>1. b # w.hole
    BY <1>4, <1>7, <1>19
  <2>2. T!Distance(i, b) <= n /\ x.hash[b] = w.hash[b]
    BY <1>7, <1>10, <1>19, <2>1
  <2>3. PICK v \in Buckets : hash[v] = None
    BY SomeVacant
  <2>4. T!Distance(i, b) < T!Distance(i, j) /\ T!Distance(i, j) < T!Distance(i, v)
    BY <1>0, <1>1, <1>2, <1>14, <2>2, <2>3
  <2>5. Home(x.hash[b]) \in Buckets
    BY <1>7, <1>19, ListingFacts
  <2>6. OnWay(x.hash[b], v, b)
    BY <1>2, <1>19, <2>3, <2>4, <2>5, Around DEF OnWay
  <2>7. x.hash[v] # None
    BY <1>18, <1>19, <2>6
  <2> QED
    BY <1>12, <2>3, <2>7
<1>20. Closing(x, i, n + 1)
  BY <1>6, <1>16, <1>17, <1>18, <1>19 DEF Closing
<1> QED
  BY <1>13, <1>15, <1>20 DEF Walking

(* A function that does the first k steps of the walk exists.              *)
WalkStart(i) == [hash |-> hash, hole |-> i, over |-> FALSE]

Walks(f, i, k) ==
    f = [n \in 0 .. k |-> IF n = 0 THEN WalkStart(i)
                          ELSE T!Shift(f[n - 1], T!After(i, n))]

LEMMA WalkGoesOn ==
    ASSUME NEW i, NEW k \in Nat \ {0}, NEW f, Walks(f, i, k - 1)
    PROVE  \E g : Walks(g, i, k)
<1> DEFINE g == [n \in 0 .. k |-> IF n = k THEN T!Shift(f[k - 1], T!After(i, k)) ELSE f[n]]
<1>1. \A n \in 0 .. k - 1 :
         f[n] = IF n = 0 THEN WalkStart(i) ELSE T!Shift(f[n - 1], T!After(i, n))
  BY Zenon DEF Walks
<1>2. ASSUME NEW n \in 0 .. k
      PROVE  g[n] = IF n = 0 THEN WalkStart(i) ELSE T!Shift(g[n - 1], T!After(i, n))
  <2>1. CASE n = k
    <3>1. k - 1 \in 0 .. k /\ k - 1 # k /\ k # 0
      OBVIOUS
    <3> QED
      BY <2>1, <3>1
  <2>2. CASE n # k /\ n # 0
    <3>1. n \in 0 .. k - 1 /\ n - 1 \in 0 .. k /\ n - 1 # k
      BY <2>2
    <3> QED
      BY <1>1, <2>2, <3>1
  <2>3. CASE n # k /\ n = 0
    <3>1. n \in 0 .. k - 1
      BY <2>3
    <3> QED
      BY <1>1, <2>3, <3>1
  <2> QED
    BY <2>1, <2>2, <2>3
<1>3. g = [n \in 0 .. k |-> g[n]]
  OBVIOUS
<1> HIDE DEF g
<1>4. g = [n \in 0 .. k |-> IF n = 0 THEN WalkStart(i)
                            ELSE T!Shift(g[n - 1], T!After(i, n))]
  BY <1>2, <1>3, Zenon
<1> QED
  BY <1>4, Zenon DEF Walks

LEMMA WalkZero == ASSUME NEW i PROVE \E g : Walks(g, i, 0)
<1> DEFINE g == [n \in 0 .. 0 |-> WalkStart(i)]
<1>1. g = [n \in 0 .. 0 |-> IF n = 0 THEN WalkStart(i)
                            ELSE T!Shift(g[n - 1], T!After(i, n))]
  OBVIOUS
<1> QED
  BY <1>1, Zenon DEF Walks

LEMMA WalkExists == ASSUME NEW i, NEW k \in Nat PROVE \E f : Walks(f, i, k)
<1> DEFINE Bad == {n \in Nat : ~ \E f : Walks(f, i, n)}
<1> SUFFICES ASSUME Bad # {}
             PROVE  FALSE
  OBVIOUS
<1>1. PICK n \in Bad : \A m \in Bad : n <= m
  <2>1. Bad \in SUBSET Nat
    OBVIOUS
  <2> HIDE DEF Bad
  <2> QED
    BY <2>1, HasLeast
<1>2. n \in Nat /\ ~ \E f : Walks(f, i, n)
  BY <1>1
<1>3. n # 0
  BY <1>2, WalkZero
<1>4. n - 1 \in Nat /\ n - 1 \notin Bad
  <2>1. n - 1 \in Nat /\ ~ (n <= n - 1)
    BY <1>2, <1>3
  <2> HIDE DEF Bad
  <2> QED
    BY <1>1, <2>1
<1>5. PICK f : Walks(f, i, n - 1)
  BY <1>4
<1> QED
  BY <1>2, <1>3, <1>5, WalkGoesOn

LEMMA WalkedIs == ASSUME NEW i PROVE Walks(T!Walked(i), i, HASH_CAPACITY - 1)
<1>1. HASH_CAPACITY - 1 \in Nat
  BY TableFacts
<1>2. PICK f : Walks(f, i, HASH_CAPACITY - 1)
  BY <1>1, WalkExists
<1> QED
  BY <1>2, Zenon DEF Walks, WalkStart, T!Walked

(* One bucket of the walk.                                                 *)
WalkStates == [hash : Tables, hole : Buckets, over : BOOLEAN]

LEMMA WalkSteps ==
    ASSUME HashInv, NEW i \in Buckets, hash[i] # None,
           NEW n \in 0 .. HASH_CAPACITY - 2, NEW w \in WalkStates, Walking(w, i, n)
    PROVE  /\ T!Shift(w, T!After(i, n + 1)) \in WalkStates
           /\ Walking(T!Shift(w, T!After(i, n + 1)), i, n + 1)
<1> DEFINE j == T!After(i, n + 1)
           e == w.hash[j]
           stop == [w EXCEPT !.over = TRUE]
           move == [w EXCEPT !.hash[w.hole] = e, !.hole = j]
<1>0. n + 1 \in Buckets
  BY TableFacts DEF Buckets
<1>1. j \in Buckets
  BY <1>0, AfterIs
<1>2. /\ w = [hash |-> w.hash, hole |-> w.hole, over |-> w.over]
      /\ w.hash \in Tables /\ w.hole \in Buckets /\ w.over \in BOOLEAN
  BY DEF WalkStates
<1>3. T!Shift(w, j) = IF w.over \/ e = None THEN stop
                      ELSE IF T!Eligible(Home(e), w.hole, j) THEN move ELSE w
  BY DEF T!Shift, Home
<1>4. CASE w.over
  <2>1. stop = w
    BY <1>2, <1>4
  <2> QED
    BY <1>3, <1>4, <2>1, WalkIsOver
<1>5. CASE ~ w.over /\ e = None
  <2>1. stop \in WalkStates
    BY DEF WalkStates
  <2>2. Walking(stop, i, n + 1)
    BY <1>5, WalkStops
  <2> QED
    BY <1>3, <1>5, <2>1, <2>2
<1>6. CASE ~ w.over /\ e # None /\ ~ T!Eligible(Home(e), w.hole, j)
  <2>1. Walking(w, i, n + 1)
    BY <1>6, WalkPasses
  <2> QED
    BY <1>3, <1>6, <2>1
<1>7. CASE ~ w.over /\ e # None /\ T!Eligible(Home(e), w.hole, j)
  <2>1. e \in Listings
    BY <1>1, <1>2, <1>7, ListingFacts
  <2>4. move \in WalkStates /\ move.over = w.over /\ move.hole = j
        /\ move.hash = [w.hash EXCEPT ![w.hole] = e]
    <3>1. e \in Listings \cup {None}
      BY <2>1
    <3>2. move = [w EXCEPT !.hash[w.hole] = e, !.hole = j]
      OBVIOUS
    <3> HIDE DEF j, e, move
    <3>3. move \in WalkStates
      BY <1>1, <3>1, <3>2 DEF WalkStates, Tables
    <3>4. move.over = w.over /\ move.hole = j
      BY <1>1, <3>1, <3>2 DEF WalkStates, Tables
    <3>5. move.hash = [w.hash EXCEPT ![w.hole] = e]
      BY <1>1, <3>1, <3>2 DEF WalkStates, Tables
    <3> QED
      BY <3>3, <3>4, <3>5
  <2> HIDE DEF move
  <2>5. Walking(move, i, n + 1)
    BY <1>7, <2>4, WalkMoves
  <2> QED
    BY <1>3, <1>7, <2>4, <2>5
<1> QED
  BY <1>4, <1>5, <1>6, <1>7

LEMMA WalkEnds ==
    ASSUME HashInv, NEW i \in Buckets, hash[i] # None
    PROVE  LET w == T!Walked(i)[HASH_CAPACITY - 1]
           IN  w \in WalkStates /\ Walking(w, i, HASH_CAPACITY - 1)
<1> DEFINE N == HASH_CAPACITY - 1
           f == T!Walked(i)
           Good(n) == f[n] \in WalkStates /\ Walking(f[n], i, n)
           Bad == {n \in 0 .. N : ~ Good(n)}
<1>1. N \in Nat
  BY TableFacts
<1>2. f = [n \in 0 .. N |-> IF n = 0 THEN WalkStart(i)
                            ELSE T!Shift(f[n - 1], T!After(i, n))]
  BY WalkedIs, Zenon DEF Walks
<1>3. \A n \in 0 .. N : f[n] = IF n = 0 THEN WalkStart(i)
                               ELSE T!Shift(f[n - 1], T!After(i, n))
  BY <1>2, Zenon
<1> HIDE DEF f
<1>4. Good(0)
  <2>1. f[0] = WalkStart(i)
    BY <1>1, <1>3
  <2>2. WalkStart(i) \in WalkStates
    BY DEF WalkStart, WalkStates, HashInv
  <2>3. Walking(WalkStart(i), i, 0)
    BY WalkBegins DEF WalkStart
  <2> QED
    BY <2>1, <2>2, <2>3
<1>5. ASSUME NEW n \in 1 .. N, Good(n - 1)
      PROVE  Good(n)
  <2>1. n \in 0 .. N /\ n # 0 /\ n - 1 \in 0 .. HASH_CAPACITY - 2 /\ (n - 1) + 1 = n
    BY <1>1, TableFacts
  <2>2. f[n] = T!Shift(f[n - 1], T!After(i, n))
    BY <1>3, <2>1
  <2>3. /\ T!Shift(f[n - 1], T!After(i, (n - 1) + 1)) \in WalkStates
        /\ Walking(T!Shift(f[n - 1], T!After(i, (n - 1) + 1)), i, (n - 1) + 1)
    BY <1>5, <2>1, WalkSteps
  <2> QED
    BY <2>1, <2>2, <2>3
<1>6. Bad = {}
  <2> SUFFICES ASSUME Bad # {}
               PROVE  FALSE
    OBVIOUS
  <2>1. Bad \in SUBSET Nat
    BY <1>1
  <2>2. PICK m \in Bad : \A l \in Bad : m <= l
    <3> HIDE DEF Bad
    <3> QED
      BY <2>1, HasLeast
  <2>3. m \in 0 .. N /\ ~ Good(m)
    OBVIOUS
  <2> HIDE DEF Good
  <2>4. m \in 1 .. N /\ m - 1 \in 0 .. N /\ ~ (m <= m - 1)
    BY <1>1, <1>4, <2>3
  <2>5. Good(m - 1)
    BY <2>2, <2>4
  <2> QED
    BY <1>5, <2>3, <2>4, <2>5
<1>7. N \in 0 .. N
  BY <1>1
<1>8. Good(N)
  <2> HIDE DEF Good, N
  <2> QED
    BY <1>6, <1>7
<1> QED
  BY <1>8 DEF f

(* A removal takes out what is in the bucket of its key, and the table is  *)
(* whole again.                                                            *)
LEMMA RemoveListed ==
    ASSUME HashInv, NEW k \in Keys, hash[T!BucketOf(k)] # None
    PROVE  LET h == T!hash_remove(k)
               i == T!BucketOf(k)
           IN  /\ h \in Tables /\ Whole(h) /\ OnePerKey(h)
               /\ \A e \in Listings : Lists(h, e) <=> Lists(hash, e) /\ e # hash[i]
<1> DEFINE i == T!BucketOf(k)
           N == HASH_CAPACITY - 1
           w == T!Walked(i)[N]
           h == T!hash_remove(k)
<1>1. i \in Buckets /\ hash[i] # None
  BY BucketIs
<1>2. w \in WalkStates /\ Walking(w, i, N)
  BY <1>1, WalkEnds
<1>3. h = [w.hash EXCEPT ![w.hole] = None]
  BY DEF T!hash_remove
<1> HIDE DEF w, h, i
<1>4. w.hash \in Tables /\ w.hole \in Buckets
  BY <1>2 DEF WalkStates
<1>5. /\ h \in Tables /\ h[w.hole] = None
      /\ \A b \in Buckets : b # w.hole => h[b] = w.hash[b]
  BY <1>3, <1>4 DEF Tables
<1>6. \A b \in Buckets : T!Distance(i, b) <= N
  <2> TAKE b \in Buckets
  <2>1. T!Distance(i, b) \in Buckets
    BY <1>1, DistanceFacts
  <2> QED
    BY <2>1, TableFacts DEF Buckets
<1> HIDE DEF N
<1>7. Whole(h)
  <2> SUFFICES ASSUME NEW b \in Buckets, NEW c \in Buckets, h[b] # None, OnWay(h[b], c, b)
               PROVE  h[c] # None
    BY DEF Whole
  <2>1. b # w.hole /\ w.hash[b] = h[b]
    BY <1>5
  <2>2. w.hash[c] # None /\ ~ OnWay(w.hash[b], w.hole, b)
    BY <1>2, <1>6, <2>1 DEF Walking, Closing
  <2> QED
    BY <1>5, <2>1, <2>2
<1>8. OnePerKey(h)
  BY <1>2, <1>5 DEF OnePerKey, Walking, Closing
<1>9. ASSUME NEW e \in Listings
      PROVE  Lists(h, e) <=> Lists(hash, e) /\ e # hash[i]
  <2>1. e # None
    BY ListingFacts
  <2>2. Lists(h, e) <=> \E b \in Buckets : b # w.hole /\ w.hash[b] = e
    BY <1>5, <2>1 DEF Lists
  <2>3. Lists(h, e) <=> \E b \in Buckets : b # i /\ hash[b] = e
    BY <1>2, <2>2 DEF Walking, Closing
  <2>4. \A b \in Buckets : b # i /\ hash[b] = e => e # hash[i]
    BY <1>1, <2>1 DEF HashInv, OnePerKey
  <2> QED
    BY <2>3, <2>4 DEF Lists
<1> QED
  BY <1>5, <1>7, <1>8, <1>9 DEF h, i

-----------------------------------------------------------------------------
(* What the slots hold, the index of the kinds, the free list and the      *)
(* caches say the same of the slots.                                       *)
Held(i) == slots[i] # None

RootsInv ==
    /\ slots \in [Segments -> T!Roots \cup {None}] /\ count \in 1 .. MAX_SEGMENTS
    /\ slots[0] = T!PrimordialRoot
    /\ \A i \in Segments : i >= count => ~ Held(i)

OfKind(d) == {i \in Segments : Held(i) /\ (Held(i) => slots[i].kind = d)}

KindsInv ==
    /\ fatal = FALSE
    /\ leaf \in [T!Kinds -> SUBSET Segments] /\ ksummary \in [T!Kinds -> SUBSET Nat]
    /\ \A d \in T!Kinds : leaf[d] = OfKind(d)
    /\ \A d \in T!Kinds : ksummary[d] = {T!WordOf(i) : i \in leaf[d]}

FreeInv ==
    /\ free_list \in Seq(Segments)
    /\ \A n \in DOMAIN free_list : free_list[n] \in 1 .. count - 1 /\ ~ Held(free_list[n])
    /\ \A n, m \in DOMAIN free_list : free_list[n] = free_list[m] => n = m
    /\ \A i \in 0 .. count - 1 : ~ Held(i) => \E n \in DOMAIN free_list : free_list[n] = i

Lines == 0 .. OWN_CACHE_SIZE - 1
Answers == Keys \X T!Roots
Stands(line) == /\ line \in Answers \cup {None}
                /\ line # None => /\ \E i \in Segments : slots[i] = line[2]
                                  /\ line[2].key = line[1]

CachesInv ==
    /\ DOMAIN own_cache = Lines /\ own_cache = [c \in Lines |-> own_cache[c]]
    /\ \A c \in Lines : Stands(own_cache[c])
    /\ Stands(memo)
    /\ memo # None => ~ memo[2].biased

TableInv == HashInv /\ RootsInv /\ KindsInv /\ FreeInv /\ CachesInv

LEMMA RootFacts ==
    /\ \A r \in T!Roots : r.key \in Keys /\ r.kind \in T!Kinds /\ r # None
    /\ T!PrimordialRoot \in T!Roots /\ T!PrimordialRoot.key = Primordial
    /\ T!PrimordialRoot.kind = "Small" /\ "Small" \in T!Kinds /\ "Large" \in T!Kinds
    /\ 0 \in Segments
<1>1. \A r \in T!Roots : r.key \in Keys /\ r.kind \in T!Kinds
  BY DEF T!Roots, T!Kinds
<1>2. T!PrimordialRoot \in T!Roots
  BY TableFacts DEF T!Roots, T!Kinds, T!PrimordialRoot
<1>3. /\ T!PrimordialRoot.key = Primordial
      /\ T!PrimordialRoot.kind = "Small" /\ "Small" \in T!Kinds /\ "Large" \in T!Kinds
  BY DEF T!PrimordialRoot, T!Kinds
<1>4. 0 \in Segments
  BY TableFacts DEF Segments
<1> QED
  BY <1>1, <1>2, <1>3, <1>4, TableFacts

(* No two slots hold the same key.                                         *)
LEMMA KeysDiffer ==
    ASSUME HashInv, RootsInv, NEW i \in Segments, NEW j \in Segments, NEW k,
           HoldsKey(i, k), HoldsKey(j, k)
    PROVE  i = j /\ k \in Keys
<1>1. k \in Keys
  BY RootFacts DEF HoldsKey, RootsInv
<1>2. /\ <<k, i>> \in Listings /\ <<k, j>> \in Listings
      /\ <<k, i>>[1] = k /\ <<k, j>>[1] = k /\ <<k, i>>[2] = i /\ <<k, j>>[2] = j
  BY <1>1, ListingFacts
<1>3. PICK b \in Buckets : hash[b] = <<k, i>>
  BY <1>2 DEF HashInv, Lists
<1>4. PICK c \in Buckets : hash[c] = <<k, j>>
  BY <1>2 DEF HashInv, Lists
<1>5. b = c
  BY <1>2, <1>3, <1>4, ListingFacts DEF HashInv, OnePerKey
<1> QED
  BY <1>1, <1>2, <1>3, <1>4, <1>5

(* The words of the index.                                                 *)
LEMMA WordsGoUp ==
    ASSUME NEW i \in Nat, NEW j \in Nat
    PROVE  /\ T!WordOf(i) \in Nat /\ T!WordOf(i) <= i
           /\ i <= j => T!WordOf(i) <= T!WordOf(j)
<1>1. WORD \in Nat \ {0}
  BY TableFacts
<1> QED
  BY <1>1 DEF T!WordOf

LEMMA LeastIs ==
    ASSUME NEW S \in SUBSET Nat
    PROVE  /\ S = {} => T!Least(S) = None
           /\ \A x \in S : (\A y \in S : x <= y) => T!Least(S) = x
           /\ S # {} => T!Least(S) \in S /\ \A y \in S : T!Least(S) <= y
<1>1. ASSUME NEW x \in S, \A y \in S : x <= y PROVE T!Least(S) = x
  <2>1. \A z \in S : (\A y \in S : z <= y) => z = x
    BY <1>1
  <2> QED
    BY <1>1, <2>1 DEF T!Least
<1>2. ASSUME S # {} PROVE \E x \in S : \A y \in S : x <= y
  BY <1>2, HasLeast
<1>3. S = {} => T!Least(S) = None
  BY DEF T!Least
<1> QED
  BY <1>1, <1>2, <1>3

(* The two levels lead to the next slot of a kind.                         *)
LEMMA NextSlotIs ==
    ASSUME KindsInv, NEW d \in T!Kinds, NEW from \in Segments
    PROVE  T!NextOfKind(d, from) = T!Least({i \in OfKind(d) : i >= from})
<1> DEFINE S == {i \in leaf[d] : i >= from}
           here == {i \in T!InWord(leaf[d], T!WordOf(from)) : i >= from}
           later == {v \in ksummary[d] : v > T!WordOf(from)}
           w == T!Least(later)
<1>1. leaf[d] = OfKind(d) /\ leaf[d] \in SUBSET Segments /\ leaf[d] \in SUBSET Nat
  BY TableFacts DEF KindsInv, Segments
<1>2. from \in Nat /\ ksummary[d] = {T!WordOf(i) : i \in leaf[d]}
  BY TableFacts DEF KindsInv, Segments
<1>3. S \in SUBSET Nat /\ here \in SUBSET S
  BY <1>1 DEF T!InWord
<1>4. \A i \in leaf[d] : T!WordOf(i) \in Nat /\ T!WordOf(i) <= i /\ T!WordOf(i) \in Segments
  <2> TAKE i \in leaf[d]
  <2>1. T!WordOf(i) \in Nat /\ T!WordOf(i) <= i
    BY <1>1, WordsGoUp
  <2> QED
    BY <1>1, <2>1, TableFacts DEF Segments
<1>5. later \in SUBSET Nat /\ later \in SUBSET Segments
  BY <1>2, <1>4
<1>6. T!WordOf(from) \in Nat
  BY <1>2, WordsGoUp
<1>7. T!NextOfKind(d, from)
        = IF here # {} THEN T!Least(here)
          ELSE IF w = None THEN None ELSE T!Least(T!InWord(leaf[d], w))
  BY DEF T!NextOfKind
<1>8. CASE here # {}
  <2> DEFINE x == T!Least(here)
  <2>1. x \in here /\ \A y \in here : x <= y
    BY <1>3, <1>8, LeastIs
  <2>2. x \in S /\ x \in Nat /\ T!WordOf(x) = T!WordOf(from)
    BY <1>3, <2>1 DEF T!InWord
  <2> HIDE DEF x
  <2>3. ASSUME NEW y \in S PROVE x <= y
    <3>1. y \in Nat /\ T!WordOf(from) <= T!WordOf(y)
      BY <1>1, <1>2, WordsGoUp
    <3>2. CASE T!WordOf(from) = T!WordOf(y)
      BY <2>1, <3>2 DEF T!InWord
    <3>3. CASE T!WordOf(from) # T!WordOf(y)
      <4>1. T!WordOf(x) \in Nat /\ T!WordOf(y) \in Nat
        BY <2>2, <3>1, WordsGoUp
      <4>2. ~ (T!WordOf(y) <= T!WordOf(x))
        BY <1>6, <2>2, <3>1, <3>3, <4>1
      <4>3. ~ (y <= x)
        BY <2>2, <3>1, <4>2, WordsGoUp
      <4> QED
        BY <2>2, <3>1, <4>3
    <3> QED
      BY <3>2, <3>3
  <2>4. T!Least(S) = x
    <3> HIDE DEF S
    <3> QED
      BY <1>3, <2>2, <2>3, LeastIs
  <2> QED
    BY <1>1, <1>7, <1>8, <2>4 DEF x
<1>9. CASE here = {}
  <2>1. \A i \in S : T!WordOf(i) > T!WordOf(from)
    <3> TAKE i \in S
    <3>1. i \in Nat /\ T!WordOf(from) <= T!WordOf(i) /\ T!WordOf(i) \in Nat
      BY <1>1, <1>2, WordsGoUp
    <3>2. T!WordOf(from) # T!WordOf(i)
      BY <1>9 DEF T!InWord
    <3> QED
      BY <1>6, <3>1, <3>2
  <2>2. \A i \in leaf[d] : T!WordOf(i) > T!WordOf(from) => i \in S
    <3> TAKE i \in leaf[d]
    <3> HAVE T!WordOf(i) > T!WordOf(from)
    <3>1. ~ (T!WordOf(i) <= T!WordOf(from))
      BY <1>4, <1>6
    <3>2. ~ (i <= from)
      BY <1>1, <1>2, <3>1, WordsGoUp
    <3> QED
      BY <1>1, <1>2, <3>2
  <2>3. CASE S = {}
    <3>1. later = {}
      BY <1>2, <2>2, <2>3
    <3>2. w = None /\ T!Least(S) = None
      BY <2>3, <3>1, LeastIs
    <3> QED
      BY <1>1, <1>7, <1>9, <3>2
  <2>4. CASE S # {}
    <3>1. PICK i \in S : TRUE
      BY <2>4
    <3>2. i \in leaf[d] /\ T!WordOf(i) \in later
      BY <1>2, <2>1
    <3> HIDE DEF S
    <3>3. w \in later /\ \A v \in later : w <= v
      <4> HIDE DEF later
      <4> QED
        BY <1>5, <3>2, LeastIs
    <3>4. w # None /\ w \in Nat
      BY <1>5, <3>3, TableFacts
    <3>5. PICK l \in leaf[d] : T!WordOf(l) = w
      BY <1>2, <3>3
    <3>6. w > T!WordOf(from)
      BY <3>3
    <3> HIDE DEF w
    <3> DEFINE W == T!InWord(leaf[d], w)
               x == T!Least(W)
    <3>7. W \in SUBSET Nat /\ l \in W
      BY <1>1, <3>5 DEF T!InWord
    <3>8. x \in W /\ \A y \in W : x <= y
      <4> HIDE DEF W
      <4> QED
        BY <3>7, LeastIs
    <3>9. x \in leaf[d] /\ T!WordOf(x) = w
      BY <3>8 DEF T!InWord
    <3>10. x \in S /\ x \in Nat
      BY <1>1, <2>2, <3>6, <3>9
    <3>11. ASSUME NEW y \in S PROVE x <= y
      <4>1. y \in leaf[d] /\ y \in Nat /\ T!WordOf(y) \in later
        BY <1>2, <1>3, <2>1 DEF S
      <4>2. w <= T!WordOf(y)
        BY <3>3, <4>1
      <4>3. CASE w = T!WordOf(y)
        BY <3>8, <4>1, <4>3 DEF T!InWord
      <4>4. CASE w # T!WordOf(y)
        <5>1. ~ (T!WordOf(y) <= T!WordOf(x))
          BY <1>4, <3>4, <3>9, <4>1, <4>2, <4>4
        <5>2. ~ (y <= x)
          BY <3>10, <4>1, <5>1, WordsGoUp
        <5> QED
          BY <3>10, <4>1, <5>2
      <4> QED
        BY <4>3, <4>4
    <3>12. T!Least(S) = x
      <4> HIDE DEF x
      <4> QED
        BY <1>3, <3>10, <3>11, LeastIs
    <3> QED
      BY <1>1, <1>7, <1>9, <3>4, <3>12 DEF S, w
  <2> QED
    BY <2>3, <2>4
<1> QED
  BY <1>8, <1>9

-----------------------------------------------------------------------------
(* What the invariant says of the table: T!SlotsAreAccounted and           *)
(* T!LookupsAreExact, part by part.                                        *)
LEMMA RegisteredIs ==
    ASSUME RootsInv
    PROVE  /\ \A i \in Segments : Held(i) => slots[i] \in T!Registered /\ slots[i] \in T!Roots
           /\ \A r \in T!Registered : \E i \in Segments : slots[i] = r /\ Held(i)
           /\ \A r \in T!Registered : r \in T!Roots
           /\ \A r : (\E i \in Segments : slots[i] = r /\ r # None) => r \in T!Registered
BY RootFacts, TableFacts DEF RootsInv, Held, T!Registered

(* The owner of a key is the root in the slot that holds it.               *)
LEMMA OwnerIs ==
    ASSUME HashInv, RootsInv, NEW k \in Keys
    PROVE  /\ \A i \in Segments : HoldsKey(i, k) => T!OwnerOf(k) = slots[i]
           /\ (\A i \in Segments : ~ HoldsKey(i, k)) => T!OwnerOf(k) = None
<1>1. ASSUME NEW i \in Segments, HoldsKey(i, k)
      PROVE  T!OwnerOf(k) = slots[i]
  <2>1. slots[i] \in T!Registered /\ slots[i].key = k
    BY <1>1, RegisteredIs DEF HoldsKey, Held
  <2>2. \A r \in T!Registered : r.key = k => r = slots[i]
    <3> SUFFICES ASSUME NEW r \in T!Registered, r.key = k
                 PROVE  r = slots[i]
      OBVIOUS
    <3>1. PICK j \in Segments : slots[j] = r /\ Held(j)
      BY RegisteredIs
    <3>2. HoldsKey(j, k)
      BY <3>1 DEF HoldsKey, Held
    <3> QED
      BY <1>1, <3>1, <3>2, KeysDiffer
  <2> QED
    BY <2>1, <2>2 DEF T!OwnerOf
<1>2. ASSUME \A i \in Segments : ~ HoldsKey(i, k)
      PROVE  T!OwnerOf(k) = None
  <2>1. \A r \in T!Registered : r.key # k
    BY <1>2, RegisteredIs DEF HoldsKey, Held
  <2> QED
    BY <2>1 DEF T!OwnerOf
<1> QED
  BY <1>1, <1>2

LEMMA FindsOwner ==
    ASSUME HashInv, RootsInv, NEW k \in Keys
    PROVE  T!hash_find(k) = T!OwnerOf(k)
BY FindIs, OwnerIs

(* A line that stands answers with the owner of its key.                   *)
LEMMA LineIs ==
    ASSUME HashInv, RootsInv, NEW line, Stands(line), line # None
    PROVE  /\ line[1] \in Keys /\ line[2] \in T!Roots /\ line = <<line[1], line[2]>>
           /\ line[2] = T!OwnerOf(line[1])
<1>1. line \in Answers
  BY DEF Stands
<1>2. line[1] \in Keys /\ line[2] \in T!Roots /\ line = <<line[1], line[2]>>
  BY <1>1 DEF Answers
<1>3. PICK i \in Segments : slots[i] = line[2]
  BY DEF Stands
<1>4. HoldsKey(i, line[1])
  BY <1>2, <1>3, RootFacts DEF HoldsKey, Stands
<1> QED
  BY <1>2, <1>3, <1>4, OwnerIs

LEMMA IndexIs == \A k \in Keys : T!index_of(k) \in Lines
<1> TAKE k \in Keys
<1>1. k \in Nat /\ OWN_CACHE_SIZE \in Nat \ {0}
  BY TableFacts
<1> QED
  BY <1>1 DEF T!index_of, Lines

LEMMA LookupsHold ==
    ASSUME TableInv
    PROVE  T!LookupsAreExact
<1>1. HashInv /\ RootsInv /\ CachesInv
  BY DEF TableInv
<1>2. \A k \in Keys : T!hash_find(k) = T!OwnerOf(k)
  BY <1>1, FindsOwner
<1>3. ASSUME NEW k \in Keys
      PROVE  T!canonical_base_of(k) = T!OwnerOf(k)
  <2>1. Stands(memo) /\ Stands(own_cache[T!index_of(k)])
    BY <1>1, IndexIs DEF CachesInv
  <2>2. CASE T!Knows(memo, k)
    BY <1>1, <2>1, <2>2, LineIs DEF T!canonical_base_of, T!Knows
  <2>3. CASE ~ T!Knows(memo, k) /\ T!Knows(own_cache[T!index_of(k)], k)
    BY <1>1, <2>1, <2>3, LineIs DEF T!canonical_base_of, T!Knows
  <2>4. CASE ~ T!Knows(memo, k) /\ ~ T!Knows(own_cache[T!index_of(k)], k)
    BY <1>2, <2>4 DEF T!canonical_base_of
  <2> QED
    BY <2>2, <2>3, <2>4
<1>4. memo # None => ~ memo[2].biased
  BY <1>1 DEF CachesInv
<1> QED
  BY <1>2, <1>3, <1>4 DEF T!LookupsAreExact, T!CachesAreExact

LEMMA WordsAre ==
    \A i \in Segments : T!WordOf(i) \in 0 .. (MAX_SEGMENTS - 1) \div WORD
<1> TAKE i \in Segments
<1>1. i \in Nat /\ MAX_SEGMENTS - 1 \in Nat /\ i <= MAX_SEGMENTS - 1
  BY TableFacts DEF Segments
<1>2. /\ T!WordOf(i) \in Nat /\ T!WordOf(MAX_SEGMENTS - 1) \in Nat
      /\ T!WordOf(i) <= T!WordOf(MAX_SEGMENTS - 1)
  BY <1>1, WordsGoUp
<1>3. T!WordOf(MAX_SEGMENTS - 1) = (MAX_SEGMENTS - 1) \div WORD
  BY DEF T!WordOf
<1> QED
  BY <1>2, <1>3

LEMMA TableTyped ==
    ASSUME TableInv
    PROVE  T!TypeOK
<1>1. slots \in [T!Slots -> T!Roots \cup {None}] /\ count \in 1 .. MAX_SEGMENTS
  BY TableFacts DEF TableInv, RootsInv
<1>2. free_list \in Seq(T!Slots)
  BY TableFacts DEF TableInv, FreeInv
<1>3. hash \in [T!Buckets -> (Keys \X T!Slots) \cup {None}]
  BY TableFacts DEF TableInv, HashInv, Tables, Listings
<1>4. /\ own_cache \in [0 .. OWN_CACHE_SIZE - 1 -> (Keys \X T!Roots) \cup {None}]
      /\ memo \in (Keys \X T!Roots) \cup {None}
  BY DEF TableInv, CachesInv, Stands, Answers, Lines
<1>5. leaf \in [T!Kinds -> SUBSET T!Slots]
  BY TableFacts DEF TableInv, KindsInv
<1>6. ksummary \in [T!Kinds -> SUBSET (0 .. (MAX_SEGMENTS - 1) \div WORD)]
  <2>1. \A d \in T!Kinds : leaf[d] \in SUBSET Segments
    BY DEF TableInv, KindsInv
  <2>2. \A d \in T!Kinds : ksummary[d] \in SUBSET (0 .. (MAX_SEGMENTS - 1) \div WORD)
    BY <2>1, WordsAre DEF TableInv, KindsInv
  <2> QED
    BY <2>2 DEF TableInv, KindsInv
<1>7. fatal \in BOOLEAN
  BY DEF TableInv, KindsInv
<1> QED
  BY <1>1, <1>2, <1>3, <1>4, <1>5, <1>6, <1>7 DEF T!TypeOK

LEMMA TableCounts ==
    /\ T!Cardinality({}) = 0
    /\ \A x : T!Cardinality({x}) = 1
<1>1. \A S : T!Cardinality(S) = Cardinality(S)
  BY DEF T!Cardinality, Cardinality
<1> QED
  BY <1>1, FS_EmptySet, FS_Singleton

LEMMA SlotsHold ==
    ASSUME TableInv
    PROVE  T!SlotsAreAccounted
<1>1. RootsInv /\ KindsInv /\ FreeInv
  BY DEF TableInv
<1>2. T!KindIndexIsExact
  <2>1. ASSUME NEW d \in T!Kinds, NEW from \in T!Slots
        PROVE  T!NextOfKind(d, from)
                 = T!Least({i \in T!Slots : i >= from /\ slots[i] # None
                                   /\ (slots[i] # None => slots[i].kind = d)})
    <3>1. {i \in T!Slots : i >= from /\ slots[i] # None
                             /\ (slots[i] # None => slots[i].kind = d)}
            = {i \in OfKind(d) : i >= from}
      BY TableFacts DEF OfKind, Held
    <3> QED
      BY <1>1, <3>1, NextSlotIs, TableFacts
  <2>2. ~ fatal
    BY <1>1 DEF KindsInv
  <2> QED
    BY <2>1, <2>2 DEF T!KindIndexIsExact
<1>3. ASSUME NEW i \in 0 .. count - 1
      PROVE  T!Cardinality({n \in DOMAIN free_list : free_list[n] = i})
               = IF slots[i] = None THEN 1 ELSE 0
  <2>1. CASE Held(i)
    <3>1. {n \in DOMAIN free_list : free_list[n] = i} = {}
      BY <1>1, <2>1 DEF FreeInv
    <3> QED
      BY <2>1, <3>1, TableCounts DEF Held
  <2>2. CASE ~ Held(i)
    <3>1. PICK m \in DOMAIN free_list : free_list[m] = i
      BY <1>1, <2>2 DEF FreeInv
    <3>2. {n \in DOMAIN free_list : free_list[n] = i} = {m}
      BY <1>1, <3>1 DEF FreeInv
    <3> QED
      BY <2>2, <3>2, TableCounts DEF Held
  <2> QED
    BY <2>1, <2>2
<1>4. \A n \in DOMAIN free_list : free_list[n] \in 1 .. count - 1
  BY <1>1 DEF FreeInv
<1>5. \A i \in T!Slots : i >= count => slots[i] = None
  BY <1>1, TableFacts DEF RootsInv, Held
<1> QED
  BY <1>2, <1>3, <1>4, <1>5, TableTyped DEF T!SlotsAreAccounted

(* The table of a new heap.                                                *)
LEMMA TableBegins ==
    ASSUME T!Init
    PROVE  TableInv
<1>1. /\ \A i \in Segments : slots[i] = IF i = 0 THEN T!PrimordialRoot ELSE None
      /\ slots \in [Segments -> T!Roots \cup {None}]
      /\ slots[0] = T!PrimordialRoot
      /\ \A i \in Segments : Held(i) <=> i = 0
  BY RootFacts, TableFacts DEF T!Init, Held
<1>2. RootsInv
  BY <1>1, TableFacts DEF T!Init, RootsInv, Segments
<1>3. HashInv
  <2> DEFINE h == hash_index[Primordial]
             e == <<Primordial, 0>>
  <2>1. /\ h \in Buckets /\ e \in Listings /\ e # None /\ e[1] = Primordial /\ e[2] = 0
        /\ Home(e) = h
    BY RootFacts, ListingFacts, TableFacts DEF Home
  <2>2. hash = [b \in Buckets |-> IF b = h THEN e ELSE None]
    BY TableFacts DEF T!Init
  <2> HIDE DEF h, e
  <2>3. hash \in Tables /\ hash[h] = e /\ \A b \in Buckets : b # h => hash[b] = None
    BY <2>1, <2>2 DEF Tables
  <2>4. \A c \in Buckets : ~ OnWay(e, c, h)
    <3> TAKE c \in Buckets
    <3>1. T!Distance(h, h) = 0 /\ T!Distance(h, c) \in Nat
      BY <2>1, DistanceFacts, DistanceNat
    <3> QED
      BY <2>1, <3>1 DEF OnWay
  <2>5. Whole(hash)
    BY <2>1, <2>3, <2>4 DEF Whole
  <2>6. OnePerKey(hash)
    BY <2>3 DEF OnePerKey
  <2>7. ASSUME NEW f \in Listings
        PROVE  Lists(hash, f) <=> HoldsKey(f[2], f[1])
    <3>1. f = <<f[1], f[2]>> /\ f[2] \in Segments /\ f # None
      BY ListingFacts
    <3>2. Lists(hash, f) <=> f = e
      BY <2>1, <2>3, <3>1 DEF Lists
    <3>3. HoldsKey(f[2], f[1]) <=> f[2] = 0 /\ f[1] = Primordial
      BY <1>1, <3>1, RootFacts DEF HoldsKey, Held
    <3> QED
      BY <2>1, <3>1, <3>2, <3>3 DEF e
  <2> QED
    BY <2>3, <2>5, <2>6, <2>7 DEF HashInv
<1>4. KindsInv
  <2>1. leaf = [d \in T!Kinds |-> IF d = "Small" THEN {0} ELSE {}]
        /\ ksummary = [d \in T!Kinds |-> IF d = "Small" THEN {0} ELSE {}]
    BY DEF T!Init
  <2>2. OfKind("Small") = {0} /\ \A d \in T!Kinds : d # "Small" => OfKind(d) = {}
    BY <1>1, RootFacts DEF OfKind
  <2>3. T!WordOf(0) = 0
    <3>1. T!WordOf(0) \in Nat /\ T!WordOf(0) <= 0
      BY WordsGoUp
    <3> QED
      BY <3>1
  <2>4. /\ leaf \in [T!Kinds -> SUBSET Segments] /\ ksummary \in [T!Kinds -> SUBSET Nat]
        /\ \A d \in T!Kinds : leaf[d] = OfKind(d)
    BY <2>1, <2>2, RootFacts
  <2>5. \A d \in T!Kinds : ksummary[d] = {T!WordOf(i) : i \in leaf[d]}
    BY <2>1, <2>3
  <2>6. fatal = FALSE
    BY DEF T!Init
  <2> QED
    BY <2>4, <2>5, <2>6 DEF KindsInv
<1>5. FreeInv
  <2>1. free_list = <<>> /\ count = 1
    BY DEF T!Init
  <2>2. Held(0)
    BY <1>1, RootFacts
  <2> QED
    BY <2>1, <2>2 DEF FreeInv
<1>6. CachesInv
  BY DEF T!Init, CachesInv, Stands, Lines
<1> QED
  BY <1>2, <1>3, <1>4, <1>5, <1>6 DEF TableInv

-----------------------------------------------------------------------------
(* A root comes to a vacant slot.                                          *)
Placed(r, i) ==
    /\ r \in T!Roots /\ i \in Segments /\ ~ Held(i)
    /\ \A q \in T!Registered : q.key # r.key
    /\ slots' = [slots EXCEPT ![i] = r]
    /\ hash' = T!hash_insert_identity(r.key, i)
    /\ T!SetKind(i, r.kind)
    /\ UNCHANGED <<own_cache, memo>>

(* What the slots hold after it.                                           *)
LEMMA PlacedSlots ==
    ASSUME RootsInv, NEW r, NEW i, Placed(r, i)
    PROVE  /\ slots' \in [Segments -> T!Roots \cup {None}] /\ slots'[i] = r
           /\ \A j \in Segments : j # i => slots'[j] = slots[j]
           /\ Held(i)' /\ \A j \in Segments : j # i => (Held(j)' <=> Held(j))
           /\ i # 0 /\ r # None
BY RootFacts DEF RootsInv, Placed, Held, T!PrimordialRoot

LEMMA PlacedHash ==
    ASSUME HashInv, RootsInv, NEW r, NEW i, Placed(r, i)
    PROVE  HashInv'
<1> DEFINE k == r.key
<1>1. k \in Keys /\ i \in Segments /\ ~ Held(i) /\ r # None
  BY RootFacts DEF Placed
<1>2. \A j \in Segments : ~ HoldsKey(j, k)
  BY RegisteredIs DEF Placed, HoldsKey, Held
<1>3. hash' = T!hash_insert_identity(k, i)
  BY DEF Placed
<1> HIDE DEF k
<1>4. /\ hash' \in Tables /\ Whole(hash') /\ OnePerKey(hash')
      /\ \A e \in Listings : Lists(hash', e) <=> Lists(hash, e) \/ e = <<k, i>>
  BY <1>1, <1>2, <1>3, InsertListed
<1>5. ASSUME NEW e \in Listings
      PROVE  Lists(hash', e) <=> HoldsKey(e[2], e[1])'
  <2>1. e = <<e[1], e[2]>> /\ e[2] \in Segments
    BY ListingFacts
  <2>2. Lists(hash, e) <=> HoldsKey(e[2], e[1])
    BY DEF HashInv
  <2>3. CASE e[2] = i
    <3>1. ~ Lists(hash, e)
      BY <1>1, <2>2, <2>3 DEF HoldsKey, Held
    <3>2. HoldsKey(e[2], e[1])' <=> e[1] = k
      BY <1>1, <2>3, PlacedSlots DEF HoldsKey, k
    <3> QED
      BY <1>4, <2>1, <2>3, <3>1, <3>2
  <2>4. CASE e[2] # i
    <3>1. HoldsKey(e[2], e[1])' <=> HoldsKey(e[2], e[1])
      BY <2>1, <2>4, PlacedSlots DEF HoldsKey
    <3> QED
      BY <1>4, <2>1, <2>2, <2>4, <3>1
  <2> QED
    BY <2>3, <2>4
<1> QED
  BY <1>4, <1>5 DEF HashInv

LEMMA OtherKindIs ==
    ASSUME NEW d \in T!Kinds
    PROVE  T!OtherKind(d) \in T!Kinds
<1>1. \E e \in T!Kinds : e # d
  BY DEF T!Kinds
<1> QED
  BY <1>1 DEF T!OtherKind

LEMMA PlacedKinds ==
    ASSUME KindsInv, RootsInv, NEW r, NEW i, Placed(r, i)
    PROVE  KindsInv'
<1> DEFINE d == r.kind
           w == T!WordOf(i)
<1>1. d \in T!Kinds /\ i \in Segments /\ ~ Held(i) /\ w \in Nat /\ i \in Nat
  <2>1. d \in T!Kinds /\ i \in Segments /\ ~ Held(i) /\ i \in Nat
    BY RootFacts, TableFacts DEF Placed, Segments
  <2> QED
    BY <2>1, WordsGoUp
<1>2. /\ leaf' = [leaf EXCEPT ![d] = @ \cup {i}]
      /\ ksummary' = IF T!InWord(leaf[d], w) = {}
                       THEN [ksummary EXCEPT ![d] = @ \cup {w}] ELSE ksummary
      /\ fatal' = (fatal \/ i \in leaf[d] \/ i \in leaf[T!OtherKind(d)])
  BY DEF Placed, T!SetKind
<1>3. \A e \in T!Kinds : i \notin leaf[e]
  BY <1>1 DEF KindsInv, OfKind
<1>4. fatal' = FALSE
  BY <1>1, <1>2, <1>3, OtherKindIs DEF KindsInv
<1>5. /\ OfKind(d)' = OfKind(d) \cup {i}
      /\ \A e \in T!Kinds : e # d => OfKind(e)' = OfKind(e)
  <2>1. \A j \in Segments : j # i => slots'[j] = slots[j] /\ (Held(j)' <=> Held(j))
    BY PlacedSlots
  <2>2. Held(i)' /\ slots'[i].kind = d /\ ~ Held(i) /\ i \in Segments
    BY <1>1, PlacedSlots
  <2> HIDE DEF d
  <2> QED
    BY <2>1, <2>2 DEF OfKind
<1> HIDE DEF d, w
<1>6. /\ leaf' \in [T!Kinds -> SUBSET Segments]
      /\ leaf'[d] = leaf[d] \cup {i} /\ \A e \in T!Kinds : e # d => leaf'[e] = leaf[e]
  BY <1>1, <1>2 DEF KindsInv
<1>7. \A e \in T!Kinds : leaf'[e] = OfKind(e)'
  BY <1>5, <1>6 DEF KindsInv
<1>8. /\ ksummary' \in [T!Kinds -> SUBSET Nat]
      /\ ksummary'[d] = ksummary[d] \cup {w}
      /\ \A e \in T!Kinds : e # d => ksummary'[e] = ksummary[e]
  <2>1. CASE T!InWord(leaf[d], w) = {}
    BY <1>1, <1>2, <2>1 DEF KindsInv
  <2>2. CASE T!InWord(leaf[d], w) # {}
    <3>0. PICK j \in leaf[d] : T!WordOf(j) = w
      BY <2>2 DEF T!InWord
    <3>1. w \in ksummary[d]
      <4>1. ksummary[d] = {T!WordOf(l) : l \in leaf[d]}
        BY <1>1 DEF KindsInv
      <4> QED
        BY <3>0, <4>1
    <3> QED
      BY <1>2, <2>2, <3>1 DEF KindsInv
  <2> QED
    BY <2>1, <2>2
<1>9. ASSUME NEW e \in T!Kinds
      PROVE  ksummary'[e] = {T!WordOf(j) : j \in leaf'[e]}
  <2>1. ksummary[e] = {T!WordOf(j) : j \in leaf[e]}
    BY DEF KindsInv
  <2>2. CASE e = d
    <3>1. {T!WordOf(j) : j \in leaf[d] \cup {i}} = {T!WordOf(j) : j \in leaf[d]} \cup {w}
      BY DEF w
    <3> QED
      BY <1>6, <1>8, <2>1, <2>2, <3>1
  <2>3. CASE e # d
    BY <1>6, <1>8, <2>1, <2>3
  <2> QED
    BY <2>2, <2>3
<1> QED
  BY <1>4, <1>6, <1>7, <1>8, <1>9 DEF KindsInv

(* A line that stood before it still does.                                 *)
LEMMA PlacedCaches ==
    ASSUME CachesInv, RootsInv, NEW r, NEW i, Placed(r, i)
    PROVE  CachesInv'
<1>1. ASSUME NEW line, Stands(line)
      PROVE  Stands(line)'
  <2>1. CASE line = None
    BY <1>1, <2>1 DEF Stands
  <2>2. CASE line # None
    <3>1. line[2] \in T!Roots /\ line[2] # None
      BY <1>1, <2>2, RootFacts DEF Stands, Answers
    <3>2. PICK j \in Segments : slots[j] = line[2]
      BY <1>1, <2>2 DEF Stands
    <3>3. j # i
      BY <3>1, <3>2 DEF Placed, Held
    <3>4. slots'[j] = line[2]
      BY <3>2, <3>3, PlacedSlots
    <3> QED
      BY <1>1, <2>2, <3>4 DEF Stands
  <2> QED
    BY <2>1, <2>2
<1>2. own_cache' = own_cache /\ memo' = memo
  BY DEF Placed
<1> HIDE DEF Stands
<1> QED
  BY <1>1, <1>2 DEF CachesInv

LEMMA Registers ==
    ASSUME TableInv, NEW r \in T!Roots, T!RegisterPayload(r)
    PROVE  TableInv'
<1>0. PICK top, i : /\ top = free_list[Len(free_list)]
                    /\ i = IF free_list # <<>> THEN top ELSE count
  OBVIOUS
<1>1. HashInv /\ RootsInv /\ KindsInv /\ FreeInv /\ CachesInv
  BY DEF TableInv
<1>2. count \in 1 .. MAX_SEGMENTS /\ MAX_SEGMENTS \in Nat
  BY <1>1, TableFacts DEF RootsInv
<1>3. /\ IF free_list # <<>>
           THEN free_list' = T!Front(free_list) /\ UNCHANGED count
           ELSE count' = count + 1 /\ UNCHANGED free_list
      /\ slots' = [slots EXCEPT ![i] = r]
      /\ hash' = T!hash_insert_identity(r.key, i)
      /\ T!SetKind(i, r.kind)
      /\ UNCHANGED <<own_cache, memo>>
      /\ free_list # <<>> \/ count < MAX_SEGMENTS
      /\ \A q \in T!Registered : q.key # r.key
  BY <1>0 DEF T!RegisterPayload, T!RoomLeft, T!Last
<1>4. free_list # <<>> => /\ Len(free_list) \in Nat \ {0} /\ Len(free_list) \in DOMAIN free_list
                          /\ DOMAIN free_list = 1 .. Len(free_list)
                          /\ top \in 1 .. count - 1 /\ ~ Held(top)
  <2> SUFFICES ASSUME free_list # <<>>
               PROVE  /\ Len(free_list) \in Nat \ {0} /\ Len(free_list) \in DOMAIN free_list
                      /\ DOMAIN free_list = 1 .. Len(free_list)
                      /\ top \in 1 .. count - 1 /\ ~ Held(top)
    OBVIOUS
  <2>1. /\ Len(free_list) \in Nat \ {0} /\ Len(free_list) \in DOMAIN free_list
        /\ DOMAIN free_list = 1 .. Len(free_list)
    BY <1>1 DEF FreeInv
  <2> QED
    BY <1>0, <1>1, <2>1 DEF FreeInv
<1>5. i \in Segments /\ ~ Held(i) /\ i <= count
  <2>1. CASE free_list # <<>>
    BY <1>0, <1>2, <1>4, <2>1 DEF Segments
  <2>2. CASE free_list = <<>>
    <3>1. count \in Segments
      BY <1>0, <1>2, <1>3, <2>2 DEF Segments
    <3> QED
      BY <1>0, <1>1, <1>2, <2>2, <3>1 DEF RootsInv
  <2> QED
    BY <2>1, <2>2
<1>6. Placed(r, i)
  BY <1>3, <1>5 DEF Placed
<1>7. HashInv' /\ KindsInv' /\ CachesInv'
  BY <1>1, <1>6, PlacedHash, PlacedKinds, PlacedCaches
<1>8. /\ slots' \in [Segments -> T!Roots \cup {None}]
      /\ slots'[i] # None /\ \A j \in Segments : j # i => slots'[j] = slots[j]
      /\ i # 0
  BY <1>1, <1>6, PlacedSlots DEF Held
<1>9. CASE free_list # <<>>
  <2>1. i = top /\ count' = count /\ free_list' = T!Front(free_list)
    BY <1>0, <1>3, <1>9
  <2>2. \A j \in Segments : j >= count => j # i
    BY <1>2, <1>4, <1>9, <2>1 DEF Segments
  <2>3. RootsInv'
    BY <1>1, <1>8, <2>1, <2>2, RootFacts DEF RootsInv, Held
  <2>4. /\ free_list' \in Seq(Segments) /\ DOMAIN free_list' = 1 .. Len(free_list) - 1
        /\ \A n \in DOMAIN free_list' : free_list'[n] = free_list[n] /\ n \in DOMAIN free_list
                                        /\ n # Len(free_list)
    <3>1. free_list' = SubSeq(free_list, 1, Len(free_list) - 1)
      BY <2>1 DEF T!Front
    <3>2. free_list \in Seq(Segments)
      BY <1>1 DEF FreeInv
    <3> QED
      BY <1>4, <1>9, <3>1, <3>2
  <2>5. \A n \in DOMAIN free_list' : free_list[n] # i
    BY <1>0, <1>1, <1>4, <1>9, <2>1, <2>4 DEF FreeInv
  <2>6. \A n \in DOMAIN free_list : n \in DOMAIN free_list' \/ free_list[n] = i
    BY <1>0, <1>4, <1>9, <2>1, <2>4
  <2>7. \A n \in DOMAIN free_list : free_list[n] \in Segments
    BY <1>1 DEF FreeInv
  <2>8. \A n \in DOMAIN free_list' : free_list'[n] \in 1 .. count' - 1 /\ slots'[free_list'[n]] = None
    <3> TAKE n \in DOMAIN free_list'
    <3>1. /\ free_list'[n] = free_list[n] /\ n \in DOMAIN free_list /\ free_list[n] # i
          /\ free_list[n] \in Segments
      BY <2>4, <2>5, <2>7
    <3>2. free_list[n] \in 1 .. count - 1 /\ ~ Held(free_list[n])
      BY <1>1, <3>1 DEF FreeInv
    <3>4. slots'[free_list'[n]] = None
      BY <1>8, <2>4, <3>1, <3>2 DEF Held
    <3> QED
      BY <2>1, <3>1, <3>2, <3>4
  <2>9. \A n, m \in DOMAIN free_list' : free_list'[n] = free_list'[m] => n = m
    BY <1>1, <2>4 DEF FreeInv
  <2>10. \A j \in 0 .. count' - 1 : slots'[j] = None => \E n \in DOMAIN free_list' : free_list'[n] = j
    <3> TAKE j \in 0 .. count' - 1
    <3> HAVE slots'[j] = None
    <3>1. j \in Segments /\ j # i /\ ~ Held(j) /\ j \in 0 .. count - 1
      BY <1>2, <1>8, <2>1 DEF Segments, Held
    <3>2. PICK n \in DOMAIN free_list : free_list[n] = j
      BY <1>1, <3>1 DEF FreeInv
    <3> QED
      BY <2>4, <2>6, <3>1, <3>2
  <2>11. FreeInv'
    BY <2>4, <2>8, <2>9, <2>10 DEF FreeInv, Held
  <2> QED
    BY <1>7, <2>3, <2>11 DEF TableInv
<1>10. CASE free_list = <<>>
  <2>1. i = count /\ count' = count + 1 /\ free_list' = free_list /\ count < MAX_SEGMENTS
    BY <1>0, <1>3, <1>10
  <2>2. \A j \in Segments : j >= count' => j # i /\ j >= count
    BY <1>2, <2>1 DEF Segments
  <2>3. RootsInv'
    <3>1. count' \in 1 .. MAX_SEGMENTS
      BY <1>2, <2>1
    <3>2. slots'[0] = T!PrimordialRoot
      BY <1>1, <1>8, RootFacts DEF RootsInv
    <3>3. \A j \in Segments : j >= count' => slots'[j] = None
      BY <1>1, <1>8, <2>2 DEF RootsInv, Held
    <3> QED
      BY <1>8, <3>1, <3>2, <3>3 DEF RootsInv, Held
  <2>4. \A j \in 0 .. count' - 1 : slots'[j] # None
    <3> TAKE j \in 0 .. count' - 1
    <3>1. j \in Segments /\ (j # i => j \in 0 .. count - 1)
      BY <1>2, <2>1 DEF Segments
    <3>2. j # i => Held(j)
      BY <1>1, <1>10, <3>1 DEF FreeInv
    <3> QED
      BY <1>8, <3>1, <3>2 DEF Held
  <2>5. FreeInv'
    BY <1>10, <2>1, <2>4 DEF FreeInv, Held
  <2> QED
    BY <1>7, <2>3, <2>5 DEF TableInv
<1> QED
  BY <1>9, <1>10

-----------------------------------------------------------------------------
(* The root in a slot leaves: hash_remove, own_cache_clear and the index   *)
(* of the kinds forget it, and the slot goes to the free list.             *)
Leaves(r, i) ==
    /\ i \in Segments /\ Held(i) /\ i # 0 /\ slots[i] = r
    /\ T!ClearKind(i, r.kind)
    /\ slots' = [slots EXCEPT ![i] = None]
    /\ hash' = T!hash_remove(r.key)
    /\ T!own_cache_clear(r)
    /\ free_list' = Append(free_list, i)
    /\ count' = count

LEMMA LeftSlots ==
    ASSUME RootsInv, NEW r, NEW i, Leaves(r, i)
    PROVE  /\ RootsInv' /\ slots'[i] = None
           /\ \A j \in Segments : j # i => slots'[j] = slots[j]
           /\ r \in T!Roots /\ r # None /\ i < count
<1>1. /\ slots' \in [Segments -> T!Roots \cup {None}] /\ slots'[i] = None /\ count' = count
      /\ \A j \in Segments : j # i => slots'[j] = slots[j]
      /\ r \in T!Roots /\ r # None /\ i # 0 /\ i \in Segments
  BY DEF RootsInv, Leaves, Held
<1>2. i < count
  BY TableFacts DEF RootsInv, Leaves, Segments
<1>3. slots'[0] = T!PrimordialRoot
  BY <1>1, RootFacts DEF RootsInv
<1>4. \A j \in Segments : j >= count' => slots'[j] = None
  BY <1>1 DEF RootsInv, Held
<1> QED
  BY <1>1, <1>2, <1>3, <1>4 DEF RootsInv, Held

LEMMA LeftHash ==
    ASSUME HashInv, RootsInv, NEW r, NEW i, Leaves(r, i)
    PROVE  HashInv'
<1>1. PICK k : k = r.key
  OBVIOUS
<1>2. k \in Keys /\ HoldsKey(i, k) /\ i \in Segments /\ hash' = T!hash_remove(k)
  BY <1>1, LeftSlots, RootFacts DEF Leaves, HoldsKey, Held
<1>3. /\ <<k, i>> \in Listings /\ <<k, i>> # None
      /\ <<k, i>>[1] = k /\ <<k, i>>[2] = i
  BY <1>2, ListingFacts
<1>4. PICK b \in Buckets : hash[b] = <<k, i>>
  BY <1>2, <1>3 DEF HashInv, Lists
<1>5. T!BucketOf(k) = b
  BY <1>2, <1>3, <1>4, BucketIs
<1>6. hash[T!BucketOf(k)] = <<k, i>> /\ hash[T!BucketOf(k)] # None
  BY <1>3, <1>4, <1>5
<1>7. /\ hash' \in Tables /\ Whole(hash') /\ OnePerKey(hash')
      /\ \A e \in Listings : Lists(hash', e) <=> Lists(hash, e) /\ e # <<k, i>>
  BY <1>2, <1>6, RemoveListed
<1>8. ASSUME NEW e \in Listings
      PROVE  Lists(hash', e) <=> HoldsKey(e[2], e[1])'
  <2>1. e = <<e[1], e[2]>> /\ e[2] \in Segments
    BY ListingFacts
  <2>2. Lists(hash, e) <=> HoldsKey(e[2], e[1])
    BY DEF HashInv
  <2>3. CASE e[2] = i
    <3>1. Lists(hash, e) => e[1] = k
      BY <1>2, <2>2, <2>3 DEF HoldsKey
    <3>2. ~ HoldsKey(e[2], e[1])'
      BY <2>3, LeftSlots DEF HoldsKey
    <3> QED
      BY <1>7, <2>1, <2>3, <3>1, <3>2
  <2>4. CASE e[2] # i
    <3>1. HoldsKey(e[2], e[1])' <=> HoldsKey(e[2], e[1])
      BY <2>1, <2>4, LeftSlots DEF HoldsKey
    <3>2. e # <<k, i>>
      BY <1>3, <2>4
    <3> QED
      BY <1>7, <2>2, <3>1, <3>2
  <2> QED
    BY <2>3, <2>4
<1> QED
  BY <1>7, <1>8 DEF HashInv

LEMMA LeftKinds ==
    ASSUME KindsInv, RootsInv, NEW r, NEW i, Leaves(r, i)
    PROVE  KindsInv'
<1>1. PICK d, w : d = r.kind /\ w = T!WordOf(i)
  OBVIOUS
<1>2. d \in T!Kinds /\ i \in Segments /\ i # 0 /\ Held(i) /\ slots[i].kind = d
  BY <1>1, LeftSlots, RootFacts DEF Leaves
<1>3. w \in Nat
  <2>1. i \in Nat
    BY <1>2, TableFacts DEF Segments
  <2> QED
    BY <1>1, <2>1, WordsGoUp
<1>4. /\ leaf' = [leaf EXCEPT ![d] = @ \ {i}]
      /\ ksummary' = IF T!InWord(leaf[d], w) = {i}
                       THEN [ksummary EXCEPT ![d] = @ \ {w}] ELSE ksummary
      /\ fatal' = (fatal \/ i = 0 \/ i \notin leaf[d])
  BY <1>1 DEF Leaves, T!ClearKind
<1>5. i \in leaf[d]
  BY <1>2 DEF KindsInv, OfKind
<1>6. fatal' = FALSE
  BY <1>2, <1>4, <1>5 DEF KindsInv
<1>7. /\ OfKind(d)' = OfKind(d) \ {i}
      /\ \A e \in T!Kinds : e # d => OfKind(e)' = OfKind(e)
  <2>1. \A j \in Segments : j # i => slots'[j] = slots[j]
    BY LeftSlots
  <2>2. slots'[i] = None
    BY LeftSlots
  <2> QED
    BY <1>2, <2>1, <2>2 DEF OfKind, Held
<1>8. /\ leaf' \in [T!Kinds -> SUBSET Segments]
      /\ leaf'[d] = leaf[d] \ {i} /\ \A e \in T!Kinds : e # d => leaf'[e] = leaf[e]
  BY <1>2, <1>4 DEF KindsInv
<1>9. \A e \in T!Kinds : leaf'[e] = OfKind(e)'
  BY <1>7, <1>8 DEF KindsInv
<1>10. {T!WordOf(j) : j \in leaf[d] \ {i}}
         = IF T!InWord(leaf[d], w) = {i} THEN ksummary[d] \ {w} ELSE ksummary[d]
  <2>1. ksummary[d] = {T!WordOf(j) : j \in leaf[d]}
    BY <1>2 DEF KindsInv
  <2>2. CASE T!InWord(leaf[d], w) = {i}
    <3>1. \A j \in leaf[d] \ {i} : T!WordOf(j) # w
      BY <2>2 DEF T!InWord
    <3> HIDE DEF OfKind
    <3> QED
      BY <1>1, <1>5, <2>1, <2>2, <3>1
  <2>3. CASE T!InWord(leaf[d], w) # {i}
    <3>1. PICK j \in leaf[d] \ {i} : T!WordOf(j) = w
      BY <1>1, <1>5, <2>3 DEF T!InWord
    <3> QED
      BY <1>1, <2>1, <2>3, <3>1
  <2> QED
    BY <2>2, <2>3
<1>11. /\ ksummary' \in [T!Kinds -> SUBSET Nat]
       /\ ksummary'[d] = IF T!InWord(leaf[d], w) = {i} THEN ksummary[d] \ {w} ELSE ksummary[d]
       /\ \A e \in T!Kinds : e # d => ksummary'[e] = ksummary[e]
  BY <1>2, <1>4 DEF KindsInv
<1>12. ASSUME NEW e \in T!Kinds
       PROVE  ksummary'[e] = {T!WordOf(j) : j \in leaf'[e]}
  <2>1. CASE e = d
    BY <1>8, <1>10, <1>11, <2>1
  <2>2. CASE e # d
    <3>1. ksummary[e] = {T!WordOf(j) : j \in leaf[e]}
      BY DEF KindsInv
    <3> QED
      BY <1>8, <1>11, <2>2, <3>1
  <2> QED
    BY <2>1, <2>2
<1> QED
  BY <1>6, <1>8, <1>9, <1>11, <1>12 DEF KindsInv

LEMMA LeftCaches ==
    ASSUME CachesInv, RootsInv, NEW r, NEW i, Leaves(r, i)
    PROVE  CachesInv'
<1>1. ASSUME NEW line, Stands(line), line = None \/ line[2] # r
      PROVE  Stands(line)'
  <2>1. CASE line = None
    BY <1>1, <2>1 DEF Stands
  <2>2. CASE line # None
    <3>1. PICK j \in Segments : slots[j] = line[2]
      BY <1>1, <2>2 DEF Stands
    <3>2. j # i
      BY <1>1, <2>2, <3>1 DEF Leaves
    <3>3. slots'[j] = line[2]
      BY <3>1, <3>2, LeftSlots
    <3> QED
      BY <1>1, <2>2, <3>3 DEF Stands
  <2> QED
    BY <2>1, <2>2
<1>2. Stands(None)'
  BY DEF Stands
<1>3. /\ own_cache' = [c \in Lines |-> T!Cleared(own_cache[c], c, r)]
      /\ memo' = IF memo # None /\ memo[2] = r THEN None ELSE memo
  BY DEF Leaves, T!own_cache_clear, CachesInv
<1>4. /\ DOMAIN own_cache' = Lines /\ own_cache' = [c \in Lines |-> own_cache'[c]]
      /\ \A c \in Lines : own_cache'[c] = T!Cleared(own_cache[c], c, r)
  BY <1>3
<1>6. ASSUME NEW c \in Lines, NEW line, line = own_cache'[c]
      PROVE  Stands(line)'
  <2>1. /\ Stands(own_cache[c])
        /\ line = IF own_cache[c] # None /\ own_cache[c][2] = r THEN None ELSE own_cache[c]
    BY <1>4, <1>6 DEF CachesInv, T!Cleared
  <2> QED
    BY <1>1, <1>2, <2>1
<1>7. ASSUME NEW line, line = memo'
      PROVE  Stands(line)' /\ (line # None => ~ line[2].biased)
  <2>1. Stands(memo) /\ (memo # None => ~ memo[2].biased)
    BY DEF CachesInv
  <2> QED
    BY <1>1, <1>2, <1>3, <1>7, <2>1
<1> QED
  BY <1>4, <1>6, <1>7 DEF CachesInv, Stands

LEMMA LeftFree ==
    ASSUME FreeInv, RootsInv, NEW r, NEW i, Leaves(r, i)
    PROVE  FreeInv'
<1>1. /\ slots'[i] = None /\ \A j \in Segments : j # i => slots'[j] = slots[j]
      /\ i \in Segments /\ Held(i) /\ i \in 1 .. count - 1 /\ count \in Nat
      /\ count' = count /\ free_list' = Append(free_list, i)
  BY LeftSlots, TableFacts DEF Leaves, RootsInv, Segments
<1>2. PICK N \in Nat : N = Len(free_list) /\ DOMAIN free_list = 1 .. N
  BY DEF FreeInv
<1>3. /\ free_list' \in Seq(Segments) /\ DOMAIN free_list' = 1 .. N + 1
      /\ free_list'[N + 1] = i
      /\ \A n \in 1 .. N : free_list'[n] = free_list[n] /\ free_list[n] \in Segments
  BY <1>1, <1>2 DEF FreeInv
<1>4. \A n \in 1 .. N : free_list[n] # i /\ free_list[n] \in 1 .. count - 1 /\ ~ Held(free_list[n])
  BY <1>1, <1>2 DEF FreeInv
<1>5. \A n \in 1 .. N + 1 : n \in 1 .. N \/ n = N + 1
  BY <1>2
<1>6. ASSUME NEW n \in 1 .. N + 1
      PROVE  free_list'[n] \in 1 .. count' - 1 /\ slots'[free_list'[n]] = None
  <2>1. CASE n \in 1 .. N
    BY <1>1, <1>3, <1>4, <2>1 DEF Held
  <2>2. CASE n = N + 1
    BY <1>1, <1>3, <2>2
  <2> QED
    BY <1>5, <2>1, <2>2
<1>7. ASSUME NEW n \in 1 .. N + 1, NEW m \in 1 .. N + 1, free_list'[n] = free_list'[m]
      PROVE  n = m
  <2>1. CASE n \in 1 .. N /\ m \in 1 .. N
    BY <1>2, <1>3, <1>7, <2>1 DEF FreeInv
  <2>2. CASE n = N + 1 \/ m = N + 1
    BY <1>3, <1>4, <1>5, <1>7, <2>2
  <2> QED
    BY <1>5, <2>1, <2>2
<1>8. ASSUME NEW j \in 0 .. count' - 1, slots'[j] = None
      PROVE  \E n \in 1 .. N + 1 : free_list'[n] = j
  <2>1. CASE j = i
    BY <1>2, <1>3, <2>1
  <2>2. CASE j # i
    <3>1. j \in Segments /\ j \in 0 .. count - 1
      BY <1>1, TableFacts DEF Segments, RootsInv
    <3>2. ~ Held(j)
      BY <1>1, <1>8, <2>2, <3>1 DEF Held
    <3>3. PICK n \in 1 .. N : free_list[n] = j
      BY <1>2, <3>1, <3>2 DEF FreeInv
    <3> QED
      BY <1>2, <1>3, <3>3
  <2> QED
    BY <2>1, <2>2
<1> QED
  BY <1>3, <1>6, <1>7, <1>8 DEF FreeInv, Held

LEMMA Vacates ==
    ASSUME TableInv, NEW r \in T!Registered, r # T!PrimordialRoot, T!Vacate(T!FindSlot(r))
    PROVE  TableInv'
<1>1. HashInv /\ RootsInv /\ KindsInv /\ FreeInv /\ CachesInv
  BY DEF TableInv
<1>2. PICK i : i = T!FindSlot(r)
  OBVIOUS
<1>3. i \in Segments /\ slots[i] = r /\ Held(i)
  <2>1. \E j \in T!Slots : slots[j] = r
    BY <1>1, RegisteredIs, TableFacts
  <2>2. i \in T!Slots /\ slots[i] = r
    BY <1>2, <2>1 DEF T!FindSlot
  <2>3. r # None
    BY <1>1, RegisteredIs, RootFacts
  <2> QED
    BY <2>2, <2>3, TableFacts DEF Held
<1>4. i # 0
  BY <1>1, <1>3 DEF RootsInv
<1>5. Leaves(r, i)
  BY <1>2, <1>3, <1>4 DEF Leaves, T!Vacate
<1> QED
  BY <1>1, <1>5, LeftSlots, LeftHash, LeftKinds, LeftCaches, LeftFree DEF TableInv

-----------------------------------------------------------------------------
(* The lookups fill the caches, and leave the rest alone.                  *)
LEMMA RestStands ==
    ASSUME TableInv, UNCHANGED <<slots, count, free_list, hash, leaf, ksummary, fatal>>
    PROVE  /\ HashInv' /\ RootsInv' /\ KindsInv' /\ FreeInv'
           /\ \A line : Stands(line)' <=> Stands(line)
<1>1. HashInv'
  BY DEF TableInv, HashInv, HoldsKey
<1>2. RootsInv'
  BY DEF TableInv, RootsInv, Held
<1>3. KindsInv'
  BY DEF TableInv, KindsInv, OfKind, Held
<1>4. FreeInv'
  BY DEF TableInv, FreeInv, Held
<1>5. \A line : Stands(line)' <=> Stands(line)
  BY DEF Stands
<1> QED
  BY <1>1, <1>2, <1>3, <1>4, <1>5

LEMMA CachesStand ==
    ASSUME UNCHANGED slots,
           DOMAIN own_cache' = Lines, own_cache' = [c \in Lines |-> own_cache'[c]],
           \A c \in Lines : \E line : line = own_cache'[c] /\ Stands(line),
           \E line : line = memo' /\ Stands(line) /\ (line # None => ~ line[2].biased)
    PROVE  CachesInv'
BY DEF CachesInv, Stands

LEMMA LooksUp ==
    ASSUME TableInv, NEW k \in Keys, T!CanonicalBaseOfMut(k) \/ T!ProbeArm(k)
    PROVE  TableInv'
<1>1. UNCHANGED <<slots, count, free_list, hash, leaf, ksummary, fatal>>
  BY DEF T!CanonicalBaseOfMut, T!ProbeArm
<1>2. HashInv' /\ RootsInv' /\ KindsInv' /\ FreeInv'
  BY <1>1, RestStands
<1>3. HashInv /\ RootsInv /\ CachesInv
  BY DEF TableInv
<1>4. PICK c \in Lines : c = T!index_of(k)
  BY IndexIs
<1>5. Stands(own_cache[c]) /\ Stands(memo) /\ (memo # None => ~ memo[2].biased)
  BY <1>3 DEF CachesInv
<1>6. CASE /\ own_cache' = own_cache
           /\ memo' = memo \/ (memo' = own_cache[c] /\ ~ own_cache[c][2].biased)
  <2>1. \E line : line = memo' /\ Stands(line) /\ (line # None => ~ line[2].biased)
    BY <1>5, <1>6
  <2>2. /\ DOMAIN own_cache' = Lines /\ own_cache' = [b \in Lines |-> own_cache'[b]]
        /\ \A b \in Lines : \E line : line = own_cache'[b] /\ Stands(line)
    BY <1>3, <1>6 DEF CachesInv
  <2> QED
    BY <1>1, <1>2, <2>1, <2>2, CachesStand DEF TableInv
<1>7. CASE /\ own_cache' = [own_cache EXCEPT ![c] =
                              IF T!hash_find(k) = None THEN @ ELSE <<k, T!hash_find(k)>>]
           /\ memo' = memo
  <2>1. PICK a : a = T!hash_find(k)
    OBVIOUS
  <2>2. ASSUME a # None
        PROVE  Stands(<<k, a>>)
    <3>1. PICK i \in Segments : HoldsKey(i, k)
      BY <1>3, <2>1, <2>2, FindIs
    <3>2. a = slots[i] /\ slots[i].key = k
      BY <1>3, <2>1, <3>1, FindIs DEF HoldsKey
    <3>3. slots[i] \in T!Roots
      BY <1>3, <3>1 DEF RootsInv, HoldsKey
    <3> QED
      BY <3>2, <3>3 DEF Stands, Answers
  <2>3. /\ DOMAIN own_cache' = Lines /\ own_cache' = [b \in Lines |-> own_cache'[b]]
        /\ own_cache'[c] = IF a = None THEN own_cache[c] ELSE <<k, a>>
        /\ \A b \in Lines : b # c => own_cache'[b] = own_cache[b]
    BY <1>3, <1>7, <2>1 DEF CachesInv
  <2>4. \A b \in Lines : \E line : line = own_cache'[b] /\ Stands(line)
    BY <1>3, <2>2, <2>3 DEF CachesInv
  <2>5. \E line : line = memo' /\ Stands(line) /\ (line # None => ~ line[2].biased)
    BY <1>5, <1>7
  <2> QED
    BY <1>1, <1>2, <2>3, <2>4, <2>5, CachesStand DEF TableInv
<1>8. CASE T!CanonicalBaseOfMut(k)
  BY <1>4, <1>6, <1>7, <1>8 DEF T!CanonicalBaseOfMut
<1>9. CASE T!ProbeArm(k)
  BY <1>4, <1>6, <1>9 DEF T!ProbeArm
<1> QED
  BY <1>8, <1>9

LEMMA TableSteps ==
    ASSUME TableInv, T!Next
    PROVE  TableInv'
<1>1. CASE \E r \in T!Roots : T!RegisterPayload(r)
  BY <1>1, Registers
<1>2. ASSUME NEW r \in T!Roots, T!Unregister(r) PROVE TableInv'
  <2>1. r \in T!Registered /\ r.kind = "Large" /\ T!Vacate(T!FindSlot(r))
    BY <1>2 DEF T!Unregister
  <2>2. r # T!PrimordialRoot
    BY <2>1, RootFacts
  <2> QED
    BY <2>1, <2>2, Vacates
<1>3. ASSUME NEW r \in T!Roots, T!Recycle(r) PROVE TableInv'
  BY <1>3, Vacates DEF T!Recycle
<1>4. CASE \E k \in Keys : T!CanonicalBaseOfMut(k) \/ T!ProbeArm(k)
  BY <1>4, LooksUp
<1> QED
  BY <1>1, <1>2, <1>3, <1>4 DEF T!Next

LEMMA TableRests ==
    ASSUME TableInv, UNCHANGED tableVars
    PROVE  TableInv'
<1>1. /\ UNCHANGED <<slots, count, free_list, hash, leaf, ksummary, fatal>>
      /\ own_cache' = own_cache /\ memo' = memo
  BY DEF tableVars
<1>2. HashInv' /\ RootsInv' /\ KindsInv' /\ FreeInv'
  BY <1>1, RestStands
<1>3. CachesInv'
  BY <1>1 DEF TableInv, CachesInv, Stands
<1> QED
  BY <1>2, <1>3 DEF TableInv

(* The table of segments keeps its promises for every size of the table,   *)
(* every hash and every history: each slot is live or on the free list     *)
(* once, the index by kind agrees with the slots and aborts nowhere        *)
(* (register_payload, unregister, recycle), and every lookup, through the  *)
(* memo, the cache or the probe, answers with what is registered           *)
(* (hash_remove, own_cache_clear).                                         *)
THEOREM SegmentTableStaysSound == SlotTablesSpec => []TableIsSound
<1>1. SlotTablesInit => TableInv
  BY TableBegins DEF SlotTablesInit
<1>2. TableInv /\ [SlotTablesNext]_allVars => TableInv'
  <2> SUFFICES ASSUME TableInv, [SlotTablesNext]_allVars
               PROVE  TableInv'
    OBVIOUS
  <2>1. CASE T!Next
    BY <2>1, TableSteps
  <2>2. CASE UNCHANGED tableVars
    BY <2>2, TableRests
  <2>3. T!Next \/ UNCHANGED tableVars
    BY DEF SlotTablesNext, Table, Epoch, Growing, Sizes, allVars
  <2> QED
    BY <2>1, <2>2, <2>3
<1>3. TableInv => TableIsSound
  BY SlotsHold, LookupsHold DEF TableIsSound
<1> QED
  BY <1>1, <1>2, <1>3, PTL DEF SlotTablesSpec
=============================================================================
