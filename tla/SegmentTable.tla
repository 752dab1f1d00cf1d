---------------------------- MODULE SegmentTable ----------------------------
(***************************************************************************)
(* src/alloc_core/segment/segment_table: the segments of a heap and the    *)
(* ways to find one by address.  A slot holds the root of a segment; slot  *)
(* 0 is the primordial one.  A lookup key is the 4 MiB window of a block:  *)
(* that of the root, except that a Large segment for a huge alignment has  *)
(* its header in the window before its payload (a biased root).  Lookups   *)
(* go through a one-entry memo, a direct-mapped cache and a hash table     *)
(* with linear probing; a bitmap of two levels per kind finds the next     *)
(* segment of a kind.  The owner of the heap is alone here: an operation   *)
(* is a step.                                                              *)
(***************************************************************************)
EXTENDS Integers, FiniteSets, SequencesExt

CONSTANTS MAX_SEGMENTS,
          HASH_CAPACITY,
          OWN_CACHE_SIZE,
          WORD,          \* bits in a word of the kind index
          Keys,          \* windows of the address space
          Primordial,    \* the one of the primordial segment
          hash_index,    \* the home of each key
          None

Slots == 0 .. MAX_SEGMENTS - 1
Buckets == 0 .. HASH_CAPACITY - 1
Kinds == {"Small", "Large"}
Roots == {r \in [key : Keys, biased : BOOLEAN, kind : Kinds] :
            r.biased => r.kind = "Large"}

TableAssumption ==
    /\ MAX_SEGMENTS \in Nat \ {0} /\ OWN_CACHE_SIZE \in Nat \ {0} /\ WORD \in Nat \ {0}
    /\ HASH_CAPACITY \in Nat /\ HASH_CAPACITY > MAX_SEGMENTS
    /\ Keys \subseteq Nat \ {0} /\ Primordial \in Keys
    /\ hash_index \in [Keys -> Buckets]
    /\ None \notin Roots /\ None \notin Keys \X Slots /\ None \notin Keys \X Roots
    /\ None \notin Slots

VARIABLES slots,      \* the root in each slot, or None
          count,      \* slots ever used
          free_list,  \* vacated slots, the last one first to be used
          hash,       \* of each bucket: a key with its slot, or None
          own_cache,  \* of each line: a key with its root, or None
          memo,       \* a key with its root, or None
          leaf,       \* ActiveKindIndex: the slots of each kind
          summary,    \* and the words of them that are not zero
          fatal       \* the kind index has met what it declares impossible

vars == <<slots, count, free_list, hash, own_cache, memo, leaf, summary, fatal>>

TypeOK ==
    /\ slots \in [Slots -> Roots \cup {None}]
    /\ count \in 1 .. MAX_SEGMENTS
    /\ free_list \in Seq(Slots)
    /\ hash \in [Buckets -> (Keys \X Slots) \cup {None}]
    /\ own_cache \in [0 .. OWN_CACHE_SIZE - 1 -> (Keys \X Roots) \cup {None}]
    /\ memo \in (Keys \X Roots) \cup {None}
    /\ leaf \in [Kinds -> SUBSET Slots]
    /\ summary \in [Kinds -> SUBSET (0 .. (MAX_SEGMENTS - 1) \div WORD)]
    /\ fatal \in BOOLEAN

PrimordialRoot == [key |-> Primordial, biased |-> FALSE, kind |-> "Small"]

Init ==
    /\ slots = [i \in Slots |-> IF i = 0 THEN PrimordialRoot ELSE None]
    /\ count = 1
    /\ free_list = <<>>
    /\ hash = [b \in Buckets |->
                 IF b = hash_index[Primordial] THEN <<Primordial, 0>> ELSE None]
    /\ own_cache = [c \in 0 .. OWN_CACHE_SIZE - 1 |-> None]
    /\ memo = None
    /\ leaf = [d \in Kinds |-> IF d = "Small" THEN {0} ELSE {}]
    /\ summary = [d \in Kinds |-> IF d = "Small" THEN {0} ELSE {}]
    /\ fatal = FALSE

-----------------------------------------------------------------------------
(* The hash table.                                                         *)
After(b, n) == (b + n) % HASH_CAPACITY
Distance(b, c) == (c - b) % HASH_CAPACITY   \* from b forward to c

Vacant == {b \in Buckets : hash[b] = None}

(* The first of the buckets in stops, from the home of k on.               *)
Probe(k, stops) ==
    LET home == hash_index[k]
    IN  CHOOSE b \in stops : \A c \in stops : Distance(home, b) <= Distance(home, c)

BucketOf(k) ==
    Probe(k, Vacant \cup {b \in Buckets \ Vacant : hash[b][1] = k})

hash_find(k) ==
    LET e == hash[BucketOf(k)] IN IF e = None THEN None ELSE slots[e[2]]

hash_insert_identity(k, id) == [hash EXCEPT ![Probe(k, Vacant)] = <<k, id>>]

(* Wrong variant: an entry moves up when its home comes before the hole,   *)
(* as if a cluster could not run over the end of the table.                *)
EligibleStraight(home, hole, j) == home <= hole
Eligible(home, hole, j) == Distance(home, hole) <= Distance(home, j)

(* One bucket of the walk behind a removed entry: at an empty one the walk *)
(* is over, an eligible entry moves up into the hole.                      *)
Shift(w, j) ==
    LET e == w.hash[j]
    IN  IF w.over \/ e = None
          THEN [w EXCEPT !.over = TRUE]
          ELSE IF Eligible(hash_index[e[1]], w.hole, j)
                 THEN [w EXCEPT !.hash[w.hole] = e, !.hole = j]
                 ELSE w

(* The walk behind bucket i, after n buckets of it.                        *)
Walked(i) ==
    LET walk[n \in 0 .. HASH_CAPACITY - 1] ==
          IF n = 0 THEN [hash |-> hash, hole |-> i, over |-> FALSE]
          ELSE Shift(walk[n - 1], After(i, n))
    IN  walk

hash_remove(k) ==
    LET end == Walked(BucketOf(k))[HASH_CAPACITY - 1]
    IN  [end.hash EXCEPT ![end.hole] = None]

-----------------------------------------------------------------------------
(* The cache, the memo and the index of the kinds.                         *)
index_of(k) == k % OWN_CACHE_SIZE

Cleared(line, c, r) == IF line # None /\ line[2] = r THEN None ELSE line

own_cache_clear(r) ==
    /\ own_cache' = [c \in DOMAIN own_cache |-> Cleared(own_cache[c], c, r)]
    /\ memo' = IF memo # None /\ memo[2] = r THEN None ELSE memo

WordOf(i) == i \div WORD
InWord(S, w) == {i \in S : WordOf(i) = w}
OtherKind(d) == CHOOSE e \in Kinds : e # d

SetKind(i, d) ==
    /\ leaf' = [leaf EXCEPT ![d] = @ \cup {i}]
    /\ summary' = IF InWord(leaf[d], WordOf(i)) = {}
                    THEN [summary EXCEPT ![d] = @ \cup {WordOf(i)}] ELSE summary
    /\ fatal' = (fatal \/ i \in leaf[d] \/ i \in leaf[OtherKind(d)])

ClearKind(i, d) ==
    /\ leaf' = [leaf EXCEPT ![d] = @ \ {i}]
    /\ summary' = IF InWord(leaf[d], WordOf(i)) = {i}
                    THEN [summary EXCEPT ![d] = @ \ {WordOf(i)}] ELSE summary
    /\ fatal' = (fatal \/ i = 0 \/ i \notin leaf[d])

Least(S) == IF S = {} THEN None ELSE CHOOSE i \in S : \A j \in S : i <= j

(* ActiveKindIndex::next: the rest of the word of `from`, then the first   *)
(* word after it that the summary names.                                   *)
NextOfKind(d, from) ==
    LET here == {i \in InWord(leaf[d], WordOf(from)) : i >= from}
        w == Least({v \in summary[d] : v > WordOf(from)})
    IN  IF here # {} THEN Least(here)
        ELSE IF w = None THEN None ELSE Least(InWord(leaf[d], w))

-----------------------------------------------------------------------------
(* Registration.  A full table or a route that cannot be prepared (no      *)
(* memory) refuses it before anything is changed.                          *)
Registered == {r \in Roots : \E i \in Slots : slots[i] = r}
FindSlot(r) == CHOOSE i \in Slots : slots[i] = r

RoomLeft == free_list # <<>> \/ count < MAX_SEGMENTS

(* A new segment: its window belongs to no other one.                      *)
RegisterPayload(r) ==
    /\ RoomLeft
    /\ \A q \in Registered : q.key # r.key
    /\ LET i == IF free_list # <<>> THEN Last(free_list) ELSE count
       IN  /\ IF free_list # <<>>
                THEN free_list' = Front(free_list) /\ UNCHANGED count
                ELSE count' = count + 1 /\ UNCHANGED free_list
           /\ slots' = [slots EXCEPT ![i] = r]
           /\ hash' = hash_insert_identity(r.key, i)
           /\ SetKind(i, r.kind)
    /\ UNCHANGED <<own_cache, memo>>

(* Wrong variant: the slot is not given back. *)
VacateOnly(i) ==
    /\ ClearKind(i, slots[i].kind)
    /\ slots' = [slots EXCEPT ![i] = None]
    /\ hash' = hash_remove(slots[i].key)
    /\ own_cache_clear(slots[i])
    /\ UNCHANGED <<count, free_list>>

Vacate(i) ==
    /\ ClearKind(i, slots[i].kind)
    /\ slots' = [slots EXCEPT ![i] = None]
    /\ hash' = hash_remove(slots[i].key)
    /\ own_cache_clear(slots[i])
    /\ free_list' = Append(free_list, i)
    /\ UNCHANGED count

(* A Large segment goes to the cache or to the system.                     *)
Unregister(r) == r \in Registered /\ r.kind = "Large" /\ Vacate(FindSlot(r))

(* An empty Small segment goes to the system, if the hash table knows it.  *)
Recycle(r) ==
    /\ r \in Registered \ {PrimordialRoot} /\ r.kind = "Small"
    /\ hash_find(r.key) # None
    /\ Vacate(FindSlot(r))

-----------------------------------------------------------------------------
(* Lookup.                                                                 *)
Knows(line, k) == line # None /\ (line # None => line[1] = k)

(* Fills the cache from a hash hit, and the memo from a cache hit whose    *)
(* root is the window itself.                                              *)
CanonicalBaseOfMut(k) ==
    /\ ~ Knows(memo, k)
    /\ LET c == index_of(k)
       IN  IF Knows(own_cache[c], k)
             THEN /\ memo' = IF own_cache[c][2].biased THEN memo ELSE own_cache[c]
                  /\ UNCHANGED own_cache
             ELSE /\ own_cache' = [own_cache EXCEPT ![c] =
                                     IF hash_find(k) = None THEN @ ELSE <<k, hash_find(k)>>]
                  /\ UNCHANGED memo
    /\ UNCHANGED <<slots, count, free_list, hash, leaf, summary, fatal>>

(* The second chance of the own-free lane after a miss of the memo.        *)
ProbeArm(k) ==
    /\ ~ Knows(memo, k)
    /\ Knows(own_cache[index_of(k)], k) /\ ~ own_cache[index_of(k)][2].biased
    /\ memo' = own_cache[index_of(k)]
    /\ UNCHANGED <<slots, count, free_list, hash, own_cache, leaf, summary, fatal>>

canonical_base_of(k) ==
    IF Knows(memo, k) THEN memo[2]
    ELSE IF Knows(own_cache[index_of(k)], k) THEN own_cache[index_of(k)][2]
    ELSE hash_find(k)

Next ==
    \/ \E r \in Roots : RegisterPayload(r) \/ Unregister(r) \/ Recycle(r)
    \/ \E k \in Keys : CanonicalBaseOfMut(k) \/ ProbeArm(k)

Spec == Init /\ [][Next]_vars

-----------------------------------------------------------------------------
OwnerOf(k) ==
    IF \E r \in Registered : r.key = k
      THEN CHOOSE r \in Registered : r.key = k ELSE None

(* A lookup is never answered by the cache or the memo with a segment that *)
(* has left the table (own_cache_clear), and the memo, whose hit the       *)
(* own-free lane takes for the base of the window, holds no biased root.   *)
CachesAreExact ==
    /\ \A k \in Keys : canonical_base_of(k) = OwnerOf(k)
    /\ memo # None => ~ memo[2].biased

(* After any history of registrations and removals the probe chains are    *)
(* whole: each registered key is found with its root, and no other key is  *)
(* (the backward shift of hash_remove over clusters that wrap); and the    *)
(* caches in front of the probe agree with it.                             *)
LookupsAreExact ==
    /\ \A k \in Keys : hash_find(k) = OwnerOf(k)
    /\ CachesAreExact

(* The two-level index finds the next slot of a kind, and the aborts of    *)
(* ActiveKindIndex are out of reach.                                       *)
KindIndexIsExact ==
    /\ ~ fatal
    /\ \A d \in Kinds, from \in Slots :
         NextOfKind(d, from)
           = Least({i \in Slots : i >= from /\ slots[i] # None
                                   /\ (slots[i] # None => slots[i].kind = d)})

(* A slot is either live or on the free list, once, so that a registration *)
(* is refused only when MAX_SEGMENTS segments are live; the index by kind  *)
(* agrees with the slots, and the state has its type.                      *)
SlotsAreAccounted ==
    /\ TypeOK
    /\ KindIndexIsExact
    /\ \A i \in 0 .. count - 1 :
         Cardinality({n \in DOMAIN free_list : free_list[n] = i})
           = IF slots[i] = None THEN 1 ELSE 0
    /\ \A n \in DOMAIN free_list : free_list[n] \in 1 .. count - 1
    /\ \A i \in Slots : i >= count => slots[i] = None
=============================================================================
