--------------------------- MODULE LargeSegments ---------------------------
(***************************************************************************)
(* The life of a Large allocation: src/alloc_core/large, the Large arms of *)
(* dealloc and of the sidecar drains, and src/registry/segment_route.      *)
(*                                                                         *)
(* A Large block has a segment of its own.  Two words describe it.  The    *)
(* word in the segment header is written by the owner alone: it carries    *)
(* the phase of the reservation and the generation of its present use.     *)
(* The word in the route entry is the meeting point with other threads: a  *)
(* foreign free moves it from Live to Pending, and the owner, which visits *)
(* the entries of its table when it allocates, from Pending to Consuming.  *)
(* A freed segment goes to the cache of the heap, bounded in slots and in  *)
(* bytes, the oldest leaving first; a later allocation of a fitting size   *)
(* takes it from there with the next generation, under a new route entry.  *)
(*                                                                         *)
(* The generation of a route entry is 1 for its whole life, since an entry *)
(* is never used for a second registration; publish_pending reads it and   *)
(* then compares and swaps, which is one step here.                        *)
(***************************************************************************)
EXTENDS Integers, FiniteSets, SequencesExt

CONSTANTS Producers,            \* threads that free blocks of the heap
          Bases,                \* addresses of reservations
          Entries,              \* route entries: storage, used again when dropped
          Sizes,                \* usable sizes that are asked for
          BiasedSizes,          \* those also asked for with align >= SEGMENT
          MAX_SEGMENTS,         \* slots of the segment table
          LARGE_CACHE_SLOTS,
          BUDGET,               \* large_cache_budget_bytes
          HEADROOM,             \* decay_config.headroom_bytes
          LARGE_HOT_BUDGET,
          MAX_LARGE_GENERATION,
          None

ASSUME LargeSegmentsAssumption ==
    /\ Sizes \subseteq Nat \ {0} /\ BiasedSizes \subseteq Sizes
    /\ MAX_SEGMENTS \in Nat \ {0} /\ LARGE_CACHE_SLOTS \in Nat \ {0}
    /\ BUDGET \in Nat /\ HEADROOM \in Nat
    /\ LARGE_HOT_BUDGET \in Nat \ {0} /\ MAX_LARGE_GENERATION \in Nat \ {0}
    /\ None \notin Bases \cup Entries

LARGE_CACHE_SIZE_FACTOR == 2

VARIABLES
    hdr,        \* header of each reservation: phase, generation, size, biased
    entry,      \* route entries: the phase of their word, the root, in directory
    slots,      \* the segment table: the base in each slot, or None
    routes,     \* the route entry of each slot, or None
    count,      \* slots ever used
    free_list,  \* vacated slots, the last one first to be used
    cache,      \* the cached bases, oldest first
    used,       \* large_cache_used_bytes
    cursor,     \* large_hot_cursor
    fate,       \* of the block at each base: none, client, moving (a producer
                \* frees it) or sent (the producer has returned)
    issued,     \* the generation that the block was handed out with, or 0
    pc, obj,    \* producer: next access, the block it frees
    pin,        \* producer: the entry it has looked up
    opc, want,  \* owner: next step, the request it serves (None: a refill)
    scan,       \* owner: the drain it is in
    fatal       \* an abort of the code was reached

ownVars == <<opc, want, scan, cursor>>
tabVars == <<slots, routes, count, free_list>>
memVars == <<hdr, cache, used, fate, issued>>
proVars == <<pc, obj, pin>>
vars == <<ownVars, tabVars, memVars, proVars, entry, fatal>>

TableSlots == 0 .. MAX_SEGMENTS - 1
Requests == {[size |-> s, biased |-> b] : s \in Sizes, b \in {FALSE}}
            \cup {[size |-> s, biased |-> TRUE] : s \in BiasedSizes}
Phases == {"Unmapped", "Live", "Cached"}
Unmapped == [phase |-> "Unmapped", gen |-> 0, size |-> 0, biased |-> FALSE]
NoEntry == [phase |-> "Unused", root |-> None, linked |-> FALSE]
NoScan == [full |-> FALSE, start |-> 0, end |-> 0, from |-> 0,
           wrapped |-> FALSE, inspected |-> 0]

TypeOK ==
    /\ \A b \in Bases :
          /\ hdr[b].phase \in Phases
          /\ hdr[b].gen \in 0 .. MAX_LARGE_GENERATION
          /\ hdr[b].size \in Sizes \cup {0} /\ hdr[b].biased \in BOOLEAN
    /\ \A e \in Entries :
          /\ entry[e].phase \in {"Unused", "Live", "Pending", "Consuming"}
          /\ entry[e].root \in Bases \cup {None}
          /\ entry[e].linked \in BOOLEAN
    /\ slots \in [TableSlots -> Bases \cup {None}]
    /\ routes \in [TableSlots -> Entries \cup {None}]
    /\ count \in 0 .. MAX_SEGMENTS
    /\ \A i \in DOMAIN free_list : free_list[i] \in 0 .. count - 1
    /\ Len(free_list) <= count
    /\ cache \in Seq(Bases) /\ used \in Nat
    /\ cursor \in 0 .. MAX_SEGMENTS
    /\ fate \in [Bases -> {"none", "client", "moving", "sent"}]
    /\ issued \in [Bases -> 0 .. MAX_LARGE_GENERATION]
    /\ pc \in [Producers -> {"idle", "lookup", "publish"}]
    /\ obj \in [Producers -> Bases \cup {None}]
    /\ pin \in [Producers -> Entries \cup {None}]
    /\ opc \in {"idle", "visit", "alloc", "slow"}
    /\ want \in Requests \cup {None}
    /\ fatal \in BOOLEAN

(* Slot 0 holds the primordial segment, which is not Large.                *)
Init ==
    /\ hdr = [b \in Bases |-> Unmapped]
    /\ entry = [e \in Entries |-> NoEntry]
    /\ slots = [i \in TableSlots |-> None] /\ routes = [i \in TableSlots |-> None]
    /\ count = 1 /\ free_list = <<>>
    /\ cache = <<>> /\ used = 0 /\ cursor = 0
    /\ fate = [b \in Bases |-> "none"]
    /\ issued = [b \in Bases |-> 0]
    /\ pc = [p \in Producers |-> "idle"]
    /\ obj = [p \in Producers |-> None]
    /\ pin = [p \in Producers |-> None]
    /\ opc = "idle" /\ want = None /\ scan = NoScan
    /\ fatal = FALSE

-----------------------------------------------------------------------------
(* The cache.  Its state is a pair of the cached bases and the byte count. *)

Total(h, S) == MapThenSumSet(LAMBDA b : h[b].size, S)
Sum(c) == Total(hdr, ToSet(c))

(* evict_one_oldest, k times *)
Evict(c, k) == SubSeq(c, k + 1, Len(c))
Evicted(c, k) == {c[i] : i \in 1 .. k}
Freed(c, k) == Total(hdr, Evicted(c, k))

(* What maybe_decay_large_cache may evict: time and the rate decide how    *)
(* much of the excess over the headroom must go, never more than all of it.*)
Decays ==
    {k \in 0 .. Len(cache) :
        \A j \in 0 .. k - 1 : used - Freed(cache, j) > HEADROOM}

(* A free slot and the bytes for one more, once the j oldest have gone     *)
Room(c, u, size, j) ==
    /\ Len(c) - j < LARGE_CACHE_SLOTS
    /\ u - Freed(c, j) + size <= BUDGET

(* The admission loop: the oldest go until there is room or nothing left.  *)
Admission(c, u, size) ==
    CHOOSE k \in 0 .. Len(c) :
        /\ k = Len(c) \/ Room(c, u, size, k)
        /\ \A j \in 0 .. k - 1 : ~ Room(c, u, size, j)

(* large_cache_used_bytes when k entries have gone and one has come        *)
UsedWithUncounted(u, c, k, size) == u + size
UsedWith(u, c, k, size) == u - Freed(c, k) + size

Cacheable(h) == ~ h.biased /\ h.size <= BUDGET

(* The tail of dealloc_large_at_base and of reclaim_large_segment.         *)
Deposit(b) ==
    \E d \in Decays :
        LET c == Evict(cache, d)
            u == used - Freed(cache, d)
            size == hdr[b].size
            k == IF Cacheable(hdr[b]) THEN Admission(c, u, size) ELSE 0
            keep == Cacheable(hdr[b]) /\ Room(c, u, size, k)
        IN  /\ cache' = IF keep THEN Append(Evict(c, k), b) ELSE Evict(c, k)
            /\ used' = UsedWith(u, c, k, IF keep THEN size ELSE 0)
            /\ hdr' = [x \in Bases |->
                         CASE x \in Evicted(cache, d + k) -> Unmapped
                           [] x = b /\ keep -> [hdr[b] EXCEPT !.phase = "Cached"]
                           [] x = b /\ ~ keep -> Unmapped
                           [] OTHER -> hdr[x]]

-----------------------------------------------------------------------------
(* The segment table and its routes *)

SlotOf(b) == CHOOSE i \in TableSlots : slots[i] = b

(* An entry whose storage is free: out of the directory and without a pin. *)
FreeEntry(e) == ~ entry[e].linked /\ \A p \in Producers : pin[p] # e

CanRegister == count < MAX_SEGMENTS \/ free_list # <<>>

(* EntryHandle::new: the word of a new entry is Live with generation 1     *)
NewEntryStale(e, b) == [phase |-> IF entry[e].phase = "Unused" THEN "Live"
                                  ELSE entry[e].phase,
                        root |-> b, linked |-> TRUE]
NewEntry(e, b) == [phase |-> "Live", root |-> b, linked |-> TRUE]

Register(b) ==
    LET has_free == free_list # <<>>
        i == IF has_free THEN free_list[Len(free_list)] ELSE count
    IN  \E e \in Entries :
            /\ FreeEntry(e)
            /\ entry' = [entry EXCEPT ![e] = NewEntry(e, b)]
            /\ routes' = [routes EXCEPT ![i] = e]
            /\ slots' = [slots EXCEPT ![i] = b]
            /\ count' = IF has_free THEN count ELSE count + 1
            /\ free_list' = IF has_free
                            THEN SubSeq(free_list, 1, Len(free_list) - 1)
                            ELSE free_list

(* The drop of a RouteRegistration takes the entry out of the directory.   *)
UnlinkSkipped(e) == e
Unlink(e) == [e EXCEPT !.linked = FALSE]

(* claim names the word that the caller leaves in the entry.               *)
Unregister(b, claim) ==
    LET i == SlotOf(b)
    IN  /\ entry' = [entry EXCEPT ![routes[i]] =
                                     Unlink([@ EXCEPT !.phase = claim])]
        /\ routes' = [routes EXCEPT ![i] = None]
        /\ slots' = [slots EXCEPT ![i] = None]
        /\ free_list' = Append(free_list, i)
        /\ UNCHANGED count

-----------------------------------------------------------------------------
(* Foreign frees *)

(* A thread that has come by a block frees it.                             *)
Free(p, b) ==
    /\ pc[p] = "idle" /\ fate[b] = "client"
    /\ fate' = [fate EXCEPT ![b] = "moving"]
    /\ pc' = [pc EXCEPT ![p] = "lookup"]
    /\ obj' = [obj EXCEPT ![p] = b]
    /\ UNCHANGED <<pin, hdr, cache, used, issued, ownVars, tabVars, entry, fatal>>

Return(p) ==
    /\ fate' = [fate EXCEPT ![obj[p]] = "sent"]
    /\ pc' = [pc EXCEPT ![p] = "idle"]
    /\ obj' = [obj EXCEPT ![p] = None] /\ pin' = [pin EXCEPT ![p] = None]

(* publish_foreign_uncached: a miss drops the free                         *)
Lookup(p) ==
    /\ pc[p] = "lookup"
    /\ LET found == {e \in Entries : entry[e].linked /\ entry[e].root = obj[p]}
       IN  IF found = {} THEN Return(p)
           ELSE \E e \in found :
                   /\ pin' = [pin EXCEPT ![p] = e]
                   /\ pc' = [pc EXCEPT ![p] = "publish"]
                   /\ UNCHANGED <<obj, fate>>
    /\ UNCHANGED <<hdr, cache, used, issued, ownVars, tabVars, entry, fatal>>

Publish(p) ==
    /\ pc[p] = "publish"
    /\ entry' = IF entry[pin[p]].phase = "Live"
                THEN [entry EXCEPT ![pin[p]].phase = "Pending"] ELSE entry
    /\ Return(p)
    /\ UNCHANGED <<hdr, cache, used, issued, ownVars, tabVars, fatal>>

-----------------------------------------------------------------------------
(* The owner frees *)

OwnFree(b) ==
    /\ opc = "idle" /\ \E i \in TableSlots : slots[i] = b
    /\ fate[b] = "client"
    /\ fate' = [fate EXCEPT ![b] = "none"]
    /\ issued' = [issued EXCEPT ![b] = 0]
    /\ IF hdr[b].phase # "Live"
       THEN /\ fatal' = TRUE
            /\ UNCHANGED <<hdr, cache, used, entry, tabVars>>
       ELSE /\ Unregister(b, "Live") /\ Deposit(b) /\ UNCHANGED fatal
    /\ UNCHANGED <<ownVars, proVars>>

ClaimPendingBlind(e) == entry[e].phase # "Consuming"
ClaimPending(e) == entry[e].phase = "Pending"

(* retire_large_route *)
Retire(i) ==
    LET b == slots[i] IN
    IF ~ ClaimPending(routes[i])
    THEN UNCHANGED <<entry, tabVars, memVars, fatal>>
    ELSE IF hdr[b].phase # "Live"
    THEN /\ fatal' = TRUE
         /\ entry' = [entry EXCEPT ![routes[i]].phase = "Consuming"]
         /\ UNCHANGED <<tabVars, memVars>>
    ELSE /\ Unregister(b, "Consuming") /\ Deposit(b)
         /\ fate' = [fate EXCEPT ![b] = IF @ = "sent" THEN "none" ELSE @]
         /\ issued' = [issued EXCEPT ![b] = 0]
         /\ UNCHANGED fatal

NextActive(from) == {i \in TableSlots : i >= from /\ slots[i] # None}

(* A drain starts: before a Large allocation, in a refill of the magazine  *)
(* (both bounded), in realloc or when a refill finds nothing (full).       *)
StartDrain(full, w) ==
    /\ opc = "idle"
    /\ LET c == IF cursor >= count THEN 0 ELSE cursor
       IN  /\ cursor' = IF full THEN cursor ELSE c
           /\ scan' = [full |-> full, start |-> IF full THEN 0 ELSE c,
                       end |-> count, from |-> IF full THEN 0 ELSE c,
                       wrapped |-> full, inspected |-> 0]
    /\ opc' = "visit" /\ want' = w
    /\ UNCHANGED <<tabVars, memVars, proVars, entry, fatal>>

More == scan.full \/ scan.inspected < LARGE_HOT_BUDGET

Wrap ==
    /\ opc = "visit" /\ More
    /\ NextActive(scan.from) = {} /\ ~ scan.wrapped
    /\ scan' = [scan EXCEPT !.wrapped = TRUE, !.from = 0]
    /\ UNCHANGED <<opc, want, cursor, tabVars, memVars, proVars, entry, fatal>>

(* The index the loop would visit is past its end.                         *)
Past(i) == i >= scan.end \/ (~ scan.full /\ scan.wrapped /\ i >= scan.start)

Visit ==
    /\ opc = "visit" /\ More
    /\ NextActive(scan.from) # {}
    /\ LET i == Min(NextActive(scan.from))
       IN  /\ ~ Past(i)
           /\ Retire(i)
           /\ scan' = [scan EXCEPT !.from = i + 1, !.inspected = @ + 1]
    /\ UNCHANGED <<opc, want, cursor, proVars>>

(* the hand-over of the cursor to the next drain                           *)
CursorAfterRestart == 0
CursorAfter ==
    CASE scan.inspected = 0 -> scan.start
      [] scan.inspected # 0 /\ scan.from = scan.end -> 0
      [] OTHER -> scan.from

EndDrain ==
    /\ opc = "visit"
    /\ \/ ~ More
       \/ NextActive(scan.from) = {} /\ scan.wrapped
       \/ NextActive(scan.from) # {} /\ Past(Min(NextActive(scan.from)))
    /\ cursor' = IF scan.full THEN cursor ELSE CursorAfter
    /\ scan' = NoScan
    /\ opc' = IF want = None THEN "idle" ELSE "alloc"
    /\ UNCHANGED <<want, tabVars, memVars, proVars, entry, fatal>>

(* The maintenance worker, when it holds the heap, visits a slot.          *)
Background(i) ==
    /\ opc = "idle" /\ slots[i] # None
    /\ Retire(i)
    /\ UNCHANGED <<ownVars, proVars>>

-----------------------------------------------------------------------------
(* The owner allocates *)

Fits(c) == {i \in DOMAIN c : /\ hdr[c[i]].size >= want.size
                             /\ hdr[c[i]].size <= want.size * LARGE_CACHE_SIZE_FACTOR}
BestFits(c) == {i \in Fits(c) : \A j \in Fits(c) : hdr[c[i]].size <= hdr[c[j]].size}

(* next_large_generation *)
CanReuse(g) == g < MAX_LARGE_GENERATION

(* alloc_large up to the choice of a cached segment: a decay, then a miss, *)
(* or a hit that leads to a use, or to a release when the generations of   *)
(* the reservation are used up or its registration fails.                  *)
AllocLarge ==
    /\ opc = "alloc"
    /\ \E d \in Decays :
         LET c == Evict(cache, d)
             u == used - Freed(cache, d)
             h == [x \in Bases |-> IF x \in Evicted(cache, d) THEN Unmapped
                                   ELSE hdr[x]]
             hits == IF want.biased THEN {} ELSE BestFits(c)
         IN  \/ /\ hits = {}
                /\ cache' = c /\ used' = u /\ hdr' = h
                /\ opc' = "slow"
                /\ UNCHANGED <<want, fate, issued, tabVars, entry>>
             \/ \E i \in hits :
                LET b == c[i] IN
                /\ cache' = RemoveAt(c, i) /\ used' = u - h[b].size
                /\ \/ /\ CanReuse(h[b].gen) /\ CanRegister
                      /\ Register(b)
                      /\ hdr' = [h EXCEPT ![b].phase = "Live", ![b].gen = @ + 1]
                      /\ fate' = [fate EXCEPT ![b] = "client"]
                      /\ issued' = [issued EXCEPT ![b] = h[b].gen + 1]
                      /\ opc' = "idle" /\ want' = None
                   \/ /\ hdr' = [h EXCEPT ![b] = Unmapped]
                      /\ opc' = "slow"
                      /\ UNCHANGED <<want, fate, issued, tabVars, entry>>
    /\ UNCHANGED <<scan, cursor, proVars, fatal>>

(* alloc_large_slow: no reservation, a registration that fails, a segment. *)
AllocSlow ==
    /\ opc = "slow"
    /\ opc' = "idle" /\ want' = None
    /\ \/ UNCHANGED <<memVars, tabVars, entry>>
       \/ \E b \in Bases :
          /\ hdr[b].phase = "Unmapped" /\ CanRegister
          /\ Register(b)
          /\ hdr' = [hdr EXCEPT ![b] = [phase |-> "Live", gen |-> 1,
                        size |-> want.size, biased |-> want.biased]]
          /\ fate' = [fate EXCEPT ![b] = "client"]
          /\ issued' = [issued EXCEPT ![b] = 1]
          /\ UNCHANGED <<cache, used>>
    /\ UNCHANGED <<scan, cursor, proVars, fatal>>

(* evict_all, when a lease is dropped                                      *)
Trim ==
    /\ opc = "idle" /\ cache # <<>>
    /\ hdr' = [b \in Bases |-> IF b \in Evicted(cache, Len(cache))
                               THEN Unmapped ELSE hdr[b]]
    /\ cache' = <<>> /\ used' = used - Sum(cache)
    /\ UNCHANGED <<fate, issued, ownVars, tabVars, proVars, entry, fatal>>

Owner ==
    \/ \E full \in BOOLEAN : StartDrain(full, None)
    \/ \E r \in Requests : StartDrain(FALSE, r)
    \/ Wrap \/ Visit \/ EndDrain \/ AllocLarge \/ AllocSlow \/ Trim
    \/ \E b \in Bases : OwnFree(b)
    \/ \E i \in TableSlots : Background(i)

Producer(p) == Lookup(p) \/ Publish(p) \/ \E b \in Bases : Free(p, b)

Next == Owner \/ \E p \in Producers : Producer(p)

Spec == Init /\ [][Next]_vars

(* An owner that goes on allocating small blocks drains again and again,   *)
(* and a drain or an allocation it is in ends; producers may stop anywhere *)
(* but finish a free they have begun.  No step is owed to the background   *)
(* worker, to a full drain or to a Large allocation.                       *)
Fairness ==
    /\ WF_vars(Wrap \/ Visit \/ EndDrain \/ AllocLarge \/ AllocSlow)
    /\ SF_vars(StartDrain(FALSE, None))
    /\ \A p \in Producers : WF_vars(Lookup(p) \/ Publish(p))

FairSpec == Spec /\ Fairness

-----------------------------------------------------------------------------
(* Properties *)

Linked(b) == {e \in Entries : entry[e].linked /\ entry[e].root = b}

(* Every reservation has exactly one keeper.  A Live one has one slot of   *)
(* the table and one route, which is that slot's, in the directory; a      *)
(* Cached one is in the cache once and in no slot; an unmapped address is  *)
(* nowhere.  Two keepers would hand the memory out twice or unmap it under *)
(* a block (the aborts "cached release failed" and "live claim credit      *)
(* missing"), none would leak it.                                          *)
OneKeeper ==
    /\ ~ fatal
    /\ \A b \in Bases :
         LET at == {i \in TableSlots : slots[i] = b}
             in == {i \in DOMAIN cache : cache[i] = b}
         IN  CASE hdr[b].phase = "Live" ->
                     /\ in = {} /\ Cardinality(at) = 1
                     /\ \A i \in at : Linked(b) = {routes[i]}
               [] hdr[b].phase = "Cached" ->
                     Cardinality(in) = 1 /\ at = {} /\ Linked(b) = {}
               [] OTHER -> in = {} /\ at = {} /\ Linked(b) = {}

(* A block that is out, in a client's hands or on its way back, has its    *)
(* reservation mapped, Live and in the generation it was handed out with:  *)
(* no late drain, eviction or reuse takes the memory from under it.        *)
BlockKeepsItsMemory ==
    \A b \in Bases : fate[b] # "none" =>
        hdr[b].phase = "Live" /\ hdr[b].gen = issued[b]

(* A foreign free that has returned left its mark: the route of the block  *)
(* is registered and Pending.  publish_foreign ignores whether the lookup  *)
(* or the CAS succeeded, so a lost one would be silent.                    *)
ForeignFreeIsRecorded ==
    \A b \in Bases : fate[b] = "sent" =>
        \E e \in Linked(b) : entry[e].phase = "Pending"

(* The cache's byte count is the sum of its entries, which saturating_sub  *)
(* would keep from being noticed, and respects both limits; generations    *)
(* and the rest of the state have their type.                              *)
CacheAccounts ==
    /\ TypeOK
    /\ used = Sum(cache) /\ used <= BUDGET
    /\ Len(cache) <= LARGE_CACHE_SLOTS

(* Every reservation has one keeper, and the books of the cache balance    *)
(* (register_payload, unregister, deposit, take, evict).                   *)
ReservationsAreKept == OneKeeper /\ CacheAccounts

(* The rotating cursor of the bounded drain starves no slot: a foreign     *)
(* free is reclaimed although each drain visits LARGE_HOT_BUDGET segments. *)
ForeignFreeReclaimed ==
    \A b \in Bases : fate[b] = "sent" ~> fate[b] = "none"
=============================================================================
