----------------------------- MODULE RemoteFree -----------------------------
(***************************************************************************)
(* The cross-thread free of small blocks: src/registry/heap_core_xthread,  *)
(* src/registry/segment_route and the owner-side drains of src/alloc_core. *)
(*                                                                         *)
(* A heap (the owner) hands out blocks of its segments.  Any other thread  *)
(* (a producer) may free such a block: it finds the route entry of the     *)
(* segment by address, in its pin cache or in the directory, sets the bit  *)
(* of the block in the sidecar of the entry and, if the entry is ARMED,    *)
(* notifies the heap with a bit in a two-level mask.  The owner takes the  *)
(* mask, arms each entry again, swaps the sidecar words out and reclaims   *)
(* the blocks.  An empty segment is pooled or released: its route is       *)
(* unlinked and its base address and table slot serve a later segment,     *)
(* while producers may still hold pins on the old entry.                   *)
(*                                                                         *)
(* An entry is identified by its incarnation number.  An entry is freed    *)
(* when its reference count drops to zero.                                 *)
(***************************************************************************)
EXTENDS Integers, FiniteSets

CONSTANTS Producers,       \* threads that free blocks of the heap
          Slots,           \* slots of the segment table, also bit numbers
          MASK_BITS,       \* bits of one word of the notification mask
          Bases,           \* segment base addresses the system hands out
          Blocks,          \* block offsets in a segment
          PRIMORDIAL_BLOCKS, \* those that the primordial segment has room for
          WORD_BITS,       \* blocks per word of the sidecar bitmap
          POOL_CAPS,       \* the values of pool_cap to look at
          MAX_INCARNATION  \* bound: route entries ever registered

ASSUME RemoteFreeAssumption ==
    /\ 0 \in Slots /\ Slots \subseteq Nat
    /\ Blocks \subseteq Nat /\ IsFiniteSet(Blocks)
    /\ PRIMORDIAL_BLOCKS \subseteq Blocks
    /\ MASK_BITS \in Nat \ {0} /\ WORD_BITS \in Nat \ {0}
    /\ Bases # {} /\ IsFiniteSet(Producers)
    /\ POOL_CAPS \subseteq Nat
    /\ MAX_INCARNATION \in Nat \ {0}

Incs == 1 .. MAX_INCARNATION
None == 0
PRIMORDIAL == 1              \* the first segment; it is never released

MaskWord(s) == s \div MASK_BITS
SideWord(b) == b \div WORD_BITS
SideWords == {SideWord(b) : b \in Blocks}

(* free: on a free list or not carved.  live: handed out.  freeing: a      *)
(* producer has begun to free it.  pending: its sidecar bit is set.        *)
BlockState == {"free", "live", "freeing", "pending"}

VARIABLES
    pool_cap,    \* how many empty segments the pool keeps
    next,        \* next_incarnation
    base, slot,  \* of each entry: fixed when it is registered
    linked,      \* the entry is in the directory
    refs,        \* its reference count
    notified,    \* its ingress: FALSE is ARMED, TRUE is NOTIFIED
    blk,         \* the state of each block of each segment
    live,        \* live count in the segment header
    table,       \* the segment table: the entry in each slot, or None
    pool,        \* the pooled segments
    cur,         \* small_cur
    mask,        \* HeapIngress::mask, the slots whose bit is set
    summary,     \* HeapIngress::summary, the mask words whose bit is set
    pc, obj,     \* producer: next access; the block it frees <<k, b>>
    pin,         \* producer: the entry it publishes to, or None
    cached,      \* producer: the pin cache (one slot)
    opc,         \* owner: next access
    owords,      \* owner: mask words to take
    obits,       \* owner: notified slots to drain
    dk, dwords,  \* owner: the entry it drains, sidecar words to scan
    darm,        \* owner: the drain follows a notification
    dgot,        \* owner: changed_classes # 0
    hit          \* owner: process_ingress found a segment with a free block

entryVars == <<pool_cap, next, base, slot, linked, refs>>
heapVars  == <<blk, live, table, pool, cur>>
noteVars  == <<notified, mask, summary>>
prodVars  == <<pc, obj, pin, cached>>
ownVars   == <<opc, owords, obits, dk, dwords, darm, dgot, hit>>
vars == <<entryVars, heapVars, noteVars, prodVars, ownVars>>

NoBlock == <<None, None>>

TypeOK ==
    /\ pool_cap \in POOL_CAPS
    /\ next \in 0 .. MAX_INCARNATION
    /\ base \in [Incs -> Bases] /\ slot \in [Incs -> Slots]
    /\ linked \in [Incs -> BOOLEAN] /\ notified \in [Incs -> BOOLEAN]
    /\ refs \in [Incs -> Nat]
    /\ blk \in [Incs -> [Blocks -> BlockState]]
    /\ live \in [Incs -> Nat]
    /\ table \in [Slots -> Incs \cup {None}]
    /\ pool \subseteq Incs /\ cur \in Incs
    /\ mask \subseteq Slots /\ summary \subseteq {MaskWord(s) : s \in Slots}
    /\ pc \in [Producers -> {"idle", "cached", "lookup", "publish", "load",
                             "cas", "mask", "summary", "finish"}]
    /\ obj \in [Producers -> (Incs \X Blocks) \cup {NoBlock}]
    /\ pin \in [Producers -> Incs \cup {None}]
    /\ cached \in [Producers -> Incs \cup {None}]
    /\ opc \in {"idle", "take", "bits", "scan", "unlink", "unref"}
    /\ owords \subseteq {MaskWord(s) : s \in Slots} /\ obits \subseteq Slots
    /\ dk \in Incs \cup {None} /\ dwords \subseteq SideWords
    /\ darm \in BOOLEAN /\ dgot \in BOOLEAN
    /\ hit \in Incs \cup {None}

(* The heap starts with its primordial segment registered and current.     *)
Init ==
    /\ pool_cap \in POOL_CAPS
    /\ next = 1
    /\ base \in {[k \in Incs |-> a] : a \in Bases}
    /\ slot = [k \in Incs |-> 0]
    /\ linked = [k \in Incs |-> k = PRIMORDIAL]
    /\ refs = [k \in Incs |-> IF k = PRIMORDIAL THEN 1 ELSE 0]
    /\ notified = [k \in Incs |-> FALSE]
    /\ blk = [k \in Incs |-> [b \in Blocks |-> "free"]]
    /\ live = [k \in Incs |-> 0]
    /\ table = [s \in Slots |-> IF s = 0 THEN PRIMORDIAL ELSE None]
    /\ pool = {} /\ cur = PRIMORDIAL
    /\ mask = {} /\ summary = {}
    /\ pc = [p \in Producers |-> "idle"]
    /\ obj = [p \in Producers |-> NoBlock]
    /\ pin = [p \in Producers |-> None]
    /\ cached = [p \in Producers |-> None]
    /\ opc = "idle" /\ owords = {} /\ obits = {}
    /\ dk = None /\ dwords = {} /\ darm = FALSE /\ dgot = FALSE
    /\ hit = None

Set(f, a, v) == [f EXCEPT ![a] = v]
Goto(p, label) == pc' = Set(pc, p, label)

(* EntryHandle::drop of the pins in a set of entries (None among them).    *)
Unpin(S) == [k \in Incs |-> IF k \in S THEN refs[k] - 1 ELSE refs[k]]

(* A block the owner could hand out.                                       *)
FreeBlock(k, b) ==
    blk[k][b] = "free" /\ (k = PRIMORDIAL => b \in PRIMORDIAL_BLOCKS)

Registered(k) == \E s \in Slots : table[s] = k

-----------------------------------------------------------------------------
(* A producer: publish_foreign.                                            *)

(* The thread holds the only pointer to a live block and frees it.         *)
Free(p, k, b) ==
    /\ pc[p] = "idle"
    /\ blk[k][b] = "live"
    /\ blk' = [blk EXCEPT ![k][b] = "freeing"]
    /\ obj' = Set(obj, p, <<k, b>>)
    /\ Goto(p, "cached")
    /\ UNCHANGED <<entryVars, live, table, pool, cur, noteVars, pin, cached,
                   ownVars>>

(* Wrong variant: a cached pin is used whether or not it is linked. *)
CachedUnchecked(p) ==
    /\ pc[p] = "cached"
    /\ LET c == cached[p]
       IN  IF c # None /\ base[c] = base[obj[p][1]]
             THEN Goto(p, "publish") /\ pin' = Set(pin, p, c)
             ELSE Goto(p, "lookup") /\ UNCHANGED pin
    /\ UNCHANGED <<entryVars, heapVars, noteVars, obj, cached, ownVars>>

(* publish_cached: a hit needs a pin for the base of the block that is     *)
(* still linked; an unlinked pin is dropped, by the hit path or the sweep. *)
Cached(p) ==
    /\ pc[p] = "cached"
    /\ LET c == cached[p]
       IN  \/ /\ c # None /\ linked[c] /\ base[c] = base[obj[p][1]]
              /\ pin' = Set(pin, p, c)
              /\ Goto(p, "publish")
              /\ UNCHANGED <<refs, cached>>
           \/ /\ c # None /\ linked[c] /\ base[c] # base[obj[p][1]]
              /\ Goto(p, "lookup")
              /\ UNCHANGED <<refs, cached, pin>>
           \/ /\ ~ (c # None /\ linked[c])
              /\ refs' = Unpin({c})
              /\ cached' = Set(cached, p, None)
              /\ Goto(p, "lookup")
              /\ UNCHANGED pin
    /\ UNCHANGED <<pool_cap, next, base, slot, linked, heapVars, noteVars, obj, ownVars>>

(* lookup, under the lock of the shard: the entry of the base is pinned.   *)
(* Without one the free is counted as unroutable and dropped.              *)
Lookup(p) ==
    /\ pc[p] = "lookup"
    /\ IF \E k \in Incs : linked[k] /\ base[k] = base[obj[p][1]]
         THEN \E k \in Incs :
                /\ linked[k] /\ base[k] = base[obj[p][1]]
                /\ refs' = Set(refs, k, refs[k] + 1)
                /\ pin' = Set(pin, p, k)
                /\ Goto(p, "publish")
                /\ UNCHANGED obj
         ELSE /\ obj' = Set(obj, p, NoBlock)
              /\ Goto(p, "idle")
              /\ UNCHANGED <<refs, pin>>
    /\ UNCHANGED <<pool_cap, next, base, slot, linked, heapVars, noteVars, cached, ownVars>>

(* publish_small_borrowed: the sidecar bit, by fetch_or.                   *)
Publish(p) ==
    /\ pc[p] = "publish"
    /\ blk' = [blk EXCEPT ![pin[p]][obj[p][2]] = "pending"]
    /\ Goto(p, "load")
    /\ UNCHANGED <<entryVars, live, table, pool, cur, noteVars, obj, pin,
                   cached, ownVars>>

(* SegmentIngress::after_publish and notify.                               *)
AfterPublish(p) ==
    /\ pc[p] = "load"
    /\ Goto(p, IF notified[pin[p]] THEN "finish" ELSE "cas")
    /\ UNCHANGED <<entryVars, heapVars, noteVars, obj, pin, cached, ownVars>>

NotifyCas(p) ==
    /\ pc[p] = "cas"
    /\ notified' = Set(notified, pin[p], TRUE)
    /\ Goto(p, IF notified[pin[p]] THEN "finish" ELSE "mask")
    /\ UNCHANGED <<entryVars, heapVars, mask, summary, obj, pin, cached, ownVars>>

NotifyMask(p) ==
    /\ pc[p] = "mask"
    /\ mask' = mask \cup {slot[pin[p]]}
    /\ Goto(p, "summary")
    /\ UNCHANGED <<entryVars, heapVars, notified, summary, obj, pin, cached,
                   ownVars>>

(* Wrong variant: the mask bit alone is set. *)
NotifySummarySkipped(p) ==
    /\ pc[p] = "summary"
    /\ Goto(p, "finish")
    /\ UNCHANGED <<entryVars, heapVars, noteVars, obj, pin, cached, ownVars>>

NotifySummary(p) ==
    /\ pc[p] = "summary"
    /\ summary' = summary \cup {MaskWord(slot[pin[p]])}
    /\ Goto(p, "finish")
    /\ UNCHANGED <<entryVars, heapVars, notified, mask, obj, pin, cached, ownVars>>

(* Wrong variant: the pin in the cache slot is overwritten, not dropped. *)
CacheInsertLeak(p) ==
    /\ pc[p] = "finish"
    /\ cached' = Set(cached, p, pin[p])
    /\ pin' = Set(pin, p, None)
    /\ obj' = Set(obj, p, NoBlock)
    /\ Goto(p, "idle")
    /\ UNCHANGED <<entryVars, heapVars, noteVars, ownVars>>

(* cache_insert: a pin that came from a lookup replaces the one in the     *)
(* cache slot, whose reference is dropped; a hit leaves the cache alone.   *)
CacheInsert(p) ==
    /\ pc[p] = "finish"
    /\ refs' = IF cached[p] = pin[p] THEN refs ELSE Unpin({cached[p]})
    /\ cached' = Set(cached, p, pin[p])
    /\ pin' = Set(pin, p, None)
    /\ obj' = Set(obj, p, NoBlock)
    /\ Goto(p, "idle")
    /\ UNCHANGED <<pool_cap, next, base, slot, linked, heapVars, noteVars, ownVars>>

(* PinCache::drop, when the thread ends.                                   *)
ThreadExit(p) ==
    /\ pc[p] = "idle" /\ cached[p] # None
    /\ refs' = Unpin({cached[p]})
    /\ cached' = Set(cached, p, None)
    /\ UNCHANGED <<pool_cap, next, base, slot, linked, heapVars, noteVars, pc, obj, pin,
                   ownVars>>

-----------------------------------------------------------------------------
(* The owner.                                                              *)

(* A segment that may be pooled or released once its live count is n.      *)
Empty(k, n) == n = 0 /\ k # cur /\ k # PRIMORDIAL

(* release_or_pool_empty_segment, the decision: pooled while there is room *)
(* or else unlinked and released in the steps that follow.                 *)
PoolOrRelease(k, continue) ==
    IF Cardinality(pool) < pool_cap
      THEN /\ pool' = pool \cup {k}
           /\ opc' = continue
           /\ dk' = None
      ELSE /\ opc' = "unlink"
           /\ dk' = k
           /\ UNCHANGED pool

(* Wrong variant: the segment stays in the pool. *)
AllocStillPooled(k, b) ==
    /\ opc = "idle"
    /\ Registered(k) /\ FreeBlock(k, b)
    /\ blk' = [blk EXCEPT ![k][b] = "live"]
    /\ live' = Set(live, k, live[k] + 1)
    /\ UNCHANGED <<entryVars, table, pool, cur, noteVars, prodVars, ownVars>>

(* A block of a registered segment is handed out; a pooled segment leaves  *)
(* the pool (unpool_if_present).                                           *)
Alloc(k, b) ==
    /\ opc = "idle"
    /\ Registered(k) /\ FreeBlock(k, b)
    /\ blk' = [blk EXCEPT ![k][b] = "live"]
    /\ live' = Set(live, k, live[k] + 1)
    /\ pool' = pool \ {k}
    /\ UNCHANGED <<entryVars, table, cur, noteVars, prodVars, ownVars>>

(* The owner frees a block of its own (dealloc_small).                     *)
OwnFree(k, b) ==
    /\ opc = "idle"
    /\ blk[k][b] = "live"
    /\ blk' = [blk EXCEPT ![k][b] = "free"]
    /\ live' = Set(live, k, live[k] - 1)
    /\ IF Empty(k, live[k] - 1)
         THEN PoolOrRelease(k, "idle")
         ELSE UNCHANGED <<pool, opc, dk>>
    /\ UNCHANGED <<entryVars, table, cur, noteVars, prodVars, owords, obits,
                   dwords, darm, dgot, hit>>

(* Wrong variant: the old current segment is left as it is. *)
NewSegmentForgetful(a, s) ==
    /\ opc = "idle" /\ next < MAX_INCARNATION
    /\ \A k \in Incs : Registered(k) => base[k] # a
    /\ table[s] = None
    /\ LET k == next + 1
       IN  /\ next' = k
           /\ base' = Set(base, k, a) /\ slot' = Set(slot, k, s)
           /\ linked' = Set(linked, k, TRUE) /\ refs' = Set(refs, k, 1)
           /\ table' = Set(table, s, k)
           /\ cur' = k
    /\ UNCHANGED <<pool_cap, blk, live, pool, noteVars, prodVars, ownVars>>

(* reserve_small_segment: a segment is registered and becomes current; the *)
(* old current one is pooled or released if it is empty.                   *)
NewSegment(a, s) ==
    /\ opc = "idle" /\ next < MAX_INCARNATION
    /\ \A k \in Incs : Registered(k) => base[k] # a
    /\ table[s] = None
    /\ LET k == next + 1
       IN  /\ next' = k
           /\ base' = Set(base, k, a) /\ slot' = Set(slot, k, s)
           /\ linked' = Set(linked, k, TRUE) /\ refs' = Set(refs, k, 1)
           /\ table' = Set(table, s, k)
           /\ cur' = k
    /\ IF live[cur] = 0 /\ cur # PRIMORDIAL /\ cur \notin pool
         THEN PoolOrRelease(cur, "idle")
         ELSE UNCHANGED <<pool, opc, dk>>
    /\ UNCHANGED <<pool_cap, blk, live, noteVars, prodVars, owords, obits, dwords, darm,
                   dgot, hit>>

(* maybe_decay_small_pool, drain_small_pool: a pooled segment is released. *)
Decay(k) ==
    /\ opc = "idle" /\ k \in pool
    /\ pool' = pool \ {k}
    /\ opc' = "unlink" /\ dk' = k
    /\ UNCHANGED <<entryVars, blk, live, table, cur, noteVars, prodVars, owords,
                   obits, dwords, darm, dgot, hit>>

(* release_empty_current_small_for_trim                                    *)
TrimCurrent ==
    /\ opc = "idle" /\ cur # PRIMORDIAL /\ live[cur] = 0
    /\ cur' = PRIMORDIAL
    /\ opc' = "unlink" /\ dk' = cur
    /\ UNCHANGED <<entryVars, blk, live, table, pool, noteVars, prodVars, owords,
                   obits, dwords, darm, dgot, hit>>

(* SegmentTable::recycle: the route is removed from the directory, under   *)
(* the lock of its shard, then its reference is dropped and the slot and   *)
(* the address are free again.                                             *)
Unlink ==
    /\ opc = "unlink"
    /\ linked' = Set(linked, dk, FALSE)
    /\ opc' = "unref"
    /\ UNCHANGED <<pool_cap, next, base, slot, refs, heapVars, noteVars, prodVars, owords,
                   obits, dk, dwords, darm, dgot, hit>>

Unref ==
    /\ opc = "unref"
    /\ refs' = Unpin({dk})
    /\ table' = Set(table, slot[dk], None)
    /\ dk' = None
    /\ opc' = IF darm THEN "bits" ELSE "idle"
    /\ darm' = FALSE
    /\ UNCHANGED <<pool_cap, next, base, slot, linked, blk, live, pool, cur, noteVars,
                   prodVars, owords, obits, dwords, dgot, hit>>

-----------------------------------------------------------------------------
(* HeapIngress::take, called by process_ingress.                           *)
TakeSummary ==
    /\ opc = "idle" /\ summary # {}
    /\ owords' = summary
    /\ summary' = {}
    /\ opc' = "take"
    /\ UNCHANGED <<entryVars, heapVars, notified, mask, prodVars, obits, dk,
                   dwords, darm, dgot, hit>>

TakeMask(w) ==
    /\ opc = "take"
    /\ w \in owords /\ \A v \in owords : w <= v
    /\ owords' = owords \ {w}
    /\ obits' = {s \in mask : MaskWord(s) = w}
    /\ mask' = {s \in mask : MaskWord(s) # w}
    /\ opc' = "bits"
    /\ UNCHANGED <<entryVars, heapVars, notified, summary, prodVars, dk, dwords,
                   darm, dgot, hit>>

(* drain_notified_slot of an empty slot.                                   *)
SkipSlot(s) ==
    /\ opc = "bits" /\ s \in obits /\ \A r \in obits : s <= r
    /\ table[s] = None
    /\ obits' = obits \ {s}
    /\ UNCHANGED <<entryVars, heapVars, noteVars, prodVars, opc, owords, dk,
                   dwords, darm, dgot, hit>>

(* Wrong variant: the entry stays NOTIFIED. *)
ArmSlotSkipped(s) ==
    /\ opc = "bits" /\ s \in obits /\ \A r \in obits : s <= r
    /\ table[s] # None
    /\ obits' = obits \ {s}
    /\ dk' = table[s] /\ dwords' = SideWords /\ darm' = TRUE /\ dgot' = FALSE
    /\ opc' = "scan"
    /\ UNCHANGED <<entryVars, heapVars, noteVars, prodVars, owords, hit>>

(* drain_notified_slot: the entry is armed before its sidecar is scanned.  *)
ArmSlot(s) ==
    /\ opc = "bits" /\ s \in obits /\ \A r \in obits : s <= r
    /\ table[s] # None
    /\ obits' = obits \ {s}
    /\ notified' = Set(notified, table[s], FALSE)
    /\ dk' = table[s] /\ dwords' = SideWords /\ darm' = TRUE /\ dgot' = FALSE
    /\ opc' = "scan"
    /\ UNCHANGED <<entryVars, heapVars, mask, summary, prodVars, owords, hit>>

(* The last notified slot of a mask word is done; after the last word      *)
(* process_ingress takes the first segment it found with a free block out  *)
(* of the pool (finalize_hit) and the allocation goes on with that block.  *)
TakeNext ==
    /\ opc = "bits" /\ obits = {}
    /\ \/ /\ owords # {}
          /\ opc' = "take"
          /\ UNCHANGED <<hit, pool, blk, live>>
       \/ /\ owords = {} /\ hit = None
          /\ opc' = "idle"
          /\ UNCHANGED <<hit, pool, blk, live>>
       \/ \E b \in Blocks :
            /\ owords = {} /\ hit # None /\ FreeBlock(hit, b)
            /\ blk' = [blk EXCEPT ![hit][b] = "live"]
            /\ live' = Set(live, hit, live[hit] + 1)
            /\ pool' = pool \ {hit}
            /\ hit' = None
            /\ opc' = "idle"
    /\ UNCHANGED <<entryVars, table, cur, noteVars, prodVars, owords, obits, dk,
                   dwords, darm, dgot>>

(* A drain that no notification asked for: the strict drain of a trim      *)
(* visits every segment, the rescue scan those it looks into.              *)
DrainSegment(k) ==
    /\ opc = "idle" /\ Registered(k)
    /\ dk' = k /\ dwords' = SideWords /\ dgot' = FALSE
    /\ opc' = "scan"
    /\ UNCHANGED <<entryVars, heapVars, noteVars, prodVars, owords, obits, darm,
                   hit>>

Cut(k, w) == {b \in Blocks : SideWord(b) = w /\ blk[k][b] = "pending"}

(* One word of the sidecar is swapped out and its blocks are reclaimed.    *)
Reclaim(k, w) ==
    /\ blk' = [blk EXCEPT ![k] =
                 [b \in Blocks |-> IF b \in Cut(k, w) THEN "free" ELSE blk[k][b]]]
    /\ live' = Set(live, k, live[k] - Cardinality(Cut(k, w)))

ScanWord(w) ==
    /\ opc = "scan"
    /\ w \in dwords /\ \A v \in dwords : w <= v
    /\ Reclaim(dk, w)
    /\ dwords' = dwords \ {w}
    /\ dgot' = (dgot \/ Cut(dk, w) # {})
    /\ UNCHANGED <<entryVars, table, pool, cur, noteVars, prodVars, opc, owords,
                   obits, dk, darm, hit>>

(* finish_small_drain                                                      *)
FinishDrain ==
    /\ opc = "scan" /\ dwords = {}
    /\ IF dgot /\ Empty(dk, live[dk])
         THEN PoolOrRelease(dk, IF darm THEN "bits" ELSE "idle")
         ELSE opc' = (IF darm THEN "bits" ELSE "idle") /\ dk' = None /\ UNCHANGED pool
    /\ hit' = IF /\ darm /\ hit = None /\ opc' # "unlink"
                 /\ \E b \in Blocks : FreeBlock(dk, b)
                THEN dk ELSE hit
    /\ darm' = (darm /\ opc' = "unlink")
    /\ dgot' = FALSE
    /\ UNCHANGED <<entryVars, blk, live, table, cur, noteVars, prodVars, owords,
                   obits, dwords>>

(* drain_sidecar_ingress_bounded: one word of one segment, a unit of the   *)
(* budget of a maintenance step.                                           *)
BoundedCut(k, w) ==
    /\ opc = "idle" /\ Registered(k)
    /\ Reclaim(k, w)
    /\ IF Cut(k, w) # {} /\ Empty(k, live'[k])
         THEN PoolOrRelease(k, "idle")
         ELSE UNCHANGED <<pool, opc, dk>>
    /\ UNCHANGED <<entryVars, table, cur, noteVars, prodVars, owords, obits,
                   dwords, darm, dgot, hit>>

-----------------------------------------------------------------------------
ProducerStep(p) ==
    \/ Cached(p) \/ Lookup(p) \/ Publish(p) \/ AfterPublish(p) \/ NotifyCas(p)
    \/ NotifyMask(p) \/ NotifySummary(p) \/ CacheInsert(p)

ProducerNext(p) ==
    \/ ProducerStep(p) \/ ThreadExit(p)
    \/ \E k \in Incs, b \in Blocks : Free(p, k, b)

OwnerStep ==
    \/ Unlink \/ Unref \/ TakeNext \/ FinishDrain
    \/ \E w \in owords : TakeMask(w)
    \/ \E s \in obits : SkipSlot(s) \/ ArmSlot(s)
    \/ \E w \in dwords : ScanWord(w)

OwnerNext ==
    \/ OwnerStep \/ TakeSummary \/ TrimCurrent
    \/ \E k \in Incs, b \in Blocks : Alloc(k, b) \/ OwnFree(k, b)
    \/ \E a \in Bases, s \in Slots : NewSegment(a, s)
    \/ \E k \in Incs : Decay(k) \/ DrainSegment(k)
    \/ \E k \in Incs, w \in SideWords : BoundedCut(k, w)

Next == OwnerNext \/ \E p \in Producers : ProducerNext(p)

Spec == Init /\ [][Next]_vars
(* Producers run on once they have begun a free, the owner once it has     *)
(* begun to take or to drain.  An owner that allocates again and again     *)
(* looks at the summary again and again (every miss of find_segment).      *)
FairSpec ==
    /\ Spec
    /\ \A p \in Producers : WF_vars(ProducerStep(p))
    /\ WF_vars(OwnerStep)
    /\ SF_vars(TakeSummary)

-----------------------------------------------------------------------------
(* A free finds the entry its block belongs to: between the free and the   *)
(* sidecar bit the entry of the segment stays linked, and neither a pin    *)
(* kept in the cache across a reuse of the base address nor the directory  *)
(* leads to another incarnation (publish_cached, lookup).  So no free is   *)
(* dropped as unroutable and no bit is set in a foreign sidecar.           *)
FreeReachesItsSegment ==
    \A p \in Producers :
        /\ pc[p] \in {"cached", "lookup", "publish"} => linked[obj[p][1]]
        /\ pc[p] = "publish" => pin[p] = obj[p][1]

Ref(cond) == IF cond THEN 1 ELSE 0

(* The reference count of an entry is exact: one for the registration, one *)
(* for each cached pin and one for each pin of a publication that is not   *)
(* the cached one.  So an entry and its sidecar are freed when nobody can  *)
(* reach them any more, not earlier and not never (EntryHandle::drop).     *)
(* The state has its type.                                                 *)
EveryReferenceCounted ==
    /\ TypeOK
    /\ \A k \in Incs :
         refs[k] = Ref(Registered(k))
                     + Cardinality({p \in Producers : cached[p] = k})
                     + Cardinality({p \in Producers : pin[p] = k /\ cached[p] # k})

(* The segment that process_ingress is about to return is still registered *)
(* and still has its free block after the other notified slots are drained. *)
HitStaysUsable ==
    hit # None => Registered(hit) /\ \E b \in Blocks : FreeBlock(hit, b)

(* The live count covers every block that is not free, those with a remote *)
(* free on its way included, and a segment in the pool or on its way out   *)
(* has none: what is released is not in use and has no free pending, and   *)
(* it is not the segment that process_ingress is about to return.          *)
ReleasedSegmentsAreEmpty ==
    /\ \A k \in Incs :
         live[k] = Cardinality({b \in Blocks : blk[k][b] # "free"})
    /\ \A k \in Incs :
         k \in pool \/ ~ Registered(k) \/ (opc \in {"unlink", "unref"} /\ dk = k)
           => \A b \in Blocks : blk[k][b] = "free"
    /\ HitStaysUsable

(* No empty segment is forgotten: one that is neither current nor the      *)
(* primordial one is in the pool or being drained or released.             *)
NoOrphan ==
    \A k \in Incs :
        Registered(k) /\ live[k] = 0 /\ k # cur /\ k # PRIMORDIAL
          => k \in pool \/ dk = k

(* An empty segment is pooled or released, and only an empty one is        *)
(* (pool_or_release_empty_small).                                          *)
PoolingIsSound == ReleasedSegmentsAreEmpty /\ NoOrphan

(* Somebody still has to act on word w of the mask.                        *)
WordNoticed(w) ==
    \/ w \in summary \/ w \in owords
    \/ \E p \in Producers : pc[p] = "summary" /\ MaskWord(slot[pin[p]]) = w

(* No wake-up is lost: while the bit of a block is set in the sidecar of a *)
(* registered segment, its producer has still to look at the ARMED state,  *)
(* or the notification is under way from producer to mask to owner, or the *)
(* owner has still to scan the word of the bit.  This is what arming       *)
(* before the scan and publishing before the load are for.                 *)
NoLostWakeup ==
    \A k \in Incs, b \in Blocks :
        Registered(k) /\ blk[k][b] = "pending" =>
            \/ \E p \in Producers : pin[p] = k /\ pc[p] \in {"load", "cas", "mask"}
            \/ slot[k] \in mask /\ WordNoticed(MaskWord(slot[k]))
            \/ slot[k] \in obits
            \/ opc = "scan" /\ darm /\ dk = k /\ SideWord(b) \in dwords

(* A remote free is not left lying: the block is reclaimed, provided the   *)
(* owner keeps allocating.                                                 *)
RemoteFreeReclaimed ==
    \A k \in Incs, b \in Blocks :
        blk[k][b] = "freeing" ~> blk[k][b] = "free"
=============================================================================
