------------------------------ MODULE Magazines ------------------------------
(***************************************************************************)
(* The free small blocks a heap keeps at hand: per size class a magazine,  *)
(* a depot floor of DEPOT_K full magazines, and above it the depot         *)
(* overflow, rings of records within one byte budget, decayed by epochs    *)
(* (registry/heap_core: alloc, free, state).  Only the owner touches it:   *)
(* every call is one step, and what can go wrong is a long sequence of     *)
(* calls.  The cargo feature virgin-zero-skip is on.                       *)
(*                                                                         *)
(* One block, "it", is followed by name, with the part it has in the live  *)
(* count of its segment; every other block is "other".  A place that holds *)
(* blocks holds a sequence of these.  The search of the segments for free  *)
(* blocks is left open: a refill takes any.  The OS may refuse what it is  *)
(* asked for.                                                              *)
(***************************************************************************)
EXTENDS Integers, Sequences, FiniteSets, Functions

CONSTANTS Classes, DepotClasses,   \* DepotClasses has the smaller sizes
          TCACHE_CAP, FREE_PARK_CAP, DEPOT_K, mag_bytes,
          EPOCH_MIN, DECAY_WORK, INGRESS_PERIOD,
          Setups,                  \* see setup
          BATCH_MAX                \* bound on the length of a batch call

ASSUME MagazinesAssumption ==
    /\ Classes \subseteq Nat /\ IsFiniteSet(Classes)
    /\ DepotClasses \subseteq Classes
    /\ TCACHE_CAP \in Nat \ {0, 1}
    /\ FREE_PARK_CAP \in [Classes -> 1 .. TCACHE_CAP]
    /\ DEPOT_K \in [DepotClasses -> Nat \ {0}]
    /\ mag_bytes \in [DepotClasses -> Nat \ {0}]
    /\ \A c \in DepotClasses : FREE_PARK_CAP[c] = TCACHE_CAP
    /\ {EPOCH_MIN, DECAY_WORK, BATCH_MAX} \subseteq Nat /\ INGRESS_PERIOD \in Nat \ {0}
    /\ Setups \subseteq [depot_budget : Nat, it : Classes \cup {0},
                          others : [Classes -> Nat]]

VARIABLES
    class,    \* Tcache::classes and Depot::mags
    ovf,      \* DepotOverflow
    seg,      \* the segment of "it": live count; the state byte of "it"
    free,     \* free blocks of the segments, "it" apart
    user,     \* blocks handed out
    setup     \* the budget, the class of "it" (0: no block is followed),
              \* and how many others of each class there are

vars == <<class, ovf, seg, free, user, setup>>

depot_budget == setup.depot_budget
FLUSH_N == TCACHE_CAP \div 2
cap_for(c) == depot_budget \div mag_bytes[c]

Tags == {"it", "other"}
Full == [1 .. TCACHE_CAP -> Tags]
Magazine == UNION {[1 .. n -> Tags] : n \in 0 .. TCACHE_CAP}

Sum(f) == FoldFunction(+, 0, f)
Number(s, tag) == Cardinality({i \in DOMAIN s : s[i] = tag})
Front(s) == SubSeq(s, 1, Len(s) - 1)
Top(s) == s[Len(s)]
Larger(x, y) == IF x > y THEN x ELSE y
Smaller(x, y) == IF x < y THEN x ELSE y

PerClass == [slots : Magazine, virgin_mask : SUBSET (1 .. TCACHE_CAP),
             floor : Seq(Full), ovf : {0, 1}, limit : Nat,
             marks : SUBSET {"FLOOR", "TICK"}]

Overflow == [reserved : BOOLEAN, reserve_failed : BOOLEAN, bytes : Nat,
             armed : SUBSET Classes, events : Nat, epoch_len : Nat,
             parked_in_epoch : SUBSET DepotClasses, starved : SUBSET DepotClasses,
             reloads_since_ingress : Nat,
             ring : [DepotClasses -> Seq(Magazine)],
             len : [DepotClasses -> Nat], head : [DepotClasses -> Nat],
             low : [DepotClasses -> Nat], debt : [DepotClasses -> Nat],
             committed : [DepotClasses -> Nat]]

Segment == [live : Int, state : {"NONE", "FREE", "MAG", "LIVE"}, zeroed : BOOLEAN]

-----------------------------------------------------------------------------
(* A call is computed on h, the state of the heap, step after step.        *)
Heap == [class |-> class, ovf |-> ovf, seg |-> seg, free |-> free]
Heaps == [class : [Classes -> PerClass], ovf : Overflow, seg : Segment,
          free : [Classes -> Nat]]

(* Magazines, the floor and the rings keep to their sizes.                 *)
WithinCaps(h) ==
    /\ \A c \in Classes :
         /\ Len(h.class[c].slots) <= FREE_PARK_CAP[c]
         /\ Len(h.class[c].floor) <= IF c \in DepotClasses THEN DEPOT_K[c] ELSE 0
    /\ \A c \in DepotClasses :
         /\ DOMAIN h.ovf.ring[c] = 1 .. cap_for(c)
         /\ h.ovf.len[c] <= cap_for(c) /\ h.ovf.head[c] <= cap_for(c)

TypeOK ==
    /\ Heap \in Heaps /\ WithinCaps(Heap)
    /\ user \in [Classes -> [Tags -> Nat]]
    /\ setup \in Setups

(* Where the ring of a class has its records, and what a class keeps: its  *)
(* magazine, those on the floor, and its records.                          *)
Slot(o, c, i) ==
    LET idx == o.head[c] + i
    IN  1 + IF idx >= cap_for(c) THEN idx - cap_for(c) ELSE idx

InUse(o, c) == {Slot(o, c, i) : i \in 0 .. o.len[c] - 1}
Records(o, c) == [i \in InUse(o, c) |-> o.ring[c][i]]
Places(m, tag) == {p \in (DOMAIN m) \X (1 .. TCACHE_CAP) :
                     p[2] \in DOMAIN m[p[1]] /\ m[p[1]][p[2]] = tag}
Cached(h, c, tag) ==
    Number(h.class[c].slots, tag) + Cardinality(Places(h.class[c].floor, tag))
    + IF c \in DepotClasses THEN Cardinality(Places(Records(h.ovf, c), tag)) ELSE 0

open_limit(c) == IF c \in DepotClasses THEN DEPOT_K[c] + cap_for(c) ELSE 0

(* AllocCore::flush_class_internal: the blocks go back to their segments.  *)
Flush(h, c, some) ==
    [h EXCEPT !.seg.live = @ - Number(some, "it"),
              !.seg.state = IF Number(some, "it") > 0 THEN "FREE" ELSE @,
              !.seg.zeroed = @ /\ Number(some, "it") = 0,
              !.free[c] = @ + Number(some, "other")]

(* An empty segment may be released; a later one at its place is fresh.    *)
Released(h) == [h EXCEPT !.seg = [live |-> 0, state |-> "NONE", zeroed |-> TRUE]]
Settled(h) == {h} \cup IF h.seg.live = 0 THEN {Released(h)} ELSE {}

(* What a refill of at most want blocks can find: all it asks for, if the  *)
(* segments have that many.                                                *)
Found(h, c, want) ==
    LET it == IF c = setup.it /\ h.seg.state \in {"NONE", "FREE"} THEN 1 ELSE 0
        n == Smaller(want, it + h.free[c])
    IN  {s \in [1 .. n -> Tags] :
            /\ Number(s, "it") <= it
            /\ Number(s, "other") <= h.free[c]}

Taken(h, c, some, state) ==
    [h EXCEPT !.seg.live = @ + Number(some, "it"),
              !.seg.state = IF Number(some, "it") > 0 THEN state ELSE @,
              !.free[c] = @ - Number(some, "other")]

(* clear_magazine_on_issue, finish_magazine_refill: the top block goes out *)
(* and is the user's to write.                                             *)
Issue(h, c) ==
    LET n == Len(h.class[c].slots)
    IN  [h EXCEPT !.class[c].slots = Front(@),
                  !.class[c].virgin_mask = @ \ {n},
                  !.seg.state = IF h.class[c].slots[n] = "it" THEN "LIVE" ELSE @,
                  !.seg.zeroed = @ /\ h.class[c].slots[n] # "it"]

Pushed(h, c, some) ==
    LET n == Len(h.class[c].slots)
    IN  [h EXCEPT !.class[c].slots = @ \o some,
                  !.class[c].virgin_mask = @ \ (n + 1 .. n + Len(some)),
                  !.seg.state = IF Number(some, "it") > 0 THEN "MAG" ELSE @]

Emptied(h, c) == [h EXCEPT !.class[c].slots = <<>>, !.class[c].virgin_mask = {}]
Reloaded(h, c, magazine) ==
    [h EXCEPT !.class[c].slots = magazine, !.class[c].virgin_mask = {}]

-----------------------------------------------------------------------------
(* DepotOverflow.  Its storage: records in a ring of cap_for(c) a class,   *)
(* committed from the front; a page of the OS holds one record.            *)
FirstClass == CHOOSE c \in DepotClasses : \A d \in DepotClasses : c <= d

ensure_reserved(o, os) ==
    IF o.reserved THEN o
    ELSE IF o.reserve_failed \/ os = "no_reserve" THEN [o EXCEPT !.reserve_failed = TRUE]
    ELSE [o EXCEPT !.reserved = TRUE, !.committed[FirstClass] = 1, !.epoch_len = EPOCH_MIN]

(* park, with n, the length, still to be counted.  A park that is refused  *)
(* leaves the records as they are.                                         *)
Parked(o, c, magazine) ==
    LET idx == Slot(o, c, o.len[c])
    IN  [o EXCEPT !.committed[c] = Larger(@, idx),
                  !.ring[c][idx] = magazine,
                  !.bytes = @ + mag_bytes[c],
                  !.len[c] = @ + 1,
                  !.parked_in_epoch = @ \cup {c}]

Park(o, c, magazine, os) ==
    IF o.bytes + mag_bytes[c] > depot_budget THEN [ok |-> FALSE, o |-> o]
    ELSE LET r == ensure_reserved(o, os)
             ok == /\ r.reserved
                   /\ r.len[c] < cap_for(c)
                   /\ os = "no_commit" => Slot(r, c, r.len[c]) <= r.committed[c]
         IN  [ok |-> ok, o |-> IF ok THEN Parked(r, c, magazine) ELSE r]

(* Wrong variant: the low water of the epoch does not see the reload. *)
LowKept(o, c) == o.low[c]
LowAfter(o, c) == Smaller(o.low[c], o.len[c] - 1)

(* Off the tail (reload) or off the head (pop_oldest).                     *)
Shortened(o, c, idx) ==
    [o EXCEPT !.ring[c][idx] = <<>>,
              !.bytes = @ - mag_bytes[c],
              !.len[c] = @ - 1,
              !.low[c] = LowAfter(o, c)]

reload(o, c) == [Shortened(o, c, Slot(o, c, o.len[c] - 1)) EXCEPT !.debt[c] = Smaller(@, o.len[c] - 1)]
pop_oldest(o, c) ==
    [Shortened(o, c, Slot(o, c, 0)) EXCEPT
        !.head[c] = Slot(o, c, 1) - 1,
        !.debt[c] = Larger(@ - 1, 0)]

ingress_due(o) == [o EXCEPT !.reloads_since_ingress = (@ + 1) % INGRESS_PERIOD]
debt_mask(o) == {c \in DepotClasses : o.debt[c] > 0}

(* Each class that parked nothing in the epoch owes half its low water.    *)
end_epoch(o, floor_parked) ==
    LET idle == DepotClasses \ (o.parked_in_epoch \cup floor_parked)
        total == Sum(o.len)
    IN  [o EXCEPT !.debt = [c \in DepotClasses |->
                               IF c \in idle THEN Smaller((o.low[c] + 1) \div 2, o.len[c]) ELSE 0],
                  !.low = o.len,
                  !.parked_in_epoch = {}, !.events = 0,
                  !.epoch_len = Larger(2 * total, EPOCH_MIN)]

(* take_unstarved and reopen: the latched classes that have room again.    *)
Ready(o) ==
    IF o.reserve_failed THEN {}
    ELSE {c \in o.starved : /\ o.bytes + mag_bytes[c] <= depot_budget
                            /\ o.reserved => o.len[c] < cap_for(c)}

Unstarved(h) ==
    [h EXCEPT !.ovf.starved = @ \ Ready(h.ovf),
              !.class = [c \in Classes |->
                  IF c \in Ready(h.ovf) THEN [@[c] EXCEPT !.limit = open_limit(c)] ELSE @[c]]]

-----------------------------------------------------------------------------
(* Decay: HeapCore::depot_tick, depot_decay, depot_segment_tick.           *)
EpochEnded(h) ==
    IF h.ovf.events < Larger(h.ovf.epoch_len, EPOCH_MIN) THEN h
    ELSE [h EXCEPT !.ovf = end_epoch(@, {c \in DepotClasses : "FLOOR" \in h.class[c].marks}),
                   !.class = [c \in Classes |-> [h.class[c] EXCEPT !.marks = @ \ {"FLOOR"}]]]

HintAfter(n) == IF n > 1 THEN 1 ELSE 0

DecayOne(h) ==
    IF debt_mask(h.ovf) = {} THEN h
    ELSE LET c == CHOOSE c \in debt_mask(h.ovf) : \A d \in debt_mask(h.ovf) : c <= d
             oldest == h.ovf.ring[c][Slot(h.ovf, c, 0)]
         IN  Flush([h EXCEPT !.ovf = pop_oldest(@, c),
                             !.class[c].ovf = HintAfter(h.ovf.len[c])], c, oldest)

Decayed(h) ==
    LET paid[k \in 0 .. DECAY_WORK] == IF k = 0 THEN EpochEnded(h) ELSE DecayOne(paid[k - 1])
    IN  Unstarved(paid[DECAY_WORK])

Tick(h) ==
    IF h.ovf.bytes = 0 THEN h
    ELSE LET t == [h EXCEPT !.ovf.events = @ + 1]
         IN  IF t.ovf.events >= t.ovf.epoch_len \/ debt_mask(t.ovf) # {}
               THEN Decayed(t) ELSE t

(* A segment refill of an armed class is an event, or disarms the class.   *)
SegmentTick(h, c) ==
    IF "TICK" \notin h.class[c].marks THEN h
    ELSE IF h.ovf.bytes > 0 THEN Tick(h)
    ELSE [h EXCEPT !.ovf.armed = @ \ {c}, !.class[c].marks = @ \ {"TICK"}]

-----------------------------------------------------------------------------
(* Parking a full magazine.                                                *)
depot_may_park(h, c) ==
    /\ c \in DepotClasses
    /\ Len(h.class[c].floor) < h.class[c].limit
FloorHasRoom(h, c) == Len(h.class[c].floor) < DEPOT_K[c]

ParkFloor(h, c) ==
    Emptied([h EXCEPT !.class[c].floor = Append(@, h.class[c].slots),
                      !.class[c].marks = @ \cup {"FLOOR"}], c)

(* park_overflow, refused or filling the ring: the limit is latched.       *)
Latched(h, c) ==
    [h EXCEPT !.class[c].limit = Len(h.class[c].floor), !.ovf.starved = @ \cup {c}]

(* arm: the first record of a class arms every class not armed yet.        *)
Armed(h) ==
    [h EXCEPT !.ovf.armed = Classes,
              !.class = [k \in Classes |-> [h.class[k] EXCEPT !.marks =
                             @ \cup IF k \in h.ovf.armed THEN {} ELSE {"TICK"}]]]

ParkOverflow(h, c, os) ==
    LET n == h.ovf.len[c]
        p == Park(h.ovf, c, h.class[c].slots, os)
        parked == [Emptied(h, c) EXCEPT !.ovf = p.o, !.class[c].ovf = 1]
        full == IF n + 1 >= cap_for(c) THEN Latched(parked, c) ELSE parked
    IN  IF depot_budget = 0 \/ ~ p.ok
          THEN [ok |-> FALSE, h |-> Latched([h EXCEPT !.ovf = p.o], c)]
          ELSE [ok |-> TRUE, h |-> Tick(IF n = 0 THEN Armed(full) ELSE full)]

(* park_simple: the steady case without a call, if it is one.              *)
ParkIsSimple(o, c) ==
    /\ o.len[c] > 0 /\ o.len[c] + 1 < cap_for(c)
    /\ o.bytes + mag_bytes[c] <= depot_budget
    /\ o.reserved
    /\ debt_mask(o) = {}
    /\ o.events + 1 < o.epoch_len
    /\ Slot(o, c, o.len[c]) <= o.committed[c]

(* Wrong variant: the event is not counted towards the epoch. *)
ParkSimpleUncounted(h, c) ==
    [Emptied(h, c) EXCEPT !.ovf = Parked(h.ovf, c, h.class[c].slots), !.class[c].ovf = 1]

ParkSimple(h, c) ==
    [Emptied(h, c) EXCEPT
        !.ovf = [Parked(h.ovf, c, h.class[c].slots) EXCEPT !.events = @ + 1],
        !.class[c].ovf = 1]

(* free_magazine_park, and the depot part of free_magazine_full.           *)
ParkFull(h, c, os) ==
    IF ~ depot_may_park(h, c) THEN [ok |-> FALSE, h |-> h]
    ELSE IF FloorHasRoom(h, c) THEN [ok |-> TRUE, h |-> ParkFloor(h, c)]
    ELSE IF ParkIsSimple(h.ovf, c) THEN [ok |-> TRUE, h |-> ParkSimple(h, c)]
    ELSE ParkOverflow(h, c, os)

-----------------------------------------------------------------------------
(* Reloading a full magazine.                                              *)
depot_may_reload(h, c) == h.class[c].floor # <<>> \/ h.class[c].ovf = 1

ReloadFloor(h, c) ==
    Reloaded([h EXCEPT !.class[c].floor = Front(@)], c, Top(h.class[c].floor))

(* reload_overflow: the length of the ring decides, not the hint.          *)
RingTop(h, c) == h.ovf.ring[c][Slot(h.ovf, c, h.ovf.len[c] - 1)]
ReloadOverflow(h, c) ==
    Unstarved(Reloaded([h EXCEPT !.ovf = ingress_due(reload(@, c)),
                                 !.class[c].ovf = HintAfter(h.ovf.len[c])],
                       c, RingTop(h, c)))

(* reload_simple, in the steady case.                                      *)
(* Wrong variant: a class that waits to be reopened goes on waiting. *)
ReloadIsSimpleLatched(o, c) ==
    /\ o.len[c] > 0
    /\ debt_mask(o) = {}
    /\ o.reloads_since_ingress + 1 < INGRESS_PERIOD
    /\ o.bytes # mag_bytes[c] => o.events + 1 < o.epoch_len

ReloadIsSimple(o, c) ==
    /\ o.len[c] > 0
    /\ debt_mask(o) = {} /\ o.starved = {}
    /\ o.reloads_since_ingress + 1 < INGRESS_PERIOD
    /\ o.bytes # mag_bytes[c] => o.events + 1 < o.epoch_len

ReloadSimple(h, c) ==
    LET idx == Slot(h.ovf, c, h.ovf.len[c] - 1)
        o == Shortened(h.ovf, c, idx)
    IN  Reloaded([h EXCEPT !.ovf = [o EXCEPT !.reloads_since_ingress = @ + 1,
                                             !.events = @ + IF o.bytes = 0 THEN 0 ELSE 1],
                           !.class[c].ovf = HintAfter(h.ovf.len[c])],
                 c, RingTop(h, c))

(* refill_magazine_miss, refill_magazine_slow up to the search of the      *)
(* segments; a zeroed request skips the first.                             *)
Refilled(h, c, zeroed) ==
    IF c \in DepotClasses /\ depot_may_reload(h, c)
      THEN IF h.class[c].floor # <<>> THEN ReloadFloor(h, c)
           ELSE IF h.ovf.len[c] = 0
             THEN SegmentTick([h EXCEPT !.class[c].ovf = 0], c)
           ELSE IF ~ zeroed /\ ReloadIsSimple(h.ovf, c) THEN ReloadSimple(h, c)
           ELSE Tick(ReloadOverflow(h, c))
      ELSE SegmentTick(h, c)

-----------------------------------------------------------------------------
(* The calls.                                                              *)
Becomes(h) ==
    \E g \in Settled(h) :
        /\ class' = g.class /\ ovf' = g.ovf /\ seg' = g.seg /\ free' = g.free
        /\ UNCHANGED setup

Gets(c, some) ==
    user' = [user EXCEPT ![c] = [tag \in Tags |-> @[tag] + Number(some, tag)]]
Gives(c, some) ==
    /\ \A tag \in Tags : Number(some, tag) <= user[c][tag]
    /\ user' = [user EXCEPT ![c] = [tag \in Tags |-> @[tag] - Number(some, tag)]]

(* Wrong variant: a block of the free list passes for a carved one. *)
VirginAll(h, some) == {i \in DOMAIN some : some[i] = "it"}
VirginOf(h, some) == {i \in DOMAIN some : some[i] = "it" /\ h.seg.state = "NONE"}

Filled(h, c, some, zeroed) ==
    [Taken(h, c, some, "MAG") EXCEPT
        !.class[c].slots = some,
        !.class[c].virgin_mask =
            IF zeroed THEN VirginOf(h, some) ELSE @]

(* alloc (zeroed FALSE) and alloc_zeroed (TRUE) of a small class.          *)
Hit(c) ==
    /\ class[c].slots # <<>>
    /\ Becomes(Issue(Heap, c))
    /\ Gets(c, <<Top(class[c].slots)>>)

Miss(c, zeroed) ==
    /\ class[c].slots = <<>>
    /\ LET h == Refilled(Heap, c, zeroed)
       IN  IF h.class[c].slots # <<>>
             THEN Becomes(Issue(h, c)) /\ Gets(c, <<Top(h.class[c].slots)>>)
             ELSE \E some \in Found(h, c, FREE_PARK_CAP[c]) :
                    IF some = <<>> THEN Becomes(h) /\ UNCHANGED user
                    ELSE /\ Becomes(Issue(Filled(h, c, some, zeroed), c))
                         /\ Gets(c, <<Top(some)>>)

MarksMoved(mask) == {i - FLUSH_N : i \in mask} \cap (1 .. TCACHE_CAP)

(* Wrong variant: the half that stays is not moved down. *)
HalfKept(h, c) ==
    Flush([h EXCEPT !.class[c].slots = SubSeq(@, 1, TCACHE_CAP - FLUSH_N),
                    !.class[c].virgin_mask = MarksMoved(@)],
          c, SubSeq(h.class[c].slots, 1, FLUSH_N))

(* free_magazine_full: the older half goes, the newer half moves down.     *)
HalfFlushed(h, c) ==
    Flush([h EXCEPT !.class[c].slots = SubSeq(@, FLUSH_N + 1, TCACHE_CAP),
                    !.class[c].virgin_mask = MarksMoved(@)],
          c, SubSeq(h.class[c].slots, 1, FLUSH_N))

(* ... or, in a class that never fills a magazine, its top block.          *)
Evicted(h, c) ==
    Flush([h EXCEPT !.class[c].slots = Front(@)], c, <<Top(h.class[c].slots)>>)

(* dealloc_own_thread_with_base, of a block that passed the guards.        *)
Free(c, tag) ==
    /\ Gives(c, <<tag>>)
    /\ IF Len(class[c].slots) < FREE_PARK_CAP[c] THEN Becomes(Pushed(Heap, c, <<tag>>))
       ELSE \E os \in {"ok", "no_reserve", "no_commit"} :
              LET p == ParkFull(Heap, c, os)
              IN  Becomes(Pushed(IF p.ok THEN p.h
                                 ELSE IF FREE_PARK_CAP[c] < TCACHE_CAP THEN Evicted(p.h, c)
                                 ELSE HalfFlushed(p.h, c), c, <<tag>>))

(* alloc_batch: the magazine first, the segments for the rest; the depot   *)
(* is not asked.                                                           *)
AllocBatch(c, n) ==
    LET k == Smaller(n, Len(class[c].slots))
        m == Len(class[c].slots) - k
        out == SubSeq(class[c].slots, m + 1, m + k)
        h == [Heap EXCEPT !.class[c].slots = SubSeq(@, 1, m),
                          !.class[c].virgin_mask = @ \cap (1 .. m),
                          !.seg.state = IF Number(out, "it") > 0 THEN "LIVE" ELSE @]
    IN  \E some \in Found(h, c, n - k) :
          LET g == Taken(h, c, some, "LIVE")
          IN  /\ Becomes([g EXCEPT !.seg.zeroed = @ /\ Number(out \o some, "it") = 0])
              /\ Gets(c, out \o some)

RoomFor(c) == FREE_PARK_CAP[c] - Len(class[c].slots)

(* dealloc_batch_small: what the magazine has no room for is flushed.      *)
DeallocBatch(c, some) ==
    LET room == Smaller(RoomFor(c), Len(some))
    IN  /\ Gives(c, some)
        /\ Becomes(Flush(Pushed(Heap, c, SubSeq(some, 1, room)), c,
                         SubSeq(some, room + 1, Len(some))))

(* trim_for_recycle, as far as it is about magazines: flush_all_tcache,    *)
(* release_pages, disarm_all.  All that the classes keep goes back.        *)
Drained(h) ==
    LET kept == \E c \in Classes : Cached(h, c, "it") > 0
    IN  [h EXCEPT
            !.class = [c \in Classes |->
                [@[c] EXCEPT !.slots = <<>>, !.virgin_mask = {}, !.floor = <<>>, !.ovf = 0,
                             !.marks = {}]],
            !.seg = IF kept THEN [live |-> @.live - 1, state |-> "FREE", zeroed |-> FALSE]
                            ELSE @,
            !.free = [c \in Classes |-> @[c] + Cached(h, c, "other")]]

Zero == [c \in DepotClasses |-> 0]
NoRecords == [c \in DepotClasses |-> [i \in 1 .. cap_for(c) |-> <<>>]]

PagesReleased(o) ==
    [o EXCEPT !.armed = {}, !.bytes = 0, !.ring = NoRecords, !.len = Zero, !.head = Zero,
              !.low = Zero, !.debt = Zero, !.committed = Zero, !.parked_in_epoch = {},
              !.events = 0, !.epoch_len = IF o.reserved THEN EPOCH_MIN ELSE @,
              !.reloads_since_ingress = 0, !.reserve_failed = FALSE]

Trim ==
    /\ Becomes(Unstarved([Drained(Heap) EXCEPT !.ovf = PagesReleased(@)]))
    /\ UNCHANGED user

-----------------------------------------------------------------------------
Init ==
    /\ setup \in Setups
    /\ class = [c \in Classes |->
                  [slots |-> <<>>, virgin_mask |-> {}, floor |-> <<>>, ovf |-> 0,
                   limit |-> open_limit(c), marks |-> {}]]
    /\ ovf = [reserved |-> FALSE, reserve_failed |-> FALSE, bytes |-> 0, armed |-> {},
              events |-> 0, epoch_len |-> 0, parked_in_epoch |-> {}, starved |-> {},
              reloads_since_ingress |-> 0, ring |-> NoRecords, len |-> Zero,
              head |-> Zero, low |-> Zero, debt |-> Zero, committed |-> Zero]
    /\ seg = [live |-> 0, state |-> "NONE", zeroed |-> TRUE]
    /\ free = setup.others
    /\ user = [c \in Classes |-> [tag \in Tags |-> 0]]

Batches == UNION {[1 .. n -> Tags] : n \in 1 .. BATCH_MAX}

Next ==
    \/ \E c \in Classes :
         \/ Hit(c)
         \/ \E zeroed \in BOOLEAN : Miss(c, zeroed)
         \/ \E tag \in Tags : Free(c, tag)
         \/ \E n \in 1 .. BATCH_MAX : AllocBatch(c, n)
         \/ \E some \in Batches : DeallocBatch(c, some)
    \/ Trim

Spec == Init /\ [][Next]_vars

-----------------------------------------------------------------------------
(* A block is in one place: with the user, in one magazine, depot record   *)
(* or ring record of the heap once, or free in its segment, as its state   *)
(* byte says; and none is lost on the way from one to another.  A segment  *)
(* counts as live exactly its blocks that the user or the magazines have:  *)
(* it is not released under a cached block, nor kept for free ones.        *)
OneHolder ==
    /\ \A c \in Classes :
         /\ Cached(Heap, c, "it") = IF c = setup.it /\ seg.state = "MAG" THEN 1 ELSE 0
         /\ user[c]["it"] = IF c = setup.it /\ seg.state = "LIVE" THEN 1 ELSE 0
         /\ free[c] + user[c]["other"] + Cached(Heap, c, "other") = setup.others[c]
    /\ seg.live = IF seg.state \in {"MAG", "LIVE"} THEN 1 ELSE 0
    /\ seg.state \in {"MAG", "LIVE"} => setup.it \in Classes

(* A block that alloc_zeroed may hand out without zeroing has not been     *)
(* written, neither by a user nor by the free list.                        *)
VirginIn(h) ==
    \A c \in Classes : \A i \in h.class[c].virgin_mask :
        i <= Len(h.class[c].slots) /\ h.class[c].slots[i] = "it" /\ h.seg.zeroed
VirginMarksTrue == VirginIn(Heap)

(* Parked records are not forgotten: the hint of their class sends a miss  *)
(* to them, and every refill from the segments counts towards their decay. *)
RecordsAreReachable(h) ==
    /\ \A c \in DepotClasses : h.class[c].ovf = IF h.ovf.len[c] > 0 THEN 1 ELSE 0
    /\ h.ovf.armed = {c \in Classes : "TICK" \in h.class[c].marks}
    /\ h.ovf.bytes > 0 => h.ovf.armed = Classes

(* A class whose limit was lowered is on the list of those to be reopened. *)
LatchIsStarved(h) ==
    \A c \in DepotClasses :
        \/ h.class[c].limit = open_limit(c)
        \/ h.class[c].limit = DEPOT_K[c] /\ c \in h.ovf.starved

(* The bytes of all rings, within the budget; full records in committed    *)
(* memory; debt and low water not above the length of the ring.            *)
BooksBalance(o) ==
    /\ o.bytes = Sum([c \in DepotClasses |-> o.len[c] * mag_bytes[c]])
    /\ o.bytes <= depot_budget
    /\ \A c \in DepotClasses :
         /\ o.debt[c] <= o.len[c] /\ o.low[c] <= o.len[c]
         /\ \A i \in InUse(o, c) : i <= o.committed[c] /\ Len(o.ring[c][i]) = TCACHE_CAP

(* The overflow keeps its books; its records are reachable and its latches *)
(* will be reopened.  Magazines and floors respect their caps (TypeOK).    *)
OverflowAccounts ==
    /\ TypeOK /\ RecordsAreReachable(Heap) /\ LatchIsStarved(Heap)
    /\ BooksBalance(ovf)

(* The two fast lanes, where their conditions hold, do what the paths they *)
(* stand for do: park_simple is park_overflow with its tick, and           *)
(* reload_simple is reload_overflow with the tick after it.                *)
FastLanesAgree ==
    \A c \in DepotClasses :
        /\ (/\ Len(class[c].slots) = TCACHE_CAP
            /\ depot_may_park(Heap, c) /\ ~ FloorHasRoom(Heap, c)
            /\ ParkIsSimple(ovf, c))
           => ParkOverflow(Heap, c, "ok") = [ok |-> TRUE, h |-> ParkSimple(Heap, c)]
        /\ (/\ class[c].slots = <<>> /\ class[c].floor = <<>>
            /\ ReloadIsSimple(ovf, c))
           => Tick(ReloadOverflow(Heap, c)) = ReloadSimple(Heap, c)
=============================================================================
