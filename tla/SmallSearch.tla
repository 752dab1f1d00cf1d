---------------------------- MODULE SmallSearch ----------------------------
(***************************************************************************)
(* The search of a heap for a free small block: src/alloc_core/small.      *)
(*                                                                         *)
(* Each segment keeps a list of free blocks per size class (its bins).  An *)
(* allocation tries the current segment, then the segment that last served *)
(* the class (the cursor), then a directory of non-empty bins, then the    *)
(* segments other threads have notified, then a scan of all segments; only *)
(* then does it carve a fresh block, reserve a fresh segment, and, when    *)
(* that is refused, scan once more with no short cut (the rescue).  Each   *)
(* short cut may answer "none": the directory because it is exact, the     *)
(* scan because it puts the drain of remote frees off for a while.         *)
(*                                                                         *)
(* One call of the owner is one action.  The frees of other threads happen *)
(* between the calls; RemoteFree has their interleaving with a drain.      *)
(***************************************************************************)
EXTENDS Integers, FiniteSets, SequencesExt

CONSTANTS Classes,          \* size classes
          block_size,       \* the size of a block of each class, in units
          SEGMENT,          \* the payload of a segment, in units
          FIRST_CHUNK,      \* LAZY_FIRST_CHUNK: the primordial segment is
                            \* committed by such chunks
          MAX_SEGMENTS,     \* slots of the segment table
          THRESHOLD,        \* DIRECTORY_MATERIALIZE_THRESHOLD
          PERIOD,           \* DIRECTORY_MISS_FULL_SCAN_PERIOD
          REFILL_BATCH,     \* extra blocks that a scalar carve makes
          POOL_CAP,         \* empty segments that the pool keeps
          DEFER_STREAK,     \* SIDECAR_DEFER_STREAK
          DEFER_DIVISOR,    \* 2^SIDECAR_DEFER_SHIFT
          MODES,            \* kinds of heaps to look at
          WANT,             \* the longest refill
          PENDING_MAX,      \* bound: remote frees of a class not drained yet
          FATES,            \* what the system may answer during a call
          None              \* CLASS_CURSOR_NONE and the null segment

(* What the system grants during a call: a class code for the first block  *)
(* that is carved, codes for the extra ones, commit charge, a segment at   *)
(* once or after the pool is drained, memory for the directory; and        *)
(* whether the pool is due to age.                                         *)
Answers == {"code", "codes", "commit", "reserve", "retry", "directory", "age"}

SmallSearchAssumption ==
    /\ block_size \in [Classes -> Nat \ {0}]
    /\ {SEGMENT, MAX_SEGMENTS, PERIOD, DEFER_STREAK, DEFER_DIVISOR} \subseteq Nat \ {0}
    /\ {THRESHOLD, REFILL_BATCH, POOL_CAP, PENDING_MAX} \subseteq Nat
    /\ FIRST_CHUNK \in 1 .. SEGMENT
    /\ WANT \in Nat \ {0} /\ FATES \subseteq SUBSET Answers
    /\ \A c \in Classes : block_size[c] <= SEGMENT
    /\ MODES \subseteq {"unrouted", "routed", "armed"}

Slots == 0 .. MAX_SEGMENTS - 1
PRIMORDIAL == 0

VARIABLES
    mode,   \* unrouted: no other thread frees (a standalone AllocCore);
            \* routed: they do, unannounced (the fallback heap);
            \* armed: each free notifies the heap (a registry heap)
    heap,   \* the state of the heap, a record
    short   \* the last operation, if it was a call that fell short

vars == <<mode, heap, short>>

NoBlocks == [c \in Classes |-> 0]
NoWindow == [start |-> 0, end |-> 0, streak |-> 0]

Kinds == {"none", "primordial", "small", "large"}

(* live counts the blocks out of the bins, the pending ones among them: a  *)
(* remote free leaves the block live until a drain reclaims it.            *)
HeapType ==
    [kind : [Slots -> Kinds],
     count : 1 .. MAX_SEGMENTS, holes : Seq(Slots),
     bump : [Slots -> 0 .. SEGMENT], frontier : 0 .. SEGMENT,
     free : [Slots -> [Classes -> Nat]],
     live : [Slots -> [Classes -> Nat]],
     pend : [Slots -> [Classes -> Nat]],
     window : [Slots -> [start : Nat, end : Nat, streak : Nat]],
     small_cur : Slots, pool : Seq(Slots),
     directory : BOOLEAN, bits : SUBSET (Classes \X Slots),
     streak : [Classes -> 0 .. PERIOD - 1],
     cursor : [Classes -> Slots \cup {None}],
     notified : SUBSET Slots]

Init ==
    /\ mode \in MODES
    /\ heap = [kind |-> [s \in Slots |-> IF s = PRIMORDIAL THEN "primordial" ELSE "none"],
               count |-> 1, holes |-> <<>>,
               bump |-> [s \in Slots |-> 0], frontier |-> FIRST_CHUNK,
               free |-> [s \in Slots |-> NoBlocks],
               live |-> [s \in Slots |-> NoBlocks],
               pend |-> [s \in Slots |-> NoBlocks],
               window |-> [s \in Slots |-> NoWindow],
               small_cur |-> PRIMORDIAL, pool |-> <<>>,
               directory |-> FALSE, bits |-> {},
               streak |-> [c \in Classes |-> 0],
               cursor |-> [c \in Classes |-> None],
               notified |-> {}]
    /\ short = None

Ascending(S) == SetToSortSeq(S, LAMBDA r, s : r < s)

IsSmall(h, s) == h.kind[s] \in {"primordial", "small"}
Empty(h, s) == h.live[s] = NoBlocks

-----------------------------------------------------------------------------
(* The directory: one bit per class and segment.                           *)
publish_nonempty(h, c, s) ==
    IF h.directory THEN [h EXCEPT !.bits = @ \cup {<<c, s>>}] ELSE h

publish_empty(h, c, s) == [h EXCEPT !.bits = @ \ {<<c, s>>}]

(* Built from the bins once there are enough segments, unless the memory   *)
(* for it is refused.                                                      *)
maybe_materialize_directory(h, granted) ==
    IF h.directory \/ h.count < THRESHOLD \/ ~ granted THEN h
    ELSE [h EXCEPT !.directory = TRUE,
                   !.bits = {b \in Classes \X Slots :
                               IsSmall(h, b[2]) /\ h.free[b[2]][b[1]] > 0}]

-----------------------------------------------------------------------------
(* The pool, release and the remote frees of one segment.                  *)

(* Wrong variant: the slot leaves its bits behind. *)
RecycleStaleBits(h, s) ==
    [h EXCEPT !.kind[s] = "none", !.holes = Append(@, s),
              !.bump[s] = 0, !.free[s] = NoBlocks, !.window[s] = NoWindow,
              !.cursor = [c \in Classes |-> IF @[c] = s THEN None ELSE @[c]]]

(* An empty segment goes back to the system: its bits and the cursors that *)
(* name it go first, then the slot is free.                                *)
Recycle(h, s) ==
    [h EXCEPT !.kind[s] = "none", !.holes = Append(@, s),
              !.bump[s] = 0, !.free[s] = NoBlocks, !.window[s] = NoWindow,
              !.bits = {b \in @ : b[2] # s},
              !.cursor = [c \in Classes |-> IF @[c] = s THEN None ELSE @[c]]]

release_or_pool_empty_segment(h, s) ==
    IF Len(h.pool) < POOL_CAP THEN [h EXCEPT !.pool = <<s>> \o @] ELSE Recycle(h, s)

(* dec_live_and_maybe_decommit and what its callers do on TRUE.            *)
Retire(h, s) ==
    IF Empty(h, s) /\ s # h.small_cur /\ h.kind[s] = "small"
      THEN release_or_pool_empty_segment(h, s) ELSE h

unpool_if_present(h, s) == [h EXCEPT !.pool = Remove(@, s)]

(* drain_small_pool: head first.                                           *)
drain_small_pool(h) == FoldLeft(Recycle, [h EXCEPT !.pool = <<>>], h.pool)

dealloc_small(h, s, c) ==
    LET g == [h EXCEPT !.free[s][c] = @ + 1, !.live[s][c] = @ - 1]
    IN  Retire(IF h.free[s][c] = 0 THEN publish_nonempty(g, c, s) ELSE g, s)

Changed(h, s) == {c \in Classes : h.pend[s][c] > 0}

(* drain_segment_sidecar: the blocks other threads have freed go to the    *)
(* bins; a segment that has become empty is pooled or released.            *)
drain_segment_sidecar(h, s) ==
    IF mode = "unrouted" \/ Changed(h, s) = {} THEN h
    ELSE Retire([h EXCEPT !.free[s] = [c \in Classes |-> @[c] + h.pend[s][c]],
                          !.live[s] = [c \in Classes |-> @[c] - h.pend[s][c]],
                          !.pend[s] = NoBlocks,
                          !.bits = IF h.directory THEN @ \cup (Changed(h, s) \X {s}) ELSE @],
                s)

(* pop_free, and try_drain_freelist_batch with n > 1.                      *)
pop(h, s, c, n) ==
    LET g == [h EXCEPT !.free[s][c] = @ - n, !.live[s][c] = @ + n]
    IN  IF g.free[s][c] = 0 THEN publish_empty(g, c, s) ELSE g

-----------------------------------------------------------------------------
(* The cursor of a class: the segment that served it last.                 *)
record_class_cursor(h, c, s) ==
    IF s = h.small_cur THEN h ELSE [h EXCEPT !.cursor[c] = s]

CursorStale(h, c) == h.cursor[c] = h.small_cur \/ ~ IsSmall(h, h.cursor[c])

(* A search has found segment s, or None.                                  *)
Miss(h) == [h |-> h, seg |-> None]
Hit(h, s) == [h |-> unpool_if_present(h, s), seg |-> s]

cursor_probe_base(h, c) ==
    IF h.cursor[c] = None THEN Miss(h)
    ELSE IF CursorStale(h, c) THEN Miss([h EXCEPT !.cursor[c] = None])
    ELSE IF h.free[h.cursor[c]][c] = 0 THEN Miss(h)
    ELSE Hit(h, h.cursor[c])

-----------------------------------------------------------------------------
(* Discovery: find_segment_with_free_impl.                                 *)

(* validate_directory_candidate: a bit is a hint, the bin decides; a wrong *)
(* bit is cleared.                                                         *)
Validated(h, c, s) ==
    IF ~ IsSmall(h, s) \/ h.free[s][c] = 0 THEN Miss(publish_empty(h, c, s))
    ELSE Hit(h, s)

validate_directory_candidate(h, c, s, drain) ==
    Validated(IF IsSmall(h, s) /\ drain THEN drain_segment_sidecar(h, s) ELSE h, c, s)

(* The slots of the class, lowest first, until one is a hit.               *)
scan_directory_candidates(h, c, drain) ==
    FoldLeft(LAMBDA r, s : IF r.seg = None THEN validate_directory_candidate(r.h, c, s, drain)
                           ELSE r,
             Miss(h), Ascending({s \in Slots : <<c, s>> \in h.bits}))

(* process_ingress: every notified segment is drained, the first one with  *)
(* a free block is the hit.                                                *)
Drained(h, found, s, c) ==
    [h |-> h,
     seg |-> IF found = None /\ IsSmall(h, s) /\ h.free[s][c] > 0 THEN s ELSE found]

Unpooled(r) == IF r.seg = None THEN r ELSE Hit(r.h, r.seg)

process_ingress(h, c) ==
    Unpooled(FoldLeft(LAMBDA r, s :
                        Drained(IF s < r.h.count /\ IsSmall(r.h, s)
                                  THEN drain_segment_sidecar(r.h, s) ELSE r.h,
                                r.seg, s, c),
                      Miss([h EXCEPT !.notified = {}]), Ascending(h.notified)))

AlignUp(n, unit) == ((n + unit - 1) \div unit) * unit
SmallerOf(m, n) == IF m <= n THEN m ELSE n

HasRoom(h, c) ==
    AlignUp(h.bump[h.small_cur], block_size[c]) + block_size[c] <= SEGMENT

(* The window in which the drains of a scan are put off.                   *)
sidecar_drains_deferred(h, c) ==
    LET w == h.window[h.small_cur]
    IN  w.start < h.bump[h.small_cur] /\ h.bump[h.small_cur] < w.end /\ HasRoom(h, c)

note_empty_sidecar_scan(h, drained) ==
    LET cur == h.small_cur
        streak == SmallerOf(h.window[cur].streak + 1, DEFER_STREAK)
        end == SmallerOf(h.bump[cur] + drained \div DEFER_DIVISOR, SEGMENT)
    IN  [h EXCEPT !.window[cur] =
            IF streak = DEFER_STREAK /\ end > h.bump[cur]
              THEN [start |-> h.bump[cur], end |-> end, streak |-> streak]
              ELSE [NoWindow EXCEPT !.streak = streak]]

(* Wrong variant: the segments before the cursor are not visited. *)
ScanOrderNoWrap(h, c) ==
    LET start == IF h.cursor[c] = None \/ h.cursor[c] + 1 >= h.count
                   THEN 0 ELSE h.cursor[c] + 1
    IN  [i \in 1 .. h.count - start |-> start + i - 1]

(* From the slot after the cursor to the last, then from the first.        *)
ScanOrder(h, c) ==
    LET start == IF h.cursor[c] = None \/ h.cursor[c] + 1 >= h.count
                   THEN 0 ELSE h.cursor[c] + 1
    IN  [i \in 1 .. h.count |-> (start + i - 1) % h.count]

(* linear_scan: a segment with an empty bin is drained first, unless the   *)
(* drains are put off; a hit of a scan that double-checks the directory    *)
(* sets its bit.                                                           *)
Draining(r, s, c, defer) == r.h.free[s][c] = 0 /\ ~ defer

Taking(r, s, c, defer) ==
    Draining(r, s, c, defer) /\ mode # "unrouted" /\ Changed(r.h, s) # {}

(* The visit of slot s, which has left the heap at h.                      *)
Visited(r, h, s, c, defer) ==
    LET took == Taking(r, s, c, defer)
        g == IF took /\ ~ r.reclaimed
               THEN [h EXCEPT !.window[h.small_cur] = NoWindow] ELSE h
        hit == IsSmall(g, s) /\ g.free[s][c] > 0
    IN  [h |-> IF hit THEN unpool_if_present(g, s) ELSE g,
         seg |-> IF hit THEN s ELSE None,
         drained |-> IF Draining(r, s, c, defer) THEN r.drained + r.h.bump[s] ELSE r.drained,
         reclaimed |-> r.reclaimed \/ took]

(* The scan is over.                                                       *)
Scanned(r, c, heal) ==
    IF r.seg # None
      THEN [h |-> IF heal THEN publish_nonempty(r.h, c, r.seg) ELSE r.h, seg |-> r.seg]
    ELSE IF r.drained # 0 /\ ~ r.reclaimed
      THEN Miss(note_empty_sidecar_scan(r.h, r.drained))
    ELSE Miss(r.h)

ScanAll(h, c, defer, heal) ==
    Scanned(FoldLeft(LAMBDA r, s :
                       IF r.seg # None \/ ~ IsSmall(r.h, s) THEN r
                       ELSE Visited(r, IF Taking(r, s, c, defer)
                                         THEN drain_segment_sidecar(r.h, s) ELSE r.h,
                                    s, c, defer),
                     [h |-> h, seg |-> None, drained |-> 0, reclaimed |-> FALSE],
                     ScanOrder(h, c)),
            c, heal)

linear_scan(h, c, defer, heal, granted) ==
    ScanAll(maybe_materialize_directory(h, granted), c, defer, heal)

Armed(rescue) == mode = "armed" /\ ~ rescue

look_at_directory(h, c, rescue) ==
    IF h.directory THEN scan_directory_candidates(h, c, ~ Armed(rescue)) ELSE Miss(h)

(* The notified segments, if armed and when nothing is found so far.       *)
look_at_ingress(r, c, rescue, when) ==
    IF when /\ r.seg = None /\ Armed(rescue) THEN process_ingress(r.h, c) ELSE r

(* With no hit in the directory an unrouted or an armed heap takes its word *)
(* for it, but once in PERIOD misses it scans all the same.                *)
look_at_all(r, c, rescue, defer, granted) ==
    LET counts == r.h.directory /\ ~ rescue /\ (mode = "unrouted" \/ Armed(rescue))
        trusts == counts /\ r.h.streak[c] + 1 < PERIOD
        Scan(g) == look_at_ingress(linear_scan(g, c, defer, r.h.directory \/ rescue, granted),
                                   c, rescue, TRUE)
    IN  IF r.seg # None THEN r
        ELSE IF trusts THEN Miss([r.h EXCEPT !.streak[c] = @ + 1])
        ELSE Scan(IF counts THEN [r.h EXCEPT !.streak[c] = 0] ELSE r.h)

Recorded(r, c) ==
    IF r.seg = None THEN r ELSE [r EXCEPT !.h = record_class_cursor(r.h, c, r.seg)]

find_segment_with_free_impl(h, c, rescue, granted) ==
    LET defer == Armed(rescue)
                 \/ (~ rescue /\ mode = "routed" /\ sidecar_drains_deferred(h, c))
        told == look_at_ingress(look_at_directory(h, c, rescue), c, rescue, h.directory)
    IN  Recorded(look_at_all(told, c, rescue, defer, granted), c)

-----------------------------------------------------------------------------
(* Fresh blocks.                                                           *)

(* The end of the next block of the class, and of a run of n blocks.       *)
CarveEnd(h, c, n) == AlignUp(h.bump[h.small_cur], block_size[c]) + n * block_size[c]

(* Only the primordial segment is committed piecemeal.                     *)
Commits(h, end, fate) ==
    h.small_cur # PRIMORDIAL \/ end <= h.frontier \/ "commit" \in fate

(* try_carve_batch: a run of up to n blocks, as many as the segment holds. *)
carve(h, c, n, fate) ==
    LET cur == h.small_cur
        room == (SEGMENT - CarveEnd(h, c, 0)) \div block_size[c]
        k == SmallerOf(n, room)
        end == CarveEnd(h, c, k)
    IN  IF k <= 0 \/ ~ Commits(h, end, fate) THEN [h |-> h, got |-> 0]
        ELSE [h |-> [h EXCEPT !.bump[cur] = end, !.live[cur][c] = @ + k,
                              !.frontier = IF cur = PRIMORDIAL /\ end > @
                                             THEN SmallerOf(AlignUp(end, FIRST_CHUNK), SEGMENT)
                                             ELSE @],
              got |-> k]

(* carve_block_with_refill: the extra blocks of a carve go to the bin.     *)
Binned(r, c) == IF r.got = 0 THEN r.h ELSE dealloc_small(r.h, r.h.small_cur, c)

Refilled(first, c, fate) ==
    IF first.got = 0 \/ "codes" \notin fate THEN first
    ELSE [first EXCEPT !.h = FoldLeft(LAMBDA g, i : Binned(carve(g, c, 1, fate), c), @,
                                      [i \in 1 .. REFILL_BATCH |-> i])]

carve_block_with_refill(h, c, fate) == Refilled(carve(h, c, 1, fate), c, fate)

(* finalize_old_cursor_if_orphaned *)
finalize_old_cursor_if_orphaned(h, old) ==
    IF Empty(h, old) /\ h.kind[old] = "small" /\ \A i \in DOMAIN h.pool : h.pool[i] # old
      THEN release_or_pool_empty_segment(h, old) ELSE h

(* maybe_decay_small_pool: the oldest segment of the pool is released.     *)
maybe_decay_small_pool(h, due) ==
    IF h.pool = <<>> \/ ~ due THEN h
    ELSE Recycle([h EXCEPT !.pool = Front(@)], Last(h.pool))

(* register of a slot: the newest hole, or the next slot.                  *)
TableFull(h) == h.holes = <<>> /\ h.count = MAX_SEGMENTS
FreeSlot(h) == IF h.holes # <<>> THEN Last(h.holes) ELSE h.count

Register(h, kind) ==
    [h EXCEPT !.kind[FreeSlot(h)] = kind,
              !.holes = IF @ # <<>> THEN Front(@) ELSE @,
              !.count = IF h.holes # <<>> THEN @ ELSE @ + 1]

(* reserve_small_segment: a segment from the system, if need be after the  *)
(* pool has been given back to it; seg is None when there is none or no    *)
(* slot for it.                                                            *)
Retries(h, fate) == "reserve" \notin fate /\ h.pool # <<>>

Mounted(h, s) ==
    [h |-> finalize_old_cursor_if_orphaned([h EXCEPT !.small_cur = s], h.small_cur), seg |-> s]

Granted(h, retried, fate) ==
    IF ~ ("reserve" \in fate \/ (retried /\ "retry" \in fate)) \/ TableFull(h) THEN Miss(h)
    ELSE Mounted(maybe_materialize_directory(Register(h, "small"), "directory" \in fate),
                 FreeSlot(h))

ReserveAfter(h, fate) ==
    Granted(IF Retries(h, fate) THEN drain_small_pool(h) ELSE h, Retries(h, fate), fate)

reserve_small_segment(h, fate) ==
    ReserveAfter(maybe_decay_small_pool(h, "age" \in fate), fate)

(* The rescue, run before a call falls short.                              *)
Rescue(h, c, granted) ==
    IF h.directory \/ mode = "armed"
      THEN find_segment_with_free_impl(h, c, TRUE, granted) ELSE Miss(h)

-----------------------------------------------------------------------------
(* A call for n blocks, and what it has got.                               *)
Took(h, s, c, n) ==
    LET k == SmallerOf(n, h.free[s][c]) IN [h |-> pop(h, s, c, k), got |-> k]

TookIfFound(r, c, n) ==
    IF r.seg = None THEN [h |-> r.h, got |-> 0] ELSE Took(r.h, r.seg, c, n)

(* Free blocks first: those of the current segment, then those of the      *)
(* cursor's, then those that discovery finds.                              *)
Discovered(probe, c, granted) ==
    IF probe.seg # None THEN probe
    ELSE find_segment_with_free_impl(probe.h, c, FALSE, granted)

from_bins(h, c, n, granted) ==
    IF h.free[h.small_cur][c] > 0 THEN Took(h, h.small_cur, c, n)
    ELSE TookIfFound(Discovered(cursor_probe_base(h, c), c, granted), c, n)

(* Then fresh ones: of the current segment, or else of a new one; if there *)
(* is none, what the rescue finds.                                         *)
Carve(h, c, n, fate, scalar) ==
    IF scalar THEN carve_block_with_refill(h, c, fate) ELSE carve(h, c, n, fate)

FromNew(new, c, n, fate, scalar) ==
    IF new.seg = None THEN TookIfFound(Rescue(new.h, c, "directory" \in fate), c, n)
    ELSE IF "code" \in fate THEN Carve(new.h, c, n, fate, scalar)
    ELSE [h |-> new.h, got |-> 0]

FromHere(here, c, n, fate, scalar) ==
    IF here.got > 0 THEN here
    ELSE FromNew(reserve_small_segment(here.h, fate), c, n, fate, scalar)

from_fresh(h, c, n, fate, scalar) ==
    IF HasRoom(h, c) /\ "code" \notin fate THEN [h |-> h, got |-> 0]
    ELSE FromHere(Carve(h, c, n, fate, scalar), c, n, fate, scalar)

OrFresh(old, c, n, fate, scalar) ==
    IF old.got > 0 THEN old ELSE from_fresh(old.h, c, n, fate, scalar)

alloc_small(h, c, fate) ==
    OrFresh(from_bins(h, c, 1, "directory" \in fate), c, 1, fate, TRUE)

(* refill_class_bump_impl: once the bins have nothing left they are not    *)
(* searched again.                                                         *)
Gained(r, new, old) ==
    [h |-> new.h, got |-> r.got + new.got, exhausted |-> old.got = 0, done |-> new.got = 0]

OnePass(r, old, c, left, fate) ==
    Gained(r, OrFresh(old, c, left, fate, FALSE), old)

refill_class_bump_impl(h, c, want, fate) ==
    FoldLeft(LAMBDA r, i :
               IF r.done \/ r.got = want THEN r
               ELSE OnePass(r, IF r.exhausted THEN [h |-> r.h, got |-> 0]
                               ELSE from_bins(r.h, c, want - r.got, "directory" \in fate),
                            c, want - r.got, fate),
             [h |-> h, got |-> 0, exhausted |-> FALSE, done |-> FALSE],
             [i \in 1 .. want + 1 |-> i])

Answer(r, c, want, fate) ==
    /\ heap' = r.h
    /\ short' = IF r.got = want THEN None
                ELSE [class |-> c, want |-> want, coded |-> "code" \in fate]
    /\ UNCHANGED mode

Alloc(c, fate) == Answer(alloc_small(heap, c, fate), c, 1, fate)

Refill(c, want, fate) ==
    Answer(refill_class_bump_impl(heap, c, want, fate), c, want, fate)

-----------------------------------------------------------------------------
(* What else changes the heap.                                             *)
Settle(h) == heap' = h /\ short' = None /\ UNCHANGED mode

OwnFree(s, c) ==
    /\ heap.live[s][c] > heap.pend[s][c]
    /\ Settle(dealloc_small(heap, s, c))

(* Another thread frees a block; an armed heap is told of the segment.     *)
RemoteFree(s, c) ==
    /\ mode # "unrouted"
    /\ heap.live[s][c] > heap.pend[s][c]
    /\ MapThenSumSet(LAMBDA r : heap.pend[r][c], Slots) < PENDING_MAX
    /\ Settle([heap EXCEPT !.pend[s][c] = @ + 1,
                           !.notified = IF mode = "armed" THEN @ \cup {s} ELSE @])

(* One cut of the maintenance pass: the freed blocks of a few classes.     *)
drain_sidecar_ingress_bounded(s, D) ==
    /\ mode = "armed"
    /\ D # {} /\ D \subseteq Changed(heap, s)
    /\ LET Kept == [c \in Classes |-> IF c \in D THEN 0 ELSE heap.pend[s][c]]
           cut == [heap EXCEPT !.pend[s] = [c \in Classes |-> @[c] - Kept[c]]]
       IN  Settle([drain_segment_sidecar(cut, s) EXCEPT !.pend[s] = Kept])

(* A large allocation that the system refuses gives the pool back first.   *)
DrainPool ==
    /\ heap.pool # <<>>
    /\ Settle(drain_small_pool(heap))

RegisterLarge ==
    /\ ~ TableFull(heap)
    /\ Settle(Register(heap, "large"))

RecycleLarge(s) ==
    /\ heap.kind[s] = "large"
    /\ Settle(Recycle(heap, s))

(* trim_cold_retention, between two owners of the heap: the pool and an    *)
(* empty current segment are released, the directory is dropped.           *)
trim_cold_retention ==
    /\ mode = "armed"
    /\ LET g == drain_small_pool(heap)
           cur == g.small_cur
           h == IF Empty(g, cur) /\ g.kind[cur] = "small"
                  THEN Recycle([g EXCEPT !.small_cur = PRIMORDIAL], cur) ELSE g
       IN  Settle([h EXCEPT !.directory = FALSE, !.bits = {},
                            !.streak = [c \in Classes |-> 0],
                            !.cursor = [c \in Classes |-> None]])

(* A new owner does not inherit the cursors of the last one.               *)
Reclaim ==
    /\ mode = "armed"
    /\ Settle([heap EXCEPT !.cursor = [c \in Classes |-> None]])

Next ==
    \/ \E c \in Classes, fate \in FATES :
         Alloc(c, fate) \/ \E want \in 1 .. WANT : Refill(c, want, fate)
    \/ \E s \in Slots, c \in Classes : OwnFree(s, c) \/ RemoteFree(s, c)
    \/ \E s \in Slots, D \in SUBSET Classes : drain_sidecar_ingress_bounded(s, D)
    \/ \E s \in Slots : RecycleLarge(s)
    \/ DrainPool \/ RegisterLarge \/ trim_cold_retention \/ Reclaim

Spec == Init /\ [][Next]_vars

-----------------------------------------------------------------------------
TypeOK ==
    /\ mode \in MODES
    /\ heap \in HeapType
    /\ short = None \/ short \in [class : Classes, want : 1 .. WANT, coded : BOOLEAN]

DirectoryIsExact ==
    heap.bits = IF ~ heap.directory THEN {}
                ELSE {b \in Classes \X Slots :
                        IsSmall(heap, b[2]) /\ heap.free[b[2]][b[1]] > 0}

CursorsAreLive ==
    \A c \in Classes : heap.cursor[c] # None =>
        IsSmall(heap, heap.cursor[c]) /\ heap.cursor[c] # heap.small_cur

PoolHoldsTheEmpty ==
    /\ IsInjective(heap.pool)
    /\ ToSet(heap.pool) = {s \in Slots : /\ heap.kind[s] = "small"
                                         /\ s # heap.small_cur
                                         /\ Empty(heap, s)}

(* The owner's hints agree with its segments after every operation: the    *)
(* directory has a bit exactly for the bins with a block (a stale bit would *)
(* outlive its slot, a missing one hide a block for PERIOD searches), a    *)
(* cursor names a small segment that is still there and is not the current *)
(* one, and the pool holds each empty segment once, so that none is        *)
(* released twice and none is forgotten (directory.rs, class_cursor.rs,    *)
(* alloc_core_small_pool_impl.rs).                                         *)
HintsAreExact ==
    TypeOK /\ DirectoryIsExact /\ CursorsAreLive /\ PoolHoldsTheEmpty

(* A segment that a drain might give back altogether.                      *)
MayGo(h, s) ==
    /\ h.kind[s] = "small" /\ s # h.small_cur
    /\ h.live[s] = h.pend[s] /\ ~ Empty(h, s)

(* The drains that find_segment_with_free may put off.                     *)
PutsOff(h, c) == mode = "routed" /\ sidecar_drains_deferred(h, c)

(* The blocks of class c that a search on h can come by.                   *)
Ready(h, c) ==
    MapThenSumSet(LAMBDA s : h.free[s][c] + IF PutsOff(h, c) THEN 0 ELSE h.pend[s][c],
                  {s \in Slots : IsSmall(h, s) /\ ~ MayGo(h, s)})

NothingFresh ==
    \A s \in Slots :
        /\ heap'.bump[s] <= heap.bump[s]
        /\ heap'.kind[s] = "small" => heap.kind[s] = "small"

(* The blocks of class c that the program holds. *)
Held(h, c) == MapThenSumSet(LAMBDA s : h.live[s][c] - h.pend[s][c], Slots)

(* Free before fresh: a call that the free blocks can satisfy, those that  *)
(* other threads have freed and a drain would reclaim among them, is       *)
(* satisfied from them, whatever the cursor, the directory, the ingress    *)
(* and the miss streak say; and a call that falls short for lack of memory *)
(* leaves no free block of its class behind, nor one waiting for a drain,  *)
(* except where the drains were put off and no rescue ran.                 *)
SearchIsComplete ==
    [][\A c \in Classes :
        LET got == Held(heap', c) - Held(heap, c)
            rescued == heap'.directory \/ mode = "armed"
        IN  /\ short' = None /\ ~ NothingFresh => got = 0 \/ Ready(heap, c) < got
            /\ short' # None /\ short'.class = c =>
                 /\ Ready(heap, c) < short'.want
                 /\ short'.coded => \A s \in Slots : IsSmall(heap', s) =>
                      /\ heap'.free[s][c] = 0
                      /\ heap'.pend[s][c] = 0 \/ (PutsOff(heap, c) /\ ~ rescued)]_vars

(* "so a skipped drain always ends in a carve that advances the bump"      *)
(* (scan_backoff.rs:53-54): a call for one block that puts the drains off  *)
(* gets its block.                                                         *)
SkippedDrainEndsInCarve ==
    [][short' # None => short'.want > 1 \/ ~ PutsOff(heap, short'.class)]_vars
=============================================================================
