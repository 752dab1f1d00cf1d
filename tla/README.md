# A TLA+ model of sefer-alloc

sefer-alloc is a `#[global_allocator]` written in Rust. Every thread leases a
*heap* from a global registry and is that heap's only writer; blocks may be freed
by any thread. This directory models the parts of it in which several threads, or
a long history of one thread, meet shared words: the leases and the threads that
hold them, the cross-thread frees, the search for small blocks and what is kept
of them at hand, the life of Large segments, the tables, the handle regions, and
the small crates underneath. TLC checks each module on small instances; TLAPS
proves theorems about some of them for all values of the constants.

Paths below are relative to the repository. The configuration modelled is the
`production` feature set, without `hardened`, `alloc-stats` and the
experimental features.

## 1. Inventory

| Component | Source | State it keeps | Operations | Model |
|---|---|---|---|---|
| Heap slot leases | `src/registry/heap_registry/{claim,stack}.rs`, `heap_slot.rs` | state byte of each slot, whether its heap is built, `count`, `reuse_hint` | claim (pick, compare-and-swap, construct), drop of a lease, maintenance lease | `HeapRegistry` |
| FREE-slot bitmap | `src/registry/bootstrap/free_slot_hint.rs` | bit per slot, summary bit per word | `publish`, `forget`, `take_nonempty` | `FreeSlotHint`, `FreeSlotSet` |
| Saturation word | `src/registry/bootstrap/saturation.rs` | version and mark in one word | observe, mark, reset | in `HeapRegistry` |
| Registry chunks | `src/registry/bootstrap/{registry,ensure,chunk}.rs` | chunks of slots, made on first use | ensure a chunk | `HeapRegistry` (one step), `OncePtrCell` |
| OncePtrCell | `crates/once-ptr-cell` | one word: null, sentinel or pointer | `get`, `get_or_try_init` | `OncePtrCell`, `OnceValue` |
| Tagged index stack | `crates/tagged-index-stack` | head word (index, tag), links | `push_index`, `pop_index` | `TaggedIndexStack`, `IndexStack` |
| Cross-thread free of small blocks | `src/registry/heap_core_xthread`, `src/alloc_core/alloc_core/sidecar_drain.rs` | pin cache of a producer, sidecar bitmaps | `publish_foreign`; drains of the owner | `RemoteFree` |
| Ingress notification | `src/registry/segment_route/directory/ingress.rs`, `pin.rs` | ARMED/NOTIFIED per entry, two-level mask | notify, take, arm | `RemoteFree`, `LargeSegments` |
| Route directory | `src/registry/segment_route/{directory,registration.rs,shard_lock.rs}` | per shard: sorted list of entries in blocks, index, lock; reference counts | register, unlink, lookup, pin | `RouteDirectory`; atomic in `RemoteFree`, `LargeSegments` |
| Small segments | `src/alloc_core/small` | live counts, pool, current segment | allocate, free, pool, trim, release | `SmallSearch`, races in `RemoteFree` |
| Small allocation | `src/alloc_core/small/alloc_core_small`, `src/alloc_core/segment/segment_directory` | free lists per class (bins), bump, cursor, directory of bins, drain deferral | find a segment, refill, carve, rescue | `SmallSearch` |
| Heap core | `src/registry/heap_core` | magazines, depot floor, overflow rings, marks of untouched memory | allocate, free, batches, refill, flush, park, reload, trim, decay | `Magazines` |
| Large segments and cache | `src/alloc_core/large`, Large arms of `mem_impl.rs` and of the drains | phase and generation, cache of freed reservations, drain cursor | allocate, own free, foreign free, drain, evict, decay, reuse | `LargeSegments` |
| Segment table | `src/alloc_core/segment/segment_table` | slots, free list, hash table, cache, memo, kind index | register, unregister, recycle, lookup | `SegmentTable` |
| Maintenance | `heap_registry/maintenance.rs`, `src/global/maintenance_service.rs`, `heap_core/state/ownership.rs` | state of the service, cursors of the passes and of the drain in each heap, idle count of the fallback heap | start, pass, visit of a heap, visit of the fallback heap | `Maintenance`; the lease in `HeapRegistry` |
| Thread binding, teardown | `src/global/{tls_heap,process_exit}.rs` | thread-local pointer, guard, TORN | bind, retry, unbind, exit | `ThreadHeaps` |
| Fallback heap | `src/global/fallback.rs` | initialisation state, spin lock | allocate, free, give up at exit | `ThreadHeaps` |
| GlobalAlloc face | `src/global/sefer_alloc` | none of its own | alloc: thread's heap or fallback heap | `ThreadHeaps` |
| Exact-object prototype | `src/global/exact_object` | per shard: open-addressing table of descriptors, lock, hint | allocate, free, rehash | `ExactObject` |
| Size classes | `crates/size-classes` | table and lookup, built once | classify a request, divide | `SizeClasses` |
| Epoch and sharded region | `src/concurrent/{epoch,sharded}` | slots with generations, free list, remote queue, epochs | insert, get, remove by this shard or another | `EpochRegion`, `HandleStore` |
| Copy-on-write region | `src/concurrent/lock_free` | one snapshot: tree of pages, chain of vacant slots | insert, get, remove | `LockFreeRegion`, `HandleStore` |

`PROJECT.json` lists the remaining parts (configuration, system calls, the typed
region, test and benchmark crates) with the reason each has no model.

### How they interact

A thread that allocates looks at its thread-local pointer. If it has none it asks
the registry for a heap: the FREE-slot bitmap and the reuse hint propose a slot,
the compare-and-swap on its state byte decides. The slot lives in a chunk that a
OncePtrCell makes on first use. A thread that is refused, or whose destructors
have run, is served by the fallback heap under a lock. The size classes say
which magazine of the heap a request goes to. Magazine, depot and overflow are
filled from the segments of the heap: the search tries the current segment, the
cursor, the directory, the notified segments and the others before it carves a
new block or reserves a new segment. The heap finds its segments through its
segment table; each also has an entry in the process-wide route directory. A
thread that frees a block of another heap finds
that entry, marks the block in the entry's sidecar (small) or changes the
entry's word (Large) and, for a small block, notifies the heap through the
ingress mask. The owner looks at the mask, or visits its Large segments, whenever
an allocation is not served from what it has at hand. When a segment is empty it
is pooled or released and its address, its table slot and its notification bit
serve a later segment, while other threads may still hold pins on the old entry.
A maintenance worker borrows heaps that nobody leases. At thread exit a guard
gives the lease back; at process exit the threads stop where they are, and who
is left must not wait for a lock that one of them holds.

The regions of `src/concurrent` stand beside the allocator: handle stores that
threads share.

### What is hard

* Several words that must agree and cannot be written together: word and summary
  of the bitmap; mask and summary of the ingress; sidecar bit and ARMED state;
  slot state, hints and saturation word; header word and entry word of a Large
  segment; generation and value of a region's slot.
* Short cuts that answer "none" and must be right: the directory of bins, the
  empty-table hint, the deferred drains, the saturation mark, the drain hint.
* Identity that is used again: slots, base addresses, notification bits, route
  entries, stack indices, lookup keys.
* Failure half way: no memory for a chunk, a heap, a route, a directory block, a
  class code or a refill; a constructor that unwinds.
* Threads that are gone: teardown with destructors that still allocate, process
  exit with locks held.
* Ends of counters: the saturation version, the generation of a Large
  reservation or of a region's slot, the tag of the stack; the last class of the
  lookup table and the last bit of a product.
* Long histories of one thread: blocks that move between magazine, depot,
  overflow and segment; a hash table with removals; the pool.
* Progress without a scheduler: bounded retries, a cursor that must reach every
  segment, waiting for a winner that may fail.

The list of hazards in `PROJECT.json` names the line where each one bites and
the properties that would catch it.

### What makes each component correct

* **Leases**: one writer per heap; a heap is built once; a claimable slot is never
  forgotten; a refused claim overlooked nothing.
* **Bitmap**: it is a set; its summary hides nothing for good; a take ends.
* **OncePtrCell**: one initialiser at a time, one pointer ever, no loser waits for a
  winner that is gone.
* **Stack**: it is a stack, in spite of sleepers (no ABA); it is lock-free.
* **Remote free**: a free reaches the segment its block belongs to, no wake-up is
  lost, every freed block is reclaimed, entries live exactly as long as somebody
  can reach them, only empty segments are released and none is forgotten.
* **Route directory**: it finds exactly what is registered, its memory is accounted
  for, its lock does not stop a process from ending.
* **Small search**: the hints agree with the bins; free blocks go before fresh
  memory; a refused call has left no free block behind.
* **Magazines**: a block is in one place; live counts are exact; memory said to be
  untouched is; the books of the overflow balance; fast lanes do what slow paths do.
* **Large**: a reservation has one keeper; a block keeps its memory; a foreign free
  is recorded and reclaimed; the cache's books balance.
* **Segment table**: lookups are exact after any history; slots are accounted for.
* **Threads**: nobody uses a heap that he does not lease; no lease is lost; null means
  that memory is out; exit is not blocked; a refused thread binds at last.
* **Exact objects**: the table knows exactly the narrow blocks; a free goes home.
* **Size classes**: the class of a request is the least one that fits.
* **Regions**: a handle leads to its own value until it is removed and to nothing
  after; no slot is lost; no reader sees a destroyed value.

## 2. Modules

| Module | About |
|---|---|
| `FreeSlotSet`, `FreeSlotHint` | abstract set, bitmap |
| `HeapRegistry`, `HeapRegistryProofs`, `MCHeapRegistry` | leases, proofs of them and of `Maintenance`, instance |
| `Maintenance` | the maintenance service, its passes and its bounded drains |
| `OnceValue`, `OncePtrCell` | abstract value, cell |
| `IndexStack`, `TaggedIndexStack` | abstract stack, tagged stack |
| `MCPrimitives`, `PrimitivesProofs` | sum of `OncePtrCell`, `TaggedIndexStack` and `FreeSlotHint`, proofs of all three |
| `ThreadHeaps`, `ThreadHeapsProofs`, `MCThreadHeaps` | threads, leases and the fallback heap, proofs |
| `RemoteFree`, `RemoteFreeProofs`, `MCRemoteFree` | cross-thread free of small blocks, proofs |
| `LargeSegments`, `LargeSegmentsProofs`, `MCLargeSegments` | life of Large allocations, proofs |
| `SmallSearch`, `MCSmallSearch` | the search for a free small block |
| `Magazines`, `MagazinesProofs`, `MCMagazines` | small blocks at hand, proofs |
| `SegmentTable` | lookup structures of a heap |
| `RouteDirectory`, `RouteDirectoryProofs`, `ExactObject` | two sharded tables with a lock that gives up, proofs of both |
| `HandleStore`, `EpochRegion`, `LockFreeRegion` | abstract store of handles, two regions |
| `SizeClasses` | table and lookup of the size classes |
| `MCMaintenance` | sum of `HeapRegistry` and `Maintenance`, for liveness |
| `MCShards` | sum of `RouteDirectory` and `ExactObject` |
| `MCDrains` | sum of `RemoteFree` and `LargeSegments`, for liveness |
| `MCSlotTables`, `SlotTablesProofs` | sum of `SegmentTable`, `EpochRegion`, `LockFreeRegion` and `SizeClasses`, proofs of the first two |

A *sum* runs several small components in one state machine. Its variable `kind`
chooses one at the start; that one moves, by its own `Next`, and the others stand
at an initial state for ever. A property of a component is guarded by `kind` or
true of a component that stands. The fairness of the sum is that of its parts:
where two parts have one, weak (or strong) fairness of the disjunction of the two
actions is fairness of each, because in a behaviour only one side is ever
enabled.

In the concurrent modules there is one action per access of a shared word, and
`pc` names the next access of each thread (of the owner: `opc`). Adjacent
accesses that the code does with nothing in between that another thread could
tell apart are one action. Work of the owner on state that only it writes is one
action with the access that precedes or follows it. Each operator carries the
name of the function or field it stands for where there is one.

Four abstract specifications are implemented, under a refinement mapping, by the
detailed ones: `ImplementsSet` (a bitmap is a set of indices), `SetOnce` (a
cell is a value set once), `IsStack` (head and links are a stack) and
`IsHandleStore` (each region is a store of handles: `HandleStore`). In the last a
call is asked for with its handle and stays asked until one step answers it: a get and a
removal of a live handle answer with it, of a removed one with nothing, and an
insert alone may be refused; `IsHandleStore` adds that it is refused only
when free list and queue are empty. The
registry builds on the first: it uses the bitmap as a set with atomic publish,
forget and take, which is what `ImplementsSet` establishes. `ThreadHeaps` uses the
registry at the interface that `SingleWriter` and `NoSpuriousRefusal` establish.

Many properties are conjunctions of named parts, each with a comment of its own
in its module (`HintsAreExact`, `OneHolder`, `LeasesAreKept`, `TableIsSound` and
others); the mutants break the parts one by one.

Definitions whose name ends in a remark "Wrong variant" are plausible mistakes
(a dropped guard, a stale retry, a missing reset). Nothing refers to them; put in
the place of the definition that follows, each one breaks a property, which
shows that the property depends on that code.

### FreeSlotHint
`words` and `summary` are the two levels. `publish` sets the word's bit, then the
summary's; `forget` and `take_nonempty` clear the word's bit and, when the word
has become zero, go through `clear_summary_recheck`, which clears the summary bit,
looks at the word again and sets the bit back if need be. `take_nonempty` gives
up after `TAKE_ATTEMPTS` rounds.

### HeapRegistry
Labels of `pc` follow `claim.rs` and `stack.rs`: pick (hint, bitmap, growth of
`count`, scan), the compare-and-swap on the state of the slot, the constructor
with its failure, the put-back of a candidate, the drop of a lease (state, hint,
spill of the displaced slot, saturation reset) and the maintenance lease. A scan
visits the slots in any order, which includes the order of the code. `WORD_MAX`
stands for the end of the 64-bit saturation word: two bits are flags, the rest
is the version, so a small value lets the version run to its terminal word.
`steady` is a history variable for `NoSpuriousRefusal`.

### Maintenance
`state`, `control`, `spc` and `wpc` are the start protocol: the compare-and-swap on
STATE, the spawn that may be refused, the wait under CONTROL, the notification of the
worker. After its bound a starter aborts the process (`aborted`). A pass visits
SLOT_BUDGET heaps from `cursor`; a visit of a heap that nobody leases is one action,
since the lease excludes everybody else (`HeapRegistry`) and a free published meanwhile
counts as before or after. A segment is reduced to the marks of its sidecar words; what
the drain does with them is `Unit`. The park between two passes has no step of its own.
LOCK_ACQUISITIONS appears as its distance from the last sample, up to 2. `calm` and
`sampled` are history, for `TrimsOnlyIdle`. The probes and injected faults of the test
builds are left out.

### OncePtrCell
`Load`, `Claim`, `Publish`, `Rollback`, `Unwind` and `Spin` are the accesses in
`get_or_try_init` and `init_slow`. `init` takes any time and ends in any way; an
address equal to the sentinel is refused by the assertion and unwinds. That
`init` does not call the same cell again is the documented contract of the
caller. The probe `dbg_rollback_reenterable` is left out.

### TaggedIndexStack
`Push`, `PushLink`, `PushCas`, `Pop`, `PopNext`, `PopCas`. The contract of
`push_index` (an index is pushed by its exclusive owner) is `owner`: popping an
index makes a thread its owner. The model has the panic on a corrupt link, and
`ChainIsFree` says it is out of reach.

### RemoteFree
One heap. An entry is an incarnation number; `base`, `slot`, `linked`, `refs`,
`notified` belong to it. A producer frees a live block: pin cache, directory,
sidecar bit, ARMED test, mask, summary. The owner allocates, frees its own
blocks, takes the summary and the mask words, arms an entry and scans its
sidecar, pools and releases segments. Lookup, insertion and removal are atomic
because the code does them under the lock of a shard (`RouteDirectory` has what
happens under it). The capacity of the pool is chosen at the start from
`POOL_CAPS`. Simplified: the test for a free block treats a block that was never
carved like one on a free list; the owner's frees go straight to the segment
(`Magazines` has what is in front of it); the leaf hierarchy of the sidecar is one
level of words.

### SmallSearch
One heap, alone; one call of the owner is one action, the frees of other threads
arrive between the calls as `pending` blocks of a segment. `MODES` are the kinds of
heap: *unrouted* (no directory, no drains), *routed* (drains that are put off for a
while after they found nothing) and *armed* (drains by notification, and a
directory once a class has been missed `THRESHOLD` times in a row). `HintsAreExact` compares
each short cut with the bins after every call: directory, cursor, pool, current
segment. `SearchIsComplete` is an action property: what a call returned, against the
bins before it. Popping a free block never fails; only the primordial
segment commits its memory in chunks; the system may refuse a commit, a class
code, a directory or a segment.

### Magazines
One heap with its magazines, the depot floor, the overflow rings with their byte
budget, the epochs that decay them and the latches that stop refilling. Every call
is one step; refill, flush, park and reload are operators that each call composes as
the code does. One block, `it`, is followed by name; the others are anonymous and
counted. The feature `virgin-zero-skip` is on: `VirginMarksTrue` says that a block
passed off as untouched has not been given out before. `FastLanesAgree` compares
`park_simple` and `reload_simple` with `park_overflow` and `reload_overflow` from the same
state.

### ThreadHeaps
`LOCAL` of a thread is null, a heap, or TORN; the guard gives the lease back when
the destructors of the thread run, in either order with the destructors of the
program, which may allocate. The saturation word makes a refused thread retry only
every `SATURATION_RETRY_INTERVAL` allocations. A claim takes a free heap (`ClaimGets`), finds
no memory for the chunk or the core of one and goes on in recovery (`ClaimFails`, `FailBump`),
or is refused (`ClaimRefused`): when no heap has been free, with its release complete, all
along since the claim began (`steady`); a heap that is FREE in a drop that has not bumped
the word yet may be overlooked. In recovery it is refused when no heap that has been built
was free all along. The maintenance worker is left out: to a claim it is another thread that
takes a heap and gives it back. The fallback heap has three states and a
spin lock. Process exit is that of Windows: `ExitProcess` stops all other threads
where they are and the caller goes on through its own teardown.

### RouteDirectory
One shard. Its sorted list of entries is kept in blocks that an index points to,
split when full and dropped when empty; an insert that needs a block or a larger index
leaves the lock, allocates, comes back with what it brought and starts over. An
entry counts one reference of its owner and one for each pin. `Setups` bounds who
registers which keys, and whether the process exits.

### ExactObject
One shard of the prototype: open addressing with tombstones, rehash, a hint that
the table is empty, read without the lock, and the allocation and free of a narrow
block around it. The system allocator does not give an address out twice.

### EpochRegion
One action per access. `queue` is the remote queue, `pending` its hint, which a
reader may see late: a relaxed load may still read FALSE. `pinned` and `limbo` stand for
the crate crossbeam-epoch (external): a value taken out is destroyed when no
thread that was pinned at that time still is. A slot whose generation has reached
`MAX_GEN` is retired. Routing in `ShardedRegion` chooses between removal by this
shard (under the mutex) and by another one (through the queue): the choice `mine`.

### LockFreeRegion
A reader loads one snapshot and looks into it in one step, which the code may do
because a snapshot is immutable; writers exclude each other with a mutex and publish
by one store. The page table (`push`, `set`, `from_vec`) is modelled as nested
sequences; the way to a page is a recursive function of the level. `PAGE` is chosen at
the start and stays.

### SizeClasses
`BITS` = 8 and `ROUNDS` = 3 keep 64 = 2^6 in proportion: the reciprocal by Newton's
method needs one step for each doubling of the valid bits, and products wrap at
2^BITS. Schemes whose parameters `build_table` refuses are not started, except
those that show the refusal. The limit of 256 classes is left out.

### LargeSegments
One heap, its table, its cache of freed reservations and the producers that free
its blocks. `hdr` is the header word that the owner alone writes, `entry` the
route word where producers and owner meet. `publish_pending` reads the
generation of its entry and compares and swaps; the generation of an entry is
always 1, so this is one step. Header transitions within one operation of the
owner are one step. Among equally good cache entries any may be chosen; the clock
of the decay is a free choice. The background visit of a drain may choose any
slot. Left out: realloc in place, dropping a heap, the fallback owner.

### SegmentTable
Owner only, one action per operation. A root is its lookup key with a flag for
a *biased* root, whose header is in the window before its payload. `hash_index` is
a constant function: the argument does not depend on which hash the code uses.
Insertion probes; removal is the backward shift of `hash_remove`, a function of the number of
buckets looked at. The mismatch paths for a corrupted `segment_id` are left out.

## 3. Runs

| Run | Properties | Instance | Distinct states |
|---|---|---|---|
| `slot_tables` | `TableIsSound`, `RegionsAccount`, `RegionsAreStores`, `SizesAreServed` | table: 3 slots, 5 keys, 5 buckets, 2 cache lines; epoch region: 2 threads, 2 slots, 2 generations; copy-on-write region: pages of 1 and of 2 slots, 0 or 3 pages at the start, 4 inserts; 7 schemes of sizes | 202 thousand |
| `registry` | `NoSpuriousRefusal`, `SingleWriter`, `HeapBuiltOnce`, `NoSlotLost` | 2 threads, 1 worker that reclaims, 2 slots in 1 chunk, one saturation version before the last | 5.33 million |
| `maintenance` | `ServiceIsHonest`, `ClaimEndsWhenOthersPark`, `ServiceDelivers` | registry: 2 threads, 1 worker, 1 slot, the first reset ends the saturation word, the worker reclaims; service: 1 or 2 starters, the fallback heap or up to 2 heaps of 1 slot, or 1 heap of 2 slots or of 2 words, budgets of 1, trim at the second idle visit | 236 thousand |
| `remote` | `EveryReferenceCounted`, `FreeReachesItsSegment`, `NoLostWakeup`, `PoolingIsSound` | 2 producers, 3 incarnations, 3 slots, pool of 0 or 1 | 2.86 million |
| `drains_live` | `FreesComeHome` | small: 2 producers, the primordial segment with 2 blocks; Large: 2 producers, 2 reservations, a drain of 1 | 193 thousand |
| `large` | `ReservationsAreKept`, `BlockKeepsItsMemory`, `ForeignFreeIsRecorded` | 2 producers, 3 reservations, 2 usable slots, cache of 2 slots and 3 bytes, generations up to 2 | 949 thousand |
| `primitives` | `SoleInitialiser`, `ChainIsFree`, `NonemptyWordIsVisible`, `SetOnce`, `IsStack`, `ImplementsSet`, `TakeEnds`, `Progress` | cell: 3 callers, 2 addresses; stack: 3 threads, 2 indices, tags up to 3; bitmap: 2 threads, 2 words of 2 bits, 4 attempts | 159 thousand |
| `thread_heaps` | `LeasesAreKept`, `NullMeansOom`, `ExitIsNotBlocked`, `BindsAtLast` | 2 threads, 1 heap | 383 thousand |
| `shards` | `DirectoryIsSound`, `TableIsExact`, `ExitGoesOn` | directory: 2 threads with 2 or 3 keys, or 1 thread with 7, blocks of 2 or 4; table: 2 threads, 3 addresses, capacity from 2 | 359 thousand |
| `magazines` | `OneHolder`, `VirginMarksTrue`, `OverflowAccounts`, `FastLanesAgree` | 3 classes, 2 with a depot, magazines of 2, budgets of 3, 4 and 6 | 572 thousand |
| `search` | `HintsAreExact`, `SearchIsComplete` | each kind of heap, 1 class, 3 slots, segments of 2 blocks | 298 thousand |
| `deferral` | `SkippedDrainEndsInCarve` (violated) | a routed heap of the same size | stops at the violation |

`deferral` is about a comment: `scan_backoff.rs` says that a drain that is skipped
always ends in a carve. `sidecar_drains_deferred` looks at the bump and at the room in
the segment, but the carve also needs a class code for the block, whose memory
may be refused; then the call returns null with the drains put off. The allocation
that fails is one that the system had refused memory to, so nothing but the comment
is at stake.

Safety and liveness share a run where the instance that shows one is large
enough for the other. `registry`, `remote` and `large`
are larger than a temporal check of them would allow, and are safety only.
Deadlock is checked except in `thread_heaps`, `shards` and `maintenance`, where the
process may have ended.

### Why the bounds are enough
Each bound is chosen so that the case the property is about does occur.

* Bitmap: two bits in a word (a word that stays non-zero), two words (a summary
  with something else in it), a publisher between the clearing of a word by a
  taker and its second look. `TAKE_ATTEMPTS` is twice the
  number of words, as in the code. That a third thread changes nothing for safety
  is proved (section 4).
* Segment table: homes 3, 4, 4, 0 and 3 in five buckets make clusters that run
  over the end of the table. The code has twice as many buckets as slots; here
  the table may be almost full, which only makes clusters longer. Keys differ
  modulo the cache size from the windows of biased roots.
* Regions: two slots with generations 0 to 2 let a slot be used twice and then
  retired while a reader sleeps on its first handle, and one slot wait in the queue
  while the other is at hand. Three pages and fanout 2 make a tree of height 2;
  growing from nothing passes heights 0, 1 and 2.
* Size classes: the schemes have a lookup whose last bucket ends past the largest
  number, extras before, among and after the run, equal extras, and overflow.
* `registry` and `maintenance`: two claimants and a worker can meet on one slot in every
  combination of lease, construction and maintenance; two slots let one be displaced
  from the hint by the other; one slot makes saturation the normal case. In
  `registry` the version moves once before its terminal word, so that a scan may
  mark on an old version; in `maintenance` the first reset is the last. In both the
  worker has a budget to reclaim with, which makes it publish its slot again.
* `maintenance`, the service: budgets of 1 make every pass and every drain end half way,
  so that both cursors matter; the heaps are leased, filled, left and freed into
  meanwhile.
* `remote`: three incarnations suffice for a base address, a slot and a
  notification bit to be used again while a producer sleeps on the first
  incarnation, with another segment in between.
* `drains_live`: two blocks in two sidecar words for a scan that is half way.
* `large`: a third reservation displaces one from the cache; the generation limit is
  reached; one slot of the table is vacated and used again.
* `primitives`: a winner, a loser that waits and one that arrives late. ABA on the
  stack needs a pop that sleeps with head A and link B, while others
  pop A, pop B and push A: two indices and three pushes. The tag allows
  exactly three, so the refusal at its end is reached as well.
* `thread_heaps`: one heap for two threads makes refusal, retry and hand-over happen, the
  refusals between the FREE store of a drop and its bump, and for want of memory, included;
  `WORD_MAX` 3 is a saturation word whose mark is the last.
* `shards`: three keys in blocks of two split a block, seven keys in blocks of four
  split twice and enlarge the index; two colliding addresses leave a tombstone in the probe of the other, and a
  third forces the rehash.
* `magazines`: magazines of two and a floor of one let a free pass all stages: full
  magazine, full floor, overflow within the budget, overflow beyond it. A budget of 6 has room
  for three records of a class, and seven blocks reach two of them, so that `park_simple` is taken:
  it wants a record in the ring and room for another one after its own.
* `search`: three segments are the current one, one with a free block and one in the
  pool; streak and divisor of the deferral are 1, so that drains are put off after
  one miss. With one class, `block_size` is 1 and a segment holds two blocks.

### Fairness
Safety is checked without fairness. For liveness, a thread that has begun an
operation takes its next step (weak fairness of its steps): none of these steps
waits for anybody, except `Spin` in the cell, the bounded wait of a claim and the
spin locks, which give up at process exit. No
thread is ever obliged to begin an operation. Two assumptions go further and
are stated with strong fairness: an owner that keeps allocating looks at its
ingress summary again and again (`TakeSummary`), and starts a bounded drain of its
Large segments again and again (`StartDrain(FALSE, None)`). The code promises
nothing to an owner that stops allocating; maintenance is for those: in `maintenance`
the worker of the service runs (weak fairness of its steps), and so do those who start
it, but the bound on their wait need not expire, and nobody has to use a heap.
`ClaimEndsWhenOthersPark` and `CallEnds` are conditional on the other threads
standing still outside their operations, since a claim or a call of `init_slow`
may be overtaken for ever; `LockFree` is the unconditional statement for groups.
`BindsAtLast` speaks of a thread that keeps allocating while a heap stays free, and
assumes that the memory for heaps does not run out for ever (from some time on no
`ClaimFails`); single refusals, for want of memory or in the middle of a drop, are allowed.
The fairness of `shards` is that some thread that can move does: at exit the others
are stopped, and the last one may not wait for them.

### Memory order
The models are sequentially consistent. What the code relies on beyond that
(release publication of a built heap, of a link, of a pointed-to object) is the
subject of the repository's loom suites and is not repeated here. `NoSlotLost`
in particular speaks of a sequentially consistent execution: the swap of
`reuse_hint` is relaxed, and on a weakly ordered machine it may become visible
out of order with the access of the bitmap.

## 4. Proofs

TLAPS checks these theorems for every value of the constants allowed by the
named assumptions of each module.

| Theorem | Says |
|---|---|
| `PrimitivesProofs!HintTypeCorrect` | `PrimitivesSpec => []H!TypeOK` |
| `PrimitivesProofs!PublishedStaysVisible` | `PrimitivesSpec => []NonemptyWordIsVisible` |
| `PrimitivesProofs!HintImplementsSet` | `PrimitivesSpec => ImplementsSet` |
| `HeapRegistryProofs!TypeCorrect` | `Spec => []TypeOK` |
| `HeapRegistryProofs!RegistrySingleWriter` | `Spec => []SingleWriter` |
| `HeapRegistryProofs!RegistryBuildsOnce` | `Spec => []HeapBuiltOnce` |
| `HeapRegistryProofs!RegistryLosesNoSlot` | `Spec => []NoSlotLost` |
| `HeapRegistryProofs!RegistryRefusesHonestly` | `Spec => []NoSpuriousRefusal` |
| `HeapRegistryProofs!ServiceStaysHonest` | `BothSpec => []ServiceIsHonest` |
| `PrimitivesProofs!TypeCorrect` | `Spec => []TypeOK` |
| `PrimitivesProofs!OneInitialiser` | `Spec => []SoleInitialiser` |
| `PrimitivesProofs!CellIsSetOnce` | `Spec => SetOnce` |
| `ThreadHeapsProofs!TypeCorrect` | `Spec => []TypeOK` |
| `ThreadHeapsProofs!LeasesStayKept` | `Spec => []LeasesAreKept` |
| `ThreadHeapsProofs!NullIsOom` | `Spec => []NullMeansOom` |
| `RemoteFreeProofs!FreesReachTheirSegments` | `Spec => []FreeReachesItsSegment` |
| `RemoteFreeProofs!ReferencesAreCounted` | `Spec => []EveryReferenceCounted` |
| `RemoteFreeProofs!PoolHoldsEmptySegments` | `Spec => []PoolingIsSound` |
| `RemoteFreeProofs!WakeupsArrive` | `Spec => []NoLostWakeup` |
| `PrimitivesProofs!ChainStaysFree` | `PrimitivesSpec => []ChainIsFree` |
| `PrimitivesProofs!StackImplemented` | `PrimitivesSpec => IsStack` |
| `LargeSegmentsProofs!ReservationsStayKept` | `Spec => []ReservationsAreKept` |
| `LargeSegmentsProofs!BlocksKeepTheirMemory` | `Spec => []BlockKeepsItsMemory` |
| `LargeSegmentsProofs!ForeignFreesAreRecorded` | `Spec => []ForeignFreeIsRecorded` |
| `SlotTablesProofs!RegionAccountsHold` | `Spec => []RegionAccounts` |
| `SlotTablesProofs!RegionIsHandleStore` | `Spec => IsHandleStore` |
| `SlotTablesProofs!SegmentTableStaysSound` | `SlotTablesSpec => []TableIsSound` |
| `RouteDirectoryProofs!DirectoryStaysSound` | `Spec => []DirectoryIsSound` |
| `RouteDirectoryProofs!TableStaysExact` | `ShardsSpec => []TableIsExact` |
| `MagazinesProofs!InvariantHolds` | `Spec => []IInv` |
| `MagazinesProofs!BlocksHaveOneHolder` | `Spec => []OneHolder` |
| `MagazinesProofs!MarkedBlocksAreVirgin` | `Spec => []VirginMarksTrue` |
| `MagazinesProofs!OverflowKeepsItsBooks` | `Spec => []OverflowAccounts` |
| `MagazinesProofs!LanesAgree` | `Spec => []FastLanesAgree` |

**Bitmap** (`SizeAssumption`: positive sizes; `MCPrimitives` has TLC evaluate it). `NonemptyWordIsVisible` is inductive
with the typing. The refinement needs that an index and its pair (word, bit)
determine each other (`IndexOfWordBit`, `WordBitOfIndex`) and that the lowest set
bit of a non-empty word is one of its bits, from the well-foundedness of `<`.

**Leases** (`RegistryAssumption`: threads and workers differ, at least one slot, a
saturation word of full width). `TypeOK` needs `IdxOK`: at labels where an actor
has a slot, its index is a slot. `SingleWriter` is not inductive by itself; the
invariant `OwnerInv` adds that the state byte names the kind of the holder
(`StateNamesHolder`): a slot whose holder is live is Live, one under construction
Initializing, one under maintenance Maintenance; with it a compare-and-swap from
Free or Empty can only succeed when nobody holds the slot, and the ones the
code calls fatal cannot fail. `HeapMatches` ties the state to whether the heap is
built, which gives `HeapBuiltOnce`. Steps that touch neither state nor holders are
dispatched by one lemma (`QuietOwner`).

**Cell** (`CellAssumption`: the sentinel, null and the addresses differ). The
invariant is `SoleInitialiser` with the typing and `RawIsMade`: what a winner is
about to publish came out of its init. Without the equivalence of sentinel and
winner in `SoleInitialiser` a rollback could hit a published pointer. For
`CellIsSetOnce`, a publication maps to `Construct`, both rollbacks to `Fail`, and
every other access to `Give`, `Get`, `Call` or a stutter.

**What a claim finds** (on top of `OwnerInv`). `NoSlotLost` is not
inductive: an actor that saw a slot Empty and is about to claim it holds it only while
it is Empty, because otherwise its compare-and-swap fails and nobody has the slot.
`Tracked` counts that actor only in that case and `TrackInv` adds that who is about
to claim a slot as Free did not see it Empty. `NoSpuriousRefusal` needs to know what a
scan has seen so far (`SeenTrue`): while the version it read stands, a slot that it passed
over and that can be claimed now belongs to a release that has yet to move the version. From
that, `SaturationSound` (a standing mark is true) and `NoneOverlooked` (a claim on its
way to a refusal has met every heap that stays free, `SteadyFree`) follow together.

**Service** (`ServiceAssumption`: positive budgets; any number of starters, heaps, slots and
words; `MCMaintenance` has TLC evaluate it). Two invariants in one. `StartInv`: who has made the state
STARTING is the only one that spawns, and STARTING lasts until that thread or the worker
ends it; so there is one worker, and who was told Ok finds it running. `IdleInv` ties the
idle count to what the history says: as long as the samples show no acquisition of the
lock but the worker's own, the good visits in a row are at least as many as the idle samples,
one behind between a sample and the end of its visit. So a trim, which needs
`FALLBACK_IDLE_VISITS` samples, has that many quiet visits behind it but for its own. Nothing is
claimed of when the worker sleeps: it parks after every pass. The theorem is about the
sum: a step of the registry leaves the service alone (`SumIsService`).

**Threads** (`BindingAssumption`: the marks differ from heaps and threads and from
each other, a saturation word of full width). The invariant says for each thread what
LOCAL, the guard and the hand of a call in progress say of one lease (`BoundByGuard`),
who is where between the states of the fallback heap (`FallbackInv`), and that only the
exit of the process makes a call give up (`GaveUpInv`), which leaves a lack of memory as
the only other way to a null pointer.

**Remote free** (`RemoteFreeAssumption`: finitely many producers and blocks, which the
counts need; slot 0 belongs to the primordial segment). `HandInv` says that a block in the
hand of a producer is not free in its segment, so that segment is neither pooled nor
released (`PoolInv`: those have only free blocks), and stays linked in the directory
(`TableInv`): a free reaches its segment although bases, slots and bits are used
again. `RefInv` counts the references: one while the segment is registered, one for each
producer whose cache or hand names the entry. `NoLostWakeup` is not inductive; `NoteInv` is: a
notified entry has a token on its way, which is its mask bit with the summary bit, or
with a thread about to set it, or the owner that has taken it; `SeenInv` adds that a
marked block of an entry that is not notified belongs to a thread that has yet to look at
the state of the entry, or to a scan that has yet to reach it. `LiveInv` makes the live counts exact.

**Stack** (`StackAssumption`: finitely many indices, TAIL is none of them; `MCPrimitives`
has TLC evaluate it). `ChainInv`: from the head the links form a chain without
repetition that holds exactly the indices nobody owns. `PopInv` says why there is
no ABA: while the observed tag is that of the head, the observed index is the head or was
popped by another thread since, and what was read as its link is still its link if the
observation is the head. That `Chain`, a recursive function, is this chain is proved by
least counterexample (below). A successful compare-and-swap maps to a push or a pop
of `IndexStack`, every other access to a stutter. Both are shown for the stack alone
(`StackIsFree`, `StackIsStack`) and carried to `PrimitivesSpec`, whose steps leave the stack
alone or are steps of it (`SumIsStack`, and `SumIsHint` for the bitmap).

**Large** (`LargeSegmentsAssumption`: positive sizes and limits; any set of producers,
reservations and entries). `KeeperInv`: the phase in the header says who keeps a
reservation, Live the table and Cached the cache; `TableInv`: a base is in one slot, and
slot and route belong together; `FateInv`: what is registered is out, in the generation
it was handed out with, and its route is Pending exactly when a producer has sent it
home; `ProducerInv`: the route that the producer of a moving block has pinned stays in the
directory. That the books of the cache balance (`BooksInv`: bytes used = sum over the
cached reservations) needs sums, next paragraph; that the cursor of a bounded drain
stays in range is `OwnerType`.

**Epoch region** (`RegionAssumption`: finitely many threads, at least one slot and one
generation, marks that differ from handles; `MCSlotTables` has TLC evaluate it).
`RegionAccounts` counts; the invariant says the same without numbers, and more.
`PlaceInv`: a slot has a live handle, is on the free list, in the queue or in the hands
of one thread, never two of these, and if none then its generation is the last.
`GenInv`: no handle that was given out is ahead of its slot; who has taken a slot is at
its generation, who has evicted one is a generation behind it; so of two removals of one
handle one succeeds, and a slot evicted at its last generation is known to be retired.
`ValueInv`: a live slot has the value of its handle, and else only a slot on its way in
or out has one. `ReaderInv`: a reader is pinned; the value it has read is that of its
handle *if* the slot has not moved since, which is what the second look at the generation
is for, and if that value is to be destroyed, its destruction waits for the reader.
`LenInv` adds that `len` counts the live handles and the removals not yet counted. The
drain's check for retired slots never finds one, since no such slot is on either list:
so the loop of the drain (`Joined`) appends the whole queue (`JoinedIs`). In the
refinement an insert takes effect at `Mint`, a removal at `Evict`, a look at `Validate`
or where it misses.

**Segment table** (`TableAssumption`: positive sizes, more buckets than slots, any hash into
the buckets; `MCSlotTables` has TLC evaluate it). `HashInv`: the buckets list the key of each
slot, with its slot, once, and no bucket on the way from the home of an entry to its own is
vacant (`Whole`). Since there are more buckets than slots some bucket is vacant
(`SomeVacant`), so a probe ends, and where it must (`BucketIs`). Insertion keeps this by
`InsertListed`. The walk of `hash_remove` has an invariant of its own, `Walking`, about the
hole it carries: all entries but the removed one are listed once outside the hole; the
table has no other gap, and the hole is on no way of an entry already looked at. An entry
that stays behind the hole has its home behind it (`WalkPasses`); one that moves up
could only uncover a way that leads around the whole table, over the vacant bucket
(`WalkMoves`, with `Around`, a fact about remainders); and at a vacant bucket nobody's way
leads over the hole any more (`WalkStops`, with `Between`). `KindsInv` says the two levels of the index are
the slots of each kind and their words; that the least member of the first word named is the next
slot (`NextSlotIs`) needs that division is monotone (`WordsGoUp`). `FreeInv` says that the
free list has each vacant slot that was ever used once, `CachesInv` that what a line or the memo
answers stands in a slot under the key of the line. The other members of the sum leave
the table alone (`TableRests`).

**Route directory** (`RouteDirectoryAssumption`: finitely many threads, which the counts
need, and Nobody is none of them; NoEntry is no entry; keys that are looked up are keys,
of which there may be infinitely many; blocks and the first index have room). The first
half is about the sorted index alone. `SplitKeeps`, `MergeKeeps`, `PutKeeps`, `CutKeeps` and
`DropKeeps` say that it stays sorted, with no block empty or too full, and which entries it
then has. The searches of the code count the keys below the one they look for; in a
sorted sequence these are a beginning of it (`CountOfBeginning`), so the count is the
place (`BlockIs`, `PositionIs`, `PlaceIs`). `WithEntryIs` and `WithoutEntryIs` put this
together: an insert adds its entry and a removal takes its own, whatever is split or
merged on the way. The second half is the invariant. `ShapeInv`: the index is sorted and its
bookkeeping right; `OwnerInv`: the reference of the owner of an entry belongs to a
registration, to the shard for good, or to the one call that registers or removes it;
`RefInv` and `MemoryInv` count references, blocks and indexes; `CallInv` says what a call
has brought or found. Without sortedness a lookup would miss an entry, and without
`OwnerInv` two removals of one entry could both drop its reference.

**Table of exact objects** (`ExactAssumption`: any threads and addresses, any hash into the
naturals, a first array of two buckets at least; `MCShards` has TLC evaluate it). `Probes`
says of an array that every descriptor is listed once and no bucket on its way, from where its
hash starts, is EMPTY. From it, a probe finds what is listed and nothing else (`FindsListed`):
two buckets are never equally far from a start (`FarInjective`, about remainders). It
survives an entry in the first EMPTY bucket or in a tombstone before it, by `FirstEmptyMayGo`
and `BucketMayGo`, and a tombstone in place of an entry (`TombProbes`). The rehash is a recursive function over
the old buckets; after `k` of them the new array holds their descriptors and is no fuller than `k` allows
(`RefillOne`, `RefillNone`, `RefilledRight`). `SlotsInv` adds the counts and that `used` stays
below the capacity, which is what leaves an EMPTY bucket for a probe to end at. `CallsInv`
is about the calls: one holder of the lock, one thread at a block, and for each place
in a call what the block is and whether it is listed (`TableCall`, `BlockInv`); without
it, `Insert` could meet a duplicate, and a hint read as zero could send a block of the system to the heaps.

**Magazines** (`MagazinesAssumption`: finitely many classes, magazines of two blocks at
least, positive sizes; any number of blocks, of records and any budget). A call is one step, but
it composes up to five operators (a free may evict, flush half a magazine, park, end
an epoch and drop records), so the invariant is stated of a heap `h`, not of the
state, and each operator has a lemma of its own that says which part of it the operator keeps.
`IInv` is `Sound(Heap)` and `Accounted(Heap, user)`. `Sound` has the sizes (`Shape`), the books of the
overflow (`DepotSound`: they need `Unbacked`, that storage not reserved has no records,
or `Trim` and the latches could not be right), `VirginIn` with `Fresh` (memory never
handed out is zero; a refill that marks its blocks relies on it), and `InHand(h, 0, 0)`: the
followed block is cached once if its state byte says so and else nowhere, and counts in
the live count if it is cached or out. Between two operators of one call a block is neither
cached nor with the user: `InHand(h, c, k)` says the same of a heap with `k` blocks on
the way, and the lemmas `HandTakes`, `HandPuts`, `HandIssues`, `HandFills`, `HandLends` and `HandGives` are
the moves. `Accounted` counts the blocks nobody follows, per class: free ones, cached ones and
the user's are all there are; without it a magazine could be lost. Every operator on the
overflow is a record more or a record less at one slot of one ring (`RecordMore`,
`RecordLess`), and `BytesChange` carries the sum; `ParkLane` and `ReloadLane` compare the
lanes with the slow paths term by term, the reopening of latched classes included.

**Recursion and sums.** TLAPS has no rule of induction that the installed provers can
apply to an operator, but it proves that a non-empty set of naturals has a least member
(`HasLeast`, from the well-foundedness of `<`), hence that a non-empty family of subsets of
a finite set has a smallest one (`SmallestSet`). A false statement about a chain or a sum
has a least counterexample, which the unfolded definition refutes. So the sum of the cache,
a community fold, is shown to obey its recursion and to lose a summand with a member
(`TotalIs`, `TotalExists`, `TotalsAgree`, `TotalTake`, `TotalSplit`), the loop of the
region's drain to be a concatenation (`JoinedIs`), the rehash of the table to list what the old array listed (`RefillExists`), the
walk of `hash_remove` to keep its invariant up to the last bucket (`WalkExists`, `WalkEnds`), the sum of the lengths of the
blocks of the directory to be the number of its entries (`CountsPlaces`, `EntriesCounted`), the sum
over the rings of `Magazines` to change as one summand does (`SumChanges`), and what each
round of the decay keeps to hold after the last (`Reaches`, `RunExists`). Each such definition needs lemmas of its own.

Out of the prover's reach, and checked by TLC only: every liveness property
(`TakeEnds`, `ClaimEndsWhenOthersPark`, `Progress`, `FreesComeHome`, `ExitIsNotBlocked`,
`BindsAtLast`, `ExitGoesOn`, `ServiceDelivers`) and anything with ENABLED. Checked by TLC
only because no proof is written: the safety properties of
`LockFreeRegion` (its part of `RegionsAccount` and `RegionsAreStores`), `SmallSearch` and
`SizeClasses`. The page table and the class tables are recursions whose
lemmas are not written. No module with a proof uses a RECURSIVE operator.

## 5. What is not modelled

* Weak memory, as said above, and anything that depends on provenance or layout.
* The end of the incarnation counter of route entries, and the block-issue
  transactions of `route_slots.rs`.
* Realloc, in place or not, small or Large.
* The node buckets of numa-aware builds, decommit and recommit of retained pages,
  the adaptive and the extended Large cache: none is in the production build.
* Construction and teardown of a whole `AllocCore`.
* In the regions: the claim of shards by threads and its tokens, pinning to nodes,
  foreign region ids, poisoned locks. `crates/sefer-region` is a membrane over the
  slotmap crate.
* The guards against wrong frees (double free, foreign pointer): the callers of the
  models are legal.
* The seam to the operating system (`aligned-vmem`, `numa-shim`, `platform/os.rs`) has
  system calls and address arithmetic, but next to no control: in the models a
  reservation or a commit succeeds or fails, a release always succeeds.
* Test drivers, linter, benchmarks, examples and process probes (`globalalloc-model`,
  `ghost-lint`, `malloc-bench-rs`, `proc-memstat`, `proc-probe`): no state of the
  allocator. They are a large part of the repository's lines.

## 6. Plan

Done: everything in the table of section 2.

Next, with the property each is for:

1. `Incarnations`: route entries up to the last incarnation number, with the
   block-issue transactions.
2. `ShardClaims`: threads that claim shards of a `ShardedRegion` and give them back at
   their end; a shard has one claimant.
3. Realloc in `Magazines` and `LargeSegments`: the old block is live until the new one
   holds its contents.

Proofs, in this order: `LockFreeRegion`, `SmallSearch`.
