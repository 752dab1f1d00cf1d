---------------------------- MODULE HeapRegistry ----------------------------
(***************************************************************************)
(* The slot leases of src/registry: threads claim a heap slot, use the     *)
(* heap in it as its only writer and give the slot back; a maintenance     *)
(* worker borrows FREE heaps for a bounded step.  One action per atomic    *)
(* access of heap_registry/claim.rs and heap_registry/stack.rs.            *)
(*                                                                         *)
(* A claim looks for a candidate in the one-entry reuse hint, then in the  *)
(* FREE-slot bitmap, then by growing the count, then by a scan; only the   *)
(* compare-and-swap on the state of the slot gives it ownership.  When the *)
(* count is at its limit and a scan found nothing, the saturation word     *)
(* lets later claims fail without a scan.                                  *)
(*                                                                         *)
(* The bitmap appears here as the set that FreeSlotHint implements.        *)
(***************************************************************************)
EXTENDS Integers, FiniteSets

CONSTANTS Threads,       \* threads that claim and drop heap leases
          Workers,       \* maintenance workers
          MAX_HEAPS,     \* slots of the registry
          CHUNK_SLOTS,   \* slots of one lazily materialised chunk
          WORD_MAX,      \* largest value of the saturation word (u64::MAX)
          MAINTENANCE_RECLAIM_BUDGET

ASSUME RegistryAssumption ==
    /\ Threads \cap Workers = {}
    /\ MAX_HEAPS \in Nat \ {0}
    /\ CHUNK_SLOTS \in Nat \ {0}
    /\ WORD_MAX \in Nat /\ WORD_MAX % 4 = 3
    /\ MAINTENANCE_RECLAIM_BUDGET \in Nat

Actors == Threads \cup Workers
Slots  == 0 .. MAX_HEAPS - 1
NoSlot == MAX_HEAPS          \* the empty value of reuse_hint, and None

(* HeapSlot::state *)
SlotState == {"Empty", "Live", "Initializing", "Free", "Maintenance"}

VARIABLES
    state, initialised,      \* of each slot
    chunks,                  \* the chunks of slots that are materialised
    count,                   \* slots handed out so far, never decreases
    hint,                    \* reuse_hint: one slot index, or NoSlot
    free,                    \* FREE_SLOTS: the published indices
    sat,                     \* the saturation word
    pc,                      \* the next access of each actor
    idx,                     \* the slot its operation is about
    prev,                    \* what its swap of the hint returned
    failed,                  \* failed_chunk, or NoSlot
    before,                  \* the count a pick has read
    ver,                     \* the saturation word a pick has read
    todo, found,             \* a scan: slots not visited, second choice
    scanSel,                 \* scan_selected
    ooms, spins,             \* ctor_oom_retries, maintenance_retries
    steady                   \* history: see NoSpuriousRefusal

slotVars  == <<state, initialised, chunks>>
hintVars  == <<count, hint, free, sat>>
scanVars  == <<before, ver, todo, found>>
claimVars == <<failed, scanSel, ooms, spins>>
vars == <<slotVars, hintVars, pc, idx, prev, scanVars, claimVars, steady>>

(* Labels at which an actor is the only writer of the heap in slot idx,    *)
(* by the state its slot is then in.                                       *)
LivePcs  == {"forget", "check_init", "cas_init", "trim", "live"}
InitPcs  == {"construct", "set_init", "publish_live", "push_back"}
MaintPcs == {"maint"}

(* Labels between a release of slot idx and its publish_claimable.         *)
ReleasePcs == {"drop_hint", "drop_spill", "drop_sat", "maint_hint",
               "maint_spill", "maint_sat", "push_bit", "push_sat"}

PickPcs == {"pick", "pick_count", "pick_take", "pick_sat", "pick_bump",
            "pick_snap", "scan_begin", "scan", "pick_mark"}

TryPcs == {"recover", "rscan", "slot", "oom_hint", "oom_spill", "oom_sat",
           "observe", "cas_empty", "cas_free", "republish"}

PCs == LivePcs \cup InitPcs \cup MaintPcs \cup ReleasePcs \cup PickPcs
         \cup TryPcs \cup {"idle", "none", "fatal"}

Chunk(i) == i \div CHUNK_SLOTS

TypeOK ==
    /\ state \in [Slots -> SlotState]
    /\ initialised \in [Slots -> BOOLEAN]
    /\ chunks \subseteq {Chunk(i) : i \in Slots}
    /\ count \in 0 .. MAX_HEAPS
    /\ hint \in Slots \cup {NoSlot}
    /\ free \subseteq Slots
    /\ sat \in 0 .. WORD_MAX
    /\ pc \in [Actors -> PCs]
    /\ idx \in [Actors -> Slots \cup {NoSlot}]
    /\ prev \in [Actors -> Slots \cup {NoSlot}]
    /\ failed \in [Actors -> Slots \cup {NoSlot}]
    /\ before \in [Actors -> 0 .. MAX_HEAPS]
    /\ ver \in [Actors -> 0 .. WORD_MAX]
    /\ todo \in [Actors -> SUBSET Slots]
    /\ found \in [Actors -> Slots \cup {NoSlot}]
    /\ scanSel \in [Actors -> BOOLEAN]
    /\ ooms \in [Actors -> 0 .. 1]
    /\ spins \in [Actors -> 0 .. MAINTENANCE_RECLAIM_BUDGET]
    /\ steady \in [Actors -> SUBSET Slots]

Init ==
    /\ state = [i \in Slots |-> "Empty"]
    /\ initialised = [i \in Slots |-> FALSE]
    /\ chunks = {}
    /\ count = 0
    /\ hint = NoSlot
    /\ free = {}
    /\ sat = 0
    /\ pc = [a \in Actors |-> "idle"]
    /\ idx = [a \in Actors |-> NoSlot]
    /\ prev = [a \in Actors |-> NoSlot]
    /\ failed = [a \in Actors |-> NoSlot]
    /\ before = [a \in Actors |-> 0]
    /\ ver = [a \in Actors |-> 0]
    /\ todo = [a \in Actors |-> {}]
    /\ found = [a \in Actors |-> NoSlot]
    /\ scanSel = [a \in Actors |-> FALSE]
    /\ ooms = [a \in Actors |-> 0]
    /\ spins = [a \in Actors |-> 0]
    /\ steady = [a \in Actors |-> {}]

Goto(a, label) == pc' = [pc EXCEPT ![a] = label]
Set(f, a, v) == [f EXCEPT ![a] = v]

-----------------------------------------------------------------------------
(* SaturationHint: bit 0 says "a scan at the limit found nothing", the     *)
(* rest counts the publications.  The count never wraps: at its end the    *)
(* word stays DISABLED, which reads as not saturated.                      *)

DISABLED     == WORD_MAX
LAST_VERSION == WORD_MAX - 3

IsSaturated == sat # DISABLED /\ sat % 2 = 1

ClearBit0(n) == n - (n % 2)

PublishClaimable ==
    sat' = IF sat >= LAST_VERSION THEN DISABLED ELSE ClearBit0(sat + 2)

TryMarkSaturated(snapshot) ==
    sat' = IF snapshot # DISABLED /\ snapshot % 2 = 0 /\ sat = snapshot
             THEN snapshot + 1 ELSE sat

-----------------------------------------------------------------------------
(* pick_with_hint_spill: where a claim looks for a candidate.              *)

(* A slot whose release is complete and that holds a usable heap.          *)
Settled(i) ==
    /\ state[i] = "Free" /\ initialised[i]
    /\ \A a \in Actors : ~ (idx[a] = i /\ pc[a] \in ReleasePcs)

Claim(t) ==
    /\ pc[t] = "idle"
    /\ Goto(t, "pick")
    /\ steady' = Set(steady, t, {i \in Slots : Settled(i)})
    /\ UNCHANGED <<slotVars, hintVars, idx, prev, scanVars, claimVars>>

PickHint(t) ==
    /\ pc[t] = "pick"
    /\ idx' = Set(idx, t, hint)
    /\ hint' = NoSlot
    /\ scanSel' = Set(scanSel, t, FALSE)
    /\ Goto(t, "pick_count")
    /\ UNCHANGED <<slotVars, count, free, sat, prev, scanVars,
                   failed, ooms, spins, steady>>

PickCount(t) ==
    /\ pc[t] = "pick_count"
    /\ before' = Set(before, t, count)
    /\ Goto(t, IF idx[t] < count THEN "slot" ELSE "pick_take")
    /\ UNCHANGED <<slotVars, hintVars, idx, prev, ver, todo, found, claimVars,
                   steady>>

(* summary_nonempty and take_nonempty: one published index, or none        *)
(* whatever is published (see FreeSlotSet).                                *)
PickTake(t) ==
    /\ pc[t] = "pick_take"
    /\ \/ \E i \in free :
            /\ free' = free \ {i}
            /\ idx' = Set(idx, t, i)
            /\ Goto(t, IF i < count THEN "slot" ELSE "pick_sat")
       \/ Goto(t, "pick_sat") /\ UNCHANGED <<free, idx>>
    /\ UNCHANGED <<slotVars, count, hint, sat, prev, scanVars, claimVars, steady>>

PickSat(t) ==
    /\ pc[t] = "pick_sat"
    /\ Goto(t, IF before[t] = MAX_HEAPS /\ IsSaturated
                 THEN "none" ELSE "pick_bump")
    /\ UNCHANGED <<slotVars, hintVars, idx, prev, scanVars, claimVars, steady>>

(* bump_count: the successful iteration of its loop.                       *)
PickBump(t) ==
    /\ pc[t] = "pick_bump"
    /\ \/ /\ count < MAX_HEAPS
          /\ count' = count + 1
          /\ idx' = Set(idx, t, count)
          /\ Goto(t, "slot")
       \/ /\ count = MAX_HEAPS
          /\ Goto(t, "pick_snap")
          /\ UNCHANGED <<count, idx>>
    /\ UNCHANGED <<slotVars, hint, free, sat, prev, scanVars, claimVars, steady>>

PickSnap(t) ==
    /\ pc[t] = "pick_snap"
    /\ ver' = Set(ver, t, sat)
    /\ Goto(t, "scan_begin")
    /\ UNCHANGED <<slotVars, hintVars, idx, prev, before, todo, found,
                   claimVars, steady>>

(* scan_claimable_slot.  The scan starts at a rotating cursor; here it may *)
(* visit the slots in any order.                                           *)
ScanBegin(t) ==
    /\ pc[t] = "scan_begin"
    /\ todo' = Set(todo, t, 0 .. count - 1)
    /\ found' = Set(found, t, NoSlot)
    /\ scanSel' = Set(scanSel, t, TRUE)
    /\ Goto(t, "scan")
    /\ UNCHANGED <<slotVars, hintVars, idx, prev, before, ver, failed, ooms,
                   spins, steady>>

Claimable(i) ==
    \/ state[i] = "Free"
    \/ state[i] = "Empty" /\ ~ initialised[i]

ScanVisit(t, i) ==
    /\ pc[t] = "scan"
    /\ i \in todo[t]
    /\ \/ /\ Chunk(i) \notin chunks
          /\ found' = Set(found, t, IF found[t] = NoSlot THEN i ELSE found[t])
          /\ todo' = Set(todo, t, todo[t] \ {i})
          /\ UNCHANGED <<pc, idx>>
       \/ /\ Chunk(i) \in chunks /\ ~ Claimable(i)
          /\ todo' = Set(todo, t, todo[t] \ {i})
          /\ UNCHANGED <<pc, idx, found>>
       \/ /\ Chunk(i) \in chunks /\ Claimable(i)
          /\ idx' = Set(idx, t, i)
          /\ todo' = Set(todo, t, {})
          /\ found' = Set(found, t, NoSlot)
          /\ Goto(t, "slot")
    /\ UNCHANGED <<slotVars, hintVars, prev, before, ver, claimVars, steady>>

ScanEnd(t) ==
    /\ pc[t] = "scan"
    /\ todo[t] = {}
    /\ idx' = Set(idx, t, found[t])
    /\ found' = Set(found, t, NoSlot)
    /\ Goto(t, IF found[t] = NoSlot THEN "pick_mark" ELSE "slot")
    /\ UNCHANGED <<slotVars, hintVars, prev, before, ver, todo, claimVars, steady>>

PickMark(t) ==
    /\ pc[t] = "pick_mark"
    /\ IF before[t] = MAX_HEAPS /\ count = MAX_HEAPS
         THEN TryMarkSaturated(ver[t]) ELSE UNCHANGED sat
    /\ Goto(t, "none")
    /\ UNCHANGED <<slotVars, count, hint, free, idx, prev, scanVars, claimVars,
                   steady>>

-----------------------------------------------------------------------------
(* claim_impl.                                                             *)

(* The head of the loop: after a failed chunk or constructor only slots    *)
(* that are FREE already are tried.                                        *)
LoopHead(t) == IF failed[t] = NoSlot THEN "pick" ELSE "recover"

(* Wrong variant: a failed chunk or constructor ends the claim at once. *)
RecoverBeginGivesUp(t) ==
    /\ pc[t] = "recover"
    /\ Goto(t, "none")
    /\ UNCHANGED <<slotVars, hintVars, idx, prev, scanVars, claimVars, steady>>

(* scan_claim_recovery_free: an initialised FREE slot, or else a FREE slot *)
(* that still needs its constructor.                                       *)
RecoverBegin(t) ==
    /\ pc[t] = "recover"
    /\ todo' = Set(todo, t, (0 .. count - 1) \ {failed[t]})
    /\ found' = Set(found, t, NoSlot)
    /\ scanSel' = Set(scanSel, t, TRUE)
    /\ idx' = Set(idx, t, NoSlot)
    /\ Goto(t, "rscan")
    /\ UNCHANGED <<slotVars, hintVars, prev, before, ver, failed, ooms,
                   spins, steady>>

RecoverVisit(t, i) ==
    /\ pc[t] = "rscan"
    /\ i \in todo[t]
    /\ \/ /\ Chunk(i) \notin chunks \/ state[i] # "Free"
          /\ todo' = Set(todo, t, todo[t] \ {i})
          /\ UNCHANGED <<pc, idx, found>>
       \/ /\ Chunk(i) \in chunks /\ state[i] = "Free" /\ ~ initialised[i]
          /\ found' = Set(found, t, IF found[t] = NoSlot THEN i ELSE found[t])
          /\ todo' = Set(todo, t, todo[t] \ {i})
          /\ UNCHANGED <<pc, idx>>
       \/ /\ Chunk(i) \in chunks /\ state[i] = "Free" /\ initialised[i]
          /\ idx' = Set(idx, t, i)
          /\ todo' = Set(todo, t, {})
          /\ found' = Set(found, t, NoSlot)
          /\ Goto(t, "slot")
    /\ UNCHANGED <<slotVars, hintVars, prev, before, ver, claimVars, steady>>

RecoverEnd(t) ==
    /\ pc[t] = "rscan"
    /\ todo[t] = {}
    /\ idx' = Set(idx, t, found[t])
    /\ found' = Set(found, t, NoSlot)
    /\ Goto(t, IF found[t] = NoSlot THEN "none" ELSE "slot")
    /\ UNCHANGED <<slotVars, hintVars, prev, before, ver, todo, claimVars, steady>>

(* slot_or_none: the chunk of the slot is there, is materialised now, or   *)
(* cannot be (out of memory).                                              *)
Slot(t) ==
    /\ pc[t] = "slot"
    /\ \/ Chunk(idx[t]) \in chunks /\ Goto(t, "observe") /\ UNCHANGED chunks
       \/ /\ Chunk(idx[t]) \notin chunks
          /\ chunks' = chunks \cup {Chunk(idx[t])}
          /\ Goto(t, "observe")
       \/ Chunk(idx[t]) \notin chunks /\ Goto(t, "oom_hint") /\ UNCHANGED chunks
    /\ before' = Set(before, t, 0)     \* the locals of the pick are dead
    /\ ver' = Set(ver, t, 0)
    /\ UNCHANGED <<state, initialised, hintVars, idx, prev, todo, found,
                   claimVars, steady>>

Observe(t) ==
    /\ pc[t] = "observe"
    /\ Goto(t, CASE state[idx[t]] = "Empty" -> "cas_empty"
                 [] state[idx[t]] = "Free" -> "cas_free"
                 [] state[idx[t]] = "Maintenance"
                      /\ spins[t] < MAINTENANCE_RECLAIM_BUDGET -> "republish"
                 [] OTHER -> LoopHead(t))
    /\ UNCHANGED <<slotVars, hintVars, idx, prev, scanVars, claimVars, steady>>

(* Wrong variant: the rounds are not counted. *)
RepublishUncounted(t) ==
    /\ pc[t] = "republish"
    /\ free' = free \cup {idx[t]}
    /\ Goto(t, LoopHead(t))
    /\ UNCHANGED <<slotVars, count, hint, sat, idx, prev, scanVars, claimVars,
                   steady>>

(* A slot under maintenance goes back into the bitmap, for a bounded       *)
(* number of rounds.                                                       *)
Republish(t) ==
    /\ pc[t] = "republish"
    /\ spins' = Set(spins, t, spins[t] + 1)
    /\ free' = free \cup {idx[t]}
    /\ Goto(t, LoopHead(t))
    /\ UNCHANGED <<slotVars, count, hint, sat, idx, prev, scanVars, failed,
                   scanSel, ooms, steady>>

(* The three compare-and-swaps of a claim.                                 *)
CasEmpty(t) ==
    /\ pc[t] = "cas_empty"
    /\ \/ /\ state[idx[t]] = "Empty"
          /\ state' = Set(state, idx[t], "Initializing")
          /\ Goto(t, "construct")
       \/ /\ state[idx[t]] # "Empty"
          /\ Goto(t, LoopHead(t))
          /\ UNCHANGED state
    /\ UNCHANGED <<initialised, chunks, hintVars, idx, prev, scanVars,
                   claimVars, steady>>

(* Wrong variant: stores Live on the strength of the earlier load. *)
CasFreeStore(t) ==
    /\ pc[t] = "cas_free"
    /\ state' = Set(state, idx[t], "Live")
    /\ Goto(t, "check_init")
    /\ UNCHANGED <<initialised, chunks, hintVars, idx, prev, scanVars,
                   claimVars, steady>>

CasFree(t) ==
    /\ pc[t] = "cas_free"
    /\ \/ /\ state[idx[t]] = "Free"
          /\ state' = Set(state, idx[t], "Live")
          /\ steady' = [a \in Actors |-> steady[a] \ {idx[t]}]
          /\ Goto(t, IF scanSel[t] THEN "forget" ELSE "check_init")
       \/ /\ state[idx[t]] # "Free"
          /\ Goto(t, LoopHead(t))
          /\ UNCHANGED <<state, steady>>
    /\ scanSel' = Set(scanSel, t, FALSE)
    /\ UNCHANGED <<initialised, chunks, hintVars, idx, prev, scanVars, failed,
                   ooms, spins>>

Forget(t) ==
    /\ pc[t] = "forget"
    /\ free' = free \ {idx[t]}
    /\ Goto(t, "check_init")
    /\ UNCHANGED <<slotVars, count, hint, sat, idx, prev, scanVars, claimVars,
                   steady>>

(* Wrong variant: every FREE slot is taken to hold a heap. *)
CheckInitSkipped(t) ==
    /\ pc[t] = "check_init"
    /\ Goto(t, "trim")
    /\ UNCHANGED <<slotVars, hintVars, idx, prev, scanVars, claimVars, steady>>

CheckInit(t) ==
    /\ pc[t] = "check_init"
    /\ Goto(t, IF initialised[idx[t]] THEN "trim" ELSE "cas_init")
    /\ UNCHANGED <<slotVars, hintVars, idx, prev, scanVars, claimVars, steady>>

(* A compare-and-swap that must not fail: losing it is fatal.              *)
MustCas(a, from, to, label) ==
    IF state[idx[a]] = from
      THEN state' = Set(state, idx[a], to) /\ Goto(a, label)
      ELSE Goto(a, "fatal") /\ UNCHANGED state

CasInit(t) ==
    /\ pc[t] = "cas_init"
    /\ MustCas(t, "Live", "Initializing", "construct")
    /\ UNCHANGED <<initialised, chunks, hintVars, idx, prev, scanVars,
                   claimVars, steady>>

(* materialise: the heap is constructed in place, or memory is out.        *)
Construct(t) ==
    /\ pc[t] = "construct"
    /\ \/ Goto(t, "set_init")
       \/ Goto(t, "push_back")
    /\ UNCHANGED <<slotVars, hintVars, idx, prev, scanVars, claimVars, steady>>

SetInit(t) ==
    /\ pc[t] = "set_init"
    /\ initialised' = Set(initialised, idx[t], TRUE)
    /\ Goto(t, "publish_live")
    /\ UNCHANGED <<state, chunks, hintVars, idx, prev, scanVars, claimVars, steady>>

(* The lease is made; the locals of the claim die.                         *)
Lease(t) ==
    /\ failed' = Set(failed, t, NoSlot)
    /\ before' = Set(before, t, 0)
    /\ ver' = Set(ver, t, 0)
    /\ scanSel' = Set(scanSel, t, FALSE)
    /\ ooms' = Set(ooms, t, 0)
    /\ spins' = Set(spins, t, 0)
    /\ steady' = Set(steady, t, {})
    /\ UNCHANGED <<todo, found, prev>>

PublishLive(t) ==
    /\ pc[t] = "publish_live"
    /\ MustCas(t, "Initializing", "Live", "live")
    /\ Lease(t)
    /\ UNCHANGED <<initialised, chunks, hintVars, idx>>

(* A slot claimed again keeps its heap; trim_for_recycle works on it.      *)
Trim(t) ==
    /\ pc[t] = "trim"
    /\ Goto(t, "live")
    /\ Lease(t)
    /\ UNCHANGED <<slotVars, hintVars, idx>>

(* claim_impl returns None. *)
ReturnNone(t) ==
    /\ pc[t] = "none"
    /\ Goto(t, "idle")
    /\ idx' = Set(idx, t, NoSlot)
    /\ Lease(t)
    /\ UNCHANGED <<slotVars, hintVars>>

-----------------------------------------------------------------------------
(* Giving a slot back.                                                     *)

(* push_back_after_oom: the slot goes into the bitmap, not into the hint.  *)
PushBack(t) ==
    /\ pc[t] = "push_back"
    /\ MustCas(t, "Initializing", "Free", "push_bit")
    /\ UNCHANGED <<initialised, chunks, hintVars, idx, prev, scanVars,
                   claimVars, steady>>

PushBit(t) ==
    /\ pc[t] = "push_bit"
    /\ free' = free \cup {idx[t]}
    /\ Goto(t, "push_sat")
    /\ UNCHANGED <<slotVars, count, hint, sat, idx, prev, scanVars, claimVars,
                   steady>>

(* The first constructor failure of a claim retries on another slot, the   *)
(* second one gives up.                                                    *)
PushSat(t) ==
    /\ pc[t] = "push_sat"
    /\ PublishClaimable
    /\ IF ooms[t] >= 1
         THEN Goto(t, "none") /\ UNCHANGED <<ooms, failed>>
         ELSE /\ ooms' = Set(ooms, t, 1)
              /\ failed' = Set(failed, t, idx[t])
              /\ Goto(t, "recover")
    /\ UNCHANGED <<slotVars, count, hint, free, idx, prev, scanVars, scanSel,
                   spins, steady>>

(* The tail that a dropped lease, a dropped maintenance lease and a failed *)
(* chunk share: swap the slot into the hint, publish what the hint held,   *)
(* bump the saturation version.                                            *)
SwapHint(a, at, next) ==
    /\ pc[a] = at
    /\ prev' = Set(prev, a, hint)
    /\ hint' = idx[a]
    /\ Goto(a, next)
    /\ UNCHANGED <<slotVars, count, free, sat, idx, scanVars, claimVars, steady>>

(* Wrong variant: what the hint held is overwritten. *)
SpillDropped(a, at, next) ==
    /\ pc[a] = at
    /\ prev' = Set(prev, a, NoSlot)
    /\ Goto(a, next)
    /\ UNCHANGED <<slotVars, hintVars, idx, scanVars, claimVars, steady>>

Spill(a, at, next) ==
    /\ pc[a] = at
    /\ free' = IF prev[a] < MAX_HEAPS THEN free \cup {prev[a]} ELSE free
    /\ prev' = Set(prev, a, NoSlot)
    /\ Goto(a, next)
    /\ UNCHANGED <<slotVars, count, hint, sat, idx, scanVars, claimVars, steady>>

OomSat(t) ==
    /\ pc[t] = "oom_sat"
    /\ PublishClaimable
    /\ failed' = Set(failed, t, idx[t])
    /\ Goto(t, "recover")
    /\ UNCHANGED <<slotVars, count, hint, free, idx, prev, scanVars, scanSel,
                   ooms, spins, steady>>

ReleaseSat(a, at) ==
    /\ pc[a] = at
    /\ PublishClaimable
    /\ idx' = Set(idx, a, NoSlot)
    /\ Goto(a, "idle")
    /\ UNCHANGED <<slotVars, count, hint, free, prev, scanVars, claimVars, steady>>

ChunkOom(t) ==
    \/ SwapHint(t, "oom_hint", "oom_spill")
    \/ Spill(t, "oom_spill", "oom_sat")
    \/ OomSat(t)

(* HeapLease::drop *)
DropCas(t) ==
    /\ pc[t] = "live"
    /\ MustCas(t, "Live", "Free", "drop_hint")
    /\ UNCHANGED <<initialised, chunks, hintVars, idx, prev, scanVars,
                   claimVars, steady>>

DropTail(t) ==
    \/ SwapHint(t, "drop_hint", "drop_spill")
    \/ Spill(t, "drop_spill", "drop_sat")
    \/ ReleaseSat(t, "drop_sat")

(* try_maintenance_at, and MaintenanceLease::drop after the bounded step   *)
(* on the heap.                                                            *)
MaintenanceTry(w, i) ==
    /\ pc[w] = "idle"
    /\ i < count /\ Chunk(i) \in chunks /\ initialised[i]
    /\ state[i] = "Free"
    /\ state' = Set(state, i, "Maintenance")
    /\ idx' = Set(idx, w, i)
    /\ steady' = [a \in Actors |-> steady[a] \ {i}]
    /\ Goto(w, "maint")
    /\ UNCHANGED <<initialised, chunks, hintVars, prev, scanVars, claimVars>>

MaintenanceCas(w) ==
    /\ pc[w] = "maint"
    /\ MustCas(w, "Maintenance", "Free", "maint_hint")
    /\ UNCHANGED <<initialised, chunks, hintVars, idx, prev, scanVars,
                   claimVars, steady>>

MaintenanceTail(w) ==
    \/ SwapHint(w, "maint_hint", "maint_spill")
    \/ Spill(w, "maint_spill", "maint_sat")
    \/ ReleaseSat(w, "maint_sat")

-----------------------------------------------------------------------------
PickStep(t) ==
    \/ PickHint(t) \/ PickCount(t) \/ PickTake(t) \/ PickSat(t) \/ PickBump(t)
    \/ PickSnap(t) \/ ScanBegin(t) \/ ScanEnd(t) \/ PickMark(t)
    \/ \E i \in Slots : ScanVisit(t, i)

RecoverStep(t) ==
    RecoverBegin(t) \/ RecoverEnd(t) \/ \E i \in Slots : RecoverVisit(t, i)

ClaimStep(t) ==
    \/ PickStep(t) \/ RecoverStep(t)
    \/ Slot(t) \/ ChunkOom(t) \/ Observe(t) \/ Republish(t)
    \/ CasEmpty(t) \/ CasFree(t) \/ Forget(t) \/ CheckInit(t) \/ CasInit(t)
    \/ Construct(t) \/ SetInit(t) \/ PublishLive(t) \/ Trim(t)
    \/ PushBack(t) \/ PushBit(t) \/ PushSat(t) \/ ReturnNone(t)

ThreadNext(t) == Claim(t) \/ ClaimStep(t) \/ DropCas(t) \/ DropTail(t)

WorkerNext(w) ==
    MaintenanceCas(w) \/ MaintenanceTail(w) \/ \E i \in Slots : MaintenanceTry(w, i)

Next == (\E t \in Threads : ThreadNext(t)) \/ (\E w \in Workers : WorkerNext(w))

Spec == Init /\ [][Next]_vars

(* A thread inside a claim or a drop runs on; nobody is bound to claim, to *)
(* drop a lease, or to end a maintenance step.                             *)
FairSpec == Spec /\ \A t \in Threads : WF_vars(ClaimStep(t) \/ DropTail(t))

-----------------------------------------------------------------------------
Holds(a, i) == idx[a] = i /\ pc[a] \in LivePcs \cup InitPcs \cup MaintPcs

(* A heap has one writer: no two of the claims, leases and maintenance     *)
(* leases in progress are about the same slot, and the state byte of the   *)
(* slot says which kind of holder it has, so that none of the              *)
(* compare-and-swaps that claim.rs declares fatal when lost is ever lost.  *)
SingleWriter ==
    /\ \A a, b \in Actors : \A i \in Slots :
         Holds(a, i) /\ Holds(b, i) => a = b
    /\ \A a \in Actors : pc[a] # "fatal"

(* The heap in a slot is constructed once: a claim that constructs finds   *)
(* no heap there, and an owner or a maintenance worker finds one.          *)
HeapBuiltOnce ==
    \A a \in Actors :
        /\ pc[a] \in {"cas_init", "construct", "set_init", "push_back"}
             => ~ initialised[idx[a]]
        /\ pc[a] \in {"trim", "live", "maint"} => initialised[idx[a]]

(* A release of slot i that has not bumped the saturation version yet.     *)
Releasing(i) == \E a \in Actors : idx[a] = i /\ pc[a] \in ReleasePcs

(* The saturation mark is never stale: while it is set every slot is in    *)
(* use, except those whose release will still reset it.  A claim that      *)
(* trusts the mark skips the scan, so a stale one would refuse claims for  *)
(* good (SaturationHint, pick_with_hint_spill).                            *)
SaturationSound ==
    IsSaturated => \A i \in Slots : Claimable(i) => Releasing(i)

(* A claim that returns None has not overlooked a usable heap: no slot was *)
(* FREE with a heap in it, its release complete, before the claim began    *)
(* and all the way to the refusal (steady[t] holds those slots), and the   *)
(* mark it may have trusted was never stale.                               *)
NoSpuriousRefusal ==
    /\ SaturationSound
    /\ \A t \in Threads : pc[t] = "none" => steady[t] = {}

(* Labels at which an actor has slot idx in hand: taken out of the hints,  *)
(* or not yet put back.                                                    *)
HandPcs == {"pick_count", "slot", "oom_hint", "observe", "cas_empty",
            "cas_free", "republish", "drop_hint", "maint_hint", "push_bit"}
SpillPcs == {"oom_spill", "drop_spill", "maint_spill"}

InHand(i) == \E a \in Actors :
    \/ idx[a] = i /\ pc[a] \in HandPcs
    \/ prev[a] = i /\ pc[a] \in SpillPcs

(* No slot is dropped on the floor: one that could be claimed and is below *)
(* the count is named by the reuse hint or the bitmap, or some thread has  *)
(* it in hand and will claim it or put it back.                            *)
NoSlotLost ==
    \A i \in 0 .. count - 1 : Claimable(i) => i = hint \/ i \in free \/ InHand(i)

Claiming(t) ==
    pc[t] \in PickPcs \cup TryPcs \cup (LivePcs \ {"live"}) \cup InitPcs
                \cup {"push_bit", "push_sat"}

Parked(a) == pc[a] \in {"idle", "live", "maint"}

(* A claim ends once the other actors stand still between their            *)
(* operations, even when one stands still inside a maintenance lease: the  *)
(* rounds spent on a slot in Maintenance are bounded                       *)
(* (MAINTENANCE_RECLAIM_BUDGET), and so are the constructor retries.       *)
ClaimEndsWhenOthersPark ==
    \A t \in Threads :
        (\A a \in Actors \ {t} : <>[]Parked(a)) => (Claiming(t) ~> ~ Claiming(t))
=============================================================================
