------------------------- MODULE HeapRegistryProofs -------------------------
(***************************************************************************)
(* For every number of threads, workers and slots: the registry is well    *)
(* typed, a heap has one writer, no slot that could be claimed is lost,    *)
(* and a claim that is refused has not overlooked a heap.  At the end, the *)
(* same for the service: its start says the truth, and it trims only an    *)
(* idle fallback heap.                                                     *)
(***************************************************************************)
EXTENDS MCMaintenance, TLAPS

(* Labels at which idx names a slot.                                       *)
SlotPcs == LivePcs \cup InitPcs \cup MaintPcs \cup ReleasePcs \cup
           {"slot", "oom_hint", "oom_spill", "oom_sat", "observe",
            "cas_empty", "cas_free", "republish"}

IdxOK == \A a \in Actors :
    /\ pc[a] \in SlotPcs => idx[a] \in Slots
    /\ pc[a] = "republish" => spins[a] < MAINTENANCE_RECLAIM_BUDGET

TypeInv == TypeOK /\ IdxOK

LEMMA SatTyped ==
    ASSUME TypeOK
    PROVE  /\ PublishClaimable => sat' \in 0 .. WORD_MAX
           /\ \A v \in 0 .. WORD_MAX : TryMarkSaturated(v) => sat' \in 0 .. WORD_MAX
BY RegistryAssumption
   DEF TypeOK, PublishClaimable, TryMarkSaturated, DISABLED, LAST_VERSION, ClearBit0

LEMMA InitType == Init => TypeInv
BY RegistryAssumption
   DEF Init, TypeInv, TypeOK, IdxOK, SlotState, Slots, NoSlot, PCs, SlotPcs,
       LivePcs, InitPcs, MaintPcs, ReleasePcs, TryPcs, PickPcs

LEMMA PickType ==
    ASSUME TypeInv, NEW t \in Threads, PickStep(t)
    PROVE  TypeInv'
<1> USE RegistryAssumption
    DEF TypeInv, TypeOK, IdxOK, Actors, Goto, Set, PCs, SlotPcs, LivePcs,
        InitPcs, MaintPcs, ReleasePcs, TryPcs, PickPcs,
        slotVars, hintVars, scanVars, claimVars
<1>0. NoSlot \notin Slots /\ 0 \in 0 .. MAX_HEAPS /\ \A i \in Slots : i \in 0 .. MAX_HEAPS
  BY DEF Slots, NoSlot
<1>1. CASE PickHint(t)
  BY <1>1 DEF PickHint
<1>2. CASE PickCount(t)
  <2>1. idx[t] < count => idx[t] \in Slots
    BY DEF Slots, NoSlot
  <2> QED
    BY <1>2, <2>1 DEF PickCount
<1>3. CASE PickTake(t)
  BY <1>3 DEF PickTake
<1>4. CASE PickSat(t)
  BY <1>4 DEF PickSat
<1>5. CASE PickBump(t)
  <2>1. count < MAX_HEAPS => count \in Slots /\ count + 1 \in 0 .. MAX_HEAPS
    BY DEF Slots
  <2> QED
    BY <1>5, <2>1 DEF PickBump
<1>6. CASE PickSnap(t)
  BY <1>6 DEF PickSnap
<1>7. CASE ScanBegin(t)
  <2>1. 0 .. count - 1 \subseteq Slots
    BY DEF Slots
  <2> QED
    BY <1>7, <2>1 DEF ScanBegin
<1>8. CASE ScanEnd(t)
  BY <1>8 DEF ScanEnd
<1>9. CASE PickMark(t)
  BY <1>9, SatTyped DEF PickMark
<1>10. ASSUME NEW i \in Slots, ScanVisit(t, i)
       PROVE  TypeInv'
  BY <1>10 DEF ScanVisit
<1> QED
  BY <1>1, <1>2, <1>3, <1>4, <1>5, <1>6, <1>7, <1>8, <1>9, <1>10 DEF PickStep

LEMMA RecoverType ==
    ASSUME TypeInv, NEW t \in Threads, RecoverStep(t)
    PROVE  TypeInv'
<1> USE RegistryAssumption
    DEF TypeInv, TypeOK, IdxOK, Actors, Goto, Set, PCs, SlotPcs, LivePcs,
        InitPcs, MaintPcs, ReleasePcs, TryPcs, PickPcs,
        slotVars, hintVars, scanVars, claimVars
<1>0. NoSlot \notin Slots
  BY DEF Slots, NoSlot
<1>1. CASE RecoverBegin(t)
  <2>1. 0 .. count - 1 \subseteq Slots
    BY DEF Slots
  <2> QED
    BY <1>0, <1>1, <2>1 DEF RecoverBegin
<1>2. CASE RecoverEnd(t)
  BY <1>0, <1>2 DEF RecoverEnd
<1>3. ASSUME NEW i \in Slots, RecoverVisit(t, i)
      PROVE  TypeInv'
  BY <1>0, <1>3 DEF RecoverVisit
<1> QED
  BY <1>1, <1>2, <1>3 DEF RecoverStep

(* The tail of a release keeps the types, whichever label it starts at.    *)
LEMMA TailType ==
    ASSUME TypeInv, NEW a \in Actors,
           \/ SwapHint(a, "oom_hint", "oom_spill")
           \/ SwapHint(a, "drop_hint", "drop_spill")
           \/ SwapHint(a, "maint_hint", "maint_spill")
           \/ Spill(a, "oom_spill", "oom_sat")
           \/ Spill(a, "drop_spill", "drop_sat")
           \/ Spill(a, "maint_spill", "maint_sat")
           \/ ReleaseSat(a, "drop_sat")
           \/ ReleaseSat(a, "maint_sat")
    PROVE  TypeInv'
<1> USE RegistryAssumption
    DEF TypeInv, TypeOK, IdxOK, Goto, Set, PCs, SlotPcs, LivePcs,
        InitPcs, MaintPcs, ReleasePcs, TryPcs, PickPcs,
        slotVars, hintVars, scanVars, claimVars
<1>1. ASSUME \/ SwapHint(a, "oom_hint", "oom_spill")
             \/ SwapHint(a, "drop_hint", "drop_spill")
             \/ SwapHint(a, "maint_hint", "maint_spill")
      PROVE  TypeInv'
  BY <1>1, SMTT(30) DEF SwapHint
<1>2. ASSUME \/ Spill(a, "oom_spill", "oom_sat")
             \/ Spill(a, "drop_spill", "drop_sat")
             \/ Spill(a, "maint_spill", "maint_sat")
      PROVE  TypeInv'
  <2>1. prev[a] < MAX_HEAPS => prev[a] \in Slots
    BY DEF Slots, NoSlot
  <2> QED
    BY <1>2, <2>1 DEF Spill
<1>3. ASSUME \/ ReleaseSat(a, "drop_sat")
             \/ ReleaseSat(a, "maint_sat")
      PROVE  TypeInv'
  <2>1. PublishClaimable => sat' \in 0 .. WORD_MAX
    BY SatTyped
  <2>2. idx' \in [Actors -> Slots \cup {NoSlot}] /\ PublishClaimable
    BY <1>3 DEF ReleaseSat
  <2> QED
    BY <1>3, <2>1, <2>2 DEF ReleaseSat
<1> QED
  BY <1>1, <1>2, <1>3

LEMMA ClaimType ==
    ASSUME TypeInv, NEW t \in Threads, ClaimStep(t)
    PROVE  TypeInv'
<1> USE RegistryAssumption
    DEF TypeInv, TypeOK, IdxOK, Actors, Goto, Set, PCs, SlotPcs, LivePcs,
        InitPcs, MaintPcs, ReleasePcs, TryPcs, PickPcs, SlotState,
        slotVars, hintVars, scanVars, claimVars
<1>1. CASE Slot(t)
  BY <1>1 DEF Slot
<1>2. CASE ChunkOom(t)
  <2>1. CASE OomSat(t)
    BY <2>1, SatTyped DEF OomSat
  <2> QED
    BY <1>2, <2>1, TailType DEF ChunkOom
<1>3. CASE Observe(t)
  BY <1>3 DEF Observe, LoopHead
<1>4. CASE Republish(t)
  <2>1. idx[t] \in Slots
    BY <1>4 DEF Republish
  <2>2. spins[t] + 1 \in 0 .. MAINTENANCE_RECLAIM_BUDGET
    BY <1>4 DEF Republish
  <2> QED
    BY <1>4, <2>1, <2>2 DEF Republish, LoopHead
<1>5. CASE CasEmpty(t)
  BY <1>5 DEF CasEmpty, LoopHead
<1>6. CASE CasFree(t)
  BY <1>6 DEF CasFree, LoopHead
<1>7. CASE Forget(t)
  BY <1>7 DEF Forget
<1>8. CASE CheckInit(t)
  BY <1>8 DEF CheckInit
<1>9. CASE CasInit(t)
  BY <1>9 DEF CasInit, MustCas
<1>10. CASE Construct(t)
  BY <1>10 DEF Construct
<1>11. CASE SetInit(t)
  BY <1>11 DEF SetInit
<1>12. CASE PublishLive(t)
  BY <1>12 DEF PublishLive, MustCas, Lease
<1>13. CASE Trim(t)
  BY <1>13 DEF Trim, Lease
<1>14. CASE PushBack(t)
  BY <1>14 DEF PushBack, MustCas
<1>15. CASE PushBit(t)
  BY <1>15 DEF PushBit
<1>16. CASE PushSat(t)
  BY <1>16, SatTyped DEF PushSat
<1>17. CASE ReturnNone(t)
  BY <1>17 DEF ReturnNone, Lease
<1> QED
  BY <1>1, <1>2, <1>3, <1>4, <1>5, <1>6, <1>7, <1>8, <1>9, <1>10, <1>11, <1>12,
     <1>13, <1>14, <1>15, <1>16, <1>17, PickType, RecoverType DEF ClaimStep

LEMMA NextType == TypeInv /\ [Next]_vars => TypeInv'
<1> SUFFICES ASSUME TypeInv, [Next]_vars PROVE TypeInv'
  OBVIOUS
<1> USE RegistryAssumption
    DEF TypeInv, TypeOK, IdxOK, Actors, Goto, Set, PCs, SlotPcs, LivePcs,
        InitPcs, MaintPcs, ReleasePcs, TryPcs, PickPcs, SlotState,
        slotVars, hintVars, scanVars, claimVars
<1>1. ASSUME NEW t \in Threads, ThreadNext(t)
      PROVE  TypeInv'
  <2>1. CASE Claim(t)
    BY <2>1 DEF Claim
  <2>2. CASE DropCas(t)
    BY <2>2 DEF DropCas, MustCas
  <2>3. CASE DropTail(t)
    BY <2>3, TailType DEF DropTail
  <2> QED
    BY <1>1, <2>1, <2>2, <2>3, ClaimType DEF ThreadNext
<1>2. ASSUME NEW w \in Workers, WorkerNext(w)
      PROVE  TypeInv'
  <2>1. ASSUME NEW i \in Slots, MaintenanceTry(w, i)
        PROVE  TypeInv'
    BY <2>1 DEF MaintenanceTry
  <2>2. CASE MaintenanceCas(w)
    BY <2>2 DEF MaintenanceCas, MustCas
  <2>3. CASE MaintenanceTail(w)
    BY <2>3, TailType DEF MaintenanceTail
  <2> QED
    BY <1>2, <2>1, <2>2, <2>3 DEF WorkerNext
<1>3. CASE UNCHANGED vars
  BY <1>3 DEF vars
<1> QED
  BY <1>1, <1>2, <1>3 DEF Next

(* Type correctness of the registry for every number of actors and slots.  *)
THEOREM TypeCorrect == Spec => []TypeOK
<1>1. TypeInv => TypeOK
  BY DEF TypeInv
<1> QED
  BY InitType, NextType, <1>1, PTL DEF Spec

-----------------------------------------------------------------------------
(* The invariant behind SingleWriter and HeapBuiltOnce.  SingleWriter      *)
(* alone is not inductive: that a compare-and-swap cannot be won while     *)
(* another actor holds the slot follows from the state byte naming the     *)
(* kind of holder.                                                         *)

HolderPcs == LivePcs \cup InitPcs \cup MaintPcs

StateNamesHolder ==
    \A a \in Actors :
        /\ pc[a] \in LivePcs => state[idx[a]] = "Live"
        /\ pc[a] \in InitPcs => state[idx[a]] = "Initializing"
        /\ pc[a] \in MaintPcs => state[idx[a]] = "Maintenance"

OneHolder ==
    \A a, b \in Actors :
        pc[a] \in HolderPcs /\ pc[b] \in HolderPcs /\ idx[a] = idx[b] => a = b

NoFatal == \A a \in Actors : pc[a] # "fatal"

HeapMatches ==
    /\ \A i \in Slots : state[i] = "Empty" => ~ initialised[i]
    /\ \A a \in Actors :
         /\ pc[a] \in {"cas_init", "construct", "set_init", "push_back"}
              => ~ initialised[idx[a]]
         /\ pc[a] \in {"publish_live", "trim", "live", "maint"}
              => initialised[idx[a]]

OwnerInv == StateNamesHolder /\ OneHolder /\ NoFatal /\ HeapMatches

(* A step that touches no slot and whose actor holds none afterwards.      *)
Quiet(t) ==
    /\ UNCHANGED <<state, initialised>>
    /\ \E l \in PCs \ (HolderPcs \cup {"fatal"}) : pc' = [pc EXCEPT ![t] = l]
    /\ \A b \in Actors \ {t} : idx'[b] = idx[b]

LEMMA QuietOwner ==
    ASSUME TypeInv, OwnerInv, NEW t \in Actors, Quiet(t)
    PROVE  OwnerInv'
BY DEF TypeInv, TypeOK, OwnerInv, StateNamesHolder, OneHolder, NoFatal,
       HeapMatches, Quiet, HolderPcs, LivePcs, InitPcs, MaintPcs

LEMMA PickQuiet ==
    ASSUME TypeInv, NEW t \in Threads, PickStep(t) \/ RecoverStep(t)
    PROVE  Quiet(t)
<1> USE DEF TypeInv, TypeOK, Actors, Goto, Set, PCs, HolderPcs, LivePcs,
            InitPcs, MaintPcs, ReleasePcs, TryPcs, PickPcs, slotVars, Quiet
<1>1. ASSUME PickHint(t) \/ PickCount(t) \/ PickSat(t) \/ PickSnap(t)
      PROVE  Quiet(t)
  BY <1>1 DEF PickHint, PickCount, PickSat, PickSnap
<1>2. ASSUME PickTake(t)
      PROVE  Quiet(t)
  BY <1>2 DEF PickTake
<1>3. ASSUME PickBump(t)
      PROVE  Quiet(t)
  BY <1>3 DEF PickBump
<1>4. ASSUME ScanBegin(t) \/ ScanEnd(t) \/ PickMark(t)
      PROVE  Quiet(t)
  BY <1>4 DEF ScanBegin, ScanEnd, PickMark
<1>5. ASSUME RecoverBegin(t) \/ RecoverEnd(t)
      PROVE  Quiet(t)
  BY <1>5 DEF RecoverBegin, RecoverEnd
<1>6. ASSUME NEW i \in Slots, ScanVisit(t, i)
      PROVE  Quiet(t)
  <2>1. pc' = [pc EXCEPT ![t] = "scan"] \/ pc' = [pc EXCEPT ![t] = "slot"]
    BY <1>6 DEF ScanVisit
  <2> QED
    BY <1>6, <2>1 DEF ScanVisit
<1>7. ASSUME NEW i \in Slots, RecoverVisit(t, i)
      PROVE  Quiet(t)
  <2>1. pc' = [pc EXCEPT ![t] = "rscan"] \/ pc' = [pc EXCEPT ![t] = "slot"]
    BY <1>7 DEF RecoverVisit
  <2> QED
    BY <1>7, <2>1 DEF RecoverVisit
<1> QED
  BY <1>1, <1>2, <1>3, <1>4, <1>5, <1>6, <1>7 DEF PickStep, RecoverStep

LEMMA TailQuiet ==
    ASSUME TypeInv, NEW a \in Actors,
           \/ SwapHint(a, "oom_hint", "oom_spill")
           \/ SwapHint(a, "drop_hint", "drop_spill")
           \/ SwapHint(a, "maint_hint", "maint_spill")
           \/ Spill(a, "oom_spill", "oom_sat")
           \/ Spill(a, "drop_spill", "drop_sat")
           \/ Spill(a, "maint_spill", "maint_sat")
           \/ ReleaseSat(a, "drop_sat")
           \/ ReleaseSat(a, "maint_sat")
    PROVE  Quiet(a)
BY DEF TypeInv, TypeOK, Goto, Set, PCs, HolderPcs, LivePcs,
       InitPcs, MaintPcs, ReleasePcs, TryPcs, PickPcs, slotVars, Quiet,
       SwapHint, Spill, ReleaseSat

LEMMA ClaimOwner ==
    ASSUME TypeInv, OwnerInv, NEW t \in Threads, ClaimStep(t)
    PROVE  OwnerInv'
<1> USE DEF Goto, Set, slotVars, hintVars
<1>0. t \in Actors
  BY DEF Actors
<1>a. ASSUME \/ Slot(t) \/ ChunkOom(t) \/ Observe(t) \/ Republish(t)
             \/ PushBit(t) \/ PushSat(t) \/ ReturnNone(t)
      PROVE  Quiet(t)
  <2> USE DEF TypeInv, TypeOK, Actors, PCs, HolderPcs, LivePcs, InitPcs,
              MaintPcs, ReleasePcs, TryPcs, PickPcs, Quiet
  <2>1. CASE Slot(t)
    BY <2>1 DEF Slot
  <2>2. CASE ChunkOom(t)
    <3>1. CASE OomSat(t)
      BY <3>1 DEF OomSat
    <3> QED
      BY <1>0, <2>2, <3>1, TailQuiet DEF ChunkOom
  <2>3. CASE Observe(t)
    BY <2>3 DEF Observe, LoopHead
  <2>4. CASE Republish(t)
    BY <2>4 DEF Republish, LoopHead
  <2>5. CASE PushBit(t) \/ PushSat(t)
    BY <2>5 DEF PushBit, PushSat
  <2>6. CASE ReturnNone(t)
    BY <2>6 DEF ReturnNone
  <2> QED
    BY <1>a, <2>1, <2>2, <2>3, <2>4, <2>5, <2>6
<1> USE DEF TypeInv, TypeOK, IdxOK, SlotPcs, OwnerInv, StateNamesHolder,
            OneHolder, NoFatal, HeapMatches, HolderPcs, LivePcs, InitPcs,
            MaintPcs, ReleasePcs
<1>1. CASE CasEmpty(t)
  BY <1>0, <1>1 DEF CasEmpty, LoopHead
<1>2. CASE CasFree(t)
  BY <1>0, <1>2 DEF CasFree, LoopHead
<1>3. CASE Forget(t)
  BY <1>0, <1>3 DEF Forget
<1>4. CASE CheckInit(t)
  BY <1>0, <1>4 DEF CheckInit
<1>5. CASE CasInit(t)
  BY <1>0, <1>5 DEF CasInit, MustCas
<1>6. CASE Construct(t)
  BY <1>0, <1>6 DEF Construct
<1>7. CASE SetInit(t)
  BY <1>0, <1>7 DEF SetInit
<1>8. CASE PublishLive(t)
  BY <1>0, <1>8 DEF PublishLive, MustCas
<1>9. CASE Trim(t)
  BY <1>0, <1>9 DEF Trim
<1>10. CASE PushBack(t)
  BY <1>0, <1>10 DEF PushBack, MustCas
<1>11. CASE PickStep(t) \/ RecoverStep(t)
  BY <1>0, <1>11, PickQuiet, QuietOwner
<1> QED
  BY <1>0, <1>a, <1>1, <1>2, <1>3, <1>4, <1>5, <1>6, <1>7, <1>8, <1>9, <1>10,
     <1>11, QuietOwner DEF ClaimStep

LEMMA NextOwner == TypeInv /\ OwnerInv /\ [Next]_vars => OwnerInv'
<1> SUFFICES ASSUME TypeInv, OwnerInv, [Next]_vars PROVE OwnerInv'
  OBVIOUS
<1>0. Threads \subseteq Actors /\ Workers \subseteq Actors
  BY DEF Actors
<1>1. ASSUME NEW t \in Threads, Claim(t)
      PROVE  Quiet(t)
  BY <1>0, <1>1 DEF Claim, Quiet, Goto, Set, slotVars, PCs, HolderPcs, LivePcs,
     InitPcs, MaintPcs, ReleasePcs, TryPcs, PickPcs
<1>2. ASSUME NEW t \in Threads, DropTail(t)
      PROVE  Quiet(t)
  BY <1>0, <1>2, TailQuiet DEF DropTail
<1>3. ASSUME NEW w \in Workers, MaintenanceTail(w)
      PROVE  Quiet(w)
  BY <1>0, <1>3, TailQuiet DEF MaintenanceTail
<1>4. CASE UNCHANGED vars
  BY <1>4 DEF vars, slotVars, OwnerInv, StateNamesHolder, OneHolder, NoFatal,
     HeapMatches
<1>5. ASSUME NEW t \in Threads, DropCas(t)
      PROVE  OwnerInv'
  BY <1>0, <1>5 DEF DropCas, MustCas, Goto, Set, TypeInv, TypeOK, IdxOK, SlotPcs,
     OwnerInv, StateNamesHolder, OneHolder, NoFatal, HeapMatches, HolderPcs,
     LivePcs, InitPcs, MaintPcs, ReleasePcs
<1>6. ASSUME NEW w \in Workers, MaintenanceCas(w)
      PROVE  OwnerInv'
  BY <1>0, <1>6, SMTT(30) DEF MaintenanceCas, MustCas, Goto, Set, TypeInv, TypeOK, IdxOK,
     SlotPcs, OwnerInv, StateNamesHolder, OneHolder, NoFatal, HeapMatches,
     HolderPcs, LivePcs, InitPcs, MaintPcs, ReleasePcs
<1>7. ASSUME NEW w \in Workers, NEW i \in Slots, MaintenanceTry(w, i)
      PROVE  OwnerInv'
  BY <1>0, <1>7 DEF MaintenanceTry, Goto, Set, TypeInv, TypeOK, IdxOK, SlotPcs,
     OwnerInv, StateNamesHolder, OneHolder, NoFatal, HeapMatches, HolderPcs,
     LivePcs, InitPcs, MaintPcs, ReleasePcs
<1> QED
  BY <1>0, <1>1, <1>2, <1>3, <1>4, <1>5, <1>6, <1>7, ClaimOwner, QuietOwner
  DEF Next, ThreadNext, WorkerNext

LEMMA InitOwner == Init => OwnerInv
BY DEF Init, OwnerInv, StateNamesHolder, OneHolder, NoFatal, HeapMatches,
       HolderPcs, LivePcs, InitPcs, MaintPcs

(* One writer per heap: for any number of threads and maintenance workers, *)
(* at any point of their claims and releases, no two of them hold the same *)
(* slot, and no compare-and-swap that claim.rs treats as fatal is lost.    *)
THEOREM RegistrySingleWriter == Spec => []SingleWriter
<1>1. TypeInv /\ OwnerInv => SingleWriter
  BY DEF OwnerInv, OneHolder, NoFatal, SingleWriter, Holds, HolderPcs
<1> QED
  BY InitType, NextType, InitOwner, NextOwner, <1>1, PTL DEF Spec

(* A heap is constructed once and is never used before it is: the          *)
(* initialised flag of a slot agrees with what its holder is doing.        *)
THEOREM RegistryBuildsOnce == Spec => []HeapBuiltOnce
<1>1. OwnerInv => HeapBuiltOnce
  BY DEF OwnerInv, HeapMatches, HeapBuiltOnce, MaintPcs
<1> QED
  BY InitType, NextType, InitOwner, NextOwner, <1>1, PTL DEF Spec

-----------------------------------------------------------------------------
(* What a claim finds                                                      *)

(* Where a claimable slot is to be found.  Stronger than NoSlotLost: an    *)
(* actor that is about to claim a slot it saw Empty counts only while the  *)
(* slot is Empty, since its compare-and-swap fails otherwise and the slot  *)
(* is then dropped.                                                        *)
Tracked(i) ==
    \/ i = hint \/ i \in free
    \/ \E a \in Actors :
         \/ idx[a] = i /\ pc[a] \in HandPcs \ {"cas_empty"}
         \/ idx[a] = i /\ pc[a] = "cas_empty" /\ state[i] = "Empty"
         \/ prev[a] = i /\ pc[a] \in SpillPcs

TrackInv ==
    /\ \A a \in Actors : pc[a] = "cas_free" => state[idx[a]] # "Empty"
    /\ \A i \in 0 .. count - 1 : Claimable(i) => Tracked(i)

(* What an actor names lies below the count and, once it has looked at the *)
(* slot, in a chunk that exists; so does every heap.                       *)
ChunkPcs == {"observe", "cas_empty", "cas_free", "republish"} \cup LivePcs \cup InitPcs

Bounded(a) ==
    /\ pc[a] \in SlotPcs => idx[a] < count
    /\ \A i \in todo[a] : i < count
    /\ found[a] = NoSlot \/ found[a] < count
    /\ pc[a] \in ChunkPcs => Chunk(idx[a]) \in chunks

BoundInv ==
    /\ \A a \in Actors : Bounded(a)
    /\ \A i \in Slots : initialised[i] => i < count /\ Chunk(i) \in chunks

(* What a scan has seen holds as long as the version it has read stands.   *)
ScanPcs == {"pick_snap", "scan_begin", "scan", "pick_mark"}

SeenTrue(a) ==
    /\ ver[a] <= sat
    /\ pc[a] \in ScanPcs => count = MAX_HEAPS
    /\ pc[a] = "pick_mark" => todo[a] = {} /\ found[a] = NoSlot
    /\ /\ pc[a] \in {"scan", "pick_mark"} /\ found[a] = NoSlot
       /\ sat = ver[a] /\ ver[a] # DISABLED /\ ver[a] % 2 = 0
       => \A i \in Slots \ todo[a] : Claimable(i) => Releasing(i)

SatInv == SaturationSound /\ \A a \in Actors : SeenTrue(a)

(* What a claim on its way to a refusal knows of the heaps that were free  *)
(* since it began.                                                         *)
FreshPcs == PickPcs \cup {"idle", "live", "maint"} \cup (ReleasePcs \ {"push_bit", "push_sat"})
ChosenPcs == {"slot", "observe", "cas_empty", "cas_free", "republish", "forget", "check_init",
              "cas_init", "construct", "set_init", "push_back"}
OomPcs == {"oom_hint", "oom_spill", "oom_sat", "push_bit", "push_sat"}

SteadyFree(a) ==
    \A i \in steady[a] : state[i] = "Free" /\ initialised[i] /\ ~ Releasing(i)

NoneOverlooked(a) ==
    /\ pc[a] \in FreshPcs => failed[a] = NoSlot
    /\ ooms[a] >= 1 => failed[a] # NoSlot
    /\ failed[a] \notin steady[a]
    /\ pc[a] \in OomPcs => idx[a] \notin steady[a]
    /\ pc[a] \in {"scan", "rscan"} => steady[a] \subseteq todo[a]
    /\ pc[a] \in {"pick_mark", "none"} => steady[a] = {}
    /\ failed[a] # NoSlot /\ pc[a] \in ChosenPcs => steady[a] = {} \/ initialised[idx[a]]
    /\ failed[a] # NoSlot /\ pc[a] \in {"push_bit", "push_sat"} => steady[a] = {}

RefusalInv == \A a \in Actors : SteadyFree(a) /\ NoneOverlooked(a)

-----------------------------------------------------------------------------
(* What a step of one actor leaves alone, and the directions in which it   *)
(* moves what all share.                                                   *)
OthersKeep(a) ==
    /\ \A b \in Actors \ {a} :
         /\ pc'[b] = pc[b] /\ idx'[b] = idx[b] /\ prev'[b] = prev[b]
         /\ todo'[b] = todo[b] /\ found'[b] = found[b] /\ ver'[b] = ver[b]
         /\ failed'[b] = failed[b] /\ ooms'[b] = ooms[b]
    /\ \A b \in Actors \ {a} : steady'[b] \subseteq steady[b]
    /\ count <= count' /\ chunks \subseteq chunks'
    /\ \A i \in Slots : initialised[i] => initialised'[i]

LEMMA PickKeeps ==
    ASSUME TypeInv, NEW t \in Threads, PickStep(t) \/ RecoverStep(t)
    PROVE  OthersKeep(t)
<1> USE RegistryAssumption
    DEF TypeInv, TypeOK, Actors, Goto, Set, OthersKeep, slotVars, hintVars, scanVars, claimVars
<1>1. CASE PickHint(t) \/ PickCount(t) \/ PickSat(t) \/ PickSnap(t)
  BY <1>1 DEF PickHint, PickCount, PickSat, PickSnap
<1>2. CASE PickTake(t)
  BY <1>2 DEF PickTake
<1>3. CASE PickBump(t)
  BY <1>3 DEF PickBump
<1>4. CASE ScanBegin(t) \/ ScanEnd(t) \/ PickMark(t)
  BY <1>4 DEF ScanBegin, ScanEnd, PickMark
<1>5. CASE RecoverBegin(t) \/ RecoverEnd(t)
  BY <1>5 DEF RecoverBegin, RecoverEnd
<1>6. ASSUME NEW i \in Slots, ScanVisit(t, i)
      PROVE  OthersKeep(t)
  BY <1>6 DEF ScanVisit
<1>7. ASSUME NEW i \in Slots, RecoverVisit(t, i)
      PROVE  OthersKeep(t)
  BY <1>7 DEF RecoverVisit
<1> QED
  BY <1>1, <1>2, <1>3, <1>4, <1>5, <1>6, <1>7 DEF PickStep, RecoverStep

Tail(a) ==
    \/ SwapHint(a, "oom_hint", "oom_spill") \/ SwapHint(a, "drop_hint", "drop_spill")
    \/ SwapHint(a, "maint_hint", "maint_spill")
    \/ Spill(a, "oom_spill", "oom_sat") \/ Spill(a, "drop_spill", "drop_sat")
    \/ Spill(a, "maint_spill", "maint_sat")
    \/ ReleaseSat(a, "drop_sat") \/ ReleaseSat(a, "maint_sat")

LEMMA TailKeeps ==
    ASSUME TypeInv, NEW a \in Actors, Tail(a)
    PROVE  OthersKeep(a)
BY DEF TypeInv, TypeOK, Goto, Set, OthersKeep, slotVars, hintVars, scanVars, claimVars,
       Tail, SwapHint, Spill, ReleaseSat

LEMMA ClaimKeeps ==
    ASSUME TypeInv, NEW t \in Threads, ClaimStep(t)
    PROVE  OthersKeep(t)
<1>0. t \in Actors
  BY DEF Actors
<1>1. CASE Slot(t) \/ Observe(t) \/ Republish(t) \/ OomSat(t)
  BY <1>0, <1>1 DEF Slot, Observe, Republish, OomSat, TypeInv, TypeOK, Goto, Set, OthersKeep,
                    slotVars, hintVars, scanVars, claimVars
<1>2. CASE CasEmpty(t) \/ CasFree(t) \/ Forget(t) \/ CheckInit(t) \/ CasInit(t) \/ Construct(t)
  BY <1>0, <1>2 DEF CasEmpty, CasFree, Forget, CheckInit, CasInit, Construct, MustCas, TypeInv,
                    TypeOK, Goto, Set, OthersKeep, slotVars, hintVars, scanVars, claimVars
<1>3. CASE SetInit(t) \/ PublishLive(t) \/ Trim(t) \/ ReturnNone(t)
  BY <1>0, <1>3 DEF SetInit, PublishLive, Trim, ReturnNone, Lease, MustCas, TypeInv, TypeOK,
                    Goto, Set, OthersKeep, slotVars, hintVars, scanVars, claimVars
<1>4. CASE PushBack(t) \/ PushBit(t) \/ PushSat(t)
  BY <1>0, <1>4 DEF PushBack, PushBit, PushSat, MustCas, TypeInv, TypeOK, Goto, Set,
                    OthersKeep, slotVars, hintVars, scanVars, claimVars
<1> QED
  BY <1>0, <1>1, <1>2, <1>3, <1>4, PickKeeps, TailKeeps DEF ClaimStep, ChunkOom, Tail

LEMMA StepKeeps ==
    ASSUME TypeInv, NEW a \in Actors,
           \/ a \in Threads /\ ThreadNext(a)
           \/ a \in Workers /\ WorkerNext(a)
    PROVE  OthersKeep(a)
<1>1. CASE a \in Threads /\ (Claim(a) \/ DropCas(a))
  BY <1>1 DEF Claim, DropCas, MustCas, TypeInv, TypeOK, Goto, Set, OthersKeep, slotVars,
              hintVars, scanVars, claimVars
<1>2. CASE a \in Workers /\ (MaintenanceCas(a) \/ \E i \in Slots : MaintenanceTry(a, i))
  BY <1>2 DEF MaintenanceCas, MaintenanceTry, MustCas, TypeInv, TypeOK, Goto, Set, OthersKeep,
              slotVars, hintVars, scanVars, claimVars
<1> QED
  BY <1>1, <1>2, ClaimKeeps, TailKeeps
     DEF ThreadNext, WorkerNext, DropTail, MaintenanceTail, Tail

-----------------------------------------------------------------------------
(* The names of slots stay below the count, heaps in chunks that exist.    *)
LEMMA OthersBounded ==
    ASSUME TypeInv, TypeInv', NEW a \in Actors, OthersKeep(a), NEW b \in Actors \ {a}, Bounded(b)
    PROVE  Bounded(b)'
<1>1. /\ count <= count' /\ chunks \subseteq chunks' /\ idx'[b] = idx[b]
      /\ pc'[b] = pc[b] /\ todo'[b] = todo[b] /\ found'[b] = found[b]
  BY DEF OthersKeep
<1>2. /\ count \in Nat /\ count' \in Nat /\ idx[b] \in Nat /\ found[b] \in Nat
      /\ \A i \in todo[b] : i \in Nat
  <2>1. count \in 0 .. MAX_HEAPS /\ count' \in 0 .. MAX_HEAPS
    BY DEF TypeInv, TypeOK
  <2>2. /\ idx[b] \in Slots \cup {NoSlot} /\ found[b] \in Slots \cup {NoSlot}
        /\ todo[b] \subseteq Slots
    BY DEF TypeInv, TypeOK
  <2>3. Slots \cup {NoSlot} \subseteq Nat
    BY RegistryAssumption DEF Slots, NoSlot
  <2> QED
    BY <2>1, <2>2, <2>3
<1> QED
  BY <1>1, <1>2 DEF Bounded

LEMMA PickBounded ==
    ASSUME TypeInv, TypeInv', NEW t \in Threads, Bounded(t), PickStep(t) \/ RecoverStep(t)
    PROVE  Bounded(t)' /\ initialised' = initialised
<1> USE RegistryAssumption
    DEF TypeInv, TypeOK, Actors, Goto, Set, Bounded, slotVars, hintVars, scanVars, claimVars,
        SlotPcs, ChunkPcs, LivePcs, InitPcs, MaintPcs, ReleasePcs
<1>1. CASE PickHint(t) \/ PickCount(t) \/ PickSat(t) \/ PickSnap(t)
  BY <1>1 DEF PickHint, PickCount, PickSat, PickSnap
<1>2. CASE PickTake(t)
  BY <1>2 DEF PickTake
<1>3. CASE PickBump(t)
  <2>1. CASE count < MAX_HEAPS
    <3>1. /\ idx' = [idx EXCEPT ![t] = count] /\ count' = count + 1
          /\ pc' = [pc EXCEPT ![t] = "slot"] /\ UNCHANGED <<todo, found, initialised>>
      BY <1>3, <2>1 DEF PickBump
    <3>2. /\ count \in Nat /\ found[t] \in Nat /\ todo[t] \subseteq Nat
      BY SMTT(30) DEF Slots, NoSlot
    <3> QED
      BY <3>1, <3>2
  <2>2. CASE count = MAX_HEAPS
    BY <1>3, <2>2 DEF PickBump
  <2> QED
    BY <1>3, <2>1, <2>2 DEF PickBump
<1>4. CASE ScanBegin(t) \/ PickMark(t)
  BY <1>4 DEF ScanBegin, PickMark
<1>5. CASE ScanEnd(t)
  BY <1>5 DEF ScanEnd
<1>6. CASE RecoverBegin(t)
  BY <1>6 DEF RecoverBegin
<1>7. CASE RecoverEnd(t)
  BY <1>7 DEF RecoverEnd
<1>8. ASSUME NEW i \in Slots, ScanVisit(t, i)
      PROVE  Bounded(t)' /\ initialised' = initialised
  BY <1>8 DEF ScanVisit
<1>9. ASSUME NEW i \in Slots, RecoverVisit(t, i)
      PROVE  Bounded(t)' /\ initialised' = initialised
  BY <1>9 DEF RecoverVisit
<1> QED
  BY <1>1, <1>2, <1>3, <1>4, <1>5, <1>6, <1>7, <1>8, <1>9 DEF PickStep, RecoverStep

LEMMA TailBounded ==
    ASSUME TypeInv, NEW a \in Actors, Bounded(a), Tail(a) \/ OomSat(a)
    PROVE  Bounded(a)' /\ initialised' = initialised
BY DEF TypeInv, TypeOK, Goto, Set, Bounded, slotVars, hintVars, scanVars, claimVars,
       SlotPcs, ChunkPcs, LivePcs, InitPcs, MaintPcs, ReleasePcs,
       Tail, SwapHint, Spill, ReleaseSat, OomSat

LEMMA ClaimBounded ==
    ASSUME TypeInv, TypeInv', NEW t \in Threads, Bounded(t), ClaimStep(t)
    PROVE  /\ Bounded(t)'
           /\ \/ initialised' = initialised
              \/ /\ pc[t] = "set_init"
                 /\ initialised' = [initialised EXCEPT ![idx[t]] = TRUE]
<1>0. t \in Actors
  BY DEF Actors
<1> USE <1>0 DEF TypeInv, TypeOK, Goto, Set, Bounded, slotVars, hintVars, scanVars, claimVars,
            SlotPcs, ChunkPcs, LivePcs, InitPcs, MaintPcs, ReleasePcs
<1>1. CASE Slot(t)
  BY <1>1 DEF Slot
<1>2. CASE Observe(t) \/ Republish(t)
  BY <1>2 DEF Observe, Republish, LoopHead
<1>3. CASE CasEmpty(t) \/ CasFree(t)
  BY <1>3 DEF CasEmpty, CasFree, LoopHead
<1>4. CASE Forget(t) \/ CheckInit(t) \/ CasInit(t) \/ Construct(t)
  BY <1>4 DEF Forget, CheckInit, CasInit, Construct, MustCas
<1>5. CASE SetInit(t)
  BY <1>5 DEF SetInit
<1>6. CASE PublishLive(t) \/ Trim(t) \/ ReturnNone(t)
  BY <1>6 DEF PublishLive, Trim, ReturnNone, Lease, MustCas
<1>7. CASE PushBack(t) \/ PushBit(t) \/ PushSat(t)
  BY <1>7 DEF PushBack, PushBit, PushSat, MustCas
<1>8. CASE ChunkOom(t)
  BY <1>8, TailBounded DEF ChunkOom, Tail
<1> QED
  BY <1>1, <1>2, <1>3, <1>4, <1>5, <1>6, <1>7, <1>8, PickBounded DEF ClaimStep

LEMMA BoundStep == TypeInv /\ TypeInv' /\ BoundInv /\ [Next]_vars => BoundInv'
<1> SUFFICES ASSUME TypeInv, TypeInv', BoundInv, [Next]_vars
             PROVE  BoundInv'
  OBVIOUS
<1>1. CASE UNCHANGED vars
  BY <1>1 DEF vars, slotVars, hintVars, scanVars, BoundInv, Bounded
<1>2. ASSUME NEW a \in Actors,
             \/ a \in Threads /\ ThreadNext(a)
             \/ a \in Workers /\ WorkerNext(a)
      PROVE  BoundInv'
  <2>1. OthersKeep(a) /\ Bounded(a)
    BY <1>2, StepKeeps DEF BoundInv
  <2>2. /\ Bounded(a)'
        /\ \/ initialised' = initialised
           \/ /\ pc[a] = "set_init"
              /\ initialised' = [initialised EXCEPT ![idx[a]] = TRUE]
    <3> USE DEF TypeInv, TypeOK, Goto, Set, Bounded, slotVars, hintVars, scanVars, claimVars,
                SlotPcs, ChunkPcs, LivePcs, InitPcs, MaintPcs, ReleasePcs
    <3>1. CASE a \in Threads /\ (Claim(a) \/ DropCas(a))
      BY <2>1, <3>1 DEF Claim, DropCas, MustCas
    <3>2. CASE a \in Workers /\ (MaintenanceCas(a) \/ \E i \in Slots : MaintenanceTry(a, i))
      BY <2>1, <3>2 DEF MaintenanceCas, MaintenanceTry, MustCas
    <3>3. CASE Tail(a)
      BY <2>1, <3>3, TailBounded
    <3> QED
      BY <1>2, <2>1, <3>1, <3>2, <3>3, ClaimBounded
         DEF ThreadNext, WorkerNext, DropTail, MaintenanceTail, Tail
  <2>3. \A i \in Slots : initialised'[i] => i < count' /\ Chunk(i) \in chunks'
    <3>1. /\ count \in Nat /\ count' \in Nat /\ count <= count' /\ chunks \subseteq chunks'
          /\ \A i \in Slots : i \in Nat /\ (initialised[i] => i < count /\ Chunk(i) \in chunks)
      BY <2>1 DEF OthersKeep, BoundInv, TypeInv, TypeOK, Slots
    <3>2. CASE initialised' = initialised
      BY <3>1, <3>2
    <3>3. CASE pc[a] = "set_init" /\ initialised' = [initialised EXCEPT ![idx[a]] = TRUE]
      <4>1. idx[a] < count /\ Chunk(idx[a]) \in chunks
        BY <2>1, <3>3 DEF Bounded, SlotPcs, ChunkPcs, InitPcs
      <4> QED
        BY <3>1, <3>3, <4>1 DEF TypeInv, TypeOK
    <3> QED
      BY <2>2, <3>2, <3>3
  <2>4. \A b \in Actors \ {a} : Bounded(b)'
    BY <2>1, OthersBounded DEF BoundInv
  <2> QED
    BY <2>2, <2>3, <2>4 DEF BoundInv
<1> QED
  BY <1>1, <1>2 DEF Next, Actors

LEMMA InitBound == Init => BoundInv
BY RegistryAssumption
   DEF Init, BoundInv, Bounded, SlotPcs, ChunkPcs, LivePcs, InitPcs, MaintPcs, ReleasePcs

-----------------------------------------------------------------------------
(* What the hints and one actor know of slot i.                            *)
Near(a, i) ==
    \/ i = hint \/ i \in free
    \/ idx[a] = i /\ pc[a] \in HandPcs \ {"cas_empty"}
    \/ idx[a] = i /\ pc[a] = "cas_empty" /\ state[i] = "Empty"
    \/ prev[a] = i /\ pc[a] \in SpillPcs

SawFree(a) == pc[a] = "cas_free" => state[idx[a]] # "Empty"

(* A step of an actor loses sight of no slot.                              *)
Keeps(a) ==
    /\ SawFree(a)'
    /\ \A i \in Slots :
         /\ state'[i] = "Empty" => state[i] = "Empty"
         /\ i < count' /\ Claimable(i)' =>
              \/ Near(a, i)'
              \/ i < count /\ Claimable(i) /\ state'[i] = state[i] /\ ~ Near(a, i)

LEMMA BelowCount ==
    ASSUME NEW n \in 0 .. MAX_HEAPS, NEW i \in 0 .. n - 1
    PROVE  i \in Slots /\ i < n
BY RegistryAssumption DEF Slots

LEMMA KeepsTracked ==
    ASSUME TypeInv, TypeInv', TrackInv, NEW a \in Actors, OthersKeep(a), Keeps(a)
    PROVE  TrackInv'
<1>1. \A b \in Actors : SawFree(b)'
  <2>1. ASSUME NEW b \in Actors \ {a}, pc'[b] = "cas_free"
        PROVE  state'[idx'[b]] # "Empty"
    <3>1. idx'[b] = idx[b] /\ pc[b] = "cas_free" /\ idx[b] \in Slots
      BY <2>1 DEF OthersKeep, TypeInv, IdxOK, SlotPcs
    <3> QED
      BY <3>1 DEF TrackInv, Keeps
  <2> QED
    BY <2>1 DEF Keeps, SawFree
<1>2. ASSUME NEW i \in 0 .. count' - 1, Claimable(i)'
      PROVE  Tracked(i)'
  <2>1. i \in Slots /\ i < count'
    <3>1. count' \in 0 .. MAX_HEAPS
      BY DEF TypeInv, TypeOK
    <3> QED
      BY <1>2, <3>1, BelowCount
  <2>2. CASE Near(a, i)'
    BY <2>2 DEF Near, Tracked
  <2>3. CASE i < count /\ Claimable(i) /\ state'[i] = state[i] /\ ~ Near(a, i)
    <3>1. i \in 0 .. count - 1
      BY <2>1, <2>3 DEF TypeInv, TypeOK, Slots
    <3>2. Tracked(i)
      BY <2>3, <3>1 DEF TrackInv
    <3>3. PICK b \in Actors \ {a} :
             \/ idx[b] = i /\ pc[b] \in HandPcs \ {"cas_empty"}
             \/ idx[b] = i /\ pc[b] = "cas_empty" /\ state[i] = "Empty"
             \/ prev[b] = i /\ pc[b] \in SpillPcs
      BY <2>3, <3>2 DEF Tracked, Near
    <3>4. idx'[b] = idx[b] /\ pc'[b] = pc[b] /\ prev'[b] = prev[b]
      BY DEF OthersKeep
    <3> QED
      BY <2>3, <3>3, <3>4 DEF Tracked
  <2> QED
    BY <1>2, <2>1, <2>2, <2>3 DEF Keeps
<1> QED
  BY <1>1, <1>2 DEF TrackInv, SawFree

LEMMA PickTracks ==
    ASSUME TypeInv, NEW t \in Threads, PickStep(t) \/ RecoverStep(t)
    PROVE  Keeps(t)
<1> USE RegistryAssumption
    DEF TypeInv, TypeOK, Actors, Goto, Set, Keeps, Near, SawFree, Claimable, slotVars, hintVars,
        scanVars, claimVars, HandPcs, SpillPcs
<1>1. CASE PickHint(t)
  BY <1>1 DEF PickHint, NoSlot, Slots
<1>2. CASE PickCount(t)
  BY <1>2 DEF PickCount
<1>3. CASE PickTake(t)
  <2>1. ASSUME NEW k \in free, free' = free \ {k}, idx' = [idx EXCEPT ![t] = k],
               k < count, pc' = [pc EXCEPT ![t] = "slot"]
        PROVE  Keeps(t)
    BY <1>3, <2>1 DEF PickTake
  <2>2. ASSUME NEW k \in free, free' = free \ {k}, idx' = [idx EXCEPT ![t] = k],
               ~ (k < count), pc' = [pc EXCEPT ![t] = "pick_sat"]
        PROVE  Keeps(t)
    BY <1>3, <2>2 DEF PickTake
  <2>3. CASE pc' = [pc EXCEPT ![t] = "pick_sat"] /\ UNCHANGED <<free, idx>>
    BY <1>3, <2>3 DEF PickTake
  <2> QED
    BY <1>3, <2>1, <2>2, <2>3 DEF PickTake
<1>4. CASE PickSat(t) \/ PickSnap(t)
  BY <1>4 DEF PickSat, PickSnap
<1>5. CASE PickBump(t)
  <2>1. CASE count < MAX_HEAPS
    <3>1. /\ idx' = [idx EXCEPT ![t] = count] /\ count' = count + 1 /\ pc[t] = "pick_bump"
          /\ pc' = [pc EXCEPT ![t] = "slot"]
          /\ UNCHANGED <<state, initialised, hint, free, prev>>
      BY <1>5, <2>1 DEF PickBump
    <3>2. count \in Nat /\ \A i \in Slots : i \in Nat
      BY DEF Slots
    <3>3. \A i \in Slots : i < count + 1 => i < count \/ i = count
      BY <3>2
    <3> QED
      BY <3>1, <3>3
  <2>2. CASE count = MAX_HEAPS
    BY <1>5, <2>2 DEF PickBump
  <2> QED
    BY <1>5, <2>1, <2>2 DEF PickBump
<1>6. CASE ScanBegin(t) \/ ScanEnd(t)
  BY <1>6 DEF ScanBegin, ScanEnd
<1>7. CASE PickMark(t)
  BY <1>7 DEF PickMark
<1>8. CASE RecoverBegin(t) \/ RecoverEnd(t)
  BY <1>8 DEF RecoverBegin, RecoverEnd
<1>9. ASSUME NEW k \in Slots, ScanVisit(t, k)
      PROVE  Keeps(t)
  <2>1. pc' = [pc EXCEPT ![t] = "slot"] \/ UNCHANGED <<pc, idx>>
    BY <1>9 DEF ScanVisit
  <2> QED
    BY <1>9, <2>1 DEF ScanVisit
<1>10. ASSUME NEW k \in Slots, RecoverVisit(t, k)
       PROVE  Keeps(t)
  <2>1. pc' = [pc EXCEPT ![t] = "slot"] \/ UNCHANGED <<pc, idx>>
    BY <1>10 DEF RecoverVisit
  <2> QED
    BY <1>10, <2>1 DEF RecoverVisit
<1> QED
  BY <1>1, <1>2, <1>3, <1>4, <1>5, <1>6, <1>7, <1>8, <1>9, <1>10 DEF PickStep, RecoverStep

LEMMA TailTracks ==
    ASSUME TypeInv, NEW a \in Actors, Tail(a) \/ OomSat(a)
    PROVE  Keeps(a)
<1> USE DEF TypeInv, TypeOK, Goto, Set, Keeps, Near, SawFree, Claimable, slotVars, hintVars,
            scanVars, claimVars, HandPcs, SpillPcs
<1>1. CASE \/ SwapHint(a, "oom_hint", "oom_spill") \/ SwapHint(a, "drop_hint", "drop_spill")
           \/ SwapHint(a, "maint_hint", "maint_spill")
  BY <1>1 DEF SwapHint
<1>2. CASE \/ Spill(a, "oom_spill", "oom_sat") \/ Spill(a, "drop_spill", "drop_sat")
           \/ Spill(a, "maint_spill", "maint_sat")
  <2>1. \A i \in Slots : i < MAX_HEAPS
    BY RegistryAssumption DEF Slots
  <2> QED
    BY <1>2, <2>1 DEF Spill
<1>3. CASE ReleaseSat(a, "drop_sat") \/ ReleaseSat(a, "maint_sat") \/ OomSat(a)
  BY <1>3 DEF ReleaseSat, OomSat
<1> QED
  BY <1>1, <1>2, <1>3 DEF Tail

LEMMA ClaimTracks ==
    ASSUME TypeInv, OwnerInv, TrackInv, NEW t \in Threads, ClaimStep(t)
    PROVE  Keeps(t)
<1>0. t \in Actors
  BY DEF Actors
<1>1. SawFree(t)
  BY <1>0 DEF TrackInv, SawFree
<1>2. pc[t] \in SlotPcs => idx[t] \in Slots
  BY <1>0 DEF TypeInv, IdxOK
<1> USE <1>0, <1>1, <1>2
    DEF TypeInv, TypeOK, Goto, Set, Keeps, Near, SawFree, Claimable, slotVars, hintVars, scanVars,
        claimVars, HandPcs, SpillPcs, SlotPcs, LivePcs, InitPcs, MaintPcs, ReleasePcs
<1>3. CASE Slot(t)
  BY <1>3 DEF Slot
<1>4. CASE Observe(t)
  BY <1>4 DEF Observe, LoopHead
<1>5. CASE Republish(t)
  BY <1>5 DEF Republish, LoopHead
<1>6. CASE CasEmpty(t)
  BY <1>6 DEF CasEmpty, LoopHead
<1>7. CASE CasFree(t)
  BY <1>7 DEF CasFree, LoopHead
<1>8. CASE Forget(t)
  BY <1>8 DEF Forget, OwnerInv, StateNamesHolder
<1>9. CASE CheckInit(t) \/ CasInit(t) \/ Construct(t)
  BY <1>9 DEF CheckInit, CasInit, Construct, MustCas
<1>10. CASE SetInit(t)
  BY <1>10 DEF SetInit
<1>11. CASE PublishLive(t) \/ Trim(t) \/ ReturnNone(t)
  BY <1>11 DEF PublishLive, Trim, ReturnNone, Lease, MustCas
<1>12. CASE PushBack(t)
  BY <1>12 DEF PushBack, MustCas
<1>13. CASE PushBit(t) \/ PushSat(t)
  BY <1>13 DEF PushBit, PushSat
<1>14. CASE ChunkOom(t)
  BY <1>14, TailTracks DEF ChunkOom, Tail
<1> QED
  BY <1>3, <1>4, <1>5, <1>6, <1>7, <1>8, <1>9, <1>10, <1>11, <1>12, <1>13, <1>14, PickTracks
     DEF ClaimStep

LEMMA TrackStep == TypeInv /\ TypeInv' /\ OwnerInv /\ TrackInv /\ [Next]_vars => TrackInv'
<1> SUFFICES ASSUME TypeInv, TypeInv', OwnerInv, TrackInv, [Next]_vars
             PROVE  TrackInv'
  OBVIOUS
<1>1. CASE UNCHANGED vars
  BY <1>1 DEF vars, slotVars, hintVars, TrackInv, Tracked, Claimable
<1>2. ASSUME NEW a \in Actors,
             \/ a \in Threads /\ ThreadNext(a)
             \/ a \in Workers /\ WorkerNext(a)
      PROVE  TrackInv'
  <2>1. Keeps(a)
    <3> USE DEF TypeInv, TypeOK, IdxOK, Goto, Set, Keeps, Near, SawFree, Claimable, slotVars,
                hintVars, HandPcs, SpillPcs, SlotPcs, LivePcs, MaintPcs
    <3>1. CASE a \in Threads /\ Claim(a)
      BY <3>1 DEF Claim
    <3>2. CASE a \in Threads /\ DropCas(a)
      BY <3>2 DEF DropCas, MustCas
    <3>3. CASE a \in Workers /\ MaintenanceCas(a)
      BY <3>3 DEF MaintenanceCas, MustCas
    <3>4. ASSUME NEW i \in Slots, MaintenanceTry(a, i)
          PROVE  Keeps(a)
      BY <3>4 DEF MaintenanceTry
    <3> QED
      BY <1>2, <3>1, <3>2, <3>3, <3>4, ClaimTracks, TailTracks
         DEF ThreadNext, WorkerNext, DropTail, MaintenanceTail, Tail
  <2> QED
    BY <1>2, <2>1, StepKeeps, KeepsTracked
<1> QED
  BY <1>1, <1>2 DEF Next, Actors

LEMMA InitTrack == Init => TrackInv
BY RegistryAssumption DEF Init, TrackInv

(* A slot that could be claimed is never dropped on the floor: below the   *)
(* count it is named by the reuse hint or by the bitmap, or an actor has   *)
(* it in hand, whatever claims, releases and failures run into one another *)
(* (pick_with_hint_spill, HeapLease::drop, push_back_after_oom).           *)
THEOREM RegistryLosesNoSlot == Spec => []NoSlotLost
<1>1. TrackInv => NoSlotLost
  BY DEF TrackInv, Tracked, NoSlotLost, InHand, HandPcs
<1> QED
  BY <1>1, InitType, NextType, InitOwner, NextOwner, InitTrack, TrackStep, PTL DEF Spec

-----------------------------------------------------------------------------
(* The saturation word: a publication leaves it unmarked and changes every *)
(* version read before, a mark changes an even version only.               *)
LEMMA PublishMoves ==
    ASSUME sat \in 0 .. WORD_MAX, PublishClaimable
    PROVE  /\ sat <= sat' /\ ~ IsSaturated'
           /\ \A v \in 0 .. sat : v # DISABLED => sat' # v
BY RegistryAssumption DEF PublishClaimable, LAST_VERSION, DISABLED, ClearBit0, IsSaturated

LEMMA MarkMoves ==
    ASSUME sat \in 0 .. WORD_MAX, NEW s \in 0 .. sat, TryMarkSaturated(s)
    PROVE  /\ sat <= sat'
           /\ \/ sat' = sat
              \/ sat = s /\ s # DISABLED /\ s % 2 = 0 /\ sat' = sat + 1
BY RegistryAssumption DEF TryMarkSaturated, DISABLED

(* How a step changes which slots can be claimed and which are released.   *)
Moves(a) ==
    /\ \A i \in Slots : Claimable(i)' => Claimable(i) \/ (idx'[a] = i /\ pc'[a] \in ReleasePcs)
    /\ \/ pc[a] \in ReleasePcs => idx'[a] = idx[a] /\ pc'[a] \in ReleasePcs
       \/ PublishClaimable
    /\ \/ sat' = sat
       \/ PublishClaimable
       \/ pc[a] = "pick_mark" /\ TryMarkSaturated(ver[a])
    /\ pc'[a] \in ReleasePcs =>
         idx'[a] = idx[a] /\ (pc[a] \in ReleasePcs \/ state[idx[a]] # "Free")
    /\ \A i \in Slots :
         state[i] = "Free" => state'[i] = "Free" \/ \A b \in Actors : i \notin steady'[b]

LEMMA PickMoves ==
    ASSUME TypeInv, NEW t \in Threads, PickStep(t) \/ RecoverStep(t)
    PROVE  Moves(t)
<1>1. UNCHANGED <<state, initialised>> /\ pc[t] \notin ReleasePcs /\ pc'[t] \notin ReleasePcs
  <2> USE DEF TypeInv, TypeOK, Actors, Goto, slotVars, ReleasePcs
  <2>1. CASE PickHint(t) \/ PickCount(t) \/ PickSat(t) \/ PickSnap(t) \/ PickTake(t) \/ PickBump(t)
    BY <2>1 DEF PickHint, PickCount, PickSat, PickSnap, PickTake, PickBump
  <2>2. CASE ScanBegin(t) \/ ScanEnd(t) \/ PickMark(t) \/ RecoverBegin(t) \/ RecoverEnd(t)
    BY <2>2 DEF ScanBegin, ScanEnd, PickMark, RecoverBegin, RecoverEnd
  <2>3. ASSUME NEW i \in Slots, ScanVisit(t, i) \/ RecoverVisit(t, i)
        PROVE  UNCHANGED <<state, initialised>> /\ pc[t] \notin ReleasePcs
                 /\ pc'[t] \notin ReleasePcs
    BY <2>3 DEF ScanVisit, RecoverVisit
  <2> QED
    BY <2>1, <2>2, <2>3 DEF PickStep, RecoverStep
<1>2. sat' = sat \/ (pc[t] = "pick_mark" /\ TryMarkSaturated(ver[t]))
  BY DEF PickStep, RecoverStep, PickHint, PickCount, PickSat, PickSnap, PickTake, PickBump,
         ScanBegin, ScanEnd, PickMark, ScanVisit, RecoverBegin, RecoverEnd, RecoverVisit, hintVars
<1> QED
  BY <1>1, <1>2 DEF Moves, Claimable

LEMMA TailMoves ==
    ASSUME TypeInv, NEW a \in Actors, Tail(a) \/ OomSat(a)
    PROVE  Moves(a)
BY DEF TypeInv, TypeOK, Goto, Set, slotVars, hintVars, Moves, Claimable, ReleasePcs,
       Tail, SwapHint, Spill, ReleaseSat, OomSat

LEMMA ClaimMoves ==
    ASSUME TypeInv, OwnerInv, NEW t \in Threads, ClaimStep(t)
    PROVE  Moves(t)
<1>0. t \in Actors
  BY DEF Actors
<1> USE <1>0 DEF TypeInv, TypeOK, IdxOK, SlotPcs, Goto, Set, slotVars, hintVars, Moves, Claimable,
                 ReleasePcs, LivePcs, InitPcs, MaintPcs
<1>1. CASE Slot(t) \/ Observe(t) \/ Republish(t)
  BY <1>1 DEF Slot, Observe, Republish, LoopHead
<1>2. CASE CasEmpty(t)
  BY <1>2 DEF CasEmpty, LoopHead
<1>3. CASE CasFree(t)
  BY <1>3 DEF CasFree, LoopHead
<1>4. CASE Forget(t) \/ CheckInit(t) \/ Construct(t)
  BY <1>4 DEF Forget, CheckInit, Construct
<1>5. CASE CasInit(t)
  BY <1>5 DEF CasInit, MustCas
<1>6. CASE SetInit(t)
  BY <1>6 DEF SetInit
<1>7. CASE PublishLive(t)
  BY <1>7 DEF PublishLive, Lease, MustCas
<1>8. CASE Trim(t) \/ ReturnNone(t)
  BY <1>8 DEF Trim, ReturnNone, Lease
<1>9. CASE PushBack(t)
  BY <1>9 DEF PushBack, MustCas
<1>10. CASE PushBit(t) \/ PushSat(t)
  BY <1>10 DEF PushBit, PushSat
<1>11. CASE ChunkOom(t)
  BY <1>11, TailMoves DEF ChunkOom, Tail
<1> QED
  BY <1>1, <1>2, <1>3, <1>4, <1>5, <1>6, <1>7, <1>8, <1>9, <1>10, <1>11, PickMoves DEF ClaimStep

LEMMA StepMoves ==
    ASSUME TypeInv, OwnerInv, NEW a \in Actors,
           \/ a \in Threads /\ ThreadNext(a)
           \/ a \in Workers /\ WorkerNext(a)
    PROVE  Moves(a)
<1> USE DEF TypeInv, TypeOK, IdxOK, SlotPcs, Goto, Set, slotVars, hintVars, Moves, Claimable,
            ReleasePcs, LivePcs, InitPcs, MaintPcs
<1>1. CASE a \in Threads /\ Claim(a)
  BY <1>1 DEF Claim
<1>2. CASE a \in Threads /\ DropCas(a)
  BY <1>2 DEF DropCas, MustCas
<1>3. CASE a \in Workers /\ MaintenanceCas(a)
  BY <1>3 DEF MaintenanceCas, MustCas
<1>4. ASSUME NEW i \in Slots, MaintenanceTry(a, i)
      PROVE  Moves(a)
  BY <1>4 DEF MaintenanceTry
<1> QED
  BY <1>1, <1>2, <1>3, <1>4, ClaimMoves, TailMoves
     DEF ThreadNext, WorkerNext, DropTail, MaintenanceTail, Tail

-----------------------------------------------------------------------------
(* A version that still stands was not published over, so whatever could   *)
(* be claimed since is on its way to be published.                         *)
LEMMA StillReleasing ==
    ASSUME TypeInv, NEW a \in Actors, OthersKeep(a), Moves(a), ~ PublishClaimable,
           NEW i \in Slots, Claimable(i) => Releasing(i), Claimable(i)'
    PROVE  Releasing(i)'
<1>1. CASE idx'[a] = i /\ pc'[a] \in ReleasePcs
  BY <1>1 DEF Releasing
<1>2. CASE Claimable(i)
  <2>1. PICK b \in Actors : idx[b] = i /\ pc[b] \in ReleasePcs
    BY <1>2 DEF Releasing
  <2>2. idx'[b] = i /\ pc'[b] \in ReleasePcs
    BY <2>1 DEF OthersKeep, Moves
  <2> QED
    BY <2>2 DEF Releasing
<1> QED
  BY <1>1, <1>2 DEF Moves

LEMMA SatGrows ==
    ASSUME TypeInv, NEW a \in Actors, SeenTrue(a), Moves(a)
    PROVE  sat <= sat'
<1>1. sat \in 0 .. WORD_MAX /\ ver[a] \in 0 .. sat
  BY DEF TypeInv, TypeOK, SeenTrue
<1> QED
  BY <1>1, PublishMoves, MarkMoves DEF Moves

LEMMA OthersSeen ==
    ASSUME TypeInv, TypeInv', NEW a \in Actors, OthersKeep(a), Moves(a), SeenTrue(a),
           NEW b \in Actors \ {a}, SeenTrue(b)
    PROVE  SeenTrue(b)'
<1>1. /\ ver'[b] = ver[b] /\ pc'[b] = pc[b] /\ todo'[b] = todo[b] /\ found'[b] = found[b]
      /\ count <= count'
  BY DEF OthersKeep
<1>2. /\ sat \in 0 .. WORD_MAX /\ sat' \in 0 .. WORD_MAX /\ ver[b] \in 0 .. sat
      /\ count \in 0 .. MAX_HEAPS /\ count' \in 0 .. MAX_HEAPS
  BY DEF TypeInv, TypeOK, SeenTrue
<1>3. sat <= sat'
  BY SatGrows
<1>4. ver'[b] <= sat'
  BY <1>1, <1>2, <1>3
<1>5. pc'[b] \in ScanPcs => count' = MAX_HEAPS
  BY <1>1, <1>2, RegistryAssumption DEF SeenTrue
<1>6. ASSUME sat' = ver[b], ver[b] # DISABLED, ver[b] % 2 = 0,
             pc[b] \in {"scan", "pick_mark"}, found[b] = NoSlot,
             NEW i \in Slots \ todo[b], Claimable(i)'
      PROVE  Releasing(i)'
  <2>1. sat = ver[b]
    BY <1>2, <1>3, <1>6
  <2>2. ~ PublishClaimable
    BY <1>2, <1>6, <2>1, PublishMoves
  <2>3. Claimable(i) => Releasing(i)
    BY <1>6, <2>1 DEF SeenTrue
  <2> QED
    BY <1>6, <2>2, <2>3, StillReleasing
<1> QED
  BY <1>1, <1>4, <1>5, <1>6 DEF SeenTrue

LEMMA MarkSound ==
    ASSUME TypeInv, NEW a \in Actors, OthersKeep(a), Moves(a), SeenTrue(a), SaturationSound
    PROVE  SaturationSound'
<1> SUFFICES ASSUME IsSaturated', NEW i \in Slots, Claimable(i)'
             PROVE  Releasing(i)'
  BY DEF SaturationSound
<1>1. sat \in 0 .. WORD_MAX /\ ver[a] \in 0 .. sat
  BY DEF TypeInv, TypeOK, SeenTrue
<1>2. ~ PublishClaimable
  BY <1>1, PublishMoves
<1>3. CASE sat' = sat
  <2>1. IsSaturated
    BY <1>3 DEF IsSaturated
  <2> QED
    BY <1>2, <2>1, StillReleasing DEF SaturationSound
<1>4. CASE sat' # sat
  <2>1. pc[a] = "pick_mark" /\ TryMarkSaturated(ver[a])
    BY <1>2, <1>4 DEF Moves
  <2>2. sat = ver[a] /\ ver[a] # DISABLED /\ ver[a] % 2 = 0
    BY <1>1, <1>4, <2>1, MarkMoves
  <2>3. Claimable(i) => Releasing(i)
    BY <2>1, <2>2 DEF SeenTrue
  <2> QED
    BY <1>2, <2>3, StillReleasing
<1> QED
  BY <1>3, <1>4

LEMMA ScanSees ==
    ASSUME TypeInv, NEW t \in Threads, SeenTrue(t), PickStep(t)
    PROVE  SeenTrue(t)'
<1>0. t \in Actors
  BY DEF Actors
<1>1. sat \in Nat /\ ver[t] \in Nat
  BY <1>0 DEF TypeInv, TypeOK
<1>2. CASE PickHint(t) \/ PickCount(t) \/ PickSat(t) \/ PickTake(t)
  BY <1>0, <1>2 DEF TypeInv, TypeOK, Goto, hintVars, scanVars, SeenTrue, ScanPcs,
                    PickHint, PickCount, PickSat, PickTake
<1>4. CASE PickBump(t)
  <2>1. ver' = ver /\ sat' = sat
    BY <1>4 DEF PickBump, scanVars
  <2>2. pc'[t] = "slot" \/ (pc'[t] = "pick_snap" /\ count' = MAX_HEAPS)
    BY <1>0, <1>4 DEF PickBump, Goto, TypeInv, TypeOK
  <2> QED
    BY <2>1, <2>2 DEF SeenTrue, ScanPcs
<1>5. CASE PickSnap(t)
  BY <1>0, <1>1, <1>5 DEF PickSnap, TypeInv, TypeOK, Goto, Set, SeenTrue, ScanPcs, hintVars
<1>6. CASE ScanBegin(t)
  <2>1. count = MAX_HEAPS /\ todo'[t] = 0 .. count - 1 /\ pc'[t] = "scan"
    BY <1>0, <1>6 DEF ScanBegin, TypeInv, TypeOK, Goto, Set, SeenTrue, ScanPcs
  <2>2. todo'[t] = Slots
    BY <2>1 DEF Slots
  <2> QED
    BY <1>6, <2>1, <2>2 DEF ScanBegin, SeenTrue, ScanPcs, hintVars
<1>7. ASSUME NEW i \in Slots, ScanVisit(t, i)
      PROVE  SeenTrue(t)'
  <2>1. UNCHANGED <<sat, ver, count, state, initialised>> /\ pc[t] = "scan"
    BY <1>7 DEF ScanVisit, hintVars, slotVars
  <2>2. CASE pc'[t] = "slot"
    BY <2>1, <2>2 DEF SeenTrue, ScanPcs
  <2>3. CASE found'[t] = i
    <3>1. i # NoSlot
      BY RegistryAssumption DEF Slots, NoSlot
    <3>2. pc'[t] \in {"scan", "slot"}
      BY <1>0, <1>7 DEF ScanVisit, Goto, TypeInv, TypeOK
    <3> QED
      BY <2>1, <2>3, <3>1, <3>2 DEF SeenTrue, ScanPcs
  <2>4. CASE found'[t] = found[t] /\ found[t] # NoSlot /\ pc' = pc
    BY <2>1, <2>4 DEF SeenTrue, ScanPcs
  <2>5. CASE ~ Claimable(i) /\ todo'[t] = todo[t] \ {i} /\ UNCHANGED <<pc, idx, found>>
    <3>1. \A k \in Slots : Claimable(k)' = Claimable(k) /\ Releasing(k)' = Releasing(k)
      BY <2>1, <2>5 DEF Claimable, Releasing
    <3> QED
      BY <2>1, <2>5, <3>1 DEF SeenTrue, ScanPcs
  <2> QED
    BY <1>0, <1>7, <2>2, <2>3, <2>4, <2>5 DEF ScanVisit, Goto, Set, TypeInv, TypeOK
<1>8. CASE ScanEnd(t)
  <2>1. UNCHANGED <<sat, ver, count, state, initialised, todo>> /\ pc[t] = "scan"
        /\ todo[t] = {} /\ found'[t] = NoSlot
    BY <1>0, <1>8 DEF ScanEnd, hintVars, slotVars, Set, TypeInv, TypeOK
  <2>2. CASE found[t] # NoSlot
    <3>1. pc'[t] = "slot"
      BY <1>0, <1>8, <2>2 DEF ScanEnd, Goto, TypeInv, TypeOK
    <3> QED
      BY <2>1, <3>1 DEF SeenTrue, ScanPcs
  <2>3. CASE found[t] = NoSlot
    <3>1. pc' = [pc EXCEPT ![t] = "pick_mark"] /\ idx' = [idx EXCEPT ![t] = NoSlot]
      BY <1>8, <2>3 DEF ScanEnd, Goto, Set
    <3>2. \A k \in Slots : Claimable(k)' = Claimable(k) /\ (Releasing(k) => Releasing(k)')
      BY <1>0, <2>1, <3>1 DEF Claimable, Releasing, ReleasePcs, TypeInv, TypeOK
    <3>3. pc'[t] = "pick_mark"
      BY <1>0, <3>1 DEF TypeInv, TypeOK
    <3> QED
      BY <2>1, <2>3, <3>2, <3>3 DEF SeenTrue, ScanPcs
  <2> QED
    BY <2>2, <2>3
<1>9. CASE PickMark(t)
  <2>1. pc'[t] = "none" /\ ver' = ver
    BY <1>0, <1>9 DEF PickMark, Goto, scanVars, TypeInv, TypeOK
  <2>2. sat <= sat'
    BY <1>0, <1>1, <1>9, MarkMoves DEF PickMark, SeenTrue, TypeInv, TypeOK
  <2>3. sat' \in Nat
    BY <1>1, <1>9 DEF PickMark, TryMarkSaturated
  <2> QED
    BY <1>1, <2>1, <2>2, <2>3 DEF SeenTrue, ScanPcs
<1> QED
  BY <1>2, <1>4, <1>5, <1>6, <1>7, <1>8, <1>9 DEF PickStep

(* Outside a scan only the version matters, and it only falls behind.      *)
LEMMA OffScan ==
    ASSUME TypeInv, TypeInv', NEW a \in Actors, SeenTrue(a), sat <= sat',
           ver'[a] \in {0, ver[a]}, pc'[a] \notin ScanPcs
    PROVE  SeenTrue(a)'
<1>1. sat \in Nat /\ sat' \in Nat /\ ver[a] \in Nat
  BY DEF TypeInv, TypeOK
<1> QED
  BY <1>1 DEF SeenTrue, ScanPcs

LEMMA StepSees ==
    ASSUME TypeInv, TypeInv', NEW a \in Actors, SeenTrue(a), Moves(a),
           \/ a \in Threads /\ ThreadNext(a)
           \/ a \in Workers /\ WorkerNext(a)
    PROVE  SeenTrue(a)'
<1>1. CASE a \in Threads /\ PickStep(a)
  BY <1>1, ScanSees
<1>2. CASE ~ (a \in Threads /\ PickStep(a))
  <2> USE DEF TypeInv, TypeOK, Goto, Set, scanVars, ScanPcs
  <2>1. CASE a \in Threads /\ (Claim(a) \/ DropCas(a))
    <3>1. ver'[a] \in {0, ver[a]} /\ pc'[a] \notin ScanPcs
      BY <2>1 DEF Claim, DropCas, MustCas
    <3> QED
      BY <3>1, SatGrows, OffScan
  <2>2. CASE a \in Workers /\ (MaintenanceCas(a) \/ \E i \in Slots : MaintenanceTry(a, i))
    <3>1. ver'[a] \in {0, ver[a]} /\ pc'[a] \notin ScanPcs
      BY <2>2 DEF MaintenanceCas, MaintenanceTry, MustCas
    <3> QED
      BY <3>1, SatGrows, OffScan
  <2>3. CASE Tail(a) \/ OomSat(a)
    <3>1. ver'[a] \in {0, ver[a]} /\ pc'[a] \notin ScanPcs
      BY <2>3 DEF Tail, SwapHint, Spill, ReleaseSat, OomSat
    <3> QED
      BY <3>1, SatGrows, OffScan
  <2>4. CASE Slot(a) \/ Observe(a) \/ Republish(a) \/ CasEmpty(a) \/ CasFree(a)
    <3>1. ver'[a] \in {0, ver[a]} /\ pc'[a] \notin ScanPcs
      BY <2>4 DEF Slot, Observe, Republish, CasEmpty, CasFree, LoopHead
    <3> QED
      BY <3>1, SatGrows, OffScan
  <2>5. CASE Forget(a) \/ CheckInit(a) \/ CasInit(a) \/ Construct(a) \/ SetInit(a)
    <3>1. ver'[a] \in {0, ver[a]} /\ pc'[a] \notin ScanPcs
      BY <2>5 DEF Forget, CheckInit, CasInit, Construct, SetInit, MustCas
    <3> QED
      BY <3>1, SatGrows, OffScan
  <2>6. CASE PublishLive(a) \/ Trim(a) \/ ReturnNone(a)
    <3>1. ver'[a] \in {0, ver[a]} /\ pc'[a] \notin ScanPcs
      BY <2>6 DEF PublishLive, Trim, ReturnNone, Lease, MustCas
    <3> QED
      BY <3>1, SatGrows, OffScan
  <2>7. CASE PushBack(a) \/ PushBit(a) \/ PushSat(a)
    <3>1. ver'[a] \in {0, ver[a]} /\ pc'[a] \notin ScanPcs
      BY <2>7 DEF PushBack, PushBit, PushSat, MustCas
    <3> QED
      BY <3>1, SatGrows, OffScan
  <2>8. CASE RecoverStep(a)
    <3>1. ver'[a] \in {0, ver[a]} /\ pc'[a] \notin ScanPcs
      BY <2>8 DEF RecoverStep, RecoverBegin, RecoverEnd, RecoverVisit
    <3> QED
      BY <3>1, SatGrows, OffScan
  <2> QED
    BY <1>2, <2>1, <2>2, <2>3, <2>4, <2>5, <2>6, <2>7, <2>8
       DEF ThreadNext, WorkerNext, ClaimStep, ChunkOom, DropTail, MaintenanceTail, Tail
<1> QED
  BY <1>1, <1>2

LEMMA SatStep == TypeInv /\ TypeInv' /\ OwnerInv /\ SatInv /\ [Next]_vars => SatInv'
<1> SUFFICES ASSUME TypeInv, TypeInv', OwnerInv, SatInv, [Next]_vars
             PROVE  SatInv'
  OBVIOUS
<1>1. CASE UNCHANGED vars
  BY <1>1 DEF vars, slotVars, hintVars, scanVars, SatInv, SaturationSound, SeenTrue, IsSaturated,
              Claimable, Releasing
<1>2. ASSUME NEW a \in Actors,
             \/ a \in Threads /\ ThreadNext(a)
             \/ a \in Workers /\ WorkerNext(a)
      PROVE  SatInv'
  <2>1. OthersKeep(a) /\ Moves(a) /\ SeenTrue(a) /\ SaturationSound
    BY <1>2, StepKeeps, StepMoves DEF SatInv
  <2>2. SaturationSound'
    BY <2>1, MarkSound
  <2>3. SeenTrue(a)'
    BY <1>2, <2>1, StepSees
  <2>4. \A b \in Actors \ {a} : SeenTrue(b)'
    BY <2>1, OthersSeen DEF SatInv
  <2> QED
    BY <2>2, <2>3, <2>4 DEF SatInv
<1> QED
  BY <1>1, <1>2 DEF Next, Actors

LEMMA InitSat == Init => SatInv
BY RegistryAssumption DEF Init, SatInv, SaturationSound, SeenTrue, IsSaturated, ScanPcs

-----------------------------------------------------------------------------
(* The heaps that were free all along stay free for the claim that counts  *)
(* on them, whoever moves.                                                 *)
LEMMA StaySteady ==
    ASSUME TypeInv, NEW a \in Actors, OthersKeep(a), Moves(a),
           NEW b \in Actors, SteadyFree(b), steady'[b] \subseteq steady[b]
    PROVE  SteadyFree(b)'
<1> SUFFICES ASSUME NEW i \in steady'[b]
             PROVE  state'[i] = "Free" /\ initialised'[i] /\ ~ Releasing(i)'
  BY DEF SteadyFree
<1>1. i \in Slots /\ state[i] = "Free" /\ initialised[i] /\ ~ Releasing(i)
  BY DEF SteadyFree, TypeInv, TypeOK
<1>2. state'[i] = "Free" /\ initialised'[i]
  BY <1>1 DEF Moves, OthersKeep
<1>3. ASSUME NEW c \in Actors, idx'[c] = i, pc'[c] \in ReleasePcs
      PROVE  FALSE
  <2>1. CASE c = a
    BY <1>1, <1>3, <2>1 DEF Moves, Releasing
  <2>2. CASE c # a
    BY <1>1, <1>3, <2>2 DEF OthersKeep, Releasing
  <2> QED
    BY <2>1, <2>2
<1> QED
  BY <1>2, <1>3 DEF Releasing

LEMMA OthersOverlookNone ==
    ASSUME TypeInv, NEW a \in Actors, OthersKeep(a),
           NEW b \in Actors \ {a}, NoneOverlooked(b)
    PROVE  NoneOverlooked(b)'
<1>1. /\ pc'[b] = pc[b] /\ idx'[b] = idx[b] /\ todo'[b] = todo[b]
      /\ failed'[b] = failed[b] /\ ooms'[b] = ooms[b] /\ steady'[b] \subseteq steady[b]
  BY DEF OthersKeep
<1>2. pc[b] \in ChosenPcs => (initialised[idx[b]] => initialised'[idx[b]])
  <2>1. pc[b] \in ChosenPcs => idx[b] \in Slots
    BY DEF ChosenPcs, TypeInv, IdxOK, SlotPcs, LivePcs, InitPcs
  <2> QED
    BY <2>1 DEF OthersKeep
<1> QED
  BY <1>1, <1>2 DEF NoneOverlooked

(* A heap of the claim is below the count and in a chunk that exists.      *)
LEMMA SteadyInReach ==
    ASSUME TypeInv, BoundInv, NEW t \in Actors, SteadyFree(t), NEW i \in steady[t]
    PROVE  i \in Slots /\ i \in 0 .. count - 1 /\ Chunk(i) \in chunks /\ Claimable(i)
             /\ state[i] = "Free" /\ initialised[i] /\ ~ Releasing(i)
<1>1. i \in Slots /\ state[i] = "Free" /\ initialised[i] /\ ~ Releasing(i)
  BY DEF SteadyFree, TypeInv, TypeOK
<1>2. i < count /\ Chunk(i) \in chunks
  BY <1>1 DEF BoundInv
<1>3. i \in 0 .. count - 1
  BY <1>1, <1>2, RegistryAssumption DEF Slots, TypeInv, TypeOK
<1> QED
  BY <1>1, <1>2, <1>3 DEF Claimable

LEMMA PickOverlooksNone ==
    ASSUME TypeInv, BoundInv, SaturationSound, NEW t \in Threads,
           SteadyFree(t), NoneOverlooked(t), PickStep(t)
    PROVE  NoneOverlooked(t)' /\ steady' = steady
<1>0. t \in Actors
  BY DEF Actors
<1>a. pc[t] \in PickPcs /\ failed[t] = NoSlot
  BY DEF PickStep, PickHint, PickCount, PickTake, PickSat, PickBump, PickSnap, ScanBegin,
         ScanEnd, PickMark, ScanVisit, PickPcs, NoneOverlooked, FreshPcs
<1>b. UNCHANGED <<failed, ooms, steady>>
  BY DEF PickStep, PickHint, PickCount, PickTake, PickSat, PickBump, PickSnap, ScanBegin,
         ScanEnd, PickMark, ScanVisit, claimVars
<1>c. NoSlot \notin steady[t]
  BY <1>0, <1>a DEF NoneOverlooked
<1> SUFFICES /\ pc'[t] \notin OomPcs \cup {"rscan"}
             /\ pc'[t] = "scan" => steady[t] \subseteq todo'[t]
             /\ pc'[t] \in {"pick_mark", "none"} => steady[t] = {}
  BY <1>0, <1>a, <1>b, <1>c DEF NoneOverlooked
<1> USE <1>0 DEF TypeInv, TypeOK, Goto, Set, OomPcs, scanVars
<1>1. CASE PickHint(t) \/ PickCount(t) \/ PickTake(t) \/ PickBump(t) \/ PickSnap(t)
  BY <1>1 DEF PickHint, PickCount, PickTake, PickBump, PickSnap
<1>2. CASE PickSat(t)
  <2>1. IsSaturated => steady[t] = {}
    BY SteadyInReach DEF SaturationSound
  <2> QED
    BY <1>2, <2>1 DEF PickSat
<1>3. CASE ScanBegin(t)
  <2>1. steady[t] \subseteq 0 .. count - 1
    BY SteadyInReach
  <2> QED
    BY <1>3, <2>1 DEF ScanBegin
<1>4. ASSUME NEW i \in Slots, ScanVisit(t, i)
      PROVE  /\ pc'[t] \notin OomPcs \cup {"rscan"}
             /\ pc'[t] = "scan" => steady[t] \subseteq todo'[t]
             /\ pc'[t] \in {"pick_mark", "none"} => steady[t] = {}
  <2>1. i \in steady[t] => Chunk(i) \in chunks /\ Claimable(i)
    BY SteadyInReach
  <2>2. steady[t] \subseteq todo[t]
    BY <1>4 DEF ScanVisit, NoneOverlooked
  <2>3. pc'[t] = "slot" \/ (pc'[t] = "scan" /\ i \notin steady[t] /\ todo'[t] = todo[t] \ {i})
    BY <1>4, <2>1 DEF ScanVisit
  <2> QED
    BY <2>2, <2>3
<1>5. CASE ScanEnd(t)
  <2>1. steady[t] = {}
    BY <1>5 DEF ScanEnd, NoneOverlooked
  <2> QED
    BY <1>5, <2>1 DEF ScanEnd
<1>6. CASE PickMark(t)
  <2>1. steady[t] = {}
    BY <1>6 DEF PickMark, NoneOverlooked
  <2> QED
    BY <1>6, <2>1 DEF PickMark
<1> QED
  BY <1>1, <1>2, <1>3, <1>4, <1>5, <1>6 DEF PickStep

LEMMA RecoverOverlooksNone ==
    ASSUME TypeInv, BoundInv, NEW t \in Threads,
           SteadyFree(t), NoneOverlooked(t), RecoverStep(t)
    PROVE  NoneOverlooked(t)' /\ steady' = steady
<1>0. t \in Actors
  BY DEF Actors
<1>b. UNCHANGED <<failed, ooms, steady, initialised>>
  BY DEF RecoverStep, RecoverBegin, RecoverEnd, RecoverVisit, claimVars, slotVars
<1> SUFFICES /\ pc'[t] \in {"rscan", "slot", "none"}
             /\ pc'[t] = "rscan" => steady[t] \subseteq todo'[t]
             /\ pc'[t] = "none" => steady[t] = {}
             /\ pc'[t] = "slot" => steady[t] = {} \/ initialised[idx'[t]]
  BY <1>0, <1>b DEF NoneOverlooked, FreshPcs, ChosenPcs, OomPcs, PickPcs, ReleasePcs
<1> USE <1>0 DEF TypeInv, TypeOK, Goto, Set
<1>1. CASE RecoverBegin(t)
  <2>1. steady[t] \subseteq (0 .. count - 1) \ {failed[t]}
    BY SteadyInReach DEF NoneOverlooked
  <2> QED
    BY <1>1, <2>1 DEF RecoverBegin
<1>2. ASSUME NEW i \in Slots, RecoverVisit(t, i)
      PROVE  /\ pc'[t] \in {"rscan", "slot", "none"}
             /\ pc'[t] = "rscan" => steady[t] \subseteq todo'[t]
             /\ pc'[t] = "none" => steady[t] = {}
             /\ pc'[t] = "slot" => steady[t] = {} \/ initialised[idx'[t]]
  <2>1. i \in steady[t] => Chunk(i) \in chunks /\ state[i] = "Free" /\ initialised[i]
    BY SteadyInReach
  <2>2. steady[t] \subseteq todo[t]
    BY <1>2 DEF RecoverVisit, NoneOverlooked
  <2>3. \/ pc'[t] = "slot" /\ initialised[idx'[t]]
        \/ pc'[t] = "rscan" /\ i \notin steady[t] /\ todo'[t] = todo[t] \ {i}
    BY <1>2, <2>1 DEF RecoverVisit
  <2> QED
    BY <2>2, <2>3
<1>3. CASE RecoverEnd(t)
  <2>1. steady[t] = {}
    BY <1>3 DEF RecoverEnd, NoneOverlooked
  <2> QED
    BY <1>3, <2>1 DEF RecoverEnd
<1> QED
  BY <1>1, <1>2, <1>3 DEF RecoverStep

LEMMA ClaimOverlooksNone ==
    ASSUME TypeInv, OwnerInv, BoundInv, SaturationSound, NEW t \in Threads,
           SteadyFree(t), NoneOverlooked(t), ClaimStep(t)
    PROVE  NoneOverlooked(t)' /\ steady'[t] \subseteq steady[t]
<1>0. t \in Actors
  BY DEF Actors
<1>a. pc[t] \in SlotPcs => idx[t] \in Slots
  BY <1>0 DEF TypeInv, IdxOK
<1>b. NoSlot \notin Slots
  BY RegistryAssumption DEF Slots, NoSlot
<1> USE <1>0, <1>a, <1>b
    DEF TypeInv, TypeOK, Goto, Set, NoneOverlooked, FreshPcs, PickPcs, ReleasePcs, ChosenPcs,
        OomPcs, SlotPcs, LivePcs, InitPcs, MaintPcs, slotVars, hintVars, scanVars, claimVars
<1>1. CASE Slot(t)
  <2>1. Chunk(idx[t]) \notin chunks => idx[t] \notin steady[t]
    BY SteadyInReach
  <2>2. Chunk(idx[t]) \in chunks \/ ~ initialised[idx[t]]
    BY <1>1 DEF Slot, BoundInv
  <2> QED
    BY <1>1, <2>1, <2>2 DEF Slot
<1>2. CASE Observe(t)
  BY <1>2 DEF Observe, LoopHead
<1>3. CASE Republish(t)
  BY <1>3 DEF Republish, LoopHead
<1>4. CASE CasEmpty(t)
  BY <1>4 DEF CasEmpty, LoopHead
<1>5. CASE CasFree(t)
  BY <1>5 DEF CasFree, LoopHead
<1>6. CASE Forget(t) \/ CheckInit(t)
  BY <1>6 DEF Forget, CheckInit
<1>7. CASE CasInit(t) \/ Construct(t)
  BY <1>7 DEF CasInit, Construct, MustCas
<1>8. CASE SetInit(t)
  BY <1>8 DEF SetInit
<1>9. CASE PublishLive(t) \/ Trim(t) \/ ReturnNone(t)
  BY <1>9 DEF PublishLive, Trim, ReturnNone, Lease, MustCas
<1>10. CASE PushBack(t)
  <2>1. state[idx[t]] = "Initializing" /\ ~ initialised[idx[t]]
    BY <1>10 DEF PushBack, OwnerInv, StateNamesHolder, HeapMatches
  <2>2. idx[t] \notin steady[t]
    BY <2>1 DEF SteadyFree
  <2> QED
    BY <1>10, <2>1, <2>2 DEF PushBack, MustCas
<1>11. CASE PushBit(t)
  BY <1>11 DEF PushBit
<1>12. CASE PushSat(t)
  BY <1>12 DEF PushSat
<1>13. CASE ChunkOom(t)
  BY <1>13 DEF ChunkOom, SwapHint, Spill, OomSat
<1> QED
  BY <1>1, <1>2, <1>3, <1>4, <1>5, <1>6, <1>7, <1>8, <1>9, <1>10, <1>11, <1>12, <1>13,
     PickOverlooksNone, RecoverOverlooksNone DEF ClaimStep

LEMMA RefusalStep ==
    /\ TypeInv /\ OwnerInv /\ BoundInv /\ SatInv /\ RefusalInv /\ [Next]_vars
    => RefusalInv'
<1> SUFFICES ASSUME TypeInv, OwnerInv, BoundInv, SatInv, RefusalInv, [Next]_vars
             PROVE  RefusalInv'
  OBVIOUS
<1>1. CASE UNCHANGED vars
  BY <1>1 DEF vars, slotVars, scanVars, claimVars, RefusalInv, SteadyFree, NoneOverlooked, Releasing
<1>2. ASSUME NEW a \in Actors,
             \/ a \in Threads /\ ThreadNext(a)
             \/ a \in Workers /\ WorkerNext(a)
      PROVE  RefusalInv'
  <2>1. OthersKeep(a) /\ Moves(a) /\ SaturationSound /\ SteadyFree(a) /\ NoneOverlooked(a)
    BY <1>2, StepKeeps, StepMoves DEF SatInv, RefusalInv
  <2>2. \A b \in Actors \ {a} : SteadyFree(b)' /\ NoneOverlooked(b)'
    BY <2>1, StaySteady, OthersOverlookNone DEF OthersKeep, RefusalInv
  <2>3. NoneOverlooked(a)' /\ (steady'[a] \subseteq steady[a] \/ (a \in Threads /\ Claim(a)))
    <3> USE <2>1 DEF TypeInv, TypeOK, Goto, Set, NoneOverlooked, FreshPcs, PickPcs, ReleasePcs,
                     ChosenPcs, OomPcs, slotVars, hintVars, scanVars, claimVars
    <3>1. CASE a \in Threads /\ Claim(a)
      <4>1. NoSlot \notin Slots
        BY RegistryAssumption DEF Slots, NoSlot
      <4> QED
        BY <3>1, <4>1 DEF Claim
    <3>2. CASE a \in Threads /\ DropCas(a)
      BY <3>2 DEF DropCas, MustCas
    <3>3. CASE a \in Workers /\ (MaintenanceCas(a) \/ \E i \in Slots : MaintenanceTry(a, i))
      BY <3>3 DEF MaintenanceCas, MaintenanceTry, MustCas
    <3>4. CASE (a \in Threads /\ DropTail(a)) \/ (a \in Workers /\ MaintenanceTail(a))
      BY <3>4 DEF DropTail, MaintenanceTail, SwapHint, Spill, ReleaseSat
    <3> QED
      BY <1>2, <3>1, <3>2, <3>3, <3>4, ClaimOverlooksNone DEF ThreadNext, WorkerNext
  <2>4. SteadyFree(a)'
    <3>1. CASE steady'[a] \subseteq steady[a]
      BY <2>1, <3>1, StaySteady
    <3>2. CASE a \in Threads /\ Claim(a)
      BY <3>2 DEF Claim, Goto, Set, slotVars, SteadyFree, Settled, Releasing, ReleasePcs, TypeInv,
                  TypeOK
    <3> QED
      BY <2>3, <3>1, <3>2
  <2> QED
    BY <2>2, <2>3, <2>4 DEF RefusalInv
<1> QED
  BY <1>1, <1>2 DEF Next, Actors

LEMMA InitRefusal == Init => RefusalInv
BY DEF Init, RefusalInv, SteadyFree, NoneOverlooked, ChosenPcs, OomPcs, FreshPcs

(* A claim that is refused has not overlooked a heap that was free all     *)
(* along, whether the scan, the recovery after a failure or the saturation *)
(* mark refused it, and the mark is never stale (SaturationHint,           *)
(* pick_with_hint_spill, scan_claim_recovery_free).                        *)
THEOREM RegistryRefusesHonestly == Spec => []NoSpuriousRefusal
<1>1. SatInv /\ RefusalInv => NoSpuriousRefusal
  BY DEF SatInv, RefusalInv, NoneOverlooked, NoSpuriousRefusal, Actors
<1> QED
  BY <1>1, InitType, NextType, InitOwner, NextOwner, InitBound, BoundStep, InitSat, SatStep,
     InitRefusal, RefusalStep, PTL DEF Spec

-----------------------------------------------------------------------------
(* The service, for any number of starters, heaps, slots and words.        *)

(* The start: a starter that has made the state STARTING is the only one   *)
(* that spawns, and its worker or its guard ends that state.               *)
StartInv ==
    /\ service \in {"Idle", "Starting", "Running"}
    /\ spc \in [Threads -> {"idle", "cas", "spawn", "lock", "check", "park", "wait",
                            "expired", "last"}]
    /\ said \in [Threads -> {"nothing", "Ok", "InProgress", "Spawn"}]
    /\ wpc \in {"none", "enter", "publish", "notify", "pass", "visit", "sample", "try",
                "count", "trim", "ingress"}
    /\ workers = IF wpc = "none" THEN 0 ELSE 1
    /\ service = "Running" <=> wpc \notin {"none", "enter", "publish"}
    /\ service = "Idle" => wpc = "none"
    /\ service = "Starting" =>
         wpc \in {"enter", "publish"} \/ \E s \in Threads : spc[s] = "spawn"
    /\ \A s \in Threads :
         /\ spc[s] = "spawn" => /\ service = "Starting" /\ wpc = "none"
                                /\ \A u \in Threads : spc[u] = "spawn" => u = s
         /\ said[s] = "Ok" => service = "Running"

(* The visits to the fallback heap.  As long as the samples show no lock   *)
(* but the worker's own, the good visits are as many as the idle samples;  *)
(* between a sample and the end of its visit they are one behind.          *)
VisitPcs == {"try", "count", "trim", "ingress"}

IdleInv ==
    /\ fblock \in {"none", "worker", "taken", "used"}
    /\ since \in 0 .. 2
    /\ idle \in 0 .. FALLBACK_IDLE_VISITS /\ calm \in 0 .. FALLBACK_IDLE_VISITS
    /\ sampled \in 0 .. FALLBACK_IDLE_VISITS
    /\ fblock = "worker" <=> wpc \in {"count", "trim", "ingress"}
    /\ fblock # "none" => fbinit
    /\ ~ samples => idle = 0 /\ wpc \notin VisitPcs
    /\ wpc \in VisitPcs => sampled >= idle - 1
    /\ wpc \in {"try", "count"} /\ since = 0 => calm >= idle - 1
    /\ wpc \in {"trim", "ingress"} => since >= 1 /\ (since = 1 => calm >= idle - 1)
    /\ wpc = "trim" => idle = FALLBACK_IDLE_VISITS
    /\ wpc \notin VisitPcs =>
         idle = 0 \/ (self_acquired /\ since >= 1 /\ (since = 1 => calm >= idle))

ServiceInv == StartInv /\ IdleInv

LEMMA VisitsBound == FALLBACK_IDLE_VISITS \in Nat \ {0}
BY ServiceAssumed DEF ServiceAssumed, Service!ServiceAssumption

LEMMA InitService == Service!Init => ServiceInv
<1> USE DEF Service!Init
<1>1. Service!Init => StartInv
  BY DEF StartInv
<1>2. Service!Init => IdleInv
  BY VisitsBound DEF IdleInv, VisitPcs
<1> QED
  BY <1>1, <1>2 DEF ServiceInv

(* A starter's step.  The worker, if this step spawns it, is at "enter".   *)
LEMMA StarterKeeps ==
    ASSUME StartInv, NEW s \in Threads,
           Service!Call(s) \/ Service!StartStep(s) \/ Service!Timeout(s)
    PROVE  StartInv' /\ (wpc' = wpc \/ (wpc = "none" /\ wpc' = "enter"))
<1> USE DEF StartInv, Service!Moves, Service!Says
<1>1. CASE Service!Call(s)
  BY <1>1 DEF Service!Call
<1>2. CASE Service!Cas(s)
  <2>1. CASE service = "Idle"
    BY <1>2, <2>1 DEF Service!Cas
  <2>2. CASE service = "Running"
    BY <1>2, <2>2 DEF Service!Cas
  <2>3. CASE service = "Starting"
    BY <1>2, <2>3 DEF Service!Cas
  <2> QED
    BY <2>1, <2>2, <2>3
<1>3. CASE Service!Spawn(s)
  <2>1. service = "Starting" /\ wpc = "none" /\ workers = 0
        /\ \A u \in Threads : spc[u] = "spawn" => u = s
    BY <1>3 DEF Service!Spawn
  <2>2. CASE workers' = workers + 1
    BY <1>3, <2>1, <2>2 DEF Service!Spawn
  <2>3. CASE service' = "Idle"
    BY <1>3, <2>1, <2>3 DEF Service!Spawn
  <2> QED
    BY <1>3, <2>2, <2>3 DEF Service!Spawn
<1>4. CASE Service!Lock(s)
  BY <1>4 DEF Service!Lock
<1>5. CASE Service!Check(s)
  BY <1>5 DEF Service!Check
<1>6. CASE Service!Park(s)
  BY <1>6 DEF Service!Park
<1>7. CASE Service!Timeout(s)
  BY <1>7 DEF Service!Timeout
<1> QED
  BY <1>1, <1>2, <1>3, <1>4, <1>5, <1>6, <1>7 DEF Service!StartStep

(* The worker's first steps.                                               *)
LEMMA EntryKeeps ==
    ASSUME StartInv, Service!Enter \/ Service!Publish \/ Service!Notify
    PROVE  StartInv' /\ wpc \notin VisitPcs /\ wpc' \notin VisitPcs
<1> USE DEF StartInv, VisitPcs
<1>1. CASE Service!Enter
  BY <1>1 DEF Service!Enter
<1>2. CASE Service!Publish
  BY <1>2 DEF Service!Publish
<1>3. CASE Service!Notify
  BY <1>3 DEF Service!Notify
<1> QED
  BY <1>1, <1>2, <1>3

(* From its first pass on, the worker leaves the start alone.              *)
LEMMA RunningKeeps ==
    ASSUME StartInv, UNCHANGED Service!startVars,
           \/ wpc' = wpc
           \/ /\ wpc \notin {"none", "enter", "publish"}
              /\ wpc' \in {"pass", "visit", "sample", "try", "count", "trim", "ingress"}
    PROVE  StartInv'
BY DEF StartInv, Service!startVars

LEMMA FallbackKeeps ==
    ASSUME ServiceInv, Service!FallbackNext
    PROVE  IdleInv' /\ (\/ wpc' = wpc
                        \/ /\ wpc \notin {"none", "enter", "publish"}
                           /\ wpc' \in {"pass", "try", "count", "trim", "ingress"})
<1> USE VisitsBound DEF ServiceInv, StartInv, IdleInv, VisitPcs, Service!Plus
<1>1. CASE Service!Sample
  <2>1. CASE Service!Active
    BY <1>1, <2>1 DEF Service!Sample, Service!Active
  <2>2. CASE ~ Service!Active
    <3>1. calm >= idle
      BY <1>1, <2>2 DEF Service!Sample, Service!Active
    <3>2. idle' = IF idle < FALLBACK_IDLE_VISITS THEN idle + 1 ELSE idle
      BY <1>1, <2>2 DEF Service!Sample
    <3> QED
      BY <1>1, <3>1, <3>2 DEF Service!Sample
  <2> QED
    BY <2>1, <2>2
<1>2. CASE Service!Try
  <2>1. CASE fbinit /\ fblock = "none"
    BY <1>2, <2>1 DEF Service!Try
  <2>2. CASE ~ (fbinit /\ fblock = "none")
    BY <1>2, <2>2 DEF Service!Try
  <2> QED
    BY <2>1, <2>2
<1>3. CASE Service!Count
  BY <1>3 DEF Service!Count
<1>4. CASE Service!Leave
  BY <1>4 DEF Service!Leave
<1>5. CASE Service!Acquire
  BY <1>5 DEF Service!Acquire
<1>6. CASE Service!Acquired
  BY <1>6 DEF Service!Acquired
<1>7. CASE Service!Release
  BY <1>7 DEF Service!Release
<1> QED
  BY <1>1, <1>2, <1>3, <1>4, <1>5, <1>6, <1>7 DEF Service!FallbackNext

(* A step that neither begins nor ends a visit nor touches the lock.       *)
LEMMA IdleKept ==
    ASSUME IdleInv, UNCHANGED Service!fallbackVars,
           \/ wpc' = wpc
           \/ wpc \notin VisitPcs /\ wpc' \notin VisitPcs
    PROVE  IdleInv'
BY DEF IdleInv, VisitPcs, Service!fallbackVars

LEMMA ServiceStep == ServiceInv /\ [Service!Next]_(Service!vars) => ServiceInv'
<1> SUFFICES ASSUME ServiceInv, [Service!Next]_(Service!vars)
             PROVE  ServiceInv'
  OBVIOUS
<1>1. CASE Service!ServiceNext
  <2>1. CASE \E s \in Threads : Service!Call(s) \/ Service!StartStep(s) \/ Service!Timeout(s)
    <3>1. StartInv' /\ (wpc' = wpc \/ (wpc \notin VisitPcs /\ wpc' \notin VisitPcs))
      BY <2>1, StarterKeeps DEF ServiceInv, VisitPcs
    <3> QED
      BY <1>1, <3>1, IdleKept DEF ServiceInv, Service!ServiceNext
  <2>2. CASE Service!Enter \/ Service!Publish \/ Service!Notify
    BY <1>1, <2>2, EntryKeeps, IdleKept DEF ServiceInv, Service!ServiceNext
  <2> QED
    BY <1>1, <2>1, <2>2 DEF Service!ServiceNext
<1>2. CASE Service!PassNext
  <2>1. /\ UNCHANGED <<Service!startVars, Service!fallbackVars>>
        /\ \/ wpc' = wpc
           \/ wpc \in {"pass", "visit"} /\ wpc' \in {"visit", "sample"}
    BY <1>2 DEF Service!PassNext, Service!Begin, Service!Visit, Service!EndPass
  <2>2. StartInv'
    BY <2>1, RunningKeeps DEF ServiceInv
  <2>3. IdleInv'
    BY <2>1, IdleKept DEF ServiceInv, VisitPcs
  <2> QED
    BY <2>2, <2>3 DEF ServiceInv
<1>3. CASE Service!FallbackNext
  <2>1. UNCHANGED Service!startVars
    BY <1>3 DEF Service!FallbackNext
  <2>2. IdleInv' /\ (\/ wpc' = wpc
                     \/ /\ wpc \notin {"none", "enter", "publish"}
                        /\ wpc' \in {"pass", "try", "count", "trim", "ingress"})
    BY <1>3, FallbackKeeps
  <2>3. StartInv'
    BY <2>1, <2>2, RunningKeeps DEF ServiceInv
  <2> QED
    BY <2>2, <2>3 DEF ServiceInv
<1>4. CASE Service!HeapsNext \/ UNCHANGED Service!vars
  <2>1. UNCHANGED <<Service!startVars, wpc, Service!fallbackVars>>
    BY <1>4 DEF Service!HeapsNext, Service!vars
  <2> QED
    BY <2>1, RunningKeeps, IdleKept DEF ServiceInv
<1> QED
  BY <1>1, <1>2, <1>3, <1>4 DEF Service!Next

LEMMA SumIsService == BothSpec => Service!Spec
<1>1. BothInit => Service!Init
  BY DEF BothInit
<1>2. [BothNext]_allVars => [Service!Next]_(Service!vars)
  BY DEF BothNext, allVars, serviceVars, Service!vars, Service!startVars,
         Service!passVars, Service!fallbackVars
<1> QED
  BY <1>1, <1>2, PTL DEF BothSpec, Service!Spec

(* Once a start has answered Ok the service is Running; there is never a   *)
(* second worker, Running stands exactly while a worker that has published *)
(* itself exists, and Starting only while a starter that is spawning or a  *)
(* worker that has not published yet is about to end it                    *)
(* (MaintenanceService::start, StartingGuard).  The worker trims the       *)
(* fallback heap only when that is built, under its lock, and after at     *)
(* least FALLBACK_IDLE_VISITS - 1 visits in which nobody else had taken    *)
(* the lock (fallback_idle).  For any number of starters and any           *)
(* FALLBACK_IDLE_VISITS.                                                   *)
THEOREM ServiceStaysHonest == BothSpec => []ServiceIsHonest
<1>1. ServiceInv => ServiceIsHonest
  <2> SUFFICES ASSUME ServiceInv
               PROVE  Service!StartIsHonest /\ Service!TrimsOnlyIdle
    BY DEF ServiceIsHonest
  <2>1. Service!StartIsHonest
    BY DEF ServiceInv, StartInv, Service!StartIsHonest
  <2>2. Service!TrimsOnlyIdle
    BY DEF ServiceInv, IdleInv, VisitPcs, Service!TrimsOnlyIdle
  <2> QED
    BY <2>1, <2>2
<1> QED
  BY <1>1, InitService, ServiceStep, SumIsService, PTL DEF Service!Spec
=============================================================================
