-------------------------- MODULE RemoteFreeProofs --------------------------
(***************************************************************************)
(* For every number of producers, slots, segments and blocks: a remote     *)
(* free reaches the segment of its block, reference counts are exact,      *)
(* pooled and released segments are empty, and no wake-up is lost.         *)
(***************************************************************************)
EXTENDS RemoteFree, FiniteSetTheorems, TLAPS

AllFree(k) == \A b \in Blocks : blk[k][b] = "free"
Used(k) == {b \in Blocks : blk[k][b] # "free"}
HasFree(k) == \E b \in Blocks : FreeBlock(k, b)

(* The types, the two counters only as integers: that they are never       *)
(* negative follows from what they count.                                  *)
Shape ==
    /\ pool_cap \in POOL_CAPS
    /\ next \in Incs
    /\ base \in [Incs -> Bases] /\ slot \in [Incs -> Slots]
    /\ linked \in [Incs -> BOOLEAN] /\ notified \in [Incs -> BOOLEAN]
    /\ refs \in [Incs -> Int]
    /\ blk \in [Incs -> [Blocks -> BlockState]]
    /\ live \in [Incs -> Int]
    /\ table \in [Slots -> Incs \cup {None}]
    /\ pool \subseteq Incs /\ cur \in Incs
    /\ mask \subseteq Slots /\ summary \subseteq {MaskWord(s) : s \in Slots}
    /\ pc \in [Producers -> {"idle", "cached", "lookup", "publish", "load",
                             "cas", "mask", "summary", "finish"}]
    /\ obj \in [Producers -> (Incs \X Blocks) \cup {NoBlock}]
    /\ pin \in [Producers -> Incs \cup {None}]
    /\ cached \in [Producers -> Incs \cup {None}]
    /\ opc \in {"idle", "take", "bits", "scan", "unlink", "unref"}
    /\ owords \subseteq {MaskWord(s) : s \in Slots} /\ obits \subseteq Slots
    /\ dk \in Incs \cup {None} /\ dwords \subseteq SideWords
    /\ darm \in BOOLEAN /\ dgot \in BOOLEAN
    /\ hit \in Incs \cup {None}

(* The table, the addresses and the directory agree: a registered segment  *)
(* sits in its own slot, alone at its address, and is linked unless it is  *)
(* just being recycled.                                                    *)
TableInv ==
    /\ \A s \in Slots : table[s] # None => slot[table[s]] = s /\ table[s] <= next
    /\ \A j, k \in Incs : Registered(j) /\ Registered(k) /\ base[j] = base[k] => j = k
    /\ \A k \in Incs : linked[k] => Registered(k)
    /\ \A k \in Incs : Registered(k) /\ ~ linked[k] => opc = "unref" /\ dk = k
    /\ Registered(PRIMORDIAL)

(* What the owner has in hand at each step.                                *)
OwnerInv ==
    /\ opc \in {"idle", "take", "bits"} => dk = None /\ ~ darm
    /\ opc \in {"scan", "unlink", "unref"} => dk \in Incs /\ Registered(dk)
    /\ opc \in {"unlink", "unref"} =>
         dk # cur /\ dk # PRIMORDIAL /\ dk \notin pool /\ dk # hit /\ AllFree(dk)
    /\ opc = "unref" => ~ linked[dk]
    /\ opc \in {"idle", "take"} => obits = {}
    /\ opc \in {"scan", "unlink", "unref"} /\ ~ darm => obits = {}
    /\ opc = "idle" \/ (opc \in {"scan", "unlink", "unref"} /\ ~ darm)
         => owords = {} /\ hit = None

(* Pooled segments and those that are gone are empty.                      *)
PoolInv ==
    /\ Registered(cur) /\ cur \notin pool /\ PRIMORDIAL \notin pool
    /\ \A k \in pool : Registered(k)
    /\ \A k \in Incs : k \in pool \/ ~ Registered(k) => AllFree(k)
    /\ opc = "scan" /\ dgot => dk \notin pool
    /\ opc = "scan" /\ ~ dgot /\ live[dk] = 0 /\ dk # cur /\ dk # PRIMORDIAL => dk \in pool
    /\ NoOrphan

LiveInv == \A k \in Incs : live[k] = Cardinality(Used(k))

(* A pass over the mask comes to each slot once, so the segment it has     *)
(* chosen is not drained again in the same pass.                           *)
HitInv ==
    /\ HitStaysUsable
    /\ hit # None => slot[hit] \notin obits /\ MaskWord(slot[hit]) \notin owords /\ dk # hit
    /\ \A s \in obits : MaskWord(s) \notin owords
    /\ opc = "scan" /\ darm => slot[dk] \notin obits /\ MaskWord(slot[dk]) \notin owords

(* What a producer has in hand at each step.                               *)
Freeing(p) == pc[p] \in {"cached", "lookup", "publish"}

HandInv ==
    /\ \A p \in Producers :
         /\ pc[p] \in {"idle", "cached", "lookup"} => pin[p] = None
         /\ pc[p] \notin {"idle", "cached", "lookup"} => pin[p] \in Incs
         /\ pin[p] <= next /\ cached[p] <= next
    /\ \A p \in Producers :
         /\ pc[p] # "idle" => obj[p] \in Incs \X Blocks
         /\ Freeing(p) => blk[obj[p][1]][obj[p][2]] = "freeing"
         /\ pc[p] = "publish" => pin[p] = obj[p][1]
         /\ pc[p] = "lookup" => cached[p] = None \/ base[cached[p]] # base[obj[p][1]]
    /\ \A p, q \in Producers : Freeing(p) /\ Freeing(q) /\ obj[p] = obj[q] => p = q

CachedBy(k) == {p \in Producers : cached[p] = k}
PinnedBy(k) == {p \in Producers : pin[p] = k /\ cached[p] # k}

RefInv ==
    \A k \in Incs :
        refs[k] = Ref(Registered(k)) + Cardinality(CachedBy(k)) + Cardinality(PinnedBy(k))

(* The notification of a segment is on its way: with a producer, in the    *)
(* mask, or in the owner's hand.                                           *)
Coming(k) ==
    \/ \E p \in Producers : pin[p] = k /\ pc[p] = "mask"
    \/ slot[k] \in mask /\ WordNoticed(MaskWord(slot[k]))
    \/ slot[k] \in obits

NoteInv ==
    /\ \A k \in Incs : k > next => ~ notified[k]
    /\ \A k \in Incs : Registered(k) /\ notified[k] => Coming(k)

(* A bit that is set in a sidecar is seen: somebody has still to look at   *)
(* the state of the entry, or it is NOTIFIED, or the scan has still to     *)
(* come to the bit.                                                        *)
Seen(k, b) ==
    \/ \E p \in Producers : pin[p] = k /\ pc[p] \in {"load", "cas"}
    \/ notified[k]
    \/ opc = "scan" /\ darm /\ dk = k /\ SideWord(b) \in dwords

SeenInv ==
    \A k \in Incs, b \in Blocks : Registered(k) /\ blk[k][b] = "pending" => Seen(k, b)

IInv == /\ Shape /\ TableInv /\ OwnerInv /\ PoolInv /\ LiveInv /\ HitInv /\ HandInv
        /\ RefInv /\ NoteInv /\ SeenInv

-----------------------------------------------------------------------------
(* The number of the next segment is an incarnation while the bound lasts. *)
LEMMA NextIsInc == ASSUME Shape, next < MAX_INCARNATION
                   PROVE  next + 1 \in Incs /\ next + 1 # None
  BY RemoteFreeAssumption DEF Shape, Incs, None

LEMMA IncsArePositive == \A k \in Incs : k # None /\ k \in Nat /\ 0 < k
  BY RemoteFreeAssumption DEF Incs, None

LEMMA PrimordialIsInc == PRIMORDIAL \in Incs
  BY RemoteFreeAssumption DEF Incs, PRIMORDIAL

(* A registered segment is found in its own slot and has been numbered.    *)
LEMMA InItsSlot ==
  ASSUME Shape, TableInv, NEW k \in Incs
  PROVE  /\ Registered(k) <=> table[slot[k]] = k
         /\ Registered(k) => k <= next
  <1>1. k # None BY IncsArePositive
  <1>2. slot[k] \in Slots BY DEF Shape
  <1>3. ASSUME NEW s \in Slots, table[s] = k PROVE slot[k] = s /\ k <= next
    BY <1>1, <1>3 DEF TableInv
  <1> QED BY <1>2, <1>3 DEF Registered

(* Nothing is registered under a number not yet given.                     *)
LEMMA FreshIsUnused ==
  ASSUME Shape, TableInv, next < MAX_INCARNATION
  PROVE  ~ Registered(next + 1)
  <1>1. next + 1 \in Incs BY NextIsInc
  <1>2. next \in Nat /\ ~ (next + 1 <= next) BY DEF Shape, Incs
  <1> QED BY <1>1, <1>2, InItsSlot

(* A block that is not free belongs to a registered, linked segment.       *)
LEMMA BusyIsLinked ==
  ASSUME IInv, NEW k \in Incs, NEW b \in Blocks, blk[k][b] # "free"
  PROVE  Registered(k) /\ linked[k] /\ k <= next
  <1>1. ~ AllFree(k) BY DEF AllFree
  <1>2. Registered(k) BY <1>1 DEF IInv, PoolInv
  <1>3. ~ (opc = "unref" /\ dk = k) BY <1>1 DEF IInv, OwnerInv
  <1>4. k <= next BY <1>2, InItsSlot DEF IInv
  <1> QED BY <1>2, <1>3, <1>4 DEF IInv, TableInv

(* What a producer frees is registered and linked until the bit is set.    *)
LEMMA FreeingIsLinked ==
  ASSUME IInv, NEW p \in Producers, Freeing(p)
  PROVE  /\ obj[p][1] \in Incs /\ obj[p][2] \in Blocks
         /\ Registered(obj[p][1]) /\ linked[obj[p][1]] /\ obj[p][1] <= next
  <1>1. obj[p] \in Incs \X Blocks /\ blk[obj[p][1]][obj[p][2]] = "freeing"
    BY DEF IInv, HandInv, Freeing
  <1>2. obj[p][1] \in Incs /\ obj[p][2] \in Blocks BY <1>1
  <1> QED BY <1>1, <1>2, BusyIsLinked

(* Every step leads to the next step of the types.                         *)
LEMMA TypesStay == IInv /\ [Next]_vars => Shape'
  <1> SUFFICES ASSUME IInv, [Next]_vars PROVE Shape'
    OBVIOUS
  <1> USE DEF Set, Goto, entryVars, heapVars, noteVars, prodVars, ownVars
  <1>s. Shape BY DEF IInv
  <1>1. ASSUME NEW p \in Producers, ProducerNext(p) PROVE Shape'
    <2>f. Freeing(p) => obj[p][1] \in Incs /\ obj[p][2] \in Blocks
      BY FreeingIsLinked
    <2>p. pc[p] \notin {"idle", "cached", "lookup"} => pin[p] \in Incs
      BY DEF IInv, HandInv
    <2>1. ASSUME NEW k \in Incs, NEW b \in Blocks, Free(p, k, b) PROVE Shape'
      BY <1>s, <2>1 DEF Free, Shape, BlockState
    <2>2. CASE Cached(p)
      <3>1. pc' \in [Producers -> {"idle", "cached", "lookup", "publish", "load",
                                   "cas", "mask", "summary", "finish"}]
        BY <1>s, <2>2 DEF Cached, Shape
      <3>2. pin' \in [Producers -> Incs \cup {None}] /\ cached' \in [Producers -> Incs \cup {None}]
        BY <1>s, <2>2 DEF Cached, Shape
      <3>3. refs' \in [Incs -> Int]
        BY <1>s, <2>2 DEF Cached, Shape, Unpin
      <3> QED BY <1>s, <2>2, <3>1, <3>2, <3>3 DEF Cached, Shape
    <2>3. CASE Lookup(p)
      <3>1. CASE \E k \in Incs : linked[k] /\ base[k] = base[obj[p][1]]
        <4>1. PICK k \in Incs :
                /\ refs' = Set(refs, k, refs[k] + 1) /\ pin' = Set(pin, p, k)
                /\ Goto(p, "publish") /\ UNCHANGED obj
          BY <2>3, <3>1 DEF Lookup
        <4> QED BY <1>s, <2>3, <4>1 DEF Lookup, Shape
      <3>2. CASE ~ \E k \in Incs : linked[k] /\ base[k] = base[obj[p][1]]
        BY <1>s, <2>3, <3>2 DEF Lookup, Shape
      <3> QED BY <3>1, <3>2
    <2>4. CASE Publish(p)
      BY <1>s, <2>4, <2>f, <2>p DEF Publish, Shape, BlockState, Freeing
    <2>5. CASE AfterPublish(p)
      BY <1>s, <2>5 DEF AfterPublish, Shape
    <2>6. CASE NotifyCas(p)
      BY <1>s, <2>6 DEF NotifyCas, Shape
    <2>7. CASE NotifyMask(p)
      BY <1>s, <2>7, <2>p DEF NotifyMask, Shape
    <2>8. CASE NotifySummary(p)
      BY <1>s, <2>8, <2>p DEF NotifySummary, Shape
    <2>9. CASE CacheInsert(p)
      BY <1>s, <2>9 DEF CacheInsert, Shape, Unpin
    <2>10. CASE ThreadExit(p)
      BY <1>s, <2>10 DEF ThreadExit, Shape, Unpin
    <2> QED BY <1>1, <2>1, <2>2, <2>3, <2>4, <2>5, <2>6, <2>7, <2>8, <2>9, <2>10
            DEF ProducerNext, ProducerStep
  <1>2. ASSUME OwnerNext PROVE Shape'
    <2>o. /\ opc \in {"scan", "unlink", "unref"} => dk \in Incs
          /\ \A k \in Incs, w \in SideWords : Cardinality(Cut(k, w)) \in Nat
      <3>1. ASSUME NEW k \in Incs, NEW w \in SideWords
            PROVE  Cardinality(Cut(k, w)) \in Nat
        <4>1. Cut(k, w) \subseteq Blocks BY DEF Cut
        <4> QED BY <4>1, FS_Subset, FS_CardinalityType, RemoteFreeAssumption
      <3> QED BY <3>1 DEF IInv, OwnerInv
    <2>1. CASE Unlink
      BY <1>s, <2>1 DEF Unlink, Shape
    <2>2. CASE Unref
      <3>1. refs' \in [Incs -> Int]
        BY <1>s, <2>2 DEF Unref, Shape, Unpin
      <3>2. table' \in [Slots -> Incs \cup {None}]
        BY <1>s, <2>2 DEF Unref, Shape
      <3> QED BY <1>s, <2>2, <3>1, <3>2 DEF Unref, Shape
    <2>3. CASE TakeNext
      <3>1. blk' \in [Incs -> [Blocks -> BlockState]] /\ live' \in [Incs -> Int]
        <4>1. CASE UNCHANGED <<blk, live>>
          BY <1>s, <4>1 DEF Shape
        <4>2. CASE hit # None /\ \E b \in Blocks : blk' = [blk EXCEPT ![hit][b] = "live"]
                   /\ live' = Set(live, hit, live[hit] + 1)
          BY <1>s, <4>2 DEF Shape, BlockState
        <4> QED BY <2>3, <4>1, <4>2 DEF TakeNext
      <3>2. pool' \subseteq Incs /\ hit' \in Incs \cup {None}
        BY <1>s, <2>3 DEF TakeNext, Shape
      <3> QED BY <1>s, <2>3, <3>1, <3>2 DEF TakeNext, Shape
    <2>4. CASE FinishDrain
      BY <1>s, <2>4, <2>o DEF FinishDrain, Shape, PoolOrRelease
    <2>5. ASSUME NEW w \in owords, TakeMask(w) PROVE Shape'
      BY <1>s, <2>5 DEF TakeMask, Shape
    <2>6. ASSUME NEW s \in obits, SkipSlot(s) PROVE Shape'
      BY <1>s, <2>6 DEF SkipSlot, Shape
    <2>7. ASSUME NEW s \in obits, ArmSlot(s) PROVE Shape'
      BY <1>s, <2>7 DEF ArmSlot, Shape
    <2>8. ASSUME NEW w \in dwords, ScanWord(w) PROVE Shape'
      BY <1>s, <2>8, <2>o DEF ScanWord, Reclaim, Shape, BlockState
    <2>9. CASE TakeSummary
      BY <1>s, <2>9 DEF TakeSummary, Shape
    <2>10. CASE TrimCurrent
      BY <1>s, <2>10, PrimordialIsInc DEF TrimCurrent, Shape
    <2>11. ASSUME NEW k \in Incs, NEW b \in Blocks, Alloc(k, b) PROVE Shape'
      BY <1>s, <2>11 DEF Alloc, Shape, BlockState
    <2>12. ASSUME NEW k \in Incs, NEW b \in Blocks, OwnFree(k, b) PROVE Shape'
      BY <1>s, <2>12 DEF OwnFree, Shape, BlockState, PoolOrRelease
    <2>13. ASSUME NEW a \in Bases, NEW s \in Slots, NewSegment(a, s) PROVE Shape'
      BY <1>s, <2>13, NextIsInc DEF NewSegment, Shape, PoolOrRelease
    <2>14. ASSUME NEW k \in Incs, Decay(k) PROVE Shape'
      BY <1>s, <2>14 DEF Decay, Shape
    <2>15. ASSUME NEW k \in Incs, DrainSegment(k) PROVE Shape'
      BY <1>s, <2>15 DEF DrainSegment, Shape
    <2>16. ASSUME NEW k \in Incs, NEW w \in SideWords, BoundedCut(k, w) PROVE Shape'
      BY <1>s, <2>16, <2>o DEF BoundedCut, Reclaim, Shape, BlockState, PoolOrRelease
    <2> QED BY <1>2, <2>1, <2>2, <2>3, <2>4, <2>5, <2>6, <2>7, <2>8, <2>9, <2>10,
               <2>11, <2>12, <2>13, <2>14, <2>15, <2>16 DEF OwnerNext, OwnerStep
  <1>3. CASE UNCHANGED vars
    BY <1>s, <1>3 DEF vars, Shape
  <1> QED BY <1>1, <1>2, <1>3 DEF Next

-----------------------------------------------------------------------------
LEMMA ProducerNextCases ==
  ASSUME NEW p \in Producers, ProducerNext(p)
  PROVE  \/ \E k \in Incs, b \in Blocks : Free(p, k, b)
         \/ Cached(p) \/ Lookup(p) \/ Publish(p) \/ AfterPublish(p) \/ NotifyCas(p)
         \/ NotifyMask(p) \/ NotifySummary(p) \/ CacheInsert(p) \/ ThreadExit(p)
  BY DEF ProducerNext, ProducerStep

(* What a step of a producer leaves to the owner: everything but the marks *)
(* on blocks that are not free.                                            *)
ProducerKeeps ==
    /\ UNCHANGED <<pool_cap, next, base, slot, linked, live, table, pool, cur, ownVars>>
    /\ \A k \in Incs, b \in Blocks : blk'[k][b] = "free" <=> blk[k][b] = "free"

LEMMA ProducersKeep ==
  ASSUME IInv, NEW p \in Producers, ProducerNext(p)
  PROVE  ProducerKeeps
  <1> USE DEF Set, Goto, entryVars, heapVars, noteVars, prodVars, ownVars, ProducerKeeps
  <1>s. Shape BY DEF IInv
  <1>1. ASSUME NEW k \in Incs, NEW b \in Blocks, Free(p, k, b) PROVE ProducerKeeps
    BY <1>s, <1>1 DEF Free, Shape
  <1>2. CASE Cached(p) BY <1>2 DEF Cached
  <1>3. CASE Lookup(p) BY <1>3 DEF Lookup
  <1>4. CASE Publish(p)
    <2>1. Freeing(p) /\ pin[p] = obj[p][1] /\ blk[obj[p][1]][obj[p][2]] = "freeing"
      BY <1>4 DEF Publish, Freeing, IInv, HandInv
    <2>2. obj[p][1] \in Incs /\ obj[p][2] \in Blocks
      BY <2>1, FreeingIsLinked
    <2> QED BY <1>s, <1>4, <2>1, <2>2 DEF Publish, Shape
  <1>5. CASE AfterPublish(p) BY <1>5 DEF AfterPublish
  <1>6. CASE NotifyCas(p) BY <1>6 DEF NotifyCas
  <1>7. CASE NotifyMask(p) BY <1>7 DEF NotifyMask
  <1>8. CASE NotifySummary(p) BY <1>8 DEF NotifySummary
  <1>9. CASE CacheInsert(p) BY <1>9 DEF CacheInsert
  <1>10. CASE ThreadExit(p) BY <1>10 DEF ThreadExit
  <1> QED BY <1>1, <1>2, <1>3, <1>4, <1>5, <1>6, <1>7, <1>8, <1>9, <1>10, ProducerNextCases

(* The parts of the invariant that speak of the owner and the segments.    *)
LEMMA OwnerPartsStay ==
  ASSUME IInv, ProducerKeeps
  PROVE  TableInv' /\ OwnerInv' /\ PoolInv' /\ LiveInv' /\ HitInv'
  <1> USE DEF ownVars
  <1>1. /\ \A k \in Incs : Registered(k)' <=> Registered(k)
        /\ \A k \in Incs : AllFree(k)' <=> AllFree(k)
        /\ \A k \in Incs : (\E b \in Blocks : FreeBlock(k, b))'
                             <=> \E b \in Blocks : FreeBlock(k, b)
    BY DEF ProducerKeeps, Registered, AllFree, FreeBlock
  <1>2. \A k \in Incs : Used(k)' = Used(k)
    BY DEF ProducerKeeps, Used
  <1>3. TableInv'
    BY <1>1, PrimordialIsInc DEF ProducerKeeps, TableInv, IInv
  <1>4. OwnerInv'
    BY <1>1 DEF ProducerKeeps, OwnerInv, IInv
  <1>5. PoolInv'
    BY <1>1 DEF ProducerKeeps, PoolInv, NoOrphan, IInv, Shape
  <1>6. LiveInv'
    BY <1>2 DEF ProducerKeeps, LiveInv, IInv
  <1>7. HitInv'
    BY <1>1 DEF ProducerKeeps, HitInv, HitStaysUsable, IInv, Shape
  <1> QED BY <1>3, <1>4, <1>5, <1>6, <1>7

(* The steps that change the table or the directory are three.             *)
Quiet == opc # "unref" /\ UNCHANGED <<next, base, slot, linked, table, refs>>

LEMMA OwnerCases ==
  ASSUME OwnerNext
  PROVE  \/ Quiet \/ Unlink \/ Unref
         \/ \E a \in Bases, s \in Slots : NewSegment(a, s)
  <1> USE DEF Quiet, entryVars, heapVars
  <1>1. CASE TakeNext BY <1>1 DEF TakeNext
  <1>2. CASE FinishDrain BY <1>2 DEF FinishDrain
  <1>3. ASSUME NEW w \in owords, TakeMask(w) PROVE Quiet BY <1>3 DEF TakeMask
  <1>4. ASSUME NEW s \in obits, SkipSlot(s) \/ ArmSlot(s) PROVE Quiet
    BY <1>4 DEF SkipSlot, ArmSlot
  <1>5. ASSUME NEW w \in dwords, ScanWord(w) PROVE Quiet BY <1>5 DEF ScanWord
  <1>6. CASE TakeSummary BY <1>6 DEF TakeSummary
  <1>7. CASE TrimCurrent BY <1>7 DEF TrimCurrent
  <1>8. ASSUME NEW k \in Incs, NEW b \in Blocks, Alloc(k, b) \/ OwnFree(k, b) PROVE Quiet
    BY <1>8 DEF Alloc, OwnFree
  <1>9. ASSUME NEW k \in Incs, Decay(k) \/ DrainSegment(k) PROVE Quiet
    BY <1>9 DEF Decay, DrainSegment
  <1>10. ASSUME NEW k \in Incs, NEW w \in SideWords, BoundedCut(k, w) PROVE Quiet
    BY <1>10 DEF BoundedCut
  <1> QED BY <1>1, <1>2, <1>3, <1>4, <1>5, <1>6, <1>7, <1>8, <1>9, <1>10
          DEF OwnerNext, OwnerStep

LEMMA TableStays ==
  ASSUME IInv, Shape', OwnerNext
  PROVE  TableInv'
  <1> USE DEF Set, entryVars, heapVars, noteVars, prodVars, ownVars
  <1>s. Shape BY DEF IInv
  <1>q. ASSUME Quiet PROVE TableInv'
    <2>1. \A k \in Incs : Registered(k)' <=> Registered(k) BY <1>q DEF Quiet, Registered
    <2> QED BY <1>q, <2>1, PrimordialIsInc DEF Quiet, TableInv, IInv
  <1>1. ASSUME NEW a \in Bases, NEW s \in Slots, NewSegment(a, s) PROVE TableInv'
    <2>k. next + 1 \in Incs /\ next + 1 # None /\ next \in Nat
      <3>1. next < MAX_INCARNATION BY <1>1 DEF NewSegment
      <3>2. next \in Nat BY <1>s DEF Shape, Incs
      <3> QED BY <1>s, <3>1, <3>2, NextIsInc
    <2>u. ~ Registered(next + 1)
      BY <1>s, <1>1, FreshIsUnused DEF NewSegment, IInv
    <2>1. /\ next' = next + 1 /\ base' = [base EXCEPT ![next + 1] = a]
          /\ slot' = [slot EXCEPT ![next + 1] = s] /\ linked' = [linked EXCEPT ![next + 1] = TRUE]
          /\ table' = [table EXCEPT ![s] = next + 1] /\ table[s] = None
          /\ \A k \in Incs : Registered(k) => base[k] # a
          /\ opc = "idle"
      BY <1>1 DEF NewSegment
    <2>2. \A k \in Incs : Registered(k)' <=> Registered(k) \/ k = next + 1
      BY <1>s, <2>k, <2>1, IncsArePositive DEF Registered, Shape
    <2>3. \A t \in Slots : table'[t] # None => slot'[table'[t]] = t /\ table'[t] <= next'
      <3> SUFFICES ASSUME NEW t \in Slots, table'[t] # None
                   PROVE  slot'[table'[t]] = t /\ table'[t] <= next'
        OBVIOUS
      <3>1. CASE t = s BY <1>s, <2>1, <2>k, <3>1 DEF Shape
      <3>2. CASE t # s
        <4>1. table'[t] = table[t] /\ table[t] \in Incs /\ table[t] # next + 1
          BY <1>s, <2>1, <2>u, <3>2 DEF Shape, Registered
        <4>2. slot[table[t]] = t /\ table[t] <= next BY <4>1 DEF IInv, TableInv
        <4>3. slot'[table[t]] = slot[table[t]] BY <1>s, <2>1, <4>1 DEF Shape
        <4>4. table[t] <= next + 1 BY <4>1, <4>2, <2>k DEF Incs
        <4> QED BY <4>1, <4>2, <4>3, <4>4, <2>1
      <3> QED BY <3>1, <3>2
    <2>4. \A j, k \in Incs : /\ Registered(j)' /\ Registered(k)' /\ base'[j] = base'[k] => j = k
      BY <1>s, <2>1, <2>2, <2>k DEF Shape, IInv, TableInv
    <2>5. \A k \in Incs : linked'[k] => Registered(k)'
      BY <1>s, <2>1, <2>2, <2>k DEF Shape, IInv, TableInv
    <2>6. \A k \in Incs : Registered(k)' => linked'[k]
      BY <1>s, <2>1, <2>2, <2>k DEF Shape, IInv, TableInv
    <2>7. Registered(PRIMORDIAL)'
      BY <2>2, PrimordialIsInc DEF IInv, TableInv
    <2> QED BY <2>3, <2>4, <2>5, <2>6, <2>7 DEF TableInv
  <1>2. CASE Unlink
    <2>1. opc = "unlink" /\ opc' = "unref" /\ dk' = dk /\ dk \in Incs
          /\ linked' = [linked EXCEPT ![dk] = FALSE] /\ UNCHANGED <<next, base, slot, table>>
      BY <1>2 DEF Unlink, IInv, OwnerInv
    <2>2. \A k \in Incs : Registered(k)' <=> Registered(k) BY <2>1 DEF Registered
    <2> QED BY <1>s, <2>1, <2>2, PrimordialIsInc DEF TableInv, IInv, Shape
  <1>3. CASE Unref
    <2>1. opc = "unref" /\ dk \in Incs /\ Registered(dk) /\ ~ linked[dk] /\ dk # PRIMORDIAL
          /\ table' = [table EXCEPT ![slot[dk]] = None] /\ UNCHANGED <<next, base, slot, linked>>
      BY <1>3 DEF Unref, IInv, OwnerInv
    <2>2. \A k \in Incs : Registered(k)' <=> Registered(k) /\ k # dk
      <3> SUFFICES ASSUME NEW k \in Incs PROVE Registered(k)' <=> Registered(k) /\ k # dk
        OBVIOUS
      <3>1. slot[dk] \in Slots /\ table[slot[dk]] = dk
        BY <1>s, <2>1, InItsSlot DEF IInv, Shape
      <3>2. \A s \in Slots : table[s] = dk => s = slot[dk]
        BY <2>1, IncsArePositive DEF IInv, TableInv
      <3> QED BY <1>s, <2>1, <3>1, <3>2, IncsArePositive DEF Registered, Shape
    <2>3. \A s \in Slots : table'[s] # None => table'[s] = table[s]
      BY <1>s, <2>1 DEF Shape
    <2> QED BY <1>s, <2>1, <2>2, <2>3, PrimordialIsInc DEF TableInv, IInv, Shape
  <1> QED BY <1>q, <1>1, <1>2, <1>3, OwnerCases

-----------------------------------------------------------------------------
(* Blocks handed out and taken back, and the live count.                   *)
LEMMA UsedIsFinite ==
  ASSUME NEW k \in Incs
  PROVE  /\ IsFiniteSet(Used(k)) /\ Cardinality(Used(k)) \in Nat
         /\ Cardinality(Used(k)) = 0 <=> AllFree(k)
  <1>1. Used(k) \subseteq Blocks BY DEF Used
  <1>2. IsFiniteSet(Used(k)) BY <1>1, FS_Subset, RemoteFreeAssumption
  <1>3. Cardinality(Used(k)) = 0 <=> Used(k) = {} BY <1>2, FS_EmptySet
  <1>4. Used(k) = {} <=> AllFree(k) BY DEF Used, AllFree
  <1> QED BY <1>2, <1>3, <1>4, FS_CardinalityType

LEMMA EmptyIsAllFree ==
  ASSUME LiveInv, NEW k \in Incs
  PROVE  (live[k] = 0 <=> AllFree(k)) /\ live[k] \in Nat
  BY UsedIsFinite DEF LiveInv

(* The same of the next state.                                             *)
LEMMA EmptyIsAllFreeNext ==
  ASSUME LiveInv', NEW k \in Incs
  PROVE  (live'[k] = 0 <=> AllFree(k)') /\ live'[k] \in Nat
  <1>1. Used(k)' \subseteq Blocks BY DEF Used
  <1>2. IsFiniteSet(Used(k)') BY <1>1, FS_Subset, RemoteFreeAssumption
  <1>3. Cardinality(Used(k)') = 0 <=> Used(k)' = {} BY <1>2, FS_EmptySet
  <1>4. Used(k)' = {} <=> AllFree(k)' BY DEF Used, AllFree
  <1>5. live'[k] = Cardinality(Used(k)') BY DEF LiveInv
  <1> QED BY <1>2, <1>3, <1>4, <1>5, FS_CardinalityType

ElsewhereSame(k) == \A j \in Incs \ {k} : blk'[j] = blk[j] /\ live'[j] = live[j]

(* The blocks in S of segment k become free.                               *)
Freed(k, S) ==
    /\ S \subseteq Used(k) /\ ElsewhereSame(k)
    /\ \A b \in Blocks : blk'[k][b] = IF b \in S THEN "free" ELSE blk[k][b]
    /\ live'[k] = live[k] - Cardinality(S)

(* Block b of segment k is handed out.                                     *)
Handed(k, b) ==
    /\ FreeBlock(k, b) /\ ElsewhereSame(k)
    /\ blk'[k][b] = "live" /\ \A c \in Blocks \ {b} : blk'[k][c] = blk[k][c]
    /\ live'[k] = live[k] + 1

LEMMA FreedCounts ==
  ASSUME LiveInv, NEW k \in Incs, NEW S, Freed(k, S)
  PROVE  /\ LiveInv'
         /\ \A j \in Incs : AllFree(j) => AllFree(j)'
         /\ \A j \in Incs : (\E b \in Blocks : FreeBlock(j, b))
                              => (\E b \in Blocks : FreeBlock(j, b))'
         /\ S = {} => live'[k] = live[k]
         /\ S # {} => ~ AllFree(k)
  <1>1. Used(k)' = Used(k) \ S BY DEF Freed, Used
  <1>2. IsFiniteSet(Used(k)) BY UsedIsFinite
  <1>3. S \subseteq Used(k) /\ S = Used(k) \cap S BY DEF Freed
  <1>4. IsFiniteSet(S) BY <1>2, <1>3, FS_Subset
  <1>5. Cardinality(Used(k) \ S) = Cardinality(Used(k)) - Cardinality(Used(k) \cap S)
    BY <1>2, FS_Difference
  <1>6. live'[k] = Cardinality(Used(k)')
    BY <1>1, <1>3, <1>5 DEF Freed, LiveInv
  <1>7. \A j \in Incs \ {k} : live'[j] = Cardinality(Used(j)')
    <2> TAKE j \in Incs \ {k}
    <2>1. Used(j)' = Used(j) /\ live'[j] = live[j] BY DEF Freed, ElsewhereSame, Used
    <2> QED BY <2>1 DEF LiveInv
  <1>8. LiveInv' BY <1>6, <1>7 DEF LiveInv
  <1>9. \A j \in Incs, b \in Blocks : blk[j][b] = "free" => blk'[j][b] = "free"
    BY DEF Freed, ElsewhereSame
  <1>10. \A j \in Incs : (\E b \in Blocks : FreeBlock(j, b)) => (\E b \in Blocks : FreeBlock(j, b))'
    BY <1>9 DEF FreeBlock
  <1>11. S = {} => live'[k] = live[k]
    <2>1. Cardinality(Used(k)) \in Nat /\ live[k] = Cardinality(Used(k))
      BY UsedIsFinite DEF LiveInv
    <2> QED BY <2>1, FS_EmptySet DEF Freed
  <1> QED BY <1>3, <1>8, <1>9, <1>10, <1>11 DEF AllFree, Used

LEMMA HandedCounts ==
  ASSUME LiveInv, NEW k \in Incs, NEW b \in Blocks, Handed(k, b)
  PROVE  LiveInv' /\ live'[k] # 0
  <1>1. Used(k)' = Used(k) \cup {b} /\ b \notin Used(k) BY DEF Handed, Used, FreeBlock
  <1>2. IsFiniteSet(Used(k)) BY UsedIsFinite
  <1>3. Cardinality(Used(k) \cup {b}) = Cardinality(Used(k)) + 1
    BY <1>1, <1>2, FS_AddElement
  <1>4. live'[k] = Cardinality(Used(k)') BY <1>1, <1>3 DEF Handed, LiveInv
  <1>5. \A j \in Incs \ {k} : live'[j] = Cardinality(Used(j)')
    <2> TAKE j \in Incs \ {k}
    <2>1. Used(j)' = Used(j) /\ live'[j] = live[j] BY DEF Handed, ElsewhereSame, Used
    <2> QED BY <2>1 DEF LiveInv
  <1>6. live[k] \in Nat BY EmptyIsAllFree
  <1> QED BY <1>4, <1>5, <1>6 DEF LiveInv, Handed

LEMMA OwnFreeFrees ==
  ASSUME IInv, NEW k \in Incs, NEW b \in Blocks, OwnFree(k, b)
  PROVE  Freed(k, {b}) /\ live'[k] = live[k] - 1
  <1>1. Cardinality({b}) = 1 BY FS_Singleton
  <1>2. blk[k][b] = "live" /\ blk' = [blk EXCEPT ![k][b] = "free"]
        /\ live' = [live EXCEPT ![k] = live[k] - 1]
    BY DEF OwnFree, Set
  <1> QED BY <1>1, <1>2 DEF Freed, ElsewhereSame, Used, IInv, Shape

LEMMA ReclaimFrees ==
  ASSUME IInv, NEW k \in Incs, NEW w, Reclaim(k, w)
  PROVE  Freed(k, Cut(k, w))
  <1>1. Cut(k, w) \subseteq Used(k) BY DEF Cut, Used
  <1> QED BY <1>1 DEF Reclaim, Set, Freed, ElsewhereSame, IInv, Shape

LEMMA AllocHands ==
  ASSUME IInv, NEW k \in Incs, NEW b \in Blocks, FreeBlock(k, b),
         blk' = [blk EXCEPT ![k][b] = "live"], live' = Set(live, k, live[k] + 1)
  PROVE  Handed(k, b)
  BY DEF Set, Handed, ElsewhereSame, IInv, Shape

LEMMA LiveStays ==
  ASSUME IInv, OwnerNext
  PROVE  LiveInv'
  <1> USE DEF heapVars
  <1>s. Shape /\ LiveInv BY DEF IInv
  <1>q. ASSUME UNCHANGED <<blk, live>> PROVE LiveInv'
    BY <1>q, <1>s DEF LiveInv, Used
  <1>1. CASE TakeNext
    <2>1. CASE UNCHANGED <<blk, live>> BY <2>1, <1>q
    <2>2. ASSUME NEW b \in Blocks, hit # None, FreeBlock(hit, b),
                 blk' = [blk EXCEPT ![hit][b] = "live"], live' = Set(live, hit, live[hit] + 1)
          PROVE  LiveInv'
      <3>1. hit \in Incs BY <1>s, <2>2 DEF Shape
      <3> QED BY <1>s, <2>2, <3>1, AllocHands, HandedCounts
    <2> QED BY <1>1, <2>1, <2>2 DEF TakeNext
  <1>2. CASE FinishDrain BY <1>2, <1>q DEF FinishDrain
  <1>3. ASSUME NEW w \in owords, TakeMask(w) PROVE LiveInv' BY <1>3, <1>q DEF TakeMask
  <1>4. ASSUME NEW s \in obits, SkipSlot(s) \/ ArmSlot(s) PROVE LiveInv'
    BY <1>4, <1>q DEF SkipSlot, ArmSlot
  <1>5. ASSUME NEW w \in dwords, ScanWord(w) PROVE LiveInv'
    <2>1. dk \in Incs /\ Reclaim(dk, w) BY <1>5 DEF ScanWord, IInv, OwnerInv
    <2> QED BY <1>s, <2>1, ReclaimFrees, FreedCounts
  <1>6. CASE TakeSummary \/ TrimCurrent BY <1>6, <1>q DEF TakeSummary, TrimCurrent
  <1>7. ASSUME NEW k \in Incs, NEW b \in Blocks, Alloc(k, b) PROVE LiveInv'
    BY <1>s, <1>7, AllocHands, HandedCounts DEF Alloc
  <1>8. ASSUME NEW k \in Incs, NEW b \in Blocks, OwnFree(k, b) PROVE LiveInv'
    BY <1>s, <1>8, OwnFreeFrees, FreedCounts
  <1>9. ASSUME NEW k \in Incs, Decay(k) \/ DrainSegment(k) PROVE LiveInv'
    BY <1>9, <1>q DEF Decay, DrainSegment
  <1>10. ASSUME NEW k \in Incs, NEW w \in SideWords, BoundedCut(k, w) PROVE LiveInv'
    BY <1>s, <1>10, ReclaimFrees, FreedCounts DEF BoundedCut
  <1>11. ASSUME NEW a \in Bases, NEW s \in Slots, NewSegment(a, s) PROVE LiveInv'
    BY <1>11, <1>q DEF NewSegment
  <1>12. CASE Unlink \/ Unref BY <1>12, <1>q DEF Unlink, Unref
  <1> QED BY <1>1, <1>2, <1>3, <1>4, <1>5, <1>6, <1>7, <1>8, <1>9, <1>10, <1>11, <1>12
          DEF OwnerNext, OwnerStep

-----------------------------------------------------------------------------
(* The owner's hand, the pool and the segment chosen, step by step.        *)
LEMMA IdleOwner ==
  ASSUME IInv, opc = "idle"
  PROVE  dk = None /\ ~ darm /\ obits = {} /\ owords = {} /\ hit = None
  BY DEF IInv, OwnerInv

LEMMA PooledAreEmpty ==
  ASSUME IInv, NEW k \in pool
  PROVE  k \in Incs /\ Registered(k) /\ AllFree(k) /\ k # cur /\ k # PRIMORDIAL
  BY DEF IInv, PoolInv, Shape

Owned == OwnerInv /\ PoolInv /\ HitInv

(* A segment that has just become empty is pooled or set out on its way.   *)
LEMMA PoolOrReleaseKeeps ==
  ASSUME IInv, Shape', LiveInv', opc = "idle", NEW k \in Incs,
         Registered(k), k # cur', k # PRIMORDIAL, k \notin pool, live'[k] = 0,
         PoolOrRelease(k, "idle"),
         UNCHANGED <<owords, obits, darm, dgot, hit, linked>>,
         \A j \in Incs : Registered(j) => Registered(j)',
         \A j \in Incs : Registered(j)' => Registered(j) \/ j = cur',
         \A j \in Incs : AllFree(j) => AllFree(j)',
         \A j \in Incs \ {k} : live'[j] = 0 => live[j] = 0 \/ j = cur',
         cur' = cur \/ (live[cur] = 0 => cur = k \/ cur = PRIMORDIAL),
         Registered(cur)', cur' \notin pool
  PROVE  Owned'
  <1>i. dk = None /\ ~ darm /\ obits = {} /\ owords = {} /\ hit = None
    BY IdleOwner
  <1>k. AllFree(k)' /\ Registered(k)' /\ k # None /\ k # hit
    BY <1>i, EmptyIsAllFreeNext, IncsArePositive
  <1>n. \A j \in Incs : Registered(j)' /\ live'[j] = 0 /\ j # cur' /\ j # PRIMORDIAL
                          => j \in pool \/ j = k
    <2>1. \A j \in Incs \ {k} : Registered(j) /\ live[j] = 0 /\ j # cur /\ j # PRIMORDIAL
                          => j \in pool
      BY <1>i, IncsArePositive DEF IInv, PoolInv, NoOrphan
    <2> QED BY <2>1
  <1>p. /\ \A j \in pool : j \in Incs /\ Registered(j)' /\ AllFree(j)' /\ j # PRIMORDIAL
        /\ \A j \in Incs : ~ Registered(j)' => AllFree(j)'
    BY PooledAreEmpty DEF IInv, PoolInv
  <1>h. HitInv'
    BY <1>i DEF PoolOrRelease, HitInv, HitStaysUsable
  <1>1. CASE Cardinality(pool) < pool_cap
    <2>1. pool' = pool \cup {k} /\ opc' = "idle" /\ dk' = None
      BY <1>1 DEF PoolOrRelease
    <2>2. OwnerInv' BY <2>1, <1>i DEF OwnerInv
    <2>3. PoolInv' BY <2>1, <1>k, <1>n, <1>p DEF PoolInv, NoOrphan
    <2> QED BY <2>2, <2>3, <1>h DEF Owned
  <1>2. CASE ~ (Cardinality(pool) < pool_cap)
    <2>1. pool' = pool /\ opc' = "unlink" /\ dk' = k
      BY <1>2 DEF PoolOrRelease
    <2>2. OwnerInv' BY <2>1, <1>i, <1>k DEF OwnerInv
    <2>3. PoolInv' BY <2>1, <1>k, <1>n, <1>p DEF PoolInv, NoOrphan
    <2> QED BY <2>2, <2>3, <1>h DEF Owned
  <1> QED BY <1>1, <1>2

(* Blocks of segment k are taken back while the owner is idle.             *)
LEMMA FreedWhenIdle ==
  ASSUME IInv, Shape', LiveInv', opc = "idle", NEW k \in Incs, NEW S, Freed(k, S),
         Registered(k),
         IF S # {} /\ Empty(k, live'[k])
           THEN PoolOrRelease(k, "idle") ELSE UNCHANGED <<pool, opc, dk>>,
         UNCHANGED <<next, base, slot, linked, table, cur, owords, obits, darm, dgot, hit>>
  PROVE  Owned'
  <1>i. dk = None /\ ~ darm /\ obits = {} /\ owords = {} /\ hit = None
    BY IdleOwner
  <1>f. /\ \A j \in Incs : AllFree(j) => AllFree(j)'
        /\ S = {} => live'[k] = live[k]
        /\ S # {} => ~ AllFree(k)
    BY FreedCounts DEF IInv
  <1>r. \A j \in Incs : Registered(j)' <=> Registered(j) BY DEF Registered
  <1>e. \A j \in Incs \ {k} : live'[j] = live[j] BY DEF Freed, ElsewhereSame
  <1>c. Registered(cur) /\ cur \in Incs /\ cur \notin pool BY DEF IInv, PoolInv, Shape
  <1>1. CASE S # {} /\ Empty(k, live'[k])
    <2>1. k \notin pool BY <1>1, <1>f, PooledAreEmpty
    <2>2. live'[k] = 0 /\ k # cur /\ k # PRIMORDIAL /\ PoolOrRelease(k, "idle")
      BY <1>1 DEF Empty
    <2> QED BY <2>1, <2>2, <1>f, <1>r, <1>e, <1>c, PoolOrReleaseKeeps
  <1>2. CASE ~ (S # {} /\ Empty(k, live'[k]))
    <2>1. UNCHANGED <<pool, opc, dk>> BY <1>2
    <2>2. OwnerInv' BY <2>1, <1>i DEF OwnerInv
    <2>3. HitInv' BY <2>1, <1>i DEF HitInv, HitStaysUsable
    <2>4. NoOrphan'
      <3> SUFFICES ASSUME NEW j \in Incs, Registered(j)', live'[j] = 0, j # cur, j # PRIMORDIAL
                   PROVE  j \in pool
        BY <2>1 DEF NoOrphan
      <3>1. live[j] = 0 BY <1>2, <1>f, <1>e DEF Empty
      <3> QED BY <3>1, <1>r, <1>i, IncsArePositive DEF IInv, PoolInv, NoOrphan
    <2>5. PoolInv' BY <2>1, <2>4, <1>f, <1>r, <1>c DEF PoolInv, IInv, Shape
    <2> QED BY <2>2, <2>3, <2>5 DEF Owned
  <1> QED BY <1>1, <1>2

(* A block of a registered segment is handed out and the segment leaves    *)
(* the pool.                                                               *)
LEMMA HandedOutKeeps ==
  ASSUME IInv, LiveInv', dk = None, NEW k \in Incs, NEW b \in Blocks, Handed(k, b), Registered(k),
         pool' = pool \ {k}, opc \in {"idle", "bits"}, opc' = "idle", hit' = None,
         owords = {}, obits = {},
         UNCHANGED <<next, base, slot, linked, table, cur, owords, obits, dk, darm>>
  PROVE  Owned'
  <1>1. ~ darm BY DEF IInv, OwnerInv
  <1>r. \A j \in Incs : Registered(j)' <=> Registered(j) BY DEF Registered
  <1>e. \A j \in Incs \ {k} : live'[j] = live[j] /\ (AllFree(j)' <=> AllFree(j))
    BY DEF Handed, ElsewhereSame, AllFree
  <1>k. live'[k] # 0 BY HandedCounts DEF IInv
  <1>2. OwnerInv' BY <1>1 DEF OwnerInv
  <1>3. HitInv' BY DEF HitInv, HitStaysUsable
  <1>4. NoOrphan'
    <2> SUFFICES ASSUME NEW j \in Incs, Registered(j)', live'[j] = 0, j # cur, j # PRIMORDIAL
                 PROVE  j \in pool \ {k}
      BY DEF NoOrphan
    <2>1. j # k /\ live[j] = 0 BY <1>e, <1>k
    <2> QED BY <2>1, <1>r, IncsArePositive DEF IInv, PoolInv, NoOrphan
  <1>5. PoolInv' BY <1>r, <1>e, <1>4 DEF PoolInv, IInv, Shape
  <1> QED BY <1>2, <1>3, <1>5 DEF Owned

(* Steps that move only the owner's hand.                                  *)
LEMMA OwnedByMaskSteps ==
  ASSUME IInv, Shape',
         \/ TakeSummary
         \/ \E w \in owords : TakeMask(w)
         \/ \E s \in obits : SkipSlot(s) \/ ArmSlot(s)
         \/ \E k \in Incs : DrainSegment(k)
  PROVE  Owned'
  <1> USE DEF entryVars, heapVars
  <1>s. Shape /\ OwnerInv /\ PoolInv /\ HitInv BY DEF IInv
  <1>b. ASSUME UNCHANGED <<base, slot, linked, blk, live, table, pool, cur>>
        PROVE  /\ \A j \in Incs : Registered(j)' <=> Registered(j)
               /\ \A j \in Incs : AllFree(j)' <=> AllFree(j)
               /\ \A j \in Incs : (\E b \in Blocks : FreeBlock(j, b))'
                                    <=> \E b \in Blocks : FreeBlock(j, b)
    BY <1>b DEF Registered, AllFree, FreeBlock
  <1>1. CASE TakeSummary
    <2>1. opc = "idle" /\ opc' = "take" /\ UNCHANGED <<base, slot, linked, blk, live, table, pool,
          cur, obits, dk, darm, hit>>
      BY <1>1 DEF TakeSummary
    <2>2. OwnerInv' BY <2>1, <1>b, IdleOwner DEF OwnerInv
    <2>3. HitInv' BY <2>1, IdleOwner DEF HitInv, HitStaysUsable
    <2>4. PoolInv' BY <2>1, <1>b, <1>s DEF PoolInv, NoOrphan, Shape
    <2> QED BY <2>2, <2>3, <2>4 DEF Owned
  <1>2. ASSUME NEW w \in owords, TakeMask(w) PROVE Owned'
    <2>1. opc = "take" /\ opc' = "bits" /\ owords' = owords \ {w}
          /\ obits' = {s \in mask : MaskWord(s) = w}
          /\ UNCHANGED <<base, slot, linked, blk, live, table, pool, cur, dk, darm, hit>>
      BY <1>2 DEF TakeMask
    <2>2. OwnerInv' BY <2>1, <1>s DEF OwnerInv
    <2>3. HitInv' BY <1>2, <2>1, <1>b, <1>s DEF HitInv, HitStaysUsable, OwnerInv, Shape
    <2>4. PoolInv' BY <2>1, <1>b, <1>s DEF PoolInv, NoOrphan, Shape
    <2> QED BY <2>2, <2>3, <2>4 DEF Owned
  <1>3. ASSUME NEW s \in obits, SkipSlot(s) PROVE Owned'
    <2>1. opc = "bits" /\ obits' = obits \ {s}
          /\ UNCHANGED <<base, slot, linked, blk, live, table, pool, cur, opc, owords, dk, darm, hit>>
      BY <1>3 DEF SkipSlot
    <2>2. OwnerInv' BY <2>1, <1>s DEF OwnerInv
    <2>3. HitInv' BY <2>1, <1>b, <1>s DEF HitInv, HitStaysUsable, Shape
    <2>4. PoolInv' BY <2>1, <1>b, <1>s DEF PoolInv, NoOrphan, Shape
    <2> QED BY <2>2, <2>3, <2>4 DEF Owned
  <1>4. ASSUME NEW s \in obits, ArmSlot(s) PROVE Owned'
    <2>1. opc = "bits" /\ obits' = obits \ {s} /\ table[s] # None /\ dk' = table[s]
          /\ darm' = TRUE /\ dgot' = FALSE /\ opc' = "scan"
          /\ UNCHANGED <<base, slot, linked, blk, live, table, pool, cur, owords, hit>>
      BY <1>4 DEF ArmSlot
    <2>2. s \in Slots /\ dk' \in Incs /\ slot[dk'] = s /\ Registered(dk') /\ dk = None
      BY <2>1, <1>s DEF Shape, TableInv, IInv, Registered, OwnerInv
    <2>3. OwnerInv' BY <2>1, <2>2, <1>b DEF OwnerInv
    <2>4. HitInv' BY <2>1, <2>2, <1>b, <1>s DEF HitInv, HitStaysUsable, Shape
    <2>5. \A j \in Incs : Registered(j) /\ live[j] = 0 /\ j # cur /\ j # PRIMORDIAL => j \in pool
      BY <2>2, <1>s, IncsArePositive DEF PoolInv, NoOrphan
    <2>6. PoolInv' BY <2>1, <2>2, <2>5, <1>b, <1>s DEF PoolInv, NoOrphan, Shape
    <2> QED BY <2>3, <2>4, <2>6 DEF Owned
  <1>5. ASSUME NEW k \in Incs, DrainSegment(k) PROVE Owned'
    <2>1. opc = "idle" /\ Registered(k) /\ dk' = k /\ dgot' = FALSE /\ opc' = "scan"
          /\ UNCHANGED <<base, slot, linked, blk, live, table, pool, cur, owords, obits, darm, hit>>
      BY <1>5 DEF DrainSegment
    <2>2. OwnerInv' BY <2>1, <1>b, IdleOwner DEF OwnerInv
    <2>3. HitInv' BY <2>1, IdleOwner DEF HitInv, HitStaysUsable
    <2>5. \A j \in Incs : Registered(j) /\ live[j] = 0 /\ j # cur /\ j # PRIMORDIAL => j \in pool
      BY <2>1, <1>s, IncsArePositive, IdleOwner DEF PoolInv, NoOrphan
    <2>6. PoolInv' BY <2>1, <2>5, <1>b, <1>s DEF PoolInv, NoOrphan, Shape
    <2> QED BY <2>2, <2>3, <2>6 DEF Owned
  <1> QED BY <1>1, <1>2, <1>3, <1>4, <1>5

LEMMA OwnedByDrain ==
  ASSUME IInv, Shape', LiveInv', FinishDrain \/ \E w \in dwords : ScanWord(w)
  PROVE  Owned'
  <1> USE DEF entryVars, heapVars
  <1>s. Shape /\ OwnerInv /\ PoolInv /\ HitInv /\ LiveInv BY DEF IInv
  <1>d. opc = "scan" /\ dk \in Incs /\ Registered(dk) /\ dk # None
    BY <1>s, IncsArePositive DEF FinishDrain, ScanWord, OwnerInv
  <1>1. ASSUME NEW w \in dwords, ScanWord(w) PROVE Owned'
    <2>1. Reclaim(dk, w) /\ dgot' = (dgot \/ Cut(dk, w) # {})
          /\ UNCHANGED <<next, base, slot, linked, table, pool, cur, opc, owords, obits, dk, darm, hit>>
      BY <1>1 DEF ScanWord
    <2>2. Freed(dk, Cut(dk, w)) BY <2>1, <1>d, ReclaimFrees
    <2>f. /\ \A j \in Incs : AllFree(j) => AllFree(j)'
          /\ \A j \in Incs : (\E b \in Blocks : FreeBlock(j, b))
                               => (\E b \in Blocks : FreeBlock(j, b))'
          /\ Cut(dk, w) = {} => live'[dk] = live[dk]
          /\ Cut(dk, w) # {} => ~ AllFree(dk)
      BY <2>2, <1>d, <1>s, FreedCounts
    <2>r. \A j \in Incs : Registered(j)' <=> Registered(j) BY <2>1 DEF Registered
    <2>e. \A j \in Incs \ {dk} : live'[j] = live[j] BY <2>2 DEF Freed, ElsewhereSame
    <2>3. OwnerInv' BY <2>1, <2>f, <2>r, <1>s, <1>d DEF OwnerInv
    <2>4. HitInv' BY <2>1, <2>f, <2>r, <1>s DEF HitInv, HitStaysUsable, Shape
    <2>5. NoOrphan' BY <2>1, <2>e, <2>r, <1>s DEF NoOrphan, PoolInv
    <2>6. Cut(dk, w) # {} => dk \notin pool BY <2>f, PooledAreEmpty
    <2>7. /\ dgot' => dk \notin pool
          /\ ~ dgot' /\ live'[dk] = 0 /\ dk # cur /\ dk # PRIMORDIAL => dk \in pool
      BY <2>1, <2>f, <2>6, <1>s, <1>d DEF PoolInv, Shape
    <2>8. PoolInv' BY <2>1, <2>f, <2>r, <2>5, <2>7, <1>s DEF PoolInv, Shape
    <2> QED BY <2>3, <2>4, <2>8 DEF Owned
  <1>2. CASE FinishDrain
    <2>1. /\ darm' = (darm /\ opc' = "unlink") /\ dgot' = FALSE
          /\ UNCHANGED <<next, base, slot, linked, table, blk, live, cur, owords, obits>>
      BY <1>2 DEF FinishDrain
    <2>r. /\ \A j \in Incs : Registered(j)' <=> Registered(j)
          /\ \A j \in Incs : AllFree(j)' <=> AllFree(j)
          /\ \A j \in Incs : (\E b \in Blocks : FreeBlock(j, b))'
                               <=> \E b \in Blocks : FreeBlock(j, b)
      BY <2>1 DEF Registered, AllFree, FreeBlock
    <2>n. \A j \in Incs \ {dk} : Registered(j) /\ live[j] = 0 /\ j # cur /\ j # PRIMORDIAL => j \in pool
      BY <1>s DEF PoolInv, NoOrphan
    <2>a. \/ /\ pool' = pool \cup {dk} /\ dgot /\ Empty(dk, live[dk])
             /\ opc' = (IF darm THEN "bits" ELSE "idle") /\ dk' = None
          \/ /\ pool' = pool /\ ~ (dgot /\ Empty(dk, live[dk]))
             /\ opc' = (IF darm THEN "bits" ELSE "idle") /\ dk' = None
          \/ /\ pool' = pool /\ dgot /\ Empty(dk, live[dk])
             /\ opc' = "unlink" /\ dk' = dk
      BY <1>2 DEF FinishDrain, PoolOrRelease
    <2>h. \/ hit' = hit
          \/ /\ hit' = dk /\ darm /\ opc' # "unlink" /\ \E b \in Blocks : FreeBlock(dk, b)
      BY <1>2 DEF FinishDrain
    <2>2. CASE opc' = "unlink"
      <3>1. /\ pool' = pool /\ dgot /\ live[dk] = 0 /\ dk # cur /\ dk # PRIMORDIAL /\ dk' = dk
            /\ hit' = hit /\ darm' = darm
        BY <2>1, <2>2, <2>a, <2>h, <1>s DEF Empty, Shape
      <3>2. AllFree(dk) /\ dk \notin pool /\ dk # hit
        BY <3>1, <1>s, <1>d, EmptyIsAllFree DEF PoolInv, HitInv
      <3>3. OwnerInv' BY <2>1, <2>2, <2>r, <3>1, <3>2, <1>s, <1>d DEF OwnerInv
      <3>4. HitInv' BY <2>1, <2>2, <2>r, <3>1, <1>s, <1>d DEF HitInv, HitStaysUsable, Shape
      <3>5. PoolInv' BY <2>1, <2>2, <2>r, <3>1, <1>s DEF PoolInv, NoOrphan, Shape
      <3> QED BY <3>3, <3>4, <3>5 DEF Owned
    <2>3. CASE opc' # "unlink"
      <3>1. /\ opc' = (IF darm THEN "bits" ELSE "idle") /\ dk' = None /\ ~ darm'
            /\ \/ pool' = pool \cup {dk} /\ dgot /\ Empty(dk, live[dk])
               \/ pool' = pool /\ ~ (dgot /\ Empty(dk, live[dk]))
        BY <2>1, <2>a, <2>3
      <3>2. OwnerInv'
        <4>1. CASE darm BY <2>1, <3>1, <4>1 DEF OwnerInv
        <4>2. CASE ~ darm BY <2>1, <2>h, <3>1, <4>2, <1>s, <1>d DEF OwnerInv
        <4> QED BY <4>1, <4>2
      <3>3. HitInv'
        <4>1. opc' # "scan" /\ \A s \in obits' : MaskWord(s) \notin owords'
          BY <2>1, <3>1, <1>s DEF HitInv
        <4>2. CASE hit' = hit
          BY <2>1, <2>r, <3>1, <4>1, <4>2, <1>s DEF HitInv, HitStaysUsable, Shape
        <4>3. CASE hit' = dk /\ darm /\ \E b \in Blocks : FreeBlock(dk, b)
          BY <2>1, <2>r, <3>1, <4>1, <4>3, <1>s, <1>d DEF HitInv, HitStaysUsable
        <4> QED BY <2>h, <4>2, <4>3
      <3>4. NoOrphan'
        <4> SUFFICES ASSUME NEW j \in Incs, Registered(j), live[j] = 0, j # cur, j # PRIMORDIAL
                     PROVE  j \in pool'
          BY <2>1, <2>r DEF NoOrphan
        <4>1. CASE j # dk BY <2>n, <3>1, <4>1
        <4>2. CASE j = dk /\ dgot BY <3>1, <4>2 DEF Empty
        <4>3. CASE j = dk /\ ~ dgot BY <3>1, <4>3, <1>s, <1>d DEF PoolInv
        <4> QED BY <4>1, <4>2, <4>3
      <3>5. \A j \in pool' : Registered(j) /\ AllFree(j) /\ j # cur /\ j # PRIMORDIAL
        BY <3>1, <1>d, <1>s, EmptyIsAllFree, PooledAreEmpty DEF Empty
      <3>6. PoolInv' BY <2>1, <2>r, <3>1, <3>4, <3>5, <1>s DEF PoolInv, Shape
      <3> QED BY <3>2, <3>3, <3>6 DEF Owned
    <2> QED BY <2>2, <2>3
  <1> QED BY <1>1, <1>2

LEMMA OwnedByRelease ==
  ASSUME IInv, Shape', LiveInv', TableInv', Unlink \/ Unref
  PROVE  Owned'
  <1> USE DEF entryVars, heapVars
  <1>s. Shape /\ OwnerInv /\ PoolInv /\ HitInv BY DEF IInv
  <1>d. /\ opc \in {"unlink", "unref"} /\ dk \in Incs /\ Registered(dk) /\ dk # None
        /\ dk # cur /\ dk # PRIMORDIAL /\ dk \notin pool /\ dk # hit /\ AllFree(dk)
    BY <1>s, IncsArePositive DEF Unlink, Unref, OwnerInv
  <1>f. UNCHANGED <<slot, blk, live, pool, cur, owords, obits, dgot, hit>>
    BY DEF Unlink, Unref
  <1>b. /\ \A j \in Incs : AllFree(j)' <=> AllFree(j)
        /\ \A j \in Incs : (\E b \in Blocks : FreeBlock(j, b))'
                             <=> \E b \in Blocks : FreeBlock(j, b)
    BY <1>f DEF AllFree, FreeBlock
  <1>1. CASE Unlink
    <2>1. opc' = "unref" /\ linked' = [linked EXCEPT ![dk] = FALSE]
          /\ UNCHANGED <<table, dk, darm>> /\ opc = "unlink"
      BY <1>1 DEF Unlink, Set
    <2>r. \A j \in Incs : Registered(j)' <=> Registered(j) BY <2>1 DEF Registered
    <2>2. ~ linked'[dk] BY <2>1, <1>s, <1>d DEF Shape
    <2>3. OwnerInv' BY <2>1, <2>2, <2>r, <1>f, <1>b, <1>d, <1>s DEF OwnerInv
    <2>4. HitInv' BY <2>1, <2>r, <1>f, <1>b, <1>s DEF HitInv, HitStaysUsable, Shape
    <2>5. PoolInv' BY <2>1, <2>r, <1>f, <1>b, <1>s DEF PoolInv, NoOrphan, Shape
    <2> QED BY <2>3, <2>4, <2>5 DEF Owned
  <1>2. CASE Unref
    <2>1. opc = "unref" /\ table' = [table EXCEPT ![slot[dk]] = None] /\ dk' = None
          /\ opc' = (IF darm THEN "bits" ELSE "idle") /\ ~ darm'
      BY <1>2 DEF Unref, Set
    <2>r. \A j \in Incs : Registered(j)' <=> Registered(j) /\ j # dk
      <3> SUFFICES ASSUME NEW k \in Incs PROVE Registered(k)' <=> Registered(k) /\ k # dk
        OBVIOUS
      <3>1. slot[dk] \in Slots /\ table[slot[dk]] = dk
        BY <1>s, <1>d, InItsSlot DEF IInv, Shape
      <3>2. \A s \in Slots : table[s] = dk => s = slot[dk]
        BY <1>d DEF IInv, TableInv
      <3> QED BY <1>s, <2>1, <3>1, <3>2, IncsArePositive DEF Registered, Shape
    <2>3. OwnerInv'
      <3>1. CASE darm BY <2>1, <3>1, <1>f DEF OwnerInv
      <3>2. CASE ~ darm BY <2>1, <3>2, <1>f, <1>s, <1>d DEF OwnerInv
      <3> QED BY <3>1, <3>2
    <2>4. HitInv' BY <2>1, <2>r, <1>f, <1>b, <1>s, <1>d DEF HitInv, HitStaysUsable, Shape
    <2>5. NoOrphan' BY <2>1, <2>r, <1>f, <1>s DEF NoOrphan, PoolInv
    <2>6. PoolInv' BY <2>1, <2>5, <2>r, <1>f, <1>b, <1>s, <1>d DEF PoolInv, Shape
    <2> QED BY <2>3, <2>4, <2>6 DEF Owned
  <1> QED BY <1>1, <1>2

(* A pooled or the current segment is set out on its way.                  *)
LEMMA OwnedByTrim ==
  ASSUME IInv, Shape', LiveInv', TrimCurrent \/ \E k \in Incs : Decay(k)
  PROVE  Owned'
  <1> USE DEF entryVars
  <1>s. Shape /\ OwnerInv /\ PoolInv /\ HitInv /\ LiveInv BY DEF IInv
  <1>f. opc = "idle" /\ opc' = "unlink"
        /\ UNCHANGED <<slot, linked, table, blk, live, owords, obits, darm, dgot, hit>>
    BY DEF TrimCurrent, Decay
  <1>i. dk = None /\ ~ darm /\ obits = {} /\ owords = {} /\ hit = None
    BY <1>f, IdleOwner
  <1>b. /\ \A j \in Incs : Registered(j)' <=> Registered(j)
        /\ \A j \in Incs : AllFree(j)' <=> AllFree(j)
    BY <1>f DEF Registered, AllFree
  <1>n. \A j \in Incs : Registered(j) /\ live[j] = 0 /\ j # cur /\ j # PRIMORDIAL => j \in pool
    BY <1>i, <1>s, IncsArePositive DEF PoolInv, NoOrphan
  <1>h. HitInv' BY <1>f, <1>i DEF HitInv, HitStaysUsable
  <1>1. CASE TrimCurrent
    <2>1. cur # PRIMORDIAL /\ live[cur] = 0 /\ cur' = PRIMORDIAL /\ dk' = cur /\ pool' = pool
      BY <1>1 DEF TrimCurrent
    <2>2. AllFree(cur) /\ cur \in Incs /\ cur # None /\ Registered(cur) /\ cur \notin pool
      BY <2>1, <1>s, EmptyIsAllFree, IncsArePositive DEF Shape, PoolInv
    <2>3. OwnerInv' BY <2>1, <2>2, <1>f, <1>i, <1>b DEF OwnerInv
    <2>4. Registered(PRIMORDIAL)' BY <1>b, PrimordialIsInc DEF IInv, TableInv
    <2>5. PoolInv' BY <2>1, <2>2, <2>4, <1>f, <1>b, <1>n, <1>s DEF PoolInv, NoOrphan, Shape
    <2> QED BY <2>3, <2>5, <1>h DEF Owned
  <1>2. ASSUME NEW k \in Incs, Decay(k) PROVE Owned'
    <2>1. k \in pool /\ pool' = pool \ {k} /\ dk' = k /\ cur' = cur
      BY <1>2 DEF Decay
    <2>2. Registered(k) /\ AllFree(k) /\ k # cur /\ k # PRIMORDIAL /\ k # None
      BY <2>1, PooledAreEmpty, IncsArePositive
    <2>3. OwnerInv' BY <2>1, <2>2, <1>f, <1>i, <1>b DEF OwnerInv
    <2>5. PoolInv' BY <2>1, <2>2, <1>f, <1>b, <1>n, <1>s DEF PoolInv, NoOrphan, Shape
    <2> QED BY <2>3, <2>5, <1>h DEF Owned
  <1> QED BY <1>1, <1>2

LEMMA OwnedByNewSegment ==
  ASSUME IInv, Shape', LiveInv', TableInv',
         NEW a \in Bases, NEW s \in Slots, NewSegment(a, s)
  PROVE  Owned'
  <1>s. Shape /\ OwnerInv /\ PoolInv /\ HitInv /\ LiveInv BY DEF IInv
  <1>1. /\ opc = "idle" /\ table[s] = None /\ cur' = next + 1 /\ next < MAX_INCARNATION
        /\ next' = next + 1
        /\ table' = [table EXCEPT ![s] = next + 1]
        /\ linked' = [linked EXCEPT ![next + 1] = TRUE]
        /\ slot' = [slot EXCEPT ![next + 1] = s]
        /\ UNCHANGED <<blk, live, owords, obits, darm, dgot, hit>>
    BY DEF NewSegment, Set
  <1>k. next + 1 \in Incs /\ next + 1 # None /\ ~ Registered(next + 1)
    BY <1>1, <1>s, NextIsInc, FreshIsUnused DEF IInv
  <1>r. \A j \in Incs : Registered(j)' <=> Registered(j) \/ j = cur'
    BY <1>s, <1>1, <1>k, IncsArePositive DEF Registered, Shape
  <1>i. dk = None /\ ~ darm /\ obits = {} /\ owords = {} /\ hit = None
    BY <1>1, IdleOwner
  <1>b. \A j \in Incs : AllFree(j)' <=> AllFree(j)
    BY <1>1 DEF AllFree
  <1>c. cur \in Incs /\ Registered(cur) /\ cur # cur' /\ cur \notin pool /\ cur' \notin pool
        /\ cur' # PRIMORDIAL
    BY <1>k, <1>1, <1>s DEF PoolInv, Shape, IInv, TableInv
  <1>n. \A j \in Incs : Registered(j) /\ live[j] = 0 /\ j # cur /\ j # PRIMORDIAL => j \in pool
    BY <1>i, <1>s, IncsArePositive DEF PoolInv, NoOrphan
  <1>h. opc' # "scan" => HitInv' BY <1>1, <1>i DEF HitInv, HitStaysUsable
  <1>p. /\ \A j \in pool : j \in Incs /\ Registered(j)' /\ AllFree(j)' /\ j # PRIMORDIAL
        /\ \A j \in Incs : ~ Registered(j)' => AllFree(j)'
    BY <1>r, <1>b, PooledAreEmpty DEF IInv, PoolInv
  <1>g. Registered(cur)' /\ cur' \in Incs
    BY <1>1, <1>k, <1>s DEF Registered, Shape
  <1>2. CASE live[cur] = 0 /\ cur # PRIMORDIAL
    <2>1. PoolOrRelease(cur, "idle") BY <1>2, <1>c DEF NewSegment
    <2>2. AllFree(cur) BY <1>2, <1>c, <1>s, EmptyIsAllFree
    <2>3. CASE pool' = pool \cup {cur} /\ opc' = "idle" /\ dk' = None
      <3>1. OwnerInv' BY <2>3, <1>1, <1>i DEF OwnerInv
      <3>2. PoolInv' BY <2>3, <2>2, <1>2, <1>1, <1>r, <1>b, <1>c, <1>n, <1>p, <1>g DEF PoolInv, NoOrphan
      <3> QED BY <3>1, <3>2, <2>3, <1>h DEF Owned
    <2>4. CASE pool' = pool /\ opc' = "unlink" /\ dk' = cur
      <3>1. OwnerInv'
        BY <2>4, <2>2, <1>2, <1>1, <1>i, <1>r, <1>b, <1>c, IncsArePositive DEF OwnerInv
      <3>2. PoolInv' BY <2>4, <1>2, <1>1, <1>r, <1>b, <1>c, <1>n, <1>p, <1>g DEF PoolInv, NoOrphan
      <3> QED BY <3>1, <3>2, <2>4, <1>h DEF Owned
    <2> QED BY <2>1, <2>3, <2>4 DEF PoolOrRelease
  <1>3. CASE ~ (live[cur] = 0 /\ cur # PRIMORDIAL)
    <2>1. UNCHANGED <<pool, opc, dk>> BY <1>3 DEF NewSegment
    <2>2. OwnerInv' BY <2>1, <1>1, <1>i DEF OwnerInv
    <2>3. PoolInv' BY <2>1, <1>3, <1>1, <1>r, <1>c, <1>n, <1>p, <1>g DEF PoolInv, NoOrphan
    <2> QED BY <2>1, <2>2, <2>3, <1>1, <1>h DEF Owned
  <1> QED BY <1>2, <1>3

LEMMA OwnedByOwner ==
  ASSUME IInv, Shape', LiveInv', TableInv', OwnerNext
  PROVE  Owned'
  <1> USE DEF entryVars
  <1>s. Shape /\ OwnerInv /\ PoolInv /\ HitInv BY DEF IInv
  <1>1. ASSUME NEW k \in Incs, NEW b \in Blocks, Alloc(k, b) PROVE Owned'
    <2>1. opc = "idle" /\ Registered(k) /\ FreeBlock(k, b) /\ pool' = pool \ {k}
          /\ UNCHANGED <<next, base, slot, linked, table, cur, opc, owords, obits, dk, darm, hit>>
      BY <1>1 DEF Alloc, ownVars
    <2>2. Handed(k, b) BY <1>1, AllocHands DEF Alloc
    <2> QED BY <2>1, <2>2, IdleOwner, HandedOutKeeps
  <1>2. ASSUME NEW k \in Incs, NEW b \in Blocks, OwnFree(k, b) PROVE Owned'
    <2>1. /\ opc = "idle" /\ blk[k][b] = "live"
          /\ UNCHANGED <<next, base, slot, linked, table, cur, owords, obits, darm, dgot, hit>>
          /\ IF Empty(k, live[k] - 1)
               THEN PoolOrRelease(k, "idle") ELSE UNCHANGED <<pool, opc, dk>>
      BY <1>2 DEF OwnFree
    <2>2. Freed(k, {b}) /\ live'[k] = live[k] - 1 BY <1>2, OwnFreeFrees
    <2>3. Registered(k) BY <2>1, BusyIsLinked
    <2>4. {b} # {} OBVIOUS
    <2> QED BY <2>1, <2>2, <2>3, <2>4, FreedWhenIdle
  <1>3. ASSUME NEW k \in Incs, NEW w \in SideWords, BoundedCut(k, w) PROVE Owned'
    <2>1. /\ opc = "idle" /\ Registered(k) /\ Reclaim(k, w)
          /\ UNCHANGED <<next, base, slot, linked, table, cur, owords, obits, darm, dgot, hit>>
          /\ IF Cut(k, w) # {} /\ Empty(k, live'[k])
               THEN PoolOrRelease(k, "idle") ELSE UNCHANGED <<pool, opc, dk>>
      BY <1>3 DEF BoundedCut
    <2> QED BY <2>1, ReclaimFrees, FreedWhenIdle
  <1>4. CASE TakeNext
    <2>1. opc = "bits" /\ obits = {} /\ dk = None /\ ~ darm
          /\ UNCHANGED <<next, base, slot, linked, table, cur, owords, obits, dk, darm, dgot>>
      BY <1>4, <1>s DEF TakeNext, OwnerInv
    <2>2. CASE /\ UNCHANGED <<hit, pool, blk, live>>
               /\ opc' = "take" \/ (opc' = "idle" /\ owords = {} /\ hit = None)
      <3>1. /\ \A j \in Incs : Registered(j)' <=> Registered(j)
            /\ \A j \in Incs : AllFree(j)' <=> AllFree(j)
            /\ \A j \in Incs : (\E b \in Blocks : FreeBlock(j, b))'
                                 <=> \E b \in Blocks : FreeBlock(j, b)
        BY <2>1, <2>2 DEF Registered, AllFree, FreeBlock
      <3>2. OwnerInv' BY <2>1, <2>2 DEF OwnerInv
      <3>3. HitInv' BY <2>1, <2>2, <3>1, <1>s DEF HitInv, HitStaysUsable, Shape
      <3>4. PoolInv' BY <2>1, <2>2, <3>1, <1>s DEF PoolInv, NoOrphan, Shape
      <3> QED BY <3>2, <3>3, <3>4 DEF Owned
    <2>3. ASSUME NEW b \in Blocks, owords = {}, hit # None, FreeBlock(hit, b),
                 blk' = [blk EXCEPT ![hit][b] = "live"], live' = Set(live, hit, live[hit] + 1),
                 pool' = pool \ {hit}, hit' = None, opc' = "idle"
          PROVE  Owned'
      <3>1. hit \in Incs /\ Registered(hit)
        BY <2>3, <1>s DEF Shape, HitInv, HitStaysUsable
      <3>2. Handed(hit, b) BY <2>3, <3>1, AllocHands
      <3> QED BY <2>1, <2>3, <3>1, <3>2, HandedOutKeeps
    <2> QED BY <1>4, <2>2, <2>3 DEF TakeNext
  <1>5. ASSUME NEW a \in Bases, NEW s \in Slots, NewSegment(a, s) PROVE Owned'
    BY <1>5, OwnedByNewSegment
  <1> QED BY <1>1, <1>2, <1>3, <1>4, <1>5, OwnedByMaskSteps, OwnedByDrain, OwnedByRelease,
             OwnedByTrim DEF OwnerNext, OwnerStep

-----------------------------------------------------------------------------
(* What a step of the owner leaves to the producers.                       *)
OwnerLeaves ==
    /\ UNCHANGED prodVars /\ next <= next'
    /\ \A k \in Incs : k <= next => base'[k] = base[k] /\ slot'[k] = slot[k]
    /\ \A k \in Incs, b \in Blocks :
         blk'[k][b] \in {"freeing", "pending"} \/ blk[k][b] = "freeing"
           => blk'[k][b] = blk[k][b]

LEMMA OwnerLeavesProducers ==
  ASSUME IInv, OwnerNext
  PROVE  OwnerLeaves
  <1> USE DEF entryVars, heapVars, Set
  <1>s. Shape /\ next \in Nat BY SMTT(30) DEF IInv, Shape, Incs
  <1>q. ASSUME UNCHANGED <<prodVars, next, base, slot, blk>> PROVE OwnerLeaves
    BY <1>q, <1>s DEF OwnerLeaves
  <1>r. ASSUME NEW k \in Incs, NEW w, Reclaim(k, w), UNCHANGED <<prodVars, next, base, slot>>
        PROVE  OwnerLeaves
    BY <1>r, <1>s DEF OwnerLeaves, Reclaim, Cut, Shape
  <1>1. CASE TakeNext
    <2>1. CASE UNCHANGED blk BY <1>1, <2>1, <1>q DEF TakeNext
    <2>2. ASSUME NEW b \in Blocks, hit # None, FreeBlock(hit, b),
                 blk' = [blk EXCEPT ![hit][b] = "live"]
          PROVE  OwnerLeaves
      <3>1. hit \in Incs /\ blk[hit][b] = "free" BY <1>s, <2>2 DEF Shape, FreeBlock
      <3> QED BY <1>1, <1>s, <2>2, <3>1 DEF TakeNext, OwnerLeaves, Shape
    <2> QED BY <1>1, <2>1, <2>2 DEF TakeNext
  <1>2. CASE FinishDrain BY <1>2, <1>q DEF FinishDrain
  <1>3. ASSUME NEW w \in owords, TakeMask(w) PROVE OwnerLeaves BY <1>3, <1>q DEF TakeMask
  <1>4. ASSUME NEW s \in obits, SkipSlot(s) \/ ArmSlot(s) PROVE OwnerLeaves
    BY <1>4, <1>q DEF SkipSlot, ArmSlot
  <1>5. ASSUME NEW w \in dwords, ScanWord(w) PROVE OwnerLeaves
    <2>1. dk \in Incs BY <1>5 DEF ScanWord, IInv, OwnerInv
    <2> QED BY <1>5, <2>1, <1>r DEF ScanWord
  <1>6. CASE TakeSummary \/ TrimCurrent BY <1>6, <1>q DEF TakeSummary, TrimCurrent
  <1>7. ASSUME NEW k \in Incs, NEW b \in Blocks, Alloc(k, b) PROVE OwnerLeaves
    BY <1>7, <1>s DEF Alloc, FreeBlock, OwnerLeaves, Shape
  <1>8. ASSUME NEW k \in Incs, NEW b \in Blocks, OwnFree(k, b) PROVE OwnerLeaves
    BY <1>8, <1>s DEF OwnFree, OwnerLeaves, Shape
  <1>9. ASSUME NEW k \in Incs, Decay(k) \/ DrainSegment(k) PROVE OwnerLeaves
    BY <1>9, <1>q DEF Decay, DrainSegment
  <1>10. ASSUME NEW k \in Incs, NEW w \in SideWords, BoundedCut(k, w) PROVE OwnerLeaves
    BY <1>10, <1>r DEF BoundedCut
  <1>11. ASSUME NEW a \in Bases, NEW s \in Slots, NewSegment(a, s) PROVE OwnerLeaves
    <2>1. next' = next + 1 /\ blk' = blk /\ UNCHANGED prodVars
          /\ base' = [base EXCEPT ![next + 1] = a] /\ slot' = [slot EXCEPT ![next + 1] = s]
      BY <1>11 DEF NewSegment
    <2>2. \A k \in Incs : k <= next => k # next + 1 BY <1>s DEF Incs
    <2> QED BY <1>s, <2>1, <2>2 DEF OwnerLeaves, Shape
  <1>12. CASE Unlink \/ Unref BY <1>12, <1>q DEF Unlink, Unref
  <1> QED BY <1>1, <1>2, <1>3, <1>4, <1>5, <1>6, <1>7, <1>8, <1>9, <1>10, <1>11, <1>12
          DEF OwnerNext, OwnerStep

LEMMA HandsByOwner ==
  ASSUME IInv, OwnerLeaves, Shape'
  PROVE  HandInv'
  <1> USE DEF prodVars
  <1>s. Shape /\ HandInv /\ next \in Nat /\ next' \in Nat
    <2>1. next \in Incs /\ next' \in Incs BY DEF IInv, Shape
    <2> QED BY <2>1, IncsArePositive DEF IInv
  <1>1. UNCHANGED <<pc, obj, pin, cached>> BY DEF OwnerLeaves
  <1>2. \A p \in Producers :
          /\ pc[p] \in {"idle", "cached", "lookup"} => pin[p] = None
          /\ pc[p] \notin {"idle", "cached", "lookup"} => pin[p] \in Incs
          /\ pin[p] <= next' /\ cached[p] <= next'
    <2> TAKE p \in Producers
    <2>1. pin[p] \in Nat /\ cached[p] \in Nat BY <1>s DEF Shape, Incs, None
    <2>2. pin[p] <= next /\ cached[p] <= next /\ next <= next'
      BY <1>s DEF HandInv, OwnerLeaves
    <2> QED BY <1>s, <2>1, <2>2 DEF HandInv
  <1>3. ASSUME NEW p \in Producers
        PROVE  /\ pc[p] # "idle" => obj[p] \in Incs \X Blocks
               /\ Freeing(p) => blk'[obj[p][1]][obj[p][2]] = "freeing"
               /\ pc[p] = "publish" => pin[p] = obj[p][1]
               /\ pc[p] = "lookup" => cached[p] = None \/ base'[cached[p]] # base'[obj[p][1]]
    <2>1. Freeing(p) => /\ obj[p][1] \in Incs /\ obj[p][2] \in Blocks /\ obj[p][1] <= next
                        /\ blk[obj[p][1]][obj[p][2]] = "freeing"
      BY <1>s, FreeingIsLinked DEF HandInv
    <2>2. cached[p] \in Incs \cup {None} /\ cached[p] <= next BY <1>s DEF Shape, HandInv
    <2>3. Freeing(p) => base'[obj[p][1]] = base[obj[p][1]]
                          /\ blk'[obj[p][1]][obj[p][2]] = "freeing"
      BY <2>1 DEF OwnerLeaves
    <2>4. cached[p] # None => base'[cached[p]] = base[cached[p]]
      BY <2>2 DEF OwnerLeaves
    <2> QED BY <1>s, <2>3, <2>4 DEF HandInv, Freeing
  <1> QED BY <1>1, <1>2, <1>3, <1>s DEF HandInv, Freeing

(* A step of one producer leaves the others' hands alone.                  *)
LEMMA HandsByProducer ==
  ASSUME IInv, Shape', NEW p \in Producers, ProducerNext(p)
  PROVE  HandInv'
  <1> USE DEF Set, Goto, entryVars, heapVars, noteVars, ownVars
  <1>s. Shape /\ HandInv /\ next \in Nat
    <2>1. next \in Incs BY DEF IInv, Shape
    <2> QED BY <2>1, IncsArePositive DEF IInv
  <1>k. UNCHANGED <<next, base>> BY ProducersKeep DEF ProducerKeeps
  <1>f. Freeing(p) => /\ obj[p][1] \in Incs /\ obj[p][2] \in Blocks
                      /\ obj[p] = <<obj[p][1], obj[p][2]>>
                      /\ Registered(obj[p][1]) /\ linked[obj[p][1]] /\ obj[p][1] <= next
    BY <1>s, FreeingIsLinked DEF HandInv, Freeing
  <1>o. \A q \in Producers : Freeing(q) => /\ obj[q][1] \in Incs /\ obj[q][2] \in Blocks
                                           /\ obj[q] = <<obj[q][1], obj[q][2]>>
                                           /\ blk[obj[q][1]][obj[q][2]] = "freeing"
    BY <1>s DEF HandInv, Freeing
  <1>p. \A q \in Producers : /\ pin[q] \in Incs \cup {None} /\ cached[q] \in Incs \cup {None}
                             /\ pin[q] <= next /\ cached[q] <= next
    BY <1>s DEF Shape, HandInv
  <1>z. None <= next BY <1>s DEF None
  <1>u. ASSUME UNCHANGED blk,
               \A q \in Producers \ {p} : /\ pc'[q] = pc[q] /\ obj'[q] = obj[q]
                                          /\ pin'[q] = pin[q] /\ cached'[q] = cached[q],
               pc'[p] \in {"idle", "cached", "lookup"} => pin'[p] = None,
               pc'[p] \notin {"idle", "cached", "lookup"} => pin'[p] \in Incs,
               pin'[p] <= next /\ cached'[p] <= next,
               pc'[p] # "idle" => obj'[p] \in Incs \X Blocks,
               pc'[p] \in {"cached", "lookup", "publish"} => Freeing(p) /\ obj'[p] = obj[p],
               pc'[p] = "publish" => pin'[p] = obj[p][1],
               pc'[p] = "lookup" => cached'[p] = None \/ base[cached'[p]] # base[obj[p][1]]
        PROVE  HandInv'
    BY <1>u, <1>s, <1>k DEF HandInv, Freeing
  <1>1. ASSUME NEW k \in Incs, NEW b \in Blocks, Free(p, k, b) PROVE HandInv'
    <2>1. /\ pc[p] = "idle" /\ blk[k][b] = "live" /\ blk' = [blk EXCEPT ![k][b] = "freeing"]
          /\ obj' = [obj EXCEPT ![p] = <<k, b>>] /\ pc' = [pc EXCEPT ![p] = "cached"]
          /\ UNCHANGED <<pin, cached>>
      BY <1>1 DEF Free
    <2>2. \A q \in Producers \ {p} : pc'[q] = pc[q] /\ obj'[q] = obj[q]
      BY <2>1, <1>s DEF Shape
    <2>3. pc'[p] = "cached" /\ obj'[p] = <<k, b>> /\ blk'[k][b] = "freeing"
      BY <2>1, <1>s DEF Shape
    <2>4. \A q \in Producers \ {p} : Freeing(q) => obj[q] # <<k, b>>
      BY <2>1, <1>o
    <2>5. \A q \in Producers \ {p} : Freeing(q) => blk'[obj[q][1]][obj[q][2]] = "freeing"
      BY <2>1, <1>o, <1>s DEF Shape
    <2>6. \A q \in Producers :
            /\ pc'[q] \in {"idle", "cached", "lookup"} => pin'[q] = None
            /\ pc'[q] \notin {"idle", "cached", "lookup"} => pin'[q] \in Incs
            /\ pin'[q] <= next' /\ cached'[q] <= next'
      BY <2>1, <2>2, <2>3, <1>s, <1>k DEF HandInv
    <2>7. \A q \in Producers :
            /\ pc'[q] # "idle" => obj'[q] \in Incs \X Blocks
            /\ pc'[q] \in {"cached", "lookup", "publish"} => blk'[obj'[q][1]][obj'[q][2]] = "freeing"
            /\ pc'[q] = "publish" => pin'[q] = obj'[q][1]
            /\ pc'[q] = "lookup" => cached'[q] = None \/ base'[cached'[q]] # base'[obj'[q][1]]
      <3> TAKE q \in Producers
      <3>1. CASE q = p BY <2>3, <3>1
      <3>2. CASE q # p BY <2>1, <2>2, <2>5, <3>2, <1>s, <1>k DEF HandInv, Freeing
      <3> QED BY <3>1, <3>2
    <2>8. \A q, r \in Producers :
            (/\ pc'[q] \in {"cached", "lookup", "publish"}
             /\ pc'[r] \in {"cached", "lookup", "publish"}
             /\ obj'[q] = obj'[r]) => q = r
      <3> SUFFICES ASSUME NEW q \in Producers, NEW r \in Producers,
                          pc'[q] \in {"cached", "lookup", "publish"},
                          pc'[r] \in {"cached", "lookup", "publish"}, obj'[q] = obj'[r], q # r
                   PROVE  FALSE
        OBVIOUS
      <3>1. CASE q = p BY <2>2, <2>3, <2>4, <3>1 DEF Freeing
      <3>2. CASE r = p BY <2>2, <2>3, <2>4, <3>2 DEF Freeing
      <3>3. CASE q # p /\ r # p BY <2>2, <3>3, <1>s DEF HandInv, Freeing
      <3> QED BY <3>1, <3>2, <3>3
    <2> QED BY <2>6, <2>7, <2>8 DEF HandInv, Freeing
  <1>2. CASE Cached(p)
    <2>1. pc[p] = "cached" /\ Freeing(p) /\ pin[p] = None /\ obj[p] \in Incs \X Blocks
      BY <1>2, <1>s DEF Cached, HandInv, Freeing
    <2>2. \A q \in Producers \ {p} : /\ pc'[q] = pc[q] /\ obj'[q] = obj[q]
                                     /\ pin'[q] = pin[q] /\ cached'[q] = cached[q]
      BY <1>2, <1>s DEF Cached, Shape
    <2>3. CASE /\ cached[p] # None /\ linked[cached[p]] /\ base[cached[p]] = base[obj[p][1]]
               /\ pin' = [pin EXCEPT ![p] = cached[p]] /\ pc' = [pc EXCEPT ![p] = "publish"]
               /\ cached' = cached
      <3>1. cached[p] \in Incs BY <2>3, <1>p
      <3>2. cached[p] = obj[p][1]
        BY <2>1, <2>3, <3>1, <1>f DEF IInv, TableInv
      <3>3. pin'[p] = cached[p] /\ pc'[p] = "publish" BY <2>3, <1>s DEF Shape
      <3> QED BY <1>2, <1>p, <2>1, <2>2, <2>3, <3>1, <3>2, <3>3, <1>u DEF Cached
    <2>4. CASE /\ cached[p] # None /\ linked[cached[p]] /\ base[cached[p]] # base[obj[p][1]]
               /\ pc' = [pc EXCEPT ![p] = "lookup"] /\ UNCHANGED <<pin, cached>>
      <3>1. pc'[p] = "lookup" BY <2>4, <1>s DEF Shape
      <3> QED BY <1>2, <1>p, <1>z, <2>1, <2>2, <2>4, <3>1, <1>u DEF Cached
    <2>5. CASE /\ cached' = [cached EXCEPT ![p] = None]
               /\ pc' = [pc EXCEPT ![p] = "lookup"] /\ UNCHANGED pin
      <3>1. pc'[p] = "lookup" /\ cached'[p] = None BY <2>5, <1>s DEF Shape
      <3> QED BY <1>2, <1>p, <1>z, <2>1, <2>2, <2>5, <3>1, <1>u DEF Cached
    <2> QED BY <1>2, <2>3, <2>4, <2>5 DEF Cached
  <1>3. CASE Lookup(p)
    <2>1. pc[p] = "lookup" /\ Freeing(p) /\ pin[p] = None /\ obj[p] \in Incs \X Blocks
      BY <1>3, <1>s DEF Lookup, HandInv, Freeing
    <2>2. PICK k \in Incs : /\ linked[k] /\ base[k] = base[obj[p][1]]
                            /\ pin' = [pin EXCEPT ![p] = k] /\ pc' = [pc EXCEPT ![p] = "publish"]
                            /\ UNCHANGED <<obj, cached, blk>>
      BY <1>3, <2>1, <1>f DEF Lookup
    <2>3. k = obj[p][1] BY <2>1, <2>2, <1>f DEF IInv, TableInv
    <2>4. \A q \in Producers \ {p} : /\ pc'[q] = pc[q] /\ obj'[q] = obj[q]
                                     /\ pin'[q] = pin[q] /\ cached'[q] = cached[q]
      BY <2>2, <1>s DEF Shape
    <2>5. pin'[p] = k /\ pc'[p] = "publish" BY <2>2, <1>s DEF Shape
    <2> QED BY <1>f, <1>p, <2>1, <2>2, <2>3, <2>4, <2>5, <1>u
  <1>4. CASE Publish(p)
    <2>1. /\ pc[p] = "publish" /\ Freeing(p) /\ pin[p] = obj[p][1]
          /\ blk' = [blk EXCEPT ![obj[p][1]][obj[p][2]] = "pending"]
          /\ pc' = [pc EXCEPT ![p] = "load"] /\ UNCHANGED <<obj, pin, cached>>
      BY <1>4, <1>s DEF Publish, HandInv, Freeing
    <2>2. \A q \in Producers \ {p} : pc'[q] = pc[q] BY <2>1, <1>s DEF Shape
    <2>3. pc'[p] = "load" BY <2>1, <1>s DEF Shape
    <2>4. \A q \in Producers \ {p} : Freeing(q) => obj[q] # obj[p]
      BY <2>1, <1>s DEF HandInv
    <2>5. \A q \in Producers \ {p} : Freeing(q) => blk'[obj[q][1]][obj[q][2]] = "freeing"
      <3> TAKE q \in Producers \ {p}
      <3> HAVE Freeing(q)
      <3>1. obj[q][1] # obj[p][1] \/ obj[q][2] # obj[p][2] BY <2>1, <2>4, <1>o, <1>f
      <3> QED BY <2>1, <3>1, <1>o, <1>f, <1>s DEF Shape
    <2>6. \A q \in Producers :
            /\ pc'[q] \in {"idle", "cached", "lookup"} => pin'[q] = None
            /\ pc'[q] \notin {"idle", "cached", "lookup"} => pin'[q] \in Incs
            /\ pin'[q] <= next' /\ cached'[q] <= next'
      BY <2>1, <2>2, <2>3, <1>s, <1>k DEF HandInv
    <2>7. \A q \in Producers :
            /\ pc'[q] # "idle" => obj'[q] \in Incs \X Blocks
            /\ pc'[q] \in {"cached", "lookup", "publish"} => blk'[obj'[q][1]][obj'[q][2]] = "freeing"
            /\ pc'[q] = "publish" => pin'[q] = obj'[q][1]
            /\ pc'[q] = "lookup" => cached'[q] = None \/ base'[cached'[q]] # base'[obj'[q][1]]
      BY <2>1, <2>2, <2>3, <2>5, <1>s, <1>k DEF HandInv, Freeing
    <2>8. \A q, r \in Producers :
            (/\ pc'[q] \in {"cached", "lookup", "publish"}
             /\ pc'[r] \in {"cached", "lookup", "publish"}
             /\ obj'[q] = obj'[r]) => q = r
      <3> SUFFICES ASSUME NEW q \in Producers, NEW r \in Producers,
                          pc'[q] \in {"cached", "lookup", "publish"},
                          pc'[r] \in {"cached", "lookup", "publish"}, obj'[q] = obj'[r]
                   PROVE  q = r
        OBVIOUS
      <3>1. q # p /\ r # p BY <2>3
      <3> QED BY <2>1, <2>2, <3>1, <1>s DEF HandInv, Freeing
    <2> QED BY <2>6, <2>7, <2>8 DEF HandInv, Freeing
  <1>5. CASE AfterPublish(p) \/ NotifyCas(p) \/ NotifyMask(p) \/ NotifySummary(p)
    <2>1. /\ pc[p] \notin {"idle", "cached", "lookup", "publish"} /\ blk' = blk
          /\ UNCHANGED <<obj, pin, cached>>
      BY <1>5 DEF AfterPublish, NotifyCas, NotifyMask, NotifySummary
    <2>2. /\ \A q \in Producers \ {p} : pc'[q] = pc[q]
          /\ pc'[p] \in {"finish", "cas", "mask", "summary"}
      BY <1>5, <1>s DEF AfterPublish, NotifyCas, NotifyMask, NotifySummary, Shape
    <2>3. obj[p] \in Incs \X Blocks /\ pin[p] \in Incs BY <2>1, <1>s DEF HandInv
    <2> QED BY <1>p, <2>1, <2>2, <2>3, <1>u
  <1>6. CASE CacheInsert(p)
    <2>1. /\ \A q \in Producers \ {p} : /\ pc'[q] = pc[q] /\ obj'[q] = obj[q]
                                        /\ pin'[q] = pin[q] /\ cached'[q] = cached[q]
          /\ blk' = blk /\ pc'[p] = "idle" /\ pin'[p] = None /\ cached'[p] = pin[p]
      BY <1>6, <1>s DEF CacheInsert, Shape
    <2> QED BY <1>p, <1>z, <2>1, <1>u
  <1>7. CASE ThreadExit(p)
    <2>1. /\ \A q \in Producers \ {p} : /\ pc'[q] = pc[q] /\ obj'[q] = obj[q]
                                        /\ pin'[q] = pin[q] /\ cached'[q] = cached[q]
          /\ blk' = blk /\ pc'[p] = "idle" /\ pin'[p] = pin[p] /\ cached'[p] = None
          /\ pc[p] = "idle"
      BY <1>7, <1>s DEF ThreadExit, Shape
    <2> QED BY <1>p, <1>z, <1>s, <2>1, <1>u DEF HandInv
  <1> QED BY <1>1, <1>2, <1>3, <1>4, <1>5, <1>6, <1>7, ProducerNextCases

-----------------------------------------------------------------------------
(* The reference counts.                                                   *)
LEMMA PinsAreFinite ==
  ASSUME NEW k
  PROVE  /\ IsFiniteSet(CachedBy(k)) /\ IsFiniteSet(PinnedBy(k))
         /\ Cardinality(CachedBy(k)) \in Nat /\ Cardinality(PinnedBy(k)) \in Nat
  <1>1. CachedBy(k) \subseteq Producers /\ PinnedBy(k) \subseteq Producers
    BY DEF CachedBy, PinnedBy
  <1>2. IsFiniteSet(CachedBy(k)) /\ IsFiniteSet(PinnedBy(k))
    BY <1>1, FS_Subset, RemoteFreeAssumption
  <1> QED BY <1>2, FS_CardinalityType

LEMMA OneMore ==
  ASSUME NEW S, IsFiniteSet(S), NEW x, x \notin S
  PROVE  Cardinality(S \cup {x}) = Cardinality(S) + 1
  BY FS_AddElement

LEMMA OneLess ==
  ASSUME NEW S, IsFiniteSet(S), NEW x \in S
  PROVE  Cardinality(S \ {x}) = Cardinality(S) - 1
  BY FS_RemoveElement

(* No pin changes but the count of registered segments may.                *)
LEMMA RefsWithoutPins ==
  ASSUME IInv, UNCHANGED <<pin, cached>>,
         \A k \in Incs : \/ refs'[k] = refs[k] /\ (Registered(k)' <=> Registered(k))
                         \/ refs'[k] = refs[k] - 1 /\ Registered(k) /\ ~ Registered(k)'
                         \/ /\ refs'[k] = 1 /\ Registered(k)'
                            /\ CachedBy(k) = {} /\ PinnedBy(k) = {}
  PROVE  RefInv'
  <1> SUFFICES ASSUME NEW k \in Incs
               PROVE  refs'[k] = Ref(Registered(k)') + Cardinality(CachedBy(k)')
                                   + Cardinality(PinnedBy(k)')
    BY DEF RefInv, Ref
  <1>1. CachedBy(k)' = CachedBy(k) /\ PinnedBy(k)' = PinnedBy(k)
    BY DEF CachedBy, PinnedBy
  <1>2. refs[k] = Ref(Registered(k)) + Cardinality(CachedBy(k)) + Cardinality(PinnedBy(k))
    BY DEF IInv, RefInv
  <1>3. Cardinality(CachedBy(k)) \in Nat /\ Cardinality(PinnedBy(k)) \in Nat
    BY PinsAreFinite
  <1>4. CASE refs'[k] = refs[k] /\ (Registered(k)' <=> Registered(k))
    BY <1>1, <1>2, <1>4 DEF Ref
  <1>5. CASE refs'[k] = refs[k] - 1 /\ Registered(k) /\ ~ Registered(k)'
    BY <1>1, <1>2, <1>3, <1>5 DEF Ref
  <1>6. CASE refs'[k] = 1 /\ Registered(k)' /\ CachedBy(k) = {} /\ PinnedBy(k) = {}
    BY <1>1, <1>6, FS_EmptySet DEF Ref
  <1> QED BY <1>4, <1>5, <1>6

LEMMA RefsByOwner ==
  ASSUME IInv, OwnerNext
  PROVE  RefInv'
  <1> USE DEF Set, prodVars
  <1>s. Shape /\ TableInv /\ OwnerInv /\ HandInv BY DEF IInv
  <1>p. UNCHANGED <<pin, cached>> BY OwnerLeavesProducers DEF OwnerLeaves
  <1>1. CASE Quiet
    <2>1. \A k \in Incs : Registered(k)' <=> Registered(k) BY <1>1 DEF Quiet, Registered
    <2> QED BY <2>1, <1>1, <1>p, RefsWithoutPins DEF Quiet
  <1>2. CASE Unlink
    <2>1. \A k \in Incs : refs'[k] = refs[k] /\ (Registered(k)' <=> Registered(k))
      BY <1>2 DEF Unlink, Registered, heapVars
    <2> QED BY <2>1, <1>p, RefsWithoutPins
  <1>3. CASE Unref
    <2>1. dk \in Incs /\ Registered(dk) /\ table' = [table EXCEPT ![slot[dk]] = None]
          /\ refs' = Unpin({dk})
      BY <1>3, <1>s DEF Unref, OwnerInv
    <2>2. slot[dk] \in Slots /\ table[slot[dk]] = dk BY <1>s, <2>1, InItsSlot DEF Shape
    <2>3. \A s \in Slots : table[s] = dk => s = slot[dk]
      BY <1>s, <2>1, IncsArePositive DEF TableInv
    <2>4. \A k \in Incs : Registered(k)' <=> Registered(k) /\ k # dk
      BY <1>s, <2>1, <2>2, <2>3, IncsArePositive DEF Registered, Shape
    <2>5. \A k \in Incs : refs'[k] = IF k = dk THEN refs[k] - 1 ELSE refs[k]
      BY <2>1 DEF Unpin
    <2> QED BY <2>1, <2>4, <2>5, <1>p, RefsWithoutPins
  <1>4. ASSUME NEW a \in Bases, NEW s \in Slots, NewSegment(a, s) PROVE RefInv'
    <2>1. /\ table[s] = None /\ next < MAX_INCARNATION
          /\ table' = [table EXCEPT ![s] = next + 1] /\ refs' = [refs EXCEPT ![next + 1] = 1]
      BY <1>4 DEF NewSegment
    <2>2. next + 1 \in Incs /\ next + 1 # None /\ next \in Nat
      <3>1. next \in Incs BY <1>s DEF Shape
      <3> QED BY <2>1, <3>1, <1>s, NextIsInc, IncsArePositive
    <2>3. \A k \in Incs : Registered(k)' <=> Registered(k) \/ k = next + 1
      BY <1>s, <2>1, <2>2, IncsArePositive DEF Registered, Shape
    <2>4. CachedBy(next + 1) = {} /\ PinnedBy(next + 1) = {}
      <3>1. ~ (next + 1 <= next) BY <2>2
      <3>2. \A p \in Producers : pin[p] # next + 1 /\ cached[p] # next + 1
        BY <3>1, <1>s DEF HandInv
      <3> QED BY <3>2 DEF CachedBy, PinnedBy
    <2>5. \A k \in Incs : refs'[k] = IF k = next + 1 THEN 1 ELSE refs[k]
      BY <2>1, <2>2, <1>s DEF Shape
    <2> QED BY <2>2, <2>3, <2>4, <2>5, <1>p, RefsWithoutPins
  <1> QED BY <1>1, <1>2, <1>3, <1>4, OwnerCases

(* Both sets of pins after a step of producer p, and the count with them.  *)
LEMMA RefsFollow ==
  ASSUME IInv, NEW k \in Incs, NEW p \in Producers, Registered(k)' <=> Registered(k),
         \/ CachedBy(k)' = CachedBy(k) /\ PinnedBy(k)' = PinnedBy(k) /\ refs'[k] = refs[k]
         \/ /\ p \in CachedBy(k) /\ CachedBy(k)' = CachedBy(k) \ {p}
            /\ PinnedBy(k)' = PinnedBy(k) /\ refs'[k] = refs[k] - 1
         \/ /\ p \notin PinnedBy(k) /\ PinnedBy(k)' = PinnedBy(k) \cup {p}
            /\ CachedBy(k)' = CachedBy(k) /\ refs'[k] = refs[k] + 1
         \/ /\ p \in PinnedBy(k) /\ PinnedBy(k)' = PinnedBy(k) \ {p}
            /\ p \notin CachedBy(k) /\ CachedBy(k)' = CachedBy(k) \cup {p}
            /\ refs'[k] = refs[k]
  PROVE  refs'[k] = Ref(Registered(k)') + Cardinality(CachedBy(k)') + Cardinality(PinnedBy(k)')
  <1>1. refs[k] = Ref(Registered(k)) + Cardinality(CachedBy(k)) + Cardinality(PinnedBy(k))
    BY DEF IInv, RefInv
  <1>2. /\ IsFiniteSet(CachedBy(k)) /\ IsFiniteSet(PinnedBy(k))
        /\ Cardinality(CachedBy(k)) \in Nat /\ Cardinality(PinnedBy(k)) \in Nat
    BY PinsAreFinite
  <1>3. Ref(Registered(k)') = Ref(Registered(k)) /\ Ref(Registered(k)) \in {0, 1} BY DEF Ref
  <1>4. /\ p \in CachedBy(k) => Cardinality(CachedBy(k) \ {p}) = Cardinality(CachedBy(k)) - 1
        /\ p \in PinnedBy(k) => Cardinality(PinnedBy(k) \ {p}) = Cardinality(PinnedBy(k)) - 1
    BY <1>2, OneLess
  <1>5. /\ p \notin CachedBy(k) => Cardinality(CachedBy(k) \cup {p}) = Cardinality(CachedBy(k)) + 1
        /\ p \notin PinnedBy(k) => Cardinality(PinnedBy(k) \cup {p}) = Cardinality(PinnedBy(k)) + 1
    BY <1>2, OneMore
  <1>6. CASE CachedBy(k)' = CachedBy(k) /\ PinnedBy(k)' = PinnedBy(k) /\ refs'[k] = refs[k]
    BY <1>1, <1>3, <1>6
  <1>7. CASE /\ p \in CachedBy(k) /\ CachedBy(k)' = CachedBy(k) \ {p}
             /\ PinnedBy(k)' = PinnedBy(k) /\ refs'[k] = refs[k] - 1
    BY <1>1, <1>2, <1>3, <1>4, <1>7
  <1>8. CASE /\ p \notin PinnedBy(k) /\ PinnedBy(k)' = PinnedBy(k) \cup {p}
             /\ CachedBy(k)' = CachedBy(k) /\ refs'[k] = refs[k] + 1
    BY <1>1, <1>2, <1>3, <1>5, <1>8
  <1>9. CASE /\ p \in PinnedBy(k) /\ PinnedBy(k)' = PinnedBy(k) \ {p}
             /\ p \notin CachedBy(k) /\ CachedBy(k)' = CachedBy(k) \cup {p}
             /\ refs'[k] = refs[k]
    BY <1>1, <1>2, <1>3, <1>4, <1>5, <1>9
  <1> QED BY <1>6, <1>7, <1>8, <1>9

LEMMA RefsByProducer ==
  ASSUME IInv, Shape', NEW p \in Producers, ProducerNext(p)
  PROVE  RefInv'
  <1> USE DEF Set, Goto
  <1>s. Shape /\ HandInv BY DEF IInv
  <1>r. \A k \in Incs : Registered(k)' <=> Registered(k)
    BY ProducersKeep DEF ProducerKeeps, Registered
  <1>n. None \notin Incs BY IncsArePositive
  <1>g. ASSUME \A k \in Incs :
         \/ CachedBy(k)' = CachedBy(k) /\ PinnedBy(k)' = PinnedBy(k) /\ refs'[k] = refs[k]
         \/ /\ p \in CachedBy(k) /\ CachedBy(k)' = CachedBy(k) \ {p}
            /\ PinnedBy(k)' = PinnedBy(k) /\ refs'[k] = refs[k] - 1
         \/ /\ p \notin PinnedBy(k) /\ PinnedBy(k)' = PinnedBy(k) \cup {p}
            /\ CachedBy(k)' = CachedBy(k) /\ refs'[k] = refs[k] + 1
         \/ /\ p \in PinnedBy(k) /\ PinnedBy(k)' = PinnedBy(k) \ {p}
            /\ p \notin CachedBy(k) /\ CachedBy(k)' = CachedBy(k) \cup {p}
            /\ refs'[k] = refs[k]
        PROVE  RefInv'
    <2> SUFFICES ASSUME NEW k \in Incs
                 PROVE  refs'[k] = Ref(Registered(k)') + Cardinality(CachedBy(k)')
                                     + Cardinality(PinnedBy(k)')
      BY DEF RefInv, Ref
    <2> QED BY <1>g, <1>r, RefsFollow
  (* Nothing is pinned or dropped. *)
  <1>q. ASSUME UNCHANGED <<refs, pin, cached>> PROVE RefInv'
    BY <1>q, <1>g DEF CachedBy, PinnedBy
  (* The pin in the cache is dropped while no other is held. *)
  <1>d. ASSUME pin[p] = None, pin' = pin, cached' = [cached EXCEPT ![p] = None],
               refs' = Unpin({cached[p]})
        PROVE  RefInv'
    <2>1. \A q \in Producers \ {p} : cached'[q] = cached[q] BY <1>d, <1>s DEF Shape
    <2>2. cached'[p] = None BY <1>d, <1>s DEF Shape
    <2>3. \A k \in Incs : /\ k # cached[p] => CachedBy(k)' = CachedBy(k)
                          /\ k = cached[p] => p \in CachedBy(k) /\ CachedBy(k)' = CachedBy(k) \ {p}
      BY <2>1, <2>2, <1>n DEF CachedBy
    <2>4. \A k \in Incs : PinnedBy(k)' = PinnedBy(k)
      BY <1>d, <2>1, <1>n DEF PinnedBy
    <2>5. \A k \in Incs : refs'[k] = IF k = cached[p] THEN refs[k] - 1 ELSE refs[k]
      BY <1>d DEF Unpin
    <2> QED BY <2>3, <2>4, <2>5, <1>g
  <1>1. ASSUME NEW k \in Incs, NEW b \in Blocks, Free(p, k, b) PROVE RefInv'
    BY <1>1, <1>q DEF Free, entryVars
  <1>2. CASE Cached(p)
    <2>1. pc[p] = "cached" /\ pin[p] = None BY <1>2, <1>s DEF Cached, HandInv
    <2>2. CASE UNCHANGED <<refs, cached, pin>> BY <2>2, <1>q
    <2>3. CASE refs' = Unpin({cached[p]}) /\ cached' = [cached EXCEPT ![p] = None] /\ pin' = pin
      BY <2>1, <2>3, <1>d
    <2>4. CASE pin' = [pin EXCEPT ![p] = cached[p]] /\ UNCHANGED <<refs, cached>>
      <3>1. pin'[p] = cached[p] /\ \A q \in Producers \ {p} : pin'[q] = pin[q]
        BY <2>4, <1>s DEF Shape
      <3>2. \A k \in Incs : PinnedBy(k)' = PinnedBy(k)
        BY <2>1, <2>4, <3>1, <1>n DEF PinnedBy
      <3> QED BY <2>4, <3>2, <1>g DEF CachedBy
    <2> QED BY <1>2, <2>2, <2>3, <2>4 DEF Cached
  <1>3. CASE Lookup(p)
    <2>1. pc[p] = "lookup" /\ pin[p] = None /\ cached' = cached
          /\ (cached[p] = None \/ base[cached[p]] # base[obj[p][1]])
      BY <1>3, <1>s DEF Lookup, HandInv
    <2>2. CASE UNCHANGED <<refs, pin>> BY <2>1, <2>2, <1>q
    <2>3. ASSUME NEW k \in Incs, base[k] = base[obj[p][1]],
                 refs' = [refs EXCEPT ![k] = refs[k] + 1], pin' = [pin EXCEPT ![p] = k]
          PROVE  RefInv'
      <3>1. cached[p] # k BY <2>1, <2>3, <1>n
      <3>2. pin'[p] = k /\ \A q \in Producers \ {p} : pin'[q] = pin[q]
        BY <2>3, <1>s DEF Shape
      <3>3. \A j \in Incs : /\ j # k => PinnedBy(j)' = PinnedBy(j)
                            /\ j = k => p \notin PinnedBy(j) /\ PinnedBy(j)' = PinnedBy(j) \cup {p}
        BY <2>1, <3>1, <3>2, <1>n DEF PinnedBy
      <3>4. \A j \in Incs : CachedBy(j)' = CachedBy(j) BY <2>1 DEF CachedBy
      <3>5. \A j \in Incs : refs'[j] = IF j = k THEN refs[j] + 1 ELSE refs[j]
        BY <2>3, <1>s DEF Shape
      <3> QED BY <3>3, <3>4, <3>5, <1>g
    <2> QED BY <1>3, <2>2, <2>3 DEF Lookup
  <1>4. CASE Publish(p) BY <1>4, <1>q DEF Publish, entryVars
  <1>5. CASE AfterPublish(p) \/ NotifyCas(p) \/ NotifyMask(p) \/ NotifySummary(p)
    BY <1>5, <1>q DEF AfterPublish, NotifyCas, NotifyMask, NotifySummary, entryVars
  <1>6. CASE CacheInsert(p)
    <2>1. pc[p] = "finish" /\ pin[p] \in Incs BY <1>6, <1>s DEF CacheInsert, HandInv
    <2>2. /\ pin'[p] = None /\ cached'[p] = pin[p]
          /\ \A q \in Producers \ {p} : pin'[q] = pin[q] /\ cached'[q] = cached[q]
      BY <1>6, <1>s DEF CacheInsert, Shape
    <2>3. CASE cached[p] = pin[p]
      <3>1. \A k \in Incs : CachedBy(k)' = CachedBy(k) BY <2>2, <2>3 DEF CachedBy
      <3>2. \A k \in Incs : PinnedBy(k)' = PinnedBy(k) BY <2>2, <2>3, <1>n DEF PinnedBy
      <3> QED BY <1>6, <2>3, <3>1, <3>2, <1>g DEF CacheInsert
    <2>4. CASE cached[p] # pin[p]
      <3>1. \A k \in Incs : /\ k = cached[p] => p \in CachedBy(k) /\ CachedBy(k)' = CachedBy(k) \ {p}
                            /\ k = pin[p] => p \notin CachedBy(k) /\ CachedBy(k)' = CachedBy(k) \cup {p}
                            /\ k \notin {cached[p], pin[p]} => CachedBy(k)' = CachedBy(k)
        BY <2>1, <2>2, <2>4 DEF CachedBy
      <3>2. \A k \in Incs : /\ k # pin[p] => PinnedBy(k)' = PinnedBy(k)
                            /\ k = pin[p] => p \in PinnedBy(k) /\ PinnedBy(k)' = PinnedBy(k) \ {p}
        BY <2>1, <2>2, <2>4, <1>n DEF PinnedBy
      <3>3. \A k \in Incs : refs'[k] = IF k = cached[p] THEN refs[k] - 1 ELSE refs[k]
        BY <1>6, <2>4 DEF CacheInsert, Unpin
      <3> QED BY <2>4, <3>1, <3>2, <3>3, <1>g
    <2> QED BY <2>3, <2>4
  <1>7. CASE ThreadExit(p)
    <2>1. pin[p] = None BY <1>7, <1>s DEF ThreadExit, HandInv
    <2> QED BY <1>7, <2>1, <1>d DEF ThreadExit
  <1> QED BY <1>1, <1>2, <1>3, <1>4, <1>5, <1>6, <1>7, ProducerNextCases

-----------------------------------------------------------------------------
(* The notifications.                                                      *)
ToScan(k, b) == opc = "scan" /\ darm /\ dk = k /\ SideWord(b) \in dwords

(* What a step of the owner may do to notifications on their way.          *)
NotesMove ==
    /\ \A k \in Incs : notified'[k] => notified[k]
    /\ \A k \in Incs : Registered(k)' => Registered(k) \/ k > next
    /\ \A k \in Incs : Registered(k) /\ notified'[k] =>
         /\ slot[k] \in mask =>
              \/ slot[k] \in obits'
              \/ /\ slot[k] \in mask'
                 /\ (MaskWord(slot[k]) \in summary \/ MaskWord(slot[k]) \in owords)
                      => (MaskWord(slot[k]) \in summary' \/ MaskWord(slot[k]) \in owords')
         /\ slot[k] \in obits => slot[k] \in obits'
    /\ \A k \in Incs, b \in Blocks : Registered(k) /\ blk'[k][b] = "pending" =>
         /\ notified[k] => notified'[k] \/ ToScan(k, b)'
         /\ ToScan(k, b) => ToScan(k, b)'

LEMMA NotesByOwner ==
  ASSUME IInv, Shape', OwnerLeaves, NotesMove
  PROVE  NoteInv' /\ SeenInv'
  <1> USE DEF prodVars
  <1>s. Shape /\ NoteInv /\ SeenInv /\ HandInv /\ TableInv BY DEF IInv
  <1>p. UNCHANGED <<pc, pin>> BY DEF OwnerLeaves
  <1>n. next \in Nat /\ next' \in Nat /\ next' >= next
    <2>1. next \in Incs /\ next' \in Incs BY <1>s DEF Shape
    <2> QED BY <2>1, IncsArePositive DEF OwnerLeaves
  <1>l. \A p \in Producers : pin[p] \in Incs => slot'[pin[p]] = slot[pin[p]]
    BY <1>s DEF HandInv, OwnerLeaves
  <1>c. ASSUME NEW k \in Incs, Registered(k), notified'[k], Coming(k)
        PROVE  Coming(k)'
    <2>1. slot'[k] = slot[k] BY <1>c, <1>s, InItsSlot DEF OwnerLeaves
    <2>2. CASE \E p \in Producers : pin[p] = k /\ pc[p] = "mask"
      BY <2>2, <1>p DEF Coming
    <2>3. CASE slot[k] \in obits BY <2>1, <2>3, <1>c DEF Coming, NotesMove
    <2>4. CASE slot[k] \in mask /\ WordNoticed(MaskWord(slot[k]))
      <3>1. CASE slot[k] \in obits' BY <2>1, <3>1 DEF Coming
      <3>2. CASE slot[k] \notin obits'
        <4>1. slot[k] \in mask' BY <3>2, <2>4, <1>c DEF NotesMove
        <4>2. CASE MaskWord(slot[k]) \in summary \/ MaskWord(slot[k]) \in owords
          <5>1. MaskWord(slot[k]) \in summary' \/ MaskWord(slot[k]) \in owords'
            BY <3>2, <4>2, <2>4, <1>c DEF NotesMove
          <5>2. slot'[k] \in mask' /\ WordNoticed(MaskWord(slot[k]))'
            BY <2>1, <4>1, <5>1 DEF WordNoticed, MaskWord
          <5> QED BY <2>1, <5>2 DEF Coming, WordNoticed, MaskWord
        <4>3. ASSUME NEW p \in Producers, pc[p] = "summary", MaskWord(slot[pin[p]]) = MaskWord(slot[k])
              PROVE  Coming(k)'
          <5>1. pin[p] \in Incs BY <4>3, <1>s DEF HandInv
          <5>2. pc'[p] = "summary" /\ slot'[pin'[p]] = slot[pin[p]]
            BY <4>3, <5>1, <1>p, <1>l
          <5>3. MaskWord(slot'[pin'[p]]) = MaskWord(slot'[k]) BY <5>2, <4>3, <2>1 DEF MaskWord
          <5> QED BY <2>1, <4>1, <5>2, <5>3 DEF Coming, WordNoticed, MaskWord
        <4> QED BY <2>4, <4>2, <4>3 DEF WordNoticed
      <3> QED BY <3>1, <3>2
    <2> QED BY <1>c, <2>2, <2>3, <2>4 DEF Coming
  <1>1. ASSUME NEW k \in Incs, k > next' PROVE ~ notified'[k]
    <2>1. k > next BY <1>1, <1>n, IncsArePositive
    <2> QED BY <2>1, <1>s DEF NoteInv, NotesMove
  <1>2. ASSUME NEW k \in Incs, Registered(k)', notified'[k] PROVE Coming(k)'
    <2>1. notified[k] /\ (Registered(k) \/ k > next) BY <1>2 DEF NotesMove
    <2>2. Registered(k) /\ Coming(k) BY <2>1, <1>s DEF NoteInv
    <2> QED BY <1>2, <2>2, <1>c
  <1>3. ASSUME NEW k \in Incs, NEW b \in Blocks, Registered(k)', blk'[k][b] = "pending"
        PROVE  Seen(k, b)'
    <2>1. blk[k][b] = "pending" BY <1>3 DEF OwnerLeaves
    <2>2. Registered(k) /\ Seen(k, b) BY <2>1, <1>s, BusyIsLinked DEF SeenInv
    <2>3. CASE \E p \in Producers : pin[p] = k /\ pc[p] \in {"load", "cas"}
      BY <2>3, <1>p DEF Seen
    <2>4. CASE notified[k] \/ ToScan(k, b)
      BY <1>3, <2>2, <2>4 DEF NotesMove, Seen, ToScan
    <2> QED BY <2>2, <2>3, <2>4 DEF Seen, ToScan
  <1> QED BY <1>1, <1>2, <1>3 DEF NoteInv, SeenInv

LEMMA OwnerMovesNotes ==
  ASSUME IInv, OwnerNext
  PROVE  NotesMove
  <1> USE DEF Set, entryVars, heapVars, noteVars
  <1>s. Shape /\ TableInv /\ OwnerInv BY DEF IInv
  <1>r. ASSUME UNCHANGED table PROVE \A k \in Incs : Registered(k)' => Registered(k)
    BY <1>r DEF Registered
  <1>q. ASSUME UNCHANGED <<notified, mask, summary, owords, obits>>,
               \A k \in Incs : Registered(k)' => Registered(k) \/ k > next,
               \/ UNCHANGED <<opc, dk, darm, dwords>>
               \/ opc # "scan"
               \/ dwords = {}
        PROVE  NotesMove
    BY <1>q DEF NotesMove, ToScan
  <1>f. ASSUME NEW k \in Incs, NEW w \in SideWords, Reclaim(k, w)
        PROVE  \A b \in Blocks : blk'[k][b] = "pending" => SideWord(b) # w
    BY <1>f, <1>s DEF Reclaim, Cut, Shape
  <1>1. CASE TakeNext
    <2>1. opc = "bits" /\ UNCHANGED <<notified, mask, summary, owords, obits, table>>
      BY <1>1 DEF TakeNext
    <2> QED BY <2>1, <1>r, <1>q
  <1>2. CASE FinishDrain
    <2>1. dwords = {} /\ UNCHANGED <<notified, mask, summary, owords, obits, table>>
      BY <1>2 DEF FinishDrain
    <2> QED BY <2>1, <1>r, <1>q
  <1>3. ASSUME NEW w \in owords, TakeMask(w) PROVE NotesMove
    <2>1. /\ opc = "take" /\ owords' = owords \ {w} /\ obits' = {s \in mask : MaskWord(s) = w}
          /\ mask' = {s \in mask : MaskWord(s) # w} /\ obits = {}
          /\ UNCHANGED <<notified, summary, table>>
      BY <1>3, <1>s DEF TakeMask, OwnerInv
    <2> QED BY <2>1, <1>r DEF NotesMove, ToScan
  <1>4. ASSUME NEW s \in obits, SkipSlot(s) PROVE NotesMove
    <2>1. /\ opc = "bits" /\ obits' = obits \ {s} /\ table[s] = None
          /\ UNCHANGED <<notified, mask, summary, owords, table>>
      BY <1>4 DEF SkipSlot
    <2>2. \A k \in Incs : Registered(k) => slot[k] # s
      BY <2>1, <1>s, InItsSlot, IncsArePositive
    <2> QED BY <2>1, <2>2, <1>r DEF NotesMove, ToScan
  <1>5. ASSUME NEW s \in obits, ArmSlot(s) PROVE NotesMove
    <2>1. /\ opc = "bits" /\ obits' = obits \ {s} /\ table[s] # None
          /\ notified' = [notified EXCEPT ![table[s]] = FALSE]
          /\ dk' = table[s] /\ dwords' = SideWords /\ darm' = TRUE /\ opc' = "scan"
          /\ UNCHANGED <<mask, summary, owords, table, blk>>
      BY <1>5 DEF ArmSlot
    <2>2. table[s] \in Incs /\ \A k \in Incs : Registered(k) /\ slot[k] = s => k = table[s]
      BY <2>1, <1>s, InItsSlot DEF Shape
    <2>3. \A k \in Incs : notified'[k] => notified[k] /\ k # table[s]
      BY <2>1, <2>2, <1>s DEF Shape
    <2>4. \A k \in Incs : k # table[s] => notified'[k] = notified[k]
      BY <2>1, <2>2, <1>s DEF Shape
    <2>5. \A k \in Incs, b \in Blocks : k = table[s] => ToScan(k, b)'
      BY <2>1 DEF ToScan, SideWords
    <2>6. \A k \in Incs, b \in Blocks : ~ ToScan(k, b) BY <2>1 DEF ToScan
    <2>7. \A k \in Incs, b \in Blocks : notified[k] => notified'[k] \/ ToScan(k, b)'
      BY <2>4, <2>5
    <2>8. \A k \in Incs : Registered(k) /\ notified'[k] => slot[k] # s
      BY <2>2, <2>3
    <2> QED BY <2>1, <2>3, <2>6, <2>7, <2>8, <1>r DEF NotesMove
  <1>6. ASSUME NEW w \in dwords, ScanWord(w) PROVE NotesMove
    <2>1. /\ Reclaim(dk, w) /\ dwords' = dwords \ {w} /\ dk \in Incs /\ w \in SideWords
          /\ UNCHANGED <<notified, mask, summary, owords, obits, table, opc, dk, darm>>
      BY <1>6, <1>s DEF ScanWord, OwnerInv, Shape
    <2>2. \A b \in Blocks : blk'[dk][b] = "pending" => SideWord(b) # w
      BY <2>1, <1>f
    <2>3. \A k \in Incs, b \in Blocks : blk'[k][b] = "pending" /\ ToScan(k, b) => ToScan(k, b)'
      BY <2>1, <2>2 DEF ToScan
    <2> QED BY <2>1, <2>3, <1>r DEF NotesMove
  <1>7. CASE TakeSummary
    <2>1. /\ opc = "idle" /\ owords' = summary /\ summary' = {} /\ owords = {}
          /\ UNCHANGED <<notified, mask, obits, table>>
      BY <1>7, <1>s DEF TakeSummary, OwnerInv
    <2> QED BY <2>1, <1>r DEF NotesMove, ToScan
  <1>8. CASE TrimCurrent
    BY <1>8, <1>r, <1>q DEF TrimCurrent
  <1>9. ASSUME NEW k \in Incs, NEW b \in Blocks, Alloc(k, b) \/ OwnFree(k, b) PROVE NotesMove
    <2>1. opc = "idle" /\ UNCHANGED <<notified, mask, summary, owords, obits, table>>
      BY <1>9 DEF Alloc, OwnFree, ownVars
    <2> QED BY <2>1, <1>r, <1>q
  <1>10. ASSUME NEW k \in Incs, Decay(k) \/ DrainSegment(k) PROVE NotesMove
    BY <1>10, <1>r, <1>q DEF Decay, DrainSegment
  <1>11. ASSUME NEW k \in Incs, NEW w \in SideWords, BoundedCut(k, w) PROVE NotesMove
    BY <1>11, <1>r, <1>q DEF BoundedCut
  <1>12. ASSUME NEW a \in Bases, NEW s \in Slots, NewSegment(a, s) PROVE NotesMove
    <2>1. /\ opc = "idle" /\ table' = [table EXCEPT ![s] = next + 1]
          /\ UNCHANGED <<notified, mask, summary, owords, obits>>
      BY <1>12 DEF NewSegment
    <2>2. next \in Incs BY <1>s DEF Shape
    <2>3. \A k \in Incs : Registered(k)' => Registered(k) \/ k = next + 1
      BY <1>s, <2>1 DEF Registered, Shape
    <2>4. next + 1 > next BY <2>2, IncsArePositive
    <2> QED BY <2>1, <2>3, <2>4, <1>q
  <1>13. CASE Unlink \/ Unref
    <2>1. opc # "scan" /\ UNCHANGED <<notified, mask, summary, owords, obits>>
      BY <1>13 DEF Unlink, Unref
    <2>2. \A k \in Incs : Registered(k)' => Registered(k)
      BY <1>13, <1>s, IncsArePositive DEF Unlink, Unref, Registered, Shape, OwnerInv
    <2> QED BY <2>1, <2>2, <1>q
  <1> QED BY <1>1, <1>2, <1>3, <1>4, <1>5, <1>6, <1>7, <1>8, <1>9, <1>10, <1>11, <1>12, <1>13
          DEF OwnerNext, OwnerStep

LEMMA NotesByProducer ==
  ASSUME IInv, Shape', NEW p \in Producers, ProducerNext(p)
  PROVE  NoteInv' /\ SeenInv'
  <1> USE DEF Set, Goto, entryVars, heapVars, noteVars
  <1>s. Shape /\ NoteInv /\ SeenInv /\ HandInv BY DEF IInv
  <1>k. /\ UNCHANGED <<next, slot, table, opc, owords, obits, dk, dwords, darm>>
        /\ \A k \in Incs : Registered(k)' <=> Registered(k)
    BY ProducersKeep DEF ProducerKeeps, ownVars, Registered
  <1>l. pc[p] \notin {"idle", "cached", "lookup"} => pin[p] \in Incs /\ pin[p] <= next
    BY <1>s DEF HandInv
  <1>o. \A q \in Producers \ {p} : pc'[q] = pc[q] /\ pin'[q] = pin[q]
    <2>1. CASE \E k \in Incs, b \in Blocks : Free(p, k, b) BY <2>1, <1>s DEF Free, Shape
    <2>2. CASE Cached(p) BY <2>2, <1>s DEF Cached, Shape
    <2>3. CASE Lookup(p) BY <2>3, <1>s DEF Lookup, Shape
    <2>4. CASE Publish(p) \/ AfterPublish(p) BY <2>4, <1>s DEF Publish, AfterPublish, Shape
    <2>5. CASE NotifyCas(p) BY <2>5, <1>s DEF NotifyCas, Shape
    <2>6. CASE NotifyMask(p) \/ NotifySummary(p)
      BY <2>6, <1>s DEF NotifyMask, NotifySummary, Shape
    <2>7. CASE CacheInsert(p) BY <2>7, <1>s DEF CacheInsert, Shape
    <2>8. CASE ThreadExit(p) BY <2>8, <1>s DEF ThreadExit, Shape
    <2> QED BY <2>1, <2>2, <2>3, <2>4, <2>5, <2>6, <2>7, <2>8, ProducerNextCases
  <1>m. mask \subseteq mask' /\ summary \subseteq summary'
    BY ProducerNextCases
       DEF Free, Cached, Lookup, Publish, AfterPublish, NotifyCas, NotifyMask, NotifySummary,
           CacheInsert, ThreadExit
  (* A notification that is not in the hand of this producer is still on   *)
  (* its way.                                                              *)
  <1>c. ASSUME NEW k \in Incs, Coming(k),
               pc[p] = "mask" => pin[p] # k, pc[p] = "summary" => MaskWord(slot[pin[p]]) \in summary'
        PROVE  Coming(k)'
    <2>1. CASE \E q \in Producers \ {p} : pin[q] = k /\ pc[q] = "mask"
      BY <2>1, <1>o DEF Coming
    <2>2. CASE slot[k] \in obits BY <2>2, <1>k DEF Coming
    <2>3. CASE slot[k] \in mask /\ WordNoticed(MaskWord(slot[k]))
      <3>1. slot'[k] \in mask' BY <2>3, <1>m, <1>k
      <3>2. CASE MaskWord(slot[k]) \in summary \/ MaskWord(slot[k]) \in owords
        BY <3>1, <3>2, <1>m, <1>k DEF Coming, WordNoticed, MaskWord
      <3>3. ASSUME NEW q \in Producers, pc[q] = "summary", MaskWord(slot[pin[q]]) = MaskWord(slot[k])
            PROVE  Coming(k)'
        <4>1. CASE q = p BY <3>1, <3>3, <4>1, <1>c, <1>k DEF Coming, WordNoticed, MaskWord
        <4>2. CASE q # p
          <5>1. pc'[q] = "summary" /\ slot'[pin'[q]] = slot[pin[q]] BY <3>3, <4>2, <1>o, <1>k
          <5> QED BY <3>1, <3>3, <5>1, <1>k DEF Coming, WordNoticed, MaskWord
        <4> QED BY <4>1, <4>2
      <3> QED BY <2>3, <3>2, <3>3 DEF WordNoticed
    <2> QED BY <1>c, <2>1, <2>2, <2>3 DEF Coming
  (* A bit that this producer has not just set is still seen. *)
  <1>e. ASSUME NEW k \in Incs, NEW b \in Blocks, Seen(k, b), notified[k] => notified'[k],
               pc[p] \in {"load", "cas"} /\ pin[p] = k
                 => notified'[k] \/ (pin'[p] = k /\ pc'[p] \in {"load", "cas"})
        PROVE  Seen(k, b)'
    <2>1. CASE \E q \in Producers \ {p} : pin[q] = k /\ pc[q] \in {"load", "cas"}
      BY <2>1, <1>o DEF Seen
    <2>2. CASE notified[k] BY <2>2, <1>e DEF Seen
    <2>3. CASE opc = "scan" /\ darm /\ dk = k /\ SideWord(b) \in dwords
      BY <2>3, <1>k DEF Seen
    <2>4. CASE pin[p] = k /\ pc[p] \in {"load", "cas"} BY <2>4, <1>e DEF Seen
    <2> QED BY <1>e, <2>1, <2>2, <2>3, <2>4 DEF Seen
  <1>n. ASSUME notified' = notified, pc[p] \notin {"mask", "summary"} PROVE NoteInv'
    BY <1>n, <1>s, <1>k, <1>c DEF NoteInv
  <1>q. ASSUME blk' = blk, notified' = notified,
               pc[p] \notin {"load", "cas"}
        PROVE  SeenInv'
    BY <1>q, <1>s, <1>k, <1>e DEF SeenInv
  <1>1. ASSUME NEW k \in Incs, NEW b \in Blocks, Free(p, k, b) PROVE NoteInv' /\ SeenInv'
    <2>1. NoteInv' BY <1>1, <1>n DEF Free
    <2>2. \A j \in Incs, c \in Blocks : blk'[j][c] = "pending" => blk[j][c] = "pending"
      BY <1>1, <1>s DEF Free, Shape
    <2>3. pc[p] = "idle" /\ notified' = notified BY <1>1 DEF Free
    <2> QED BY <2>1, <2>2, <2>3, <1>s, <1>k, <1>e DEF SeenInv
  <1>2. CASE Cached(p) \/ Lookup(p) \/ CacheInsert(p) \/ ThreadExit(p)
    <2>1. pc[p] \in {"cached", "lookup", "finish", "idle"} /\ blk' = blk /\ notified' = notified
      BY <1>2 DEF Cached, Lookup, CacheInsert, ThreadExit
    <2> QED BY <2>1, <1>n, <1>q
  <1>3. CASE Publish(p)
    <2>1. /\ pc[p] = "publish" /\ pin[p] = obj[p][1] /\ obj[p][1] \in Incs /\ obj[p][2] \in Blocks
          /\ blk' = [blk EXCEPT ![obj[p][1]][obj[p][2]] = "pending"]
          /\ notified' = notified /\ pin' = pin
      BY <1>3, <1>s, FreeingIsLinked DEF Publish, HandInv, Freeing
    <2>2. NoteInv' BY <2>1, <1>n
    <2>3. pc'[p] = "load" BY <1>3, <1>s DEF Publish, Shape
    <2>4. \A j \in Incs, c \in Blocks : blk'[j][c] = "pending" => blk[j][c] = "pending" \/ j = pin[p]
      BY <2>1, <1>s DEF Shape
    <2>5. \A j \in Incs, c \in Blocks : j = pin[p] => Seen(j, c)'
      BY <2>1, <2>3 DEF Seen
    <2>6. \A j \in Incs, c \in Blocks : Seen(j, c) => Seen(j, c)'
      BY <2>1, <1>e
    <2> QED BY <2>2, <2>4, <2>5, <2>6, <1>s, <1>k DEF SeenInv
  <1>4. CASE AfterPublish(p)
    <2>1. pc[p] = "load" /\ blk' = blk /\ notified' = notified /\ pin' = pin
          /\ (notified[pin[p]] \/ pc'[p] = "cas")
      BY <1>4, <1>s DEF AfterPublish, Shape
    <2>2. \A k \in Incs, b \in Blocks : Seen(k, b) => Seen(k, b)'
      BY <2>1, <1>e
    <2> QED BY <2>1, <2>2, <1>n, <1>s, <1>k DEF SeenInv
  <1>5. CASE NotifyCas(p)
    <2>1. /\ pc[p] = "cas" /\ blk' = blk /\ notified' = [notified EXCEPT ![pin[p]] = TRUE]
          /\ pin' = pin /\ (notified[pin[p]] \/ pc'[p] = "mask")
      BY <1>5, <1>s DEF NotifyCas, Shape
    <2>2. pin[p] \in Incs /\ pin[p] <= next BY <2>1, <1>l
    <2>3. /\ notified'[pin[p]]
          /\ \A k \in Incs \ {pin[p]} : notified'[k] = notified[k]
      BY <2>1, <2>2, <1>s DEF Shape
    <2>4. \A k \in Incs, b \in Blocks : Seen(k, b) => Seen(k, b)'
      BY <2>1, <2>3, <1>e
    <2>5. SeenInv' BY <2>1, <2>4, <1>s, <1>k DEF SeenInv
    <2>6. \A k \in Incs : Registered(k) /\ notified[k] => Coming(k)'
      BY <2>1, <1>c, <1>s DEF NoteInv
    <2>7. pc'[p] = "mask" => Coming(pin[p])' BY <2>1, <2>2 DEF Coming
    <2>8. \A k \in Incs : Registered(k)' /\ notified'[k] => Coming(k)'
      BY <2>1, <2>2, <2>3, <2>6, <2>7, <1>k
    <2>9. \A k \in Incs : k > next => ~ notified'[k]
      <3>1. ASSUME NEW k \in Incs, k > next PROVE ~ notified'[k]
        <4>1. k # pin[p]
          <5>1. next \in Incs BY <1>s DEF Shape
          <5> QED BY <5>1, <2>2, <3>1, IncsArePositive
        <4> QED BY <4>1, <3>1, <2>3, <1>s DEF NoteInv
      <3> QED BY <3>1
    <2> QED BY <2>5, <2>8, <2>9, <1>k DEF NoteInv
  <1>6. CASE NotifyMask(p)
    <2>1. /\ pc[p] = "mask" /\ blk' = blk /\ notified' = notified /\ pin' = pin
          /\ pc'[p] = "summary" /\ slot[pin[p]] \in mask'
      BY <1>6, <1>s DEF NotifyMask, Shape
    <2>2. Coming(pin[p])'
      BY <2>1, <1>k DEF Coming, WordNoticed
    <2>3. \A k \in Incs : Coming(k) => Coming(k)'
      BY <2>1, <2>2, <1>c
    <2> QED BY <2>1, <2>3, <1>q, <1>s, <1>k DEF NoteInv
  <1>7. CASE NotifySummary(p)
    <2>1. /\ pc[p] = "summary" /\ blk' = blk /\ notified' = notified /\ pin' = pin
          /\ MaskWord(slot[pin[p]]) \in summary'
      BY <1>7 DEF NotifySummary
    <2>3. \A k \in Incs : Coming(k) => Coming(k)'
      BY <2>1, <1>c
    <2> QED BY <2>1, <2>3, <1>q, <1>s, <1>k DEF NoteInv
  <1> QED BY <1>1, <1>2, <1>3, <1>4, <1>5, <1>6, <1>7, ProducerNextCases

-----------------------------------------------------------------------------
LEMMA InitHolds == Init => IInv
  <1> SUFFICES ASSUME Init PROVE IInv
    OBVIOUS
  <1> USE DEF Init
  <1>p. PRIMORDIAL \in Incs /\ PRIMORDIAL # None /\ None \notin Incs /\ 0 \in Slots /\ next \in Incs
    BY PrimordialIsInc, IncsArePositive, RemoteFreeAssumption DEF PRIMORDIAL
  <1>1. Shape
    <2>1. base \in [Incs -> Bases] OBVIOUS
    <2>2. slot \in [Incs -> Slots] /\ table \in [Slots -> Incs \cup {None}] BY <1>p
    <2>3. /\ linked \in [Incs -> BOOLEAN] /\ notified \in [Incs -> BOOLEAN]
          /\ refs \in [Incs -> Int] /\ live \in [Incs -> Int]
          /\ blk \in [Incs -> [Blocks -> BlockState]]
      BY DEF BlockState
    <2> QED BY <1>p, <2>1, <2>2, <2>3 DEF Shape
  <1>2. \A k \in Incs : Registered(k) <=> k = PRIMORDIAL
    BY <1>p DEF Registered
  <1>3. \A k \in Incs : AllFree(k) BY DEF AllFree
  <1>4. TableInv
    <2>1. \A s \in Slots : table[s] # None => slot[table[s]] = s /\ table[s] <= next
      BY <1>p DEF PRIMORDIAL
    <2> QED BY <1>p, <1>2, <2>1 DEF TableInv
  <1>5. OwnerInv BY DEF OwnerInv
  <1>6. PoolInv BY <1>p, <1>2, <1>3 DEF PoolInv, NoOrphan
  <1>7. LiveInv
    <2>1. \A k \in Incs : Cardinality(Used(k)) = 0 BY <1>3, UsedIsFinite
    <2> QED BY <2>1 DEF LiveInv
  <1>8. HitInv BY DEF HitInv, HitStaysUsable
  <1>9. HandInv BY DEF HandInv, Freeing, None
  <1>10. RefInv
    <2> SUFFICES ASSUME NEW k \in Incs
                 PROVE  refs[k] = Ref(Registered(k)) + Cardinality(CachedBy(k)) + Cardinality(PinnedBy(k))
      BY DEF RefInv
    <2>1. CachedBy(k) = {} /\ PinnedBy(k) = {} BY <1>p DEF CachedBy, PinnedBy
    <2>2. refs[k] = Ref(Registered(k)) BY <1>2 DEF Ref
    <2> QED BY <2>1, <2>2, FS_EmptySet DEF Ref
  <1>11. NoteInv BY DEF NoteInv
  <1>12. SeenInv BY DEF SeenInv
  <1> QED BY <1>1, <1>4, <1>5, <1>6, <1>7, <1>8, <1>9, <1>10, <1>11, <1>12 DEF IInv

LEMMA StepKeeps == IInv /\ [Next]_vars => IInv'
  <1> SUFFICES ASSUME IInv, [Next]_vars PROVE IInv'
    OBVIOUS
  <1>t. Shape' BY TypesStay
  <1>1. ASSUME NEW p \in Producers, ProducerNext(p) PROVE IInv'
    <2>1. TableInv' /\ OwnerInv' /\ PoolInv' /\ LiveInv' /\ HitInv'
      BY <1>1, ProducersKeep, OwnerPartsStay
    <2>2. HandInv' BY <1>t, <1>1, HandsByProducer
    <2>3. RefInv' BY <1>t, <1>1, RefsByProducer
    <2>4. NoteInv' /\ SeenInv' BY <1>t, <1>1, NotesByProducer
    <2> QED BY <1>t, <2>1, <2>2, <2>3, <2>4 DEF IInv
  <1>2. ASSUME OwnerNext PROVE IInv'
    <2>1. LiveInv' BY <1>2, LiveStays
    <2>2. TableInv' BY <1>t, <1>2, TableStays
    <2>3. OwnerInv' /\ PoolInv' /\ HitInv'
      BY <1>t, <1>2, <2>1, <2>2, OwnedByOwner DEF Owned
    <2>4. OwnerLeaves BY <1>2, OwnerLeavesProducers
    <2>5. HandInv' BY <1>t, <2>4, HandsByOwner
    <2>6. RefInv' BY <1>2, RefsByOwner
    <2>7. NoteInv' /\ SeenInv' BY <1>t, <1>2, <2>4, OwnerMovesNotes, NotesByOwner
    <2> QED BY <1>t, <2>1, <2>2, <2>3, <2>5, <2>6, <2>7 DEF IInv
  <1>3. CASE UNCHANGED vars
    <2> USE <1>3 DEF vars, entryVars, heapVars, noteVars, prodVars, ownVars, IInv
    <2>1. TableInv' /\ OwnerInv' BY DEF TableInv, OwnerInv, Registered, AllFree
    <2>2. PoolInv' /\ LiveInv' BY DEF PoolInv, LiveInv, NoOrphan, Used, Registered, AllFree
    <2>3. HitInv' BY DEF HitInv, HitStaysUsable, Registered, FreeBlock
    <2>4. HandInv' /\ RefInv' BY DEF HandInv, Freeing, RefInv, Ref, CachedBy, PinnedBy, Registered
    <2>5. NoteInv' /\ SeenInv' BY DEF NoteInv, SeenInv, Coming, WordNoticed, Seen, Registered
    <2> QED BY <1>t, <2>1, <2>2, <2>3, <2>4, <2>5
  <1> QED BY <1>1, <1>2, <1>3 DEF Next

LEMMA InvariantHolds == Spec => []IInv
  BY InitHolds, StepKeeps, PTL DEF Spec

-----------------------------------------------------------------------------
(* A free finds the entry of its own segment: from the free to the sidecar *)
(* bit the entry is linked, and neither a pin cached across a reuse of the *)
(* address nor the directory leads to another incarnation                  *)
(* (publish_cached, lookup).                                               *)
THEOREM FreesReachTheirSegments == Spec => []FreeReachesItsSegment
  <1>1. IInv => FreeReachesItsSegment
    BY FreeingIsLinked DEF FreeReachesItsSegment, IInv, HandInv, Freeing
  <1> QED BY <1>1, InvariantHolds, PTL

(* The state has its type and every reference is counted once: an entry is *)
(* freed when nobody can reach it any more (EntryHandle::drop).            *)
THEOREM ReferencesAreCounted == Spec => []EveryReferenceCounted
  <1>1. ASSUME IInv PROVE EveryReferenceCounted
    <2>1. \A k \in Incs : live[k] \in Nat BY <1>1, EmptyIsAllFree DEF IInv
    <2>2. \A k \in Incs : refs[k] \in Nat
      <3> TAKE k \in Incs
      <3>1. refs[k] = Ref(Registered(k)) + Cardinality(CachedBy(k)) + Cardinality(PinnedBy(k))
        BY <1>1 DEF IInv, RefInv
      <3>2. Ref(Registered(k)) \in Nat BY DEF Ref
      <3> QED BY <3>1, <3>2, PinsAreFinite
    <2>3. refs \in [Incs -> Nat] /\ live \in [Incs -> Nat]
      BY <1>1, <2>1, <2>2 DEF IInv, Shape
    <2>4. next \in 0 .. MAX_INCARNATION
      BY <1>1, RemoteFreeAssumption DEF IInv, Shape, Incs
    <2>5. TypeOK BY <1>1, <2>3, <2>4 DEF IInv, Shape, TypeOK
    <2> QED BY <1>1, <2>5 DEF EveryReferenceCounted, IInv, RefInv, CachedBy, PinnedBy
  <1> QED BY <1>1, InvariantHolds, PTL

(* What is pooled or released is empty and not about to be used, and every *)
(* empty segment is pooled, drained or released                            *)
(* (pool_or_release_empty_small, finalize_hit).                            *)
THEOREM PoolHoldsEmptySegments == Spec => []PoolingIsSound
  <1>1. ASSUME IInv PROVE PoolingIsSound
    <2>1. \A k \in Incs : live[k] = Cardinality({b \in Blocks : blk[k][b] # "free"})
      BY <1>1 DEF IInv, LiveInv, Used
    <2>2. \A k \in Incs : k \in pool \/ ~ Registered(k) \/ (opc \in {"unlink", "unref"} /\ dk = k)
                            => \A b \in Blocks : blk[k][b] = "free"
      BY <1>1 DEF IInv, PoolInv, OwnerInv, AllFree
    <2>3. HitStaysUsable BY <1>1 DEF IInv, HitInv
    <2>4. NoOrphan BY <1>1 DEF IInv, PoolInv
    <2> QED BY <2>1, <2>2, <2>3, <2>4 DEF PoolingIsSound, ReleasedSegmentsAreEmpty
  <1> QED BY <1>1, InvariantHolds, PTL

(* No wake-up is lost: publishing the bit before the load of the state,    *)
(* and arming before the scan, leave no bit that nobody will look at       *)
(* (SegmentIngress::after_publish, drain_notified_slot).                   *)
THEOREM WakeupsArrive == Spec => []NoLostWakeup
  <1>1. ASSUME IInv PROVE NoLostWakeup
    <2> SUFFICES ASSUME NEW k \in Incs, NEW b \in Blocks, Registered(k), blk[k][b] = "pending"
                 PROVE  \/ \E p \in Producers : pin[p] = k /\ pc[p] \in {"load", "cas", "mask"}
                        \/ slot[k] \in mask /\ WordNoticed(MaskWord(slot[k]))
                        \/ slot[k] \in obits
                        \/ opc = "scan" /\ darm /\ dk = k /\ SideWord(b) \in dwords
      BY DEF NoLostWakeup
    <2>1. Seen(k, b) BY <1>1 DEF IInv, SeenInv
    <2>2. notified[k] => Coming(k) BY <1>1 DEF IInv, NoteInv
    <2> QED BY <2>1, <2>2 DEF Seen, Coming
  <1> QED BY <1>1, InvariantHolds, PTL
=============================================================================
