-------------------------- MODULE ThreadHeapsProofs --------------------------
(***************************************************************************)
(* For every number of threads and heaps: a heap is used by the thread     *)
(* that leases it alone, no lease is lost, and a null pointer means that   *)
(* memory is out.                                                          *)
(***************************************************************************)
EXTENDS ThreadHeaps, FiniteSetTheorems, TLAPS

(* What LOCAL, the guard and the hand of a thread say about its lease.     *)
BoundByGuard(t) ==
    /\ guard[t] \in Heaps => local[t] \in {guard[t], Gone} /\ lease[guard[t]] = t
    /\ local[t] \in Heaps =>
         \/ guard[t] = local[t]
         \/ pc[t] = "arm" /\ hand[t] = local[t] /\ guard[t] \notin Heaps
    /\ pc[t] \in ClaimPcs \cup {"gate", "verdict", "publish"} => local[t] = Null
    /\ pc[t] = "arm" => local[t] = hand[t]
    /\ pc[t] = "own" => hand[t] \in Heaps /\ guard[t] = hand[t]
    /\ pc[t] \in {"publish", "arm", "undo_free", "trim", "drop_free"} =>
         hand[t] \in Heaps /\ lease[hand[t]] = t /\ guard[t] \notin Heaps
    /\ phase[t] = "ended" => guard[t] \notin Heaps /\ pc[t] = "idle"

(* The fallback heap: who is where between its states.                     *)
Building(t) == pc[t] \in {"fb_init", "fb_ready", "fb_roll"}
FallbackInv(t) ==
    /\ Building(t) => init = "Initializing" /\ \A u \in Threads : Building(u) => u = t
    /\ pc[t] \in {"fb_lock", "fb_spin", "fb_use", "fb_unlock"} => init = "Ready"
    /\ pc[t] \in {"fb_use", "fb_unlock"} => lock = t

BindingInv ==
    /\ TypeOK
    /\ \A t \in Threads : BoundByGuard(t) /\ FallbackInv(t)
    /\ LeaseHasKeeper

(* A call gives up only at process exit, and is then on its way out.       *)
GaveUpInv == \A t \in Threads : result[t] = "gave up" => pc[t] = "return" /\ ExitInProgress

-----------------------------------------------------------------------------
LEMMA WordTyped ==
    ASSUME word \in 0 .. WORD_MAX
    PROVE  Marked \in 0 .. WORD_MAX /\ (PublishClaimable => word' \in 0 .. WORD_MAX)
BY BindingAssumption DEF Marked, PublishClaimable, DISABLED

(* The gate counts a skipped call only below its bound.                    *)
LEMMA GateTyped ==
    ASSUME NEW g \in GateType, NEW w \in 0 .. WORD_MAX
    PROVE  /\ FreshGate \in GateType
           /\ [saturated |-> TRUE, version |-> w, skips |-> 0] \in GateType
           /\ ~ RetryDecision(g) => Skipped(g) \in GateType
<1>1. 0 \in 0 .. SATURATION_RETRY_INTERVAL /\ 0 \in 0 .. WORD_MAX
  BY BindingAssumption
<1>2. ASSUME ~ RetryDecision(g)
      PROVE  Skipped(g) \in GateType
  <2>1. g.skips \in 0 .. SATURATION_RETRY_INTERVAL /\ g.version \in 0 .. WORD_MAX
    BY DEF GateType
  <2>2. g.skips + 1 \in 0 .. SATURATION_RETRY_INTERVAL
    BY <1>2, <2>1, BindingAssumption, SMT DEF RetryDecision
  <2> QED
    BY <2>1, <2>2 DEF GateType, Skipped
<1>3. FreshGate \in GateType
  BY <1>1 DEF FreshGate, GateType
<1>4. [saturated |-> TRUE, version |-> w, skips |-> 0] \in GateType
  BY <1>1 DEF GateType
<1> QED
  BY <1>2, <1>3, <1>4

LEMMA BindType ==
    ASSUME TypeOK, NEW t \in Threads, BindStep(t)
    PROVE  TypeOK'
<1> USE DEF TypeOK, At, Alive, Goto, Set, PCs, BindPcs, ClaimPcs, FallbackPcs, DropPcs,
            tlsVars, fbVars, opVars, heapVars
<1>1. CASE Gate(t)
  <2>1. gate[t] \in GateType /\ word \in 0 .. WORD_MAX
    OBVIOUS
  <2>2. gate' \in [Threads -> GateType] /\ steady' \in [Threads -> SUBSET Heaps]
    <3>0. FreshGate \in GateType
      BY <2>1, GateTyped
    <3>1. CASE RetryDecision(gate[t])
      <4>1. gate' = [gate EXCEPT ![t] = FreshGate] /\ steady' = [steady EXCEPT ![t] = Settled]
        BY <1>1, <3>1 DEF Gate
      <4> QED
        BY <3>0, <4>1 DEF Settled
    <3>2. CASE ~ RetryDecision(gate[t])
      BY <1>1, <2>1, <3>2, GateTyped DEF Gate
    <3> QED
      BY <3>1, <3>2
  <2> QED
    BY <1>1, <2>2 DEF Gate
<1>2. CASE ClaimRefused(t)
  <2>1. word' \in 0 .. WORD_MAX
    BY <1>2, WordTyped DEF ClaimRefused
  <2> QED
    BY <1>2, <2>1 DEF ClaimRefused
<1>3. CASE Verdict(t)
  <2>1. gate[t] \in GateType /\ word \in 0 .. WORD_MAX
    OBVIOUS
  <2>2. gate' \in [Threads -> GateType]
    BY <1>3, <2>1, GateTyped DEF Verdict
  <2> QED
    BY <1>3, <2>2 DEF Verdict
<1>4. CASE Publish(t)
  BY <1>4 DEF Publish
<1>5. CASE Arm(t)
  BY <1>5, ZenonT(40) DEF Arm
<1>6. CASE Undo(t)
  BY <1>6, WordTyped DEF Undo, DropFree, DropBump
<1>7. ASSUME NEW h \in Heaps, ClaimGets(t, h) \/ ClaimFails(t, h)
      PROVE  TypeOK'
  <2>1. CASE ClaimGets(t, h)
    BY <2>1 DEF ClaimGets
  <2>2. CASE ClaimFails(t, h)
    BY <2>2 DEF ClaimFails
  <2> QED
    BY <1>7, <2>1, <2>2
<1>8. CASE FailBump(t)
  BY <1>8, WordTyped DEF FailBump
<1> QED
  BY <1>1, <1>2, <1>3, <1>4, <1>5, <1>6, <1>7, <1>8 DEF BindStep

LEMMA FallbackType ==
    ASSUME TypeOK, NEW t \in Threads, FallbackStep(t)
    PROVE  TypeOK'
<1> USE DEF TypeOK, At, Alive, Goto, Set, PCs, BindPcs, ClaimPcs, FallbackPcs, DropPcs,
            tlsVars, fbVars, opVars, heapVars
<1>1. CASE FbLoad(t) \/ FbCas(t) \/ FbInit(t)
  BY <1>1 DEF FbLoad, FbCas, FbInit
<1>2. CASE FbReady(t) \/ FbRoll(t)
  BY <1>2 DEF FbReady, FbRoll
<1>3. CASE FbWait(t) \/ FbSpin(t)
  BY <1>3 DEF FbWait, FbSpin, GivesUp
<1>4. CASE FbLock(t) \/ FbUse(t) \/ FbUnlock(t)
  BY <1>4 DEF FbLock, FbUse, FbUnlock
<1> QED
  BY <1>1, <1>2, <1>3, <1>4 DEF FallbackStep

LEMMA LifeType ==
    ASSUME TypeOK, NEW t \in Threads,
           \/ Resolve(t) \/ Own(t) \/ Return(t) \/ Trim(t) \/ DropLease(t)
           \/ BeginTeardown(t) \/ GuardDrop(t) \/ TlsGone(t) \/ End(t)
           \/ Spawn(t) \/ ExitProcess(t)
    PROVE  TypeOK'
<1> USE DEF TypeOK, At, Alive, Goto, Set, PCs, BindPcs, ClaimPcs, FallbackPcs, DropPcs,
            tlsVars, fbVars, opVars, heapVars
<1>1. CASE Resolve(t)
  BY <1>1 DEF Resolve
<1>2. CASE Own(t) \/ Return(t) \/ Trim(t)
  BY <1>2 DEF Own, Return, Trim
<1>3. CASE DropLease(t)
  BY <1>3, WordTyped DEF DropLease, DropFree, DropBump
<1>4. CASE BeginTeardown(t) \/ End(t)
  BY <1>4, ZenonT(40) DEF BeginTeardown, End
<1>8. CASE ExitProcess(t)
  <2>1. FreshGate \in GateType
    BY GateTyped
  <2>2. gate' \in [Threads -> GateType] /\ steady' \in [Threads -> SUBSET Heaps]
    BY <1>8, <2>1 DEF ExitProcess
  <2>3. phase' \in [Threads -> {"running", "teardown", "ended", "killed"}]
    BY <1>8 DEF ExitProcess
  <2> QED
    BY <1>8, <2>2, <2>3, ZenonT(40) DEF ExitProcess
<1>5. CASE GuardDrop(t)
  BY <1>5 DEF GuardDrop, Stamp
<1>6. CASE TlsGone(t)
  BY <1>6 DEF TlsGone
<1>7. CASE Spawn(t)
  <2>1. gate' \in [Threads -> GateType]
    BY <1>7, GateTyped DEF Spawn
  <2> QED
    BY <1>7, <2>1 DEF Spawn
<1> QED
  BY <1>1, <1>2, <1>3, <1>4, <1>5, <1>6, <1>7, <1>8

LEMMA TypeStep == TypeOK /\ [Next]_vars => TypeOK'
<1> SUFFICES ASSUME TypeOK, [Next]_vars
             PROVE  TypeOK'
  OBVIOUS
<1>1. CASE UNCHANGED vars
  BY <1>1 DEF TypeOK, vars, tlsVars, fbVars, opVars, heapVars
<1>2. ASSUME NEW t \in Threads, ThreadNext(t)
      PROVE  TypeOK'
  BY <1>2, BindType, FallbackType, LifeType DEF ThreadNext, Step
<1> QED
  BY <1>1, <1>2 DEF Next

LEMMA InitType == Init => TypeOK
<1>1. 0 \in 0 .. WORD_MAX /\ 0 \in 0 .. SATURATION_RETRY_INTERVAL
  BY BindingAssumption
<1>2. FreshGate \in GateType
  BY <1>1 DEF FreshGate, GateType
<1> QED
  BY <1>1, <1>2 DEF Init, TypeOK, PCs

(* The bindings of the threads, the fallback heap and the saturation word  *)
(* keep their type, the counted retries within their bound.                *)
THEOREM TypeCorrect == Spec => []TypeOK
BY InitType, TypeStep, PTL DEF Spec

-----------------------------------------------------------------------------
(* A step of one thread leaves the others their leases.                    *)
OthersKeep(t) ==
    /\ \A u \in Threads \ {t} :
         /\ local'[u] = local[u] /\ guard'[u] = guard[u]
         /\ pc'[u] = pc[u] /\ hand'[u] = hand[u]
         /\ phase'[u] = "ended" => phase[u] = "ended"
    /\ \A h \in Heaps : \A u \in Threads \ {t} : lease'[h] = u <=> lease[h] = u

(* LeaseHasKeeper, for the heaps of one thread.                            *)
HeldBy(t) ==
    \A h \in Heaps : lease[h] = t =>
        \/ guard[t] = h
        \/ hand[t] = h /\ pc[t] \in {"publish", "arm", "undo_free", "trim", "drop_free"}

LEMMA OthersBound ==
    ASSUME NEW t \in Threads, OthersKeep(t), NEW u \in Threads \ {t}, BoundByGuard(u)
    PROVE  BoundByGuard(u)'
BY DEF BoundByGuard, OthersKeep

LEMMA KeeperStep ==
    ASSUME LeaseHasKeeper, NEW t \in Threads, OthersKeep(t), HeldBy(t)'
    PROVE  LeaseHasKeeper'
BY DEF LeaseHasKeeper, OthersKeep, HeldBy

LEMMA ValuesApart ==
    /\ Null \notin Heaps /\ Torn \notin Heaps /\ Gone \notin Heaps /\ Null \notin Threads
    /\ Null # Torn /\ Null # Gone /\ Torn # Gone
<1>1. {Null, Torn, Gone} \cap (Heaps \cup Threads) = {}
  BY BindingAssumption
<1>2. Null # Torn /\ Null # Gone /\ Torn # Gone
  <2>1. Cardinality({Null, Torn, Gone}) = 3
    BY BindingAssumption
  <2>2. ASSUME NEW a, NEW b
        PROVE  Cardinality({a, b}) # 3
    <3>1. IsFiniteSet({a}) /\ Cardinality({a}) = 1
      BY FS_Singleton
    <3>2. Cardinality({a} \cup {b}) \in {1, 2}
      BY <3>1, FS_AddElement
    <3>3. {a, b} = {a} \cup {b}
      OBVIOUS
    <3> QED
      BY <3>2, <3>3
  <2>3. /\ {Null, Torn, Gone} = {Null, Gone} \/ Null # Torn
        /\ {Null, Torn, Gone} = {Null, Torn} \/ Null # Gone
        /\ {Null, Torn, Gone} = {Null, Torn} \/ Torn # Gone
    OBVIOUS
  <2> QED
    BY <2>1, <2>2, <2>3
<1> QED
  BY <1>1, <1>2

(* Every step keeps its thread's own part; the steps by what they are for. *)
LEMMA BindBound ==
    ASSUME TypeOK, NEW t \in Threads, BindStep(t), BoundByGuard(t), HeldBy(t)
    PROVE  OthersKeep(t) /\ BoundByGuard(t)' /\ HeldBy(t)'
<1> USE ValuesApart DEF OthersKeep, BoundByGuard, HeldBy, TypeOK, At, Alive, Goto, Set,
                        tlsVars, fbVars, opVars, heapVars, ClaimPcs
<1>1. CASE Gate(t)
  BY <1>1 DEF Gate
<1>2. CASE ClaimRefused(t) \/ Verdict(t)
  BY <1>2, ZenonT(40) DEF ClaimRefused, Verdict
<1>3. CASE Publish(t)
  BY <1>3, ZenonT(40) DEF Publish
<1>4. CASE Arm(t)
  <2>1. CASE guard[t] = Gone
    BY <1>4, <2>1 DEF Arm
  <2>2. CASE guard[t] # Gone
    BY <1>4, <2>2, ZenonT(40) DEF Arm
  <2> QED
    BY <2>1, <2>2
<1>5. CASE Undo(t)
  <2>1. CASE DropFree(t, "undo_free", "undo_bump")
    BY <2>1, ZenonT(40) DEF DropFree
  <2>2. CASE DropBump(t, "undo_bump", "fb_load")
    BY <2>2 DEF DropBump
  <2> QED
    BY <1>5, <2>1, <2>2 DEF Undo
<1>6. ASSUME NEW h \in Heaps, ClaimGets(t, h)
      PROVE  OthersKeep(t) /\ BoundByGuard(t)' /\ HeldBy(t)'
  BY <1>6 DEF ClaimGets, Free
<1>7. CASE FailBump(t) \/ \E h \in Heaps : ClaimFails(t, h)
  BY <1>7 DEF FailBump, ClaimFails
<1> QED
  BY <1>1, <1>2, <1>3, <1>4, <1>5, <1>6, <1>7 DEF BindStep

LEMMA FallbackBound ==
    ASSUME TypeOK, NEW t \in Threads, FallbackStep(t), BoundByGuard(t), HeldBy(t)
    PROVE  OthersKeep(t) /\ BoundByGuard(t)' /\ HeldBy(t)'
<1>1. /\ UNCHANGED <<lease, local, guard, hand, phase>>
      /\ pc[t] \in FallbackPcs /\ pc'[t] \in FallbackPcs \cup {"return"}
      /\ \A u \in Threads \ {t} : pc'[u] = pc[u]
  <2> USE DEF FallbackPcs, TypeOK, At, Goto, tlsVars, fbVars, opVars, heapVars
  <2>1. CASE FbLoad(t) \/ FbCas(t) \/ FbInit(t) \/ FbReady(t) \/ FbRoll(t)
    BY <2>1 DEF FbLoad, FbCas, FbInit, FbReady, FbRoll
  <2>2. CASE FbWait(t) \/ FbLock(t) \/ FbSpin(t) \/ FbUse(t) \/ FbUnlock(t)
    BY <2>2 DEF FbWait, FbLock, FbSpin, FbUse, FbUnlock, GivesUp
  <2> QED
    BY <2>1, <2>2 DEF FallbackStep
<1> QED
  BY <1>1 DEF OthersKeep, BoundByGuard, HeldBy, FallbackPcs, ClaimPcs

LEMMA LifeBound ==
    ASSUME TypeOK, NEW t \in Threads, BoundByGuard(t), HeldBy(t),
           \/ Resolve(t) \/ Own(t) \/ Return(t) \/ Trim(t) \/ DropLease(t)
           \/ BeginTeardown(t) \/ GuardDrop(t) \/ TlsGone(t) \/ End(t)
           \/ Spawn(t) \/ ExitProcess(t)
    PROVE  OthersKeep(t) /\ BoundByGuard(t)' /\ HeldBy(t)'
<1> USE ValuesApart DEF OthersKeep, BoundByGuard, HeldBy, TypeOK, At, Alive, Goto, Set,
                        tlsVars, fbVars, opVars, heapVars, ClaimPcs
<1>1. CASE Resolve(t)
  BY <1>1 DEF Resolve
<1>2. CASE Own(t) \/ Return(t) \/ Trim(t)
  BY <1>2, ZenonT(40) DEF Own, Return, Trim
<1>3. CASE DropLease(t)
  <2>1. CASE DropFree(t, "drop_free", "drop_bump")
    BY <2>1, ZenonT(40) DEF DropFree
  <2>2. CASE DropBump(t, "drop_bump", "idle")
    BY <2>2 DEF DropBump
  <2> QED
    BY <1>3, <2>1, <2>2 DEF DropLease
<1>4. CASE BeginTeardown(t) \/ End(t)
  BY <1>4 DEF BeginTeardown, End
<1>5. CASE GuardDrop(t)
  BY <1>5 DEF GuardDrop, Stamp
<1>6. CASE TlsGone(t)
  <2>1. CASE guard' = guard
    BY <1>6, <2>1 DEF TlsGone
  <2>2. CASE guard[t] = Null /\ guard' = [guard EXCEPT ![t] = Gone] /\ local' = local
    BY <1>6, <2>2 DEF TlsGone
  <2> QED
    BY <1>6, <2>1, <2>2 DEF TlsGone
<1>7. CASE Spawn(t)
  BY <1>7 DEF Spawn
<1>8. CASE ExitProcess(t)
  BY <1>8 DEF ExitProcess
<1> QED
  BY <1>1, <1>2, <1>3, <1>4, <1>5, <1>6, <1>7, <1>8

-----------------------------------------------------------------------------
(* Only the steps at the fallback heap and around it move its states.      *)
LEMMA QuietFallback ==
    ASSUME BindingInv, NEW t \in Threads, UNCHANGED fbVars,
           \A u \in Threads \ {t} : pc'[u] = pc[u],
           pc'[t] \notin {"fb_init", "fb_ready", "fb_roll", "fb_lock", "fb_spin", "fb_use",
                          "fb_unlock"}
    PROVE  \A u \in Threads : FallbackInv(u)'
BY DEF BindingInv, FallbackInv, Building, fbVars

LEMMA FallbackStates ==
    ASSUME BindingInv, NEW t \in Threads, FallbackStep(t)
    PROVE  \A u \in Threads : FallbackInv(u)'
<1>1. TypeOK /\ \A u \in Threads : FallbackInv(u)
  BY DEF BindingInv
<1> SUFFICES ASSUME NEW u \in Threads
             PROVE  FallbackInv(u)'
  OBVIOUS
<1> USE <1>1, ValuesApart
    DEF TypeOK, At, Alive, Goto, Set, tlsVars, fbVars, opVars, heapVars, FallbackInv, Building
<1>2. CASE FbLoad(t)
  BY <1>2 DEF FbLoad
<1>3. CASE FbCas(t)
  <2>1. CASE init = "Uninit"
    <3>1. \A v \in Threads : pc[v] \notin {"fb_init", "fb_ready", "fb_roll", "fb_lock", "fb_spin",
                                           "fb_use", "fb_unlock"}
      BY <2>1
    <3>2. init' = "Initializing" /\ pc' = [pc EXCEPT ![t] = "fb_init"]
      BY <1>3, <2>1 DEF FbCas
    <3> QED
      BY <3>1, <3>2
  <2>2. CASE init # "Uninit"
    BY <1>3, <2>2 DEF FbCas
  <2> QED
    BY <2>1, <2>2
<1>4. CASE FbInit(t)
  <2>1. PICK ok \in BOOLEAN : pc' = [pc EXCEPT ![t] = IF ok THEN "fb_ready" ELSE "fb_roll"]
    BY <1>4 DEF FbInit
  <2> QED
    BY <1>4, <2>1 DEF FbInit
<1>5. CASE FbReady(t) \/ FbRoll(t)
  BY <1>5 DEF FbReady, FbRoll
<1>6. CASE FbWait(t)
  BY <1>6, ZenonT(40) DEF FbWait, GivesUp
<1>7. CASE FbSpin(t)
  BY <1>7 DEF FbSpin, GivesUp
<1>8. CASE FbLock(t)
  <2>1. CASE lock = Null
    BY <1>8, <2>1 DEF FbLock
  <2>2. CASE lock # Null
    BY <1>8, <2>2 DEF FbLock
  <2> QED
    BY <2>1, <2>2
<1>9. CASE FbUse(t) \/ FbUnlock(t)
  BY <1>9 DEF FbUse, FbUnlock
<1> QED
  BY <1>2, <1>3, <1>4, <1>5, <1>6, <1>7, <1>8, <1>9 DEF FallbackStep

LEMMA BindingStep == BindingInv /\ [Next]_vars => BindingInv'
<1> SUFFICES ASSUME BindingInv, [Next]_vars
             PROVE  BindingInv'
  OBVIOUS
<1>1. TypeOK'
  BY TypeStep DEF BindingInv
<1>2. CASE UNCHANGED vars
  BY <1>1, <1>2 DEF vars, tlsVars, fbVars, opVars, heapVars, BindingInv, BoundByGuard,
                    FallbackInv, ClaimPcs, Building, LeaseHasKeeper
<1>3. ASSUME NEW t \in Threads, ThreadNext(t)
      PROVE  BindingInv'
  <2>1. (\A u \in Threads : BoundByGuard(u)') /\ LeaseHasKeeper'
    <3>1. TypeOK /\ BoundByGuard(t) /\ HeldBy(t) /\ LeaseHasKeeper
      BY DEF BindingInv, LeaseHasKeeper, HeldBy
    <3>2. OthersKeep(t) /\ BoundByGuard(t)' /\ HeldBy(t)'
      BY <1>3, <3>1, BindBound, FallbackBound, LifeBound DEF ThreadNext, Step
    <3>3. \A u \in Threads \ {t} : BoundByGuard(u)'
      BY <3>2, OthersBound DEF BindingInv
    <3> QED
      BY <3>1, <3>2, <3>3, KeeperStep
  <2>2. \A u \in Threads : FallbackInv(u)'
    <3>1. CASE FallbackStep(t)
      BY <3>1, FallbackStates
    <3>2. CASE ~ FallbackStep(t)
      <4>1. TypeOK
        BY DEF BindingInv
      <4>2. /\ UNCHANGED fbVars
            /\ \A u \in Threads \ {t} : pc'[u] = pc[u]
            /\ \/ pc'[t] \notin {"fb_init", "fb_ready", "fb_roll", "fb_lock", "fb_spin", "fb_use",
                                 "fb_unlock"}
               \/ pc'[t] = pc[t]
        BY <1>3, <3>2, <4>1, ZenonT(40)
           DEF ThreadNext, Step, BindStep, Gate, ClaimRefused, Verdict, Publish, Arm, Undo,
               ClaimGets, ClaimFails, FailBump, Resolve, Own, Return, Trim, DropLease, DropFree, DropBump,
               BeginTeardown, GuardDrop, TlsGone, End, Spawn, ExitProcess, TypeOK, At, Goto
      <4>3. CASE pc'[t] = pc[t]
        BY <4>2, <4>3 DEF BindingInv, FallbackInv, Building, fbVars
      <4> QED
        BY <4>2, <4>3, QuietFallback
    <3> QED
      BY <3>1, <3>2
  <2> QED
    BY <1>1, <2>1, <2>2 DEF BindingInv
<1> QED
  BY <1>2, <1>3 DEF Next

LEMMA InitBinding == Init => BindingInv
BY InitType, BindingAssumption
   DEF Init, BindingInv, BoundByGuard, FallbackInv, Building, LeaseHasKeeper

(* A heap is used by the thread that leases it and by no other, the        *)
(* fallback heap by the thread that has its lock, and a lease is in the    *)
(* guard of its thread or on its way there or back (tls_heap.rs).          *)
THEOREM LeasesStayKept == Spec => []LeasesAreKept
<1>1. BindingInv => LeasesAreKept
  BY DEF BindingInv, LeasesAreKept, OneUser, BoundByGuard, FallbackInv, Building, LeaseHasKeeper
<1> QED
  BY <1>1, InitBinding, BindingStep, PTL DEF Spec

-----------------------------------------------------------------------------
LEMMA GaveUpStep == TypeOK /\ GaveUpInv /\ [Next]_vars => GaveUpInv'
<1> SUFFICES ASSUME TypeOK, GaveUpInv, [Next]_vars
             PROVE  GaveUpInv'
  OBVIOUS
<1>1. CASE UNCHANGED vars
  BY <1>1 DEF vars, opVars, GaveUpInv, ExitInProgress
<1>2. ASSUME NEW t \in Threads, ThreadNext(t)
      PROVE  GaveUpInv'
  <2>1. /\ \A u \in Threads \ {t} : result'[u] = result[u] /\ pc'[u] = pc[u]
        /\ ExitInProgress => ExitInProgress'
        /\ result'[t] = "gave up" => pc'[t] = "return" /\ ExitInProgress
    <3> USE ValuesApart DEF TypeOK, GaveUpInv, ExitInProgress, At, Goto, Set, opVars
    <3>1. CASE Resolve(t)
      BY <3>1 DEF Resolve
    <3>2. CASE Own(t)
      BY <3>2 DEF Own
    <3>3. CASE Return(t)
      BY <3>3 DEF Return, Escapes
    <3>4. CASE Trim(t) \/ DropLease(t) \/ Undo(t)
      BY <3>4 DEF Trim, DropLease, Undo, DropFree, DropBump
    <3>5. CASE BindStep(t)
      <4>1. CASE Gate(t) \/ FailBump(t) \/ ClaimRefused(t) \/ Verdict(t)
                 \/ \E h \in Heaps : ClaimGets(t, h) \/ ClaimFails(t, h)
        BY <4>1 DEF Gate, FailBump, ClaimRefused, Verdict, ClaimGets, ClaimFails
      <4>2. CASE Publish(t) \/ Arm(t)
        BY <4>2 DEF Publish, Arm
      <4> QED
        BY <3>4, <3>5, <4>1, <4>2 DEF BindStep
    <3>6. CASE FallbackStep(t)
      <4>1. CASE FbLoad(t) \/ FbCas(t) \/ FbReady(t) \/ FbRoll(t)
        BY <4>1 DEF FbLoad, FbCas, FbReady, FbRoll
      <4>2. CASE FbInit(t) \/ FbUse(t)
        BY <4>2 DEF FbInit, FbUse
      <4>3. CASE FbWait(t) \/ FbSpin(t)
        BY <4>3 DEF FbWait, FbSpin, GivesUp
      <4>4. CASE FbLock(t) \/ FbUnlock(t)
        BY <4>4 DEF FbLock, FbUnlock
      <4> QED
        BY <3>6, <4>1, <4>2, <4>3, <4>4 DEF FallbackStep
    <3>7. CASE BeginTeardown(t) \/ GuardDrop(t) \/ TlsGone(t) \/ End(t)
      BY <3>7 DEF BeginTeardown, GuardDrop, TlsGone, End
    <3>8. CASE Spawn(t) \/ ExitProcess(t)
      BY <3>8 DEF Spawn, ExitProcess
    <3> QED
      BY <1>2, <3>1, <3>2, <3>3, <3>4, <3>5, <3>6, <3>7, <3>8 DEF ThreadNext, Step
  <2> QED
    BY <2>1 DEF GaveUpInv
<1> QED
  BY <1>1, <1>2 DEF Next

(* A call that found no heap and no lock is served by the system           *)
(* allocator: null always means that memory is out (exit_escape_alloc).    *)
THEOREM NullIsOom == Spec => []NullMeansOom
<1>1. Init => GaveUpInv
  BY InitType DEF Init, GaveUpInv, TypeOK
<1>2. GaveUpInv => NullMeansOom
  BY DEF GaveUpInv, NullMeansOom, At
<1> QED
  BY <1>1, <1>2, TypeCorrect, GaveUpStep, PTL DEF Spec
=============================================================================
