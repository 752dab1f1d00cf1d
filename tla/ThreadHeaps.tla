----------------------------- MODULE ThreadHeaps -----------------------------
(***************************************************************************)
(* How a thread finds the heap it may use: src/global/tls_heap.rs (the     *)
(* thread-local pointer LOCAL and the guard that gives the lease back),    *)
(* src/global/fallback.rs (the one heap that serves a thread without a     *)
(* lease, under a spin lock) and the part of sefer_alloc/global_alloc.rs   *)
(* that joins them, through thread teardown and process exit.              *)
(*                                                                         *)
(* The registry is used at the interface HeapRegistry establishes.  A      *)
(* claim gets a free heap.  It is refused only if no heap was free, with   *)
(* its release complete, from its beginning to its end; or, when the       *)
(* memory for a heap that has not been built yet is out, if no built one   *)
(* was.  The worker, which borrows a free heap, is left out: to a claim it *)
(* looks like another thread that leases the heap and drops it again.      *)
(*                                                                         *)
(* Process exit is the Windows one: ExitProcess stops every other thread   *)
(* where it is, locks held, and the caller runs on through its teardown.   *)
(***************************************************************************)
EXTENDS Integers, FiniteSets

CONSTANTS Threads, Heaps,
          WORD_MAX,        \* largest value of the saturation word
          SATURATION_RETRY_INTERVAL,
          Null, Torn, Gone \* values of LOCAL and of the guard other than a heap

ASSUME BindingAssumption ==
    /\ {Null, Torn, Gone} \cap (Heaps \cup Threads) = {}
    /\ Cardinality({Null, Torn, Gone}) = 3
    /\ WORD_MAX \in Nat /\ WORD_MAX % 4 = 3
    /\ SATURATION_RETRY_INTERVAL \in Nat

VARIABLES
    lease,          \* of each heap: the thread that leases it, or Null
    built,          \* the heaps that have been constructed
    word,           \* the saturation word of the registry
    local,          \* LOCAL of each thread
    guard,          \* GUARD: Null, the heap whose lease it holds, or Gone
    gate,           \* SATURATION_GATE
    init, lock,     \* INIT_STATE and LOCK of the fallback heap (lock: its holder)
    exiting,        \* the thread inside ExitProcess, or Null
    phase,          \* of the life of each thread
    pc, hand,       \* the next access of a thread, the heap it is about
    steady,         \* heaps that were free all along since its claim began
    result          \* how its allocation ends; "gave up" and null stays

tlsVars == <<local, guard, gate>>
fbVars  == <<init, lock>>
opVars  == <<hand, steady, result>>
heapVars == <<lease, built>>
vars == <<heapVars, word, tlsVars, fbVars, exiting, phase, pc, opVars>>

ClaimPcs == {"claim", "recover", "fail_bump"}
BindPcs == ClaimPcs \cup {"gate", "verdict", "publish", "arm", "undo_free", "undo_bump"}
FallbackPcs == {"fb_load", "fb_cas", "fb_init", "fb_ready", "fb_roll", "fb_wait",
                "fb_lock", "fb_spin", "fb_use", "fb_unlock"}
DropPcs == {"trim", "drop_free", "drop_bump"}
PCs == {"idle", "own", "return"} \cup BindPcs \cup FallbackPcs \cup DropPcs

GateType ==
    [saturated : BOOLEAN, version : 0 .. WORD_MAX, skips : 0 .. SATURATION_RETRY_INTERVAL]

TypeOK ==
    /\ lease \in [Heaps -> Threads \cup {Null}] /\ built \subseteq Heaps
    /\ word \in 0 .. WORD_MAX
    /\ local \in [Threads -> Heaps \cup {Null, Torn, Gone}]
    /\ guard \in [Threads -> Heaps \cup {Null, Gone}]
    /\ gate \in [Threads -> GateType]
    /\ init \in {"Uninit", "Initializing", "Ready"}
    /\ lock \in Threads \cup {Null}
    /\ exiting \in Threads \cup {Null}
    /\ phase \in [Threads -> {"running", "teardown", "ended", "killed"}]
    /\ pc \in [Threads -> PCs]
    /\ hand \in [Threads -> Heaps \cup {Null}]
    /\ steady \in [Threads -> SUBSET Heaps]
    /\ result \in [Threads -> {"none", "block", "oom", "gave up"}]

(* The version is read only while saturated is set; it is 0 otherwise.     *)
FreshGate == [saturated |-> FALSE, version |-> 0, skips |-> 0]

Init ==
    /\ lease = [h \in Heaps |-> Null] /\ built = {}
    /\ word = 0
    /\ local = [t \in Threads |-> Null]
    /\ guard = [t \in Threads |-> Null]
    /\ gate = [t \in Threads |-> FreshGate]
    /\ init = "Uninit"
    /\ lock = Null
    /\ exiting = Null
    /\ phase = [t \in Threads |-> "running"]
    /\ pc = [t \in Threads |-> "idle"]
    /\ hand = [t \in Threads |-> Null]
    /\ steady = [t \in Threads |-> {}]
    /\ result = [t \in Threads |-> "none"]

Alive(t) == phase[t] \in {"running", "teardown"}
At(t, label) == Alive(t) /\ pc[t] = label
Goto(t, label) == pc' = [pc EXCEPT ![t] = label]
Set(f, t, v) == [f EXCEPT ![t] = v]
Free(h) == lease[h] = Null

(* The free heaps whose release is complete, the bump of the word included.*)
Settled ==
    {h \in Heaps :
        /\ Free(h)
        /\ \A t \in Threads :
             ~ (hand[t] = h /\ pc[t] \in {"undo_bump", "drop_bump", "fail_bump"})}

(* process_exit_in_progress, asked by a thread that is still running.      *)
ExitInProgress == exiting # Null

-----------------------------------------------------------------------------
(* The saturation word, as in HeapRegistry.                                *)
DISABLED == WORD_MAX
PublishClaimable ==
    word' = IF word >= WORD_MAX - 3 THEN DISABLED ELSE word + 2 - (word % 2)
Marked == IF word # DISABLED /\ word % 2 = 0 THEN word + 1 ELSE word

-----------------------------------------------------------------------------
(* Finding a heap for an allocation.                                       *)

(* current_for_alloc.  A free or a trim of a thread with a heap takes the  *)
(* same way; without one it binds nothing and changes nothing here.        *)
Resolve(t) ==
    /\ At(t, "idle")
    /\ hand' = Set(hand, t, IF local[t] \in Heaps THEN local[t] ELSE Null)
    /\ Goto(t, CASE local[t] \in Heaps -> "own"
                 [] local[t] = Null /\ ~ ExitInProgress -> "gate"
                 [] OTHER -> "fb_load")
    /\ result' = Set(result, t, "none")
    /\ UNCHANGED <<heapVars, word, tlsVars, fbVars, exiting, phase, steady>>

(* Wrong variant: the skipped calls are not counted. *)
SkippedUncounted(g) == [g EXCEPT !.saturated = TRUE]
Skipped(g) == [saturated |-> TRUE, version |-> g.version, skips |-> g.skips + 1]

RetryDecision(g) ==
    \/ ~ g.saturated
    \/ g.version # word
    \/ g.skips >= SATURATION_RETRY_INTERVAL

(* saturation_retry_allowed *)
Gate(t) ==
    /\ At(t, "gate")
    /\ IF RetryDecision(gate[t])
         THEN /\ gate' = Set(gate, t, FreshGate)
              /\ steady' = Set(steady, t, Settled)
              /\ Goto(t, "claim")
         ELSE /\ gate' = Set(gate, t, Skipped(gate[t]))
              /\ Goto(t, "fb_load")
              /\ UNCHANGED steady
    /\ UNCHANGED <<heapVars, word, local, guard, fbVars, exiting, phase, hand,
                   result>>

(* claim_impl takes a free heap, and builds it if that has not been done;  *)
(* in recovery it takes another one than the one in its hand, which failed.*)
ClaimGets(t, h) ==
    /\ At(t, "claim") \/ At(t, "recover")
    /\ Free(h) /\ h # hand[t]
    /\ lease' = Set(lease, h, t)
    /\ built' = built \cup {h}
    /\ steady' = [u \in Threads |-> IF u = t THEN {} ELSE steady[u] \ {h}]
    /\ hand' = Set(hand, t, h)
    /\ Goto(t, "publish")
    /\ UNCHANGED <<word, tlsVars, fbVars, exiting, phase, result>>

(* No memory for the chunk of a heap, or for its core: the constructor had *)
(* taken the heap and gives it back here.                                  *)
ClaimFails(t, h) ==
    /\ At(t, "claim") \/ At(t, "recover")
    /\ Free(h) /\ h \notin built /\ h # hand[t]
    /\ hand' = Set(hand, t, h)
    /\ steady' = [u \in Threads |-> IF u = t THEN steady[u] ELSE steady[u] \ {h}]
    /\ Goto(t, "fail_bump")
    /\ UNCHANGED <<heapVars, word, tlsVars, fbVars, exiting, phase, result>>

FailBump(t) ==
    /\ At(t, "fail_bump")
    /\ PublishClaimable
    /\ Goto(t, "recover")
    /\ UNCHANGED <<heapVars, tlsVars, fbVars, exiting, phase, opVars>>

(* No heap was free all along: the claim trusted the mark, or looked at    *)
(* every heap and may set it.  In recovery it looks for built heaps.       *)
ClaimRefused(t) ==
    /\ \/ /\ At(t, "claim") /\ steady[t] = {}
          /\ word' \in IF Settled = {} THEN {word, Marked} ELSE {word}
       \/ /\ At(t, "recover") /\ steady[t] \cap built = {}
          /\ UNCHANGED word
    /\ hand' = Set(hand, t, Null)
    /\ steady' = Set(steady, t, {})
    /\ Goto(t, "verdict")
    /\ UNCHANGED <<heapVars, tlsVars, fbVars, exiting, phase, result>>

(* record_saturation_verdict *)
Verdict(t) ==
    /\ At(t, "verdict")
    /\ gate' = Set(gate, t, [saturated |-> TRUE, version |-> word, skips |-> 0])
    /\ Goto(t, "fb_load")
    /\ UNCHANGED <<heapVars, word, local, guard, fbVars, exiting, phase, opVars>>

(* finish_bind: LOCAL first, then the guard.                               *)
Publish(t) ==
    /\ At(t, "publish")
    /\ local' = Set(local, t, hand[t])
    /\ Goto(t, "arm")
    /\ UNCHANGED <<heapVars, word, guard, gate, fbVars, exiting, phase, opVars>>

(* Wrong variant: without a guard the thread keeps the heap. *)
ArmIgnored(t) ==
    /\ At(t, "arm")
    /\ guard' = Set(guard, t, IF guard[t] = Gone THEN Gone ELSE hand[t])
    /\ Goto(t, "own")
    /\ UNCHANGED <<heapVars, word, local, gate, fbVars, exiting, phase, opVars>>

Arm(t) ==
    /\ At(t, "arm")
    /\ \/ /\ guard[t] # Gone
          /\ guard' = Set(guard, t, hand[t])
          /\ Goto(t, "own")
          /\ UNCHANGED local
       \/ /\ guard[t] = Gone
          /\ local' = Set(local, t, Null)
          /\ Goto(t, "undo_free")
          /\ UNCHANGED guard
    /\ UNCHANGED <<heapVars, word, gate, fbVars, exiting, phase, opVars>>

(* The heap of the thread serves the call, or has no memory for it.        *)
Own(t) ==
    /\ At(t, "own")
    /\ \E ok \in BOOLEAN :
         result' = Set(result, t, IF ok THEN "block" ELSE "oom")
    /\ hand' = Set(hand, t, Null)
    /\ Goto(t, "return")
    /\ UNCHANGED <<heapVars, word, tlsVars, fbVars, exiting, phase, steady>>

-----------------------------------------------------------------------------
(* HeapLease::drop: the slot is FREE first, then the word is bumped.       *)
DropFree(t, at, next) ==
    /\ At(t, at)
    /\ lease' = Set(lease, hand[t], Null)
    /\ Goto(t, next)
    /\ UNCHANGED <<built, word, tlsVars, fbVars, exiting, phase, opVars>>

DropBump(t, at, next) ==
    /\ At(t, at)
    /\ PublishClaimable
    /\ hand' = Set(hand, t, Null)
    /\ Goto(t, next)
    /\ UNCHANGED <<heapVars, tlsVars, fbVars, exiting, phase, steady, result>>

Undo(t) == DropFree(t, "undo_free", "undo_bump") \/ DropBump(t, "undo_bump", "fb_load")

-----------------------------------------------------------------------------
(* The fallback heap: heap_ptr_impl, then the lock, then the call.         *)

FbLoad(t) ==
    /\ At(t, "fb_load")
    /\ Goto(t, IF init = "Ready" THEN "fb_lock" ELSE "fb_cas")
    /\ UNCHANGED <<heapVars, word, tlsVars, fbVars, exiting, phase, opVars>>

FbCas(t) ==
    /\ At(t, "fb_cas")
    /\ IF init = "Uninit"
         THEN init' = "Initializing" /\ Goto(t, "fb_init")
         ELSE Goto(t, "fb_wait") /\ UNCHANGED init
    /\ UNCHANGED <<heapVars, word, tlsVars, lock, exiting, phase, opVars>>

(* The heap is written into its static place, or memory is out; an unwind  *)
(* takes the second way too (InitStateGuard).                              *)
FbInit(t) ==
    /\ At(t, "fb_init")
    /\ \E ok \in BOOLEAN :
         /\ Goto(t, IF ok THEN "fb_ready" ELSE "fb_roll")
         /\ result' = Set(result, t, IF ok THEN "none" ELSE "oom")
    /\ UNCHANGED <<heapVars, word, tlsVars, fbVars, exiting, phase, hand, steady>>

FbReady(t) ==
    /\ At(t, "fb_ready")
    /\ init' = "Ready"
    /\ Goto(t, "fb_lock")
    /\ UNCHANGED <<heapVars, word, tlsVars, lock, exiting, phase, opVars>>

(* The call ends without a block, and not because memory is out. *)
GivesUp(t) == result' = Set(result, t, "gave up") /\ Goto(t, "return")

FbRoll(t) ==
    /\ At(t, "fb_roll")
    /\ init' = "Uninit"
    /\ Goto(t, "return")
    /\ UNCHANGED <<heapVars, word, tlsVars, lock, exiting, phase, opVars>>

(* The loser waits until the winner is done, or the process exits and it   *)
(* never will be.                                                          *)
FbWait(t) ==
    /\ At(t, "fb_wait")
    /\ \/ /\ init # "Initializing"
          /\ Goto(t, "fb_load")
          /\ UNCHANGED result
       \/ /\ init = "Initializing" /\ ExitInProgress
          /\ GivesUp(t)
    /\ UNCHANGED <<heapVars, word, tlsVars, fbVars, exiting, phase, hand, steady>>

FbLock(t) ==
    /\ At(t, "fb_lock")
    /\ IF lock = Null
         THEN lock' = t /\ Goto(t, "fb_use")
         ELSE Goto(t, "fb_spin") /\ UNCHANGED lock
    /\ UNCHANGED <<heapVars, word, tlsVars, init, exiting, phase, opVars>>

(* Wrong variant: the waiter does not ask whether the process exits. *)
FbSpinForever(t) ==
    /\ At(t, "fb_spin")
    /\ lock = Null
    /\ Goto(t, "fb_lock")
    /\ UNCHANGED <<heapVars, word, tlsVars, fbVars, exiting, phase, opVars>>

FbSpin(t) ==
    /\ At(t, "fb_spin")
    /\ \/ /\ lock = Null
          /\ Goto(t, "fb_lock")
          /\ UNCHANGED result
       \/ /\ lock # Null /\ ExitInProgress
          /\ GivesUp(t)
    /\ UNCHANGED <<heapVars, word, tlsVars, fbVars, exiting, phase, hand, steady>>

FbUse(t) ==
    /\ At(t, "fb_use")
    /\ \E ok \in BOOLEAN :
         result' = Set(result, t, IF ok THEN "block" ELSE "oom")
    /\ Goto(t, "fb_unlock")
    /\ UNCHANGED <<heapVars, word, tlsVars, fbVars, exiting, phase, hand, steady>>

FbUnlock(t) ==
    /\ At(t, "fb_unlock")
    /\ lock' = Null
    /\ Goto(t, "return")
    /\ UNCHANGED <<heapVars, word, tlsVars, init, exiting, phase, opVars>>

FallbackStep(t) ==
    \/ FbLoad(t) \/ FbCas(t) \/ FbInit(t) \/ FbReady(t) \/ FbRoll(t) \/ FbWait(t)
    \/ FbLock(t) \/ FbSpin(t) \/ FbUse(t) \/ FbUnlock(t)

(* Wrong variant: no second chance at process exit. *)
EscapesNever(t) == FALSE

(* exit_escape_alloc: at process exit the system allocator serves a call   *)
(* that found no heap.                                                     *)
Escapes(t) == result[t] # "block" /\ ExitInProgress

Return(t) ==
    /\ At(t, "return")
    /\ result' = Set(result, t, IF result[t] = "gave up" /\ ~ Escapes(t)
                                 THEN "gave up" ELSE "none")
    /\ Goto(t, "idle")
    /\ UNCHANGED <<heapVars, word, tlsVars, fbVars, exiting, phase, hand, steady>>

-----------------------------------------------------------------------------
(* The end of a thread, and of the process.                                *)

BeginTeardown(t) ==
    /\ At(t, "idle") /\ phase[t] = "running"
    /\ phase' = Set(phase, t, "teardown")
    /\ UNCHANGED <<heapVars, word, tlsVars, fbVars, exiting, pc, opVars>>

(* Wrong variant: LOCAL keeps the heap. *)
StampNothing(t) == local

(* mark_local_torn *)
Stamp(t) == IF local[t] = Gone THEN local ELSE Set(local, t, Torn)

(* LeaseReleaseGuard::drop, one of the destructors of the thread; the      *)
(* others may allocate and free before it and after it.                    *)
GuardDrop(t) ==
    /\ At(t, "idle") /\ phase[t] = "teardown"
    /\ guard[t] \in Heaps
    /\ hand' = Set(hand, t, guard[t])
    /\ guard' = Set(guard, t, Gone)
    /\ local' = Stamp(t)
    /\ Goto(t, IF ExitInProgress THEN "drop_free" ELSE "trim")
    /\ UNCHANGED <<heapVars, word, gate, fbVars, exiting, phase, steady, result>>

(* trim_for_recycle: the last use of the heap under this lease.            *)
Trim(t) ==
    /\ At(t, "trim")
    /\ Goto(t, "drop_free")
    /\ UNCHANGED <<heapVars, word, tlsVars, fbVars, exiting, phase, opVars>>

DropLease(t) ==
    DropFree(t, "drop_free", "drop_bump") \/ DropBump(t, "drop_bump", "idle")

(* Where thread-locals are keyed by the system they may be out of reach    *)
(* during teardown.                                                        *)
TlsGone(t) ==
    /\ At(t, "idle") /\ phase[t] = "teardown"
    /\ \/ guard[t] = Null /\ guard' = Set(guard, t, Gone) /\ UNCHANGED local
       \/ local[t] # Gone /\ local' = Set(local, t, Gone) /\ UNCHANGED guard
    /\ UNCHANGED <<heapVars, word, gate, fbVars, exiting, phase, pc, opVars>>

(* The last destructor has run, the one of the guard included.             *)
End(t) ==
    /\ At(t, "idle") /\ phase[t] = "teardown"
    /\ guard[t] \notin Heaps
    /\ phase' = Set(phase, t, "ended")
    /\ UNCHANGED <<heapVars, word, tlsVars, fbVars, exiting, pc, opVars>>

(* Another thread starts, with thread-locals of its own.                   *)
Spawn(t) ==
    /\ phase[t] = "ended" /\ ~ ExitInProgress
    /\ phase' = Set(phase, t, "running")
    /\ local' = Set(local, t, Null)
    /\ guard' = Set(guard, t, Null)
    /\ gate' = Set(gate, t, FreshGate)
    /\ result' = Set(result, t, "none")
    /\ UNCHANGED <<heapVars, word, fbVars, exiting, pc, hand, steady>>

(* ExitProcess: every other thread stops where it is.  No gate is asked    *)
(* and no claim made any more; what they were about is dropped here.       *)
ExitProcess(t) ==
    /\ At(t, "idle") /\ phase[t] = "running"
    /\ ~ ExitInProgress
    /\ exiting' = t
    /\ phase' = [u \in Threads |-> IF u = t THEN "teardown"
                                   ELSE IF Alive(u) THEN "killed" ELSE phase[u]]
    /\ gate' = [u \in Threads |-> FreshGate]
    /\ steady' = [u \in Threads |-> {}]
    /\ UNCHANGED <<heapVars, word, local, guard, fbVars, pc, hand, result>>

-----------------------------------------------------------------------------
BindStep(t) ==
    \/ Gate(t) \/ FailBump(t) \/ ClaimRefused(t) \/ Verdict(t)
    \/ Publish(t) \/ Arm(t) \/ Undo(t)
    \/ \E h \in Heaps : ClaimGets(t, h) \/ ClaimFails(t, h)

(* The steps inside an operation. *)
Step(t) == BindStep(t) \/ Own(t) \/ FallbackStep(t) \/ Return(t) \/ Trim(t) \/ DropLease(t)

ThreadNext(t) ==
    \/ Resolve(t) \/ Step(t) \/ BeginTeardown(t) \/ GuardDrop(t) \/ TlsGone(t)
    \/ End(t) \/ Spawn(t) \/ ExitProcess(t)

Next == \E t \in Threads : ThreadNext(t)

Spec == Init /\ [][Next]_vars

(* A thread inside an operation runs on.                                   *)
FairSpec == Spec /\ \A t \in Threads : WF_vars(Step(t))

-----------------------------------------------------------------------------
(* A heap is touched by nobody but the thread that leases it, however the  *)
(* destructors of a thread are ordered (the stamp of mark_local_torn), and *)
(* the fallback heap by one thread at a time, when it has been built; the  *)
(* state has its type, the skipped calls of a gate within their bound.     *)
OneUser ==
    /\ TypeOK
    /\ \A t \in Threads : Alive(t) /\ pc[t] \in {"own", "trim"} => lease[hand[t]] = t
    /\ \A t \in Threads : pc[t] \in {"fb_use", "fb_unlock"} => lock = t /\ init = "Ready"
    /\ \A t, u \in Threads :
         pc[t] \in {"fb_init", "fb_ready", "fb_roll"}
           /\ pc[u] \in {"fb_init", "fb_ready", "fb_roll"} => t = u

(* No lease is lost: as long as the process runs, the lease of a heap is   *)
(* in the guard of its thread, which gives it back, or on the way there or *)
(* back.  In particular a thread that has ended holds none.                *)
LeaseHasKeeper ==
    \A h \in Heaps : \A t \in Threads :
        lease[h] = t =>
          \/ guard[t] = h
          \/ hand[t] = h /\ pc[t] \in {"publish", "arm", "undo_free", "trim", "drop_free"}

(* A lease is used by its thread alone and given back (the guard, TORN,    *)
(* mark_local_torn).                                                       *)
LeasesAreKept == OneUser /\ LeaseHasKeeper

(* A null pointer means that memory is out (M10), never that no heap was   *)
(* bound or that a lock could not be had.                                  *)
NullMeansOom == \A t \in Threads : At(t, "idle") => result[t] # "gave up"

(* Process exit is not blocked by the locks of the threads it stopped:     *)
(* whatever the exiting thread allocates in its destructors, the call      *)
(* returns.                                                                *)
ExitIsNotBlocked ==
    \A t \in Threads : (exiting = t /\ pc[t] # "idle") ~> (exiting = t /\ pc[t] = "idle")

(* A refusal is not for ever: a thread that keeps allocating while a heap  *)
(* stays free gets a heap, although it does not ask for one at each call   *)
(* (SATURATION_RETRY_INTERVAL) and although a claim between the release of *)
(* a heap and the bump of the word trusts the mark; unless the memory for  *)
(* heaps is refused for ever.                                              *)
BindsAtLast ==
    \A t \in Threads : \A h \in Heaps :
        (/\ <>[]Free(h)
         /\ <>[](phase[t] = "running" /\ ~ ExitInProgress)
         /\ []<><<Resolve(t)>>_vars
         /\ <>[][\A u \in Threads : \A g \in Heaps : ~ ClaimFails(u, g)]_vars)
        => <>(local[t] \in Heaps)
=============================================================================
