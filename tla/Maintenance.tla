----------------------------- MODULE Maintenance -----------------------------
(***************************************************************************)
(* The maintenance service: src/global/maintenance_service.rs, the passes  *)
(* of heap_registry/maintenance.rs and the bounded drain of                *)
(* alloc_core/sidecar_drain.rs they run in each heap.                      *)
(*                                                                         *)
(* One worker visits the heaps that no thread leases, some in each pass,   *)
(* and in each does a bounded piece of work, both by cursors that go       *)
(* round; then it visits the fallback heap if that is not in use.  Frees   *)
(* that other threads left in a heap come home although no thread will     *)
(* ever claim it again.                                                    *)
(*                                                                         *)
(* A visit of a heap is one action: the worker has the lease of it (see    *)
(* HeapRegistry), and a free published during the visit counts as before   *)
(* it or after it, as its word has not been cut yet or has.                *)
(***************************************************************************)
EXTENDS Integers, Sequences, FiniteSets

CONSTANTS Starters,         \* threads that call start()
          Setups,           \* see setup
          SLOT_BUDGET, BACKGROUND_INGRESS_BUDGET, FALLBACK_IDLE_VISITS

(* What an instance must give the constants.                               *)
ServiceAssumption ==
    /\ Setups \subseteq [starters : SUBSET Starters, heaps : Nat, slots : Nat,
                         words : Nat, fallback : BOOLEAN]
    /\ {SLOT_BUDGET, BACKGROUND_INGRESS_BUDGET, FALLBACK_IDLE_VISITS} \subseteq Nat \ {0}

VARIABLES
    setup,     \* who starts the service; the largest number of heaps, of the
               \* slots in each, of the words in each slot; is the fallback
               \* heap used
    state,     \* STATE
    control,   \* the holder of CONTROL
    spc, said, \* where each starter is, and what its last call returned
    workers,   \* the number of workers ever spawned
    aborted,   \* the process has ended
    wpc,       \* where the worker is
    heaps,     \* the heaps of the registry, from 1: the lease, the segments
               \* by slot, and the cursor of the bounded drain
    cursor, pass,   \* the cursor of the passes, and the present one
    init, lock,     \* the fallback heap: is it READY, and who holds its lock
    prev,      \* is there a sample in fallback_prev_locks
    since,     \* LOCK_ACQUISITIONS since that sample; it is compared with 0
               \* and 1 and stays at 2
    idle, self_acquired,
    calm, sampled   \* history: good visits since somebody else got the lock
                    \* or a visit failed, now and at the last sample

startVars == <<state, control, spc, said, workers, aborted>>
passVars == <<heaps, cursor, pass>>
fallbackVars == <<init, lock, prev, since, idle, self_acquired, calm, sampled>>
vars == <<setup, startVars, wpc, passVars, fallbackVars>>

(* A segment is named by its kind and the words of its sidecar up to the   *)
(* bump: "clear", "held" (blocks in the hands of other threads) or         *)
(* "pending" (a free has been published).  A Large one has one.            *)
Marks == {"clear", "held", "pending"}
NullSegment == [kind |-> "null", words |-> <<>>]

(* A heap begins with the first segment, which is its current one.         *)
NewHeap ==
    [lease |-> "live", cur |-> [slot |-> 1, word |-> 0],
     segs |-> [i \in 1 .. setup.slots |->
                  IF i = 1 THEN [kind |-> "small", words |-> <<>>] ELSE NullSegment]]

NoPass == [start |-> 0, offset |-> 0, visits |-> 0, count |-> 0]

Init ==
    /\ setup \in Setups
    /\ state = "Idle" /\ control = "none"
    /\ spc = [s \in Starters |-> "idle"] /\ said = [s \in Starters |-> "nothing"]
    /\ workers = 0 /\ aborted = FALSE
    /\ wpc = "none"
    /\ heaps = <<>> /\ cursor = 0 /\ pass = NoPass
    /\ init = FALSE /\ lock = "none" /\ prev = FALSE /\ since = 0
    /\ idle = 0 /\ self_acquired = FALSE
    /\ calm = 0 /\ sampled = 0

-----------------------------------------------------------------------------
(* MaintenanceService::start.                                              *)
Says(s, answer) ==
    /\ spc' = [spc EXCEPT ![s] = "idle"]
    /\ said' = [said EXCEPT ![s] = answer]

Moves(s, label) == spc' = [spc EXCEPT ![s] = label] /\ UNCHANGED said

Call(s) ==
    /\ s \in setup.starters /\ spc[s] = "idle"
    /\ Moves(s, "cas")
    /\ UNCHANGED <<state, control, workers, aborted, wpc>>

Cas(s) ==
    /\ spc[s] = "cas"
    /\ CASE state = "Idle" -> state' = "Starting" /\ Moves(s, "spawn")
         [] state = "Running" -> Says(s, "Ok") /\ UNCHANGED state
         [] OTHER -> Says(s, "InProgress") /\ UNCHANGED state
    /\ UNCHANGED <<control, workers, aborted, wpc>>

(* Wrong variant: a refused spawn leaves STARTING behind. *)
SpawnSticks(s) ==
    /\ spc[s] = "spawn"
    /\ \/ /\ workers' = workers + 1 /\ wpc' = "enter"
          /\ Moves(s, "lock")
       \/ Says(s, "Spawn") /\ UNCHANGED <<workers, wpc>>
    /\ UNCHANGED <<state, control, aborted>>

(* The system gives a thread or refuses; a refusal drops the guard         *)
(* StartingGuard.                                                          *)
Spawn(s) ==
    /\ spc[s] = "spawn"
    /\ \/ /\ workers' = workers + 1 /\ wpc' = "enter"
          /\ Moves(s, "lock")
          /\ UNCHANGED state
       \/ /\ state' = "Idle"
          /\ Says(s, "Spawn")
          /\ UNCHANGED <<workers, wpc>>
    /\ UNCHANGED <<control, aborted>>

Lock(s) ==
    /\ spc[s] \in {"lock", "expired"} /\ control = "none"
    /\ control' = s
    /\ Moves(s, IF spc[s] = "lock" THEN "check" ELSE "last")
    /\ UNCHANGED <<state, workers, aborted, wpc>>

(* wait_timeout_while: the condition is read under the mutex, which is let *)
(* go when the thread waits.  One whose time is up looks a last time.      *)
Check(s) ==
    /\ spc[s] \in {"check", "last"}
    /\ IF state = "Running"
         THEN Says(s, "Ok") /\ control' = "none" /\ UNCHANGED aborted
         ELSE /\ Moves(s, "park") /\ UNCHANGED control
              /\ aborted' = (spc[s] = "last")
    /\ UNCHANGED <<state, workers, wpc>>

Park(s) ==
    /\ spc[s] = "park"
    /\ Moves(s, "wait")
    /\ control' = "none"
    /\ UNCHANGED <<state, workers, aborted, wpc>>

Timeout(s) ==
    /\ spc[s] = "wait"
    /\ Moves(s, "expired")
    /\ UNCHANGED <<state, control, workers, aborted, wpc>>

(* Wrong variant: the worker does not take the mutex. *)
EnterUnlocked ==
    /\ wpc = "enter"
    /\ wpc' = "publish"
    /\ UNCHANGED <<state, control, spc, said, workers, aborted>>

(* The worker tells those who wait that it runs.                           *)
Enter ==
    /\ wpc = "enter" /\ control = "none"
    /\ control' = "worker"
    /\ wpc' = "publish"
    /\ UNCHANGED <<state, spc, said, workers, aborted>>

Publish ==
    /\ wpc = "publish"
    /\ state' = "Running"
    /\ wpc' = "notify"
    /\ UNCHANGED <<control, spc, said, workers, aborted>>

Notify ==
    /\ wpc = "notify"
    /\ spc' = [s \in Starters |-> IF spc[s] = "wait" THEN "lock" ELSE spc[s]]
    /\ control' = IF control = "worker" THEN "none" ELSE control
    /\ wpc' = "pass"
    /\ UNCHANGED <<state, said, workers, aborted>>

StartStep(s) == Cas(s) \/ Spawn(s) \/ Lock(s) \/ Check(s) \/ Park(s)

-----------------------------------------------------------------------------
(* The bounded drain.  One unit of it looks at one slot, or cuts one word. *)
End == setup.slots

(* sidecar_word_hint *)
WordHint(segs, i) == IF i <= End /\ segs[i].kind = "small" THEN 1 ELSE 0

(* Wrong variant: the first word of the next slot is passed over. *)
NextSlotLate(s) ==
    [s EXCEPT !.cur = [slot |-> s.cur.slot + 1, word |-> WordHint(s.segs, s.cur.slot + 1) + 1]]

NextSlot(s) ==
    [s EXCEPT !.cur = [slot |-> s.cur.slot + 1, word |-> WordHint(s.segs, s.cur.slot + 1)]]

InUse(seg) == \E w \in DOMAIN seg.words : seg.words[w] # "clear"

(* One word is cut; a segment that it leaves empty is released or pooled,  *)
(* but for the current one (consume_one_small_cut, finish_small_drain).    *)
CutWord(s, w) ==
    LET i == s.cur.slot
        found == s.segs[i].words[w] = "pending"
        cut == [s EXCEPT !.segs[i].words[w] = IF found THEN "clear" ELSE @]
        next == [cut EXCEPT !.cur.word = w + 1]
    IN  IF found /\ i # 1 /\ ~ InUse(cut.segs[i])
          THEN NextSlot([cut EXCEPT !.segs[i] = NullSegment])
        ELSE IF w = Len(s.segs[i].words) THEN NextSlot(next)
        ELSE next

Unit(s) ==
    LET i == s.cur.slot
        seg == s.segs[i]
        w == IF s.cur.word < 1 THEN 1 ELSE s.cur.word
    IN  CASE seg.kind = "null" -> NextSlot(s)
          [] seg.kind = "large" ->
               NextSlot(IF seg.words = <<"pending">> THEN [s EXCEPT !.segs[i] = NullSegment]
                        ELSE s)
          [] seg.kind = "small" -> IF w > Len(seg.words) THEN NextSlot(s) ELSE CutWord(s, w)

First(segs) == [slot |-> 1, word |-> WordHint(segs, 1)]

(* At the end of the table the cursor goes back to the first slot.         *)
Units(s) ==
    LET after[n \in 0 .. BACKGROUND_INGRESS_BUDGET] ==
          IF n = 0 THEN s
          ELSE IF after[n - 1].cur.slot > End THEN after[n - 1]
          ELSE Unit(after[n - 1])
        last == after[BACKGROUND_INGRESS_BUDGET]
    IN  [last EXCEPT !.cur = IF @.slot > End THEN First(last.segs) ELSE @]

(* Segments without a block go: the magazines have been flushed, the pool  *)
(* and the cache are emptied (trim_cold_retention).                        *)
Trimmed(segs) ==
    [i \in DOMAIN segs |-> IF i # 1 /\ ~ InUse(segs[i]) THEN NullSegment ELSE segs[i]]

(* background_maintenance_step *)
Maintained(heap) ==
    LET s == Units([cur |-> heap.cur, segs |-> heap.segs])
    IN  [heap EXCEPT !.cur = s.cur, !.segs = Trimmed(s.segs)]

-----------------------------------------------------------------------------
(* HeapRegistry::maintenance_pass.                                         *)
Begin ==
    /\ wpc = "pass"
    /\ LET count == Len(heaps)
           visits == IF SLOT_BUDGET < count THEN SLOT_BUDGET ELSE count
       IN  pass' = IF count = 0 THEN NoPass
                   ELSE [start |-> cursor % count, offset |-> 0, visits |-> visits,
                         count |-> count]
    /\ wpc' = "visit"
    /\ UNCHANGED <<heaps, cursor>>

(* A heap that is leased is passed over (try_maintenance_at).              *)
Visit ==
    /\ wpc = "visit" /\ pass.offset < pass.visits
    /\ LET h == ((pass.start + pass.offset) % pass.count) + 1
       IN  heaps' = IF heaps[h].lease = "free" THEN [heaps EXCEPT ![h] = Maintained(@)]
                    ELSE heaps
    /\ pass' = [pass EXCEPT !.offset = @ + 1]
    /\ UNCHANGED <<wpc, cursor>>

(* Wrong variant: the next pass begins one heap further. *)
NextStartOff == (pass.start + pass.visits + 1) % pass.count
NextStart == (pass.start + pass.visits) % pass.count

EndPass ==
    /\ wpc = "visit" /\ pass.offset = pass.visits
    /\ cursor' = IF pass.count = 0 THEN 0 ELSE NextStart
    /\ pass' = NoPass
    /\ wpc' = "sample"
    /\ UNCHANGED heaps

-----------------------------------------------------------------------------
(* The fallback heap.                                                      *)
Plus(n) == IF n >= 2 THEN 2 ELSE n + 1

(* externally_active: somebody else has had the lock between two samples.  *)
Active == prev /\ since > (IF self_acquired THEN 1 ELSE 0)

Sample ==
    /\ wpc = "sample"
    /\ idle' = IF Active THEN 0 ELSE IF idle < FALLBACK_IDLE_VISITS THEN idle + 1 ELSE idle
    /\ prev' = TRUE /\ since' = 0
    /\ sampled' = calm
    /\ wpc' = "try"
    /\ UNCHANGED <<init, lock, self_acquired, calm>>

(* Wrong variant: a visit that finds the lock taken does not count. *)
TryStaysIdle ==
    /\ wpc = "try"
    /\ IF init /\ lock = "none"
         THEN /\ lock' = "worker"
              /\ wpc' = "count"
              /\ UNCHANGED <<self_acquired, calm>>
         ELSE /\ self_acquired' = FALSE /\ calm' = 0
              /\ wpc' = "pass"
              /\ UNCHANGED lock
    /\ UNCHANGED <<init, prev, idle, since, sampled>>

(* try_with_heap, without waiting.                                         *)
Try ==
    /\ wpc = "try"
    /\ IF init /\ lock = "none"
         THEN /\ lock' = "worker"
              /\ wpc' = "count"
              /\ UNCHANGED <<idle, self_acquired, calm>>
         ELSE /\ idle' = 0 /\ self_acquired' = FALSE /\ calm' = 0
              /\ wpc' = "pass"
              /\ UNCHANGED lock
    /\ UNCHANGED <<init, prev, since, sampled>>

Count ==
    /\ wpc = "count"
    /\ since' = Plus(since)
    /\ wpc' = IF idle >= FALLBACK_IDLE_VISITS THEN "trim" ELSE "ingress"
    /\ UNCHANGED <<init, lock, prev, idle, self_acquired, calm, sampled>>

(* The heap is drained, or drained and trimmed; then the worker parks.     *)
Leave ==
    /\ wpc \in {"trim", "ingress"}
    /\ lock' = "none"
    /\ self_acquired' = TRUE
    /\ calm' = IF calm < FALLBACK_IDLE_VISITS THEN calm + 1 ELSE calm
    /\ wpc' = "pass"
    /\ UNCHANGED <<init, prev, since, idle, sampled>>

(* Some thread uses the fallback heap; the first one makes it.             *)
Acquire ==
    /\ setup.fallback /\ lock = "none"
    /\ init' = TRUE
    /\ lock' = "taken"
    /\ UNCHANGED <<wpc, prev, since, idle, self_acquired, calm, sampled>>

Acquired ==
    /\ lock = "taken"
    /\ since' = Plus(since)
    /\ lock' = "used"
    /\ calm' = 0
    /\ UNCHANGED <<wpc, init, prev, idle, self_acquired, sampled>>

Release ==
    /\ lock = "used"
    /\ lock' = "none"
    /\ UNCHANGED <<wpc, init, prev, since, idle, self_acquired, calm, sampled>>

-----------------------------------------------------------------------------
(* What the other threads do with the heaps.                               *)
NewSlot == Len(heaps) < setup.heaps /\ heaps' = Append(heaps, NewHeap)

Claim(h) == heaps[h].lease = "free" /\ heaps' = [heaps EXCEPT ![h].lease = "live"]

(* The owner hands a block out: from a word below the bump, from a new     *)
(* word, from a new segment.                                               *)
Issue(h, i) ==
    /\ heaps[h].lease = "live"
    /\ LET seg == heaps[h].segs[i]
           Gets(new) == heaps' = [heaps EXCEPT ![h].segs[i] = new]
       IN  \/ /\ seg.kind = "small"
              /\ \E w \in DOMAIN seg.words :
                   seg.words[w] = "clear" /\ Gets([seg EXCEPT !.words[w] = "held"])
           \/ /\ seg.kind = "small" /\ Len(seg.words) < setup.words
              /\ Gets([seg EXCEPT !.words = Append(@, "held")])
           \/ /\ seg.kind = "null"
              /\ \E kind \in {"small", "large"} : Gets([kind |-> kind, words |-> <<"held">>])

(* Another thread frees a block.                                           *)
Free(h, i, w) ==
    /\ heaps[h].segs[i].words[w] = "held"
    /\ heaps' = [heaps EXCEPT ![h].segs[i].words[w] = "pending"]

(* trim_for_recycle drains everything, then the lease is dropped.          *)
Drained(segs) ==
    [i \in DOMAIN segs |-> [segs[i] EXCEPT !.words =
        [w \in DOMAIN @ |-> IF @[w] = "pending" THEN "clear" ELSE @[w]]]]

Drop(h) ==
    /\ heaps[h].lease = "live"
    /\ heaps' = [heaps EXCEPT ![h].lease = "free", ![h].segs = Trimmed(Drained(@))]

-----------------------------------------------------------------------------
ServiceNext ==
    /\ \/ \E s \in Starters : Call(s) \/ StartStep(s) \/ Timeout(s)
       \/ Enter \/ Publish \/ Notify
    /\ UNCHANGED <<passVars, fallbackVars>>

PassNext == (Begin \/ Visit \/ EndPass) /\ UNCHANGED <<startVars, fallbackVars>>

FallbackNext ==
    /\ Sample \/ Try \/ Count \/ Leave \/ Acquire \/ Acquired \/ Release
    /\ UNCHANGED <<startVars, passVars>>

HeapsNext ==
    /\ \/ NewSlot
       \/ \E h \in DOMAIN heaps :
            \/ Claim(h) \/ Drop(h)
            \/ \E i \in DOMAIN heaps[h].segs :
                 \/ Issue(h, i)
                 \/ \E w \in DOMAIN heaps[h].segs[i].words : Free(h, i, w)
    /\ UNCHANGED <<startVars, wpc, cursor, pass, fallbackVars>>

Next ==
    /\ ~ aborted
    /\ ServiceNext \/ PassNext \/ FallbackNext \/ HeapsNext
    /\ UNCHANGED setup

Spec == Init /\ [][Next]_vars

WorkerStep ==
    /\ ~ aborted
    /\ \/ (Enter \/ Publish \/ Notify) /\ UNCHANGED <<passVars, fallbackVars>>
       \/ PassNext
       \/ (Sample \/ Try \/ Count \/ Leave) /\ UNCHANGED <<startVars, passVars>>
    /\ UNCHANGED setup

StarterStep(s) ==
    /\ ~ aborted /\ StartStep(s)
    /\ UNCHANGED <<setup, passVars, fallbackVars>>

(* The system runs every thread that can go on; the bound on the wait of a *)
(* starter need not expire, nor anybody use the allocator.                 *)
FairSpec == Spec /\ WF_vars(WorkerStep) /\ \A s \in Starters : WF_vars(StarterStep(s))

-----------------------------------------------------------------------------
(* A start that says Ok leaves a worker behind, there is never a second    *)
(* one, and STARTING stands only while a starter or the worker is about to *)
(* end it (StartingGuard, MaintenanceService::start).                      *)
StartIsHonest ==
    /\ (\E s \in Starters : said[s] = "Ok") => state = "Running"
    /\ workers <= 1
    /\ state = "Running" <=> wpc \notin {"none", "enter", "publish"}
    /\ state = "Starting" => \/ wpc \in {"enter", "publish"}
                             \/ \E s \in Starters : spc[s] = "spawn"

(* The caches of the fallback heap are given up only after the worker has  *)
(* found it idle FALLBACK_IDLE_VISITS times in a row, so that at the last  *)
(* sample nobody else had taken the lock since the first of these visits,  *)
(* and all of them had found it free (fallback_idle).                      *)
TrimsOnlyIdle ==
    wpc = "trim" => init /\ lock = "worker" /\ sampled >= FALLBACK_IDLE_VISITS - 1

(* A call of start comes to an end, without the help of the bound on its   *)
(* wait (STARTUP_CONFIRM_BOUND).                                           *)
StartReturns == \A s \in Starters : spc[s] # "idle" ~> spc[s] = "idle" \/ aborted

(* A heap that nobody leases holds a published free.                       *)
Stranded(h) ==
    /\ h \in DOMAIN heaps /\ heaps[h].lease = "free"
    /\ \E i \in DOMAIN heaps[h].segs :
         \E w \in DOMAIN heaps[h].segs[i].words : heaps[h].segs[i].words[w] = "pending"

(* What sefer_alloc/maintenance.rs promises of a service that has started: *)
(* the frees published in a heap that remains FREE are reclaimed in the    *)
(* end, whatever becomes of the other heaps and of the fallback heap.      *)
FreesAreReclaimed ==
    \A h \in UNION {1 .. s.heaps : s \in Setups} :
        []<>(aborted \/ state # "Running" \/ ~ Stranded(h))
=============================================================================
