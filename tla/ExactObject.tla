----------------------------- MODULE ExactObject -----------------------------
(***************************************************************************)
(* The exact-object prototype, src/global/exact_object: small requests go  *)
(* to the system allocator, and a table of descriptors remembers which     *)
(* addresses did, so that a free knows where a block belongs.  One shard   *)
(* of the table: open addressing with tombstones, a spin lock that gives   *)
(* up at process exit, and a hint that saves the lock when the table is    *)
(* empty.  The system allocator is external; an address it has given out   *)
(* comes again only after it was given back.                               *)
(***************************************************************************)
EXTENDS Integers, FiniteSets

CONSTANTS Threads, Addrs,
          hash,          \* the hash of an address, before it is masked
          INIT_CAP,      \* capacity of the first array
          EMPTY, TOMB, Nobody

(* What an instance must give the constants.                               *)
ExactAssumption ==
    /\ {EMPTY, TOMB, Nobody} \cap (Addrs \cup Threads \cup Nat) = {}
    /\ EMPTY # TOMB
    /\ hash \in [Addrs -> Nat]
    /\ INIT_CAP \in Nat \ {0, 1}   \* a power of two in the code, which masks

VARIABLES
    slots,       \* Inner::slots, a function on 0 .. cap - 1
    used, live,  \* Inner::used (not EMPTY) and Inner::live
    live_hint, lock,
    block,       \* what each address is: see Origin
    exiting, killed,
    pc, addr     \* the next access of a thread, the address it is about

innerVars == <<slots, used, live>>
vars == <<innerVars, live_hint, lock, block, exiting, killed, pc, addr>>

(* An address is free, or belongs to the system allocator as a narrow      *)
(* block ("exact": with a descriptor; "plain": given out at process exit   *)
(* without one), or to a heap of the allocator; "busy" while the call that *)
(* allocates or frees it runs.                                             *)
Origin == {"free", "busy", "exact", "plain", "heap"}

PCs == {"idle", "reg_lock", "reg_spin", "insert", "reg_release", "oom_release",
        "reg_failed", "take_hint", "take_lock", "take_spin", "take",
        "take_release", "sys_free", "miss_release", "heap_free", "fatal"}

cap == Cardinality(DOMAIN slots)

TypeOK ==
    /\ slots \in [0 .. cap - 1 -> Addrs \cup {EMPTY, TOMB}]
    /\ used = Cardinality({i \in DOMAIN slots : slots[i] # EMPTY})
    /\ live = Cardinality({i \in DOMAIN slots : slots[i] \in Addrs})
    /\ live_hint \in Nat
    /\ lock \in Threads \cup {Nobody}
    /\ block \in [Addrs -> Origin]
    /\ exiting \in Threads \cup {Nobody}
    /\ killed \subseteq Threads
    /\ pc \in [Threads -> PCs]
    /\ addr \in [Threads -> Addrs \cup {EMPTY}]

Init ==
    /\ slots = [i \in {} |-> EMPTY]
    /\ used = 0 /\ live = 0
    /\ live_hint = 0
    /\ lock = Nobody
    /\ block = [a \in Addrs |-> "free"]
    /\ exiting = Nobody
    /\ killed = {}
    /\ pc = [t \in Threads |-> "idle"]
    /\ addr = [t \in Threads |-> EMPTY]

At(t, label) == t \notin killed /\ pc[t] = label
Goto(t, label) == pc' = [pc EXCEPT ![t] = label]
ExitInProgress == exiting # Nobody

-----------------------------------------------------------------------------
(* Inner.                                                                  *)

(* How far bucket i is from where the probe for a starts, in a table of n. *)
Far(a, n, i) == (i - hash[a]) % n

(* The first bucket of S on that way.                                      *)
FirstFrom(a, n, S) == CHOOSE i \in S : \A j \in S : Far(a, n, i) <= Far(a, n, j)

Is(table, entries) == {i \in DOMAIN table : table[i] \in entries}

(* Wrong variant: the probe stops at a tombstone. *)
findToTomb(a) ==
    IF cap = 0 THEN EMPTY
    ELSE LET i == FirstFrom(a, cap, Is(slots, {EMPTY, TOMB, a}))
         IN  IF slots[i] = a THEN i ELSE EMPTY

find(a) ==
    IF cap = 0 THEN EMPTY
    ELSE LET i == FirstFrom(a, cap, Is(slots, {EMPTY, a}))
         IN  IF slots[i] = a THEN i ELSE EMPTY

NewCap == IF cap = 0 THEN INIT_CAP ELSE IF live * 2 >= cap THEN cap * 2 ELSE cap

Place(table, entry) ==
    LET i == FirstFrom(entry, Cardinality(DOMAIN table), Is(table, {EMPTY}))
    IN  IF entry \in Addrs THEN [table EXCEPT ![i] = entry] ELSE table

(* The new array, with the first i buckets of the old one looked at.       *)
Refilled[i \in 0 .. cap] ==
    IF i = 0 THEN [j \in 0 .. NewCap - 1 |-> EMPTY] ELSE Place(Refilled[i - 1], slots[i - 1])

Rehashed == Refilled[cap]

MustRehash == (used + 1) * 4 > cap * 3

(* The probe passes tombstones, remembers the first, and stops at EMPTY.   *)
Bucket(table, a) ==
    LET n == Cardinality(DOMAIN table)
        stop == FirstFrom(a, n, Is(table, {EMPTY}))
        between == {i \in Is(table, {TOMB}) : Far(a, n, i) < Far(a, n, stop)}
    IN  IF between = {} THEN stop ELSE FirstFrom(a, n, between)

NewlyUsed(entry) == IF entry = EMPTY THEN 1 ELSE 0

-----------------------------------------------------------------------------
(* acquire_unless_exiting, as the steps of a lock that has two ways out.   *)
TryLock(t, at, won, lost) ==
    /\ At(t, at)
    /\ IF lock = Nobody
         THEN lock' = t /\ Goto(t, won)
         ELSE Goto(t, lost) /\ UNCHANGED lock
    /\ UNCHANGED <<innerVars, live_hint, block, exiting, killed, addr>>

(* Wrong variant: the waiter does not ask whether the process exits. *)
SpinForever(t, at, again, gave_up) ==
    /\ At(t, at)
    /\ lock = Nobody /\ Goto(t, again)
    /\ UNCHANGED <<innerVars, live_hint, lock, block, exiting, killed, addr>>

Spin(t, at, again, gave_up) ==
    /\ At(t, at)
    /\ \/ lock = Nobody /\ Goto(t, again)
       \/ lock # Nobody /\ ExitInProgress /\ Goto(t, gave_up)
    /\ UNCHANGED <<innerVars, live_hint, lock, block, exiting, killed, addr>>

(* With the lock a call may end.                                           *)
Unlock(t, at, next) ==
    /\ At(t, at)
    /\ lock' = Nobody
    /\ Goto(t, next)
    /\ addr' = IF next = "idle" THEN [addr EXCEPT ![t] = EMPTY] ELSE addr
    /\ UNCHANGED <<innerVars, live_hint, block, exiting, killed>>

-----------------------------------------------------------------------------
(* ExactNarrow::alloc: the system allocator first, the descriptor next.    *)
Alloc(t, a) ==
    /\ At(t, "idle")
    /\ block[a] = "free"
    /\ block' = [block EXCEPT ![a] = "busy"]
    /\ addr' = [addr EXCEPT ![t] = a]
    /\ Goto(t, "reg_lock")
    /\ UNCHANGED <<innerVars, live_hint, lock, exiting, killed>>

InsertHint == live_hint' = live'

(* ExactShard::insert under the lock; live_hint is stored before release.  *)
Insert(t) ==
    /\ At(t, "insert")
    /\ IF find(addr[t]) # EMPTY
         THEN Goto(t, "fatal") /\ UNCHANGED <<innerVars, live_hint, block>>
         ELSE \/ /\ MustRehash                       \* no memory for the array
                 /\ Goto(t, "oom_release")
                 /\ UNCHANGED <<innerVars, live_hint, block>>
              \/ /\ LET table == IF MustRehash THEN Rehashed ELSE slots
                        i == Bucket(table, addr[t])
                    IN  /\ slots' = [table EXCEPT ![i] = addr[t]]
                        /\ used' = (IF MustRehash THEN live ELSE used)
                                   + NewlyUsed(table[i])
                 /\ live' = live + 1
                 /\ InsertHint
                 /\ block' = [block EXCEPT ![addr[t]] = "exact"]
                 /\ Goto(t, "reg_release")
    /\ UNCHANGED <<lock, exiting, killed, addr>>

(* Without a descriptor the block goes back, or, at process exit, to the   *)
(* caller as it is.                                                        *)
RegFailed(t) ==
    /\ At(t, "reg_failed")
    /\ block' = [block EXCEPT ![addr[t]] = IF ExitInProgress THEN "plain" ELSE "free"]
    /\ addr' = [addr EXCEPT ![t] = EMPTY]
    /\ Goto(t, "idle")
    /\ UNCHANGED <<innerVars, live_hint, lock, exiting, killed>>

AllocStep(t) ==
    \/ TryLock(t, "reg_lock", "insert", "reg_spin")
    \/ Spin(t, "reg_spin", "reg_lock", "reg_failed")
    \/ Insert(t)
    \/ Unlock(t, "reg_release", "idle")
    \/ Unlock(t, "oom_release", "reg_failed")
    \/ RegFailed(t)

(* A block of a heap, for which the table must know nothing.               *)
HeapAlloc(a) ==
    /\ ~ ExitInProgress
    /\ block[a] = "free"
    /\ block' = [block EXCEPT ![a] = "heap"]
    /\ UNCHANGED <<innerVars, live_hint, lock, exiting, killed, pc, addr>>

-----------------------------------------------------------------------------
(* GlobalAlloc::dealloc: the table is asked about every block, from any    *)
(* thread that holds it.                                                   *)
Holding(a) == \E t \in Threads : addr[t] = a

Free(t, a) ==
    /\ At(t, "idle")
    /\ block[a] \in {"exact", "plain", "heap"} /\ ~ Holding(a)
    /\ addr' = [addr EXCEPT ![t] = a]
    /\ Goto(t, "take_hint")
    /\ UNCHANGED <<innerVars, live_hint, lock, block, exiting, killed>>

TakeHint(t) ==
    /\ At(t, "take_hint")
    /\ Goto(t, IF live_hint = 0 THEN "heap_free" ELSE "take_lock")
    /\ UNCHANGED <<innerVars, live_hint, lock, block, exiting, killed, addr>>

Take(t) ==
    /\ At(t, "take")
    /\ LET i == find(addr[t])
       IN  IF i = EMPTY
             THEN Goto(t, "miss_release") /\ UNCHANGED <<innerVars, live_hint>>
             ELSE /\ slots' = [slots EXCEPT ![i] = TOMB]
                  /\ live' = live - 1
                  /\ live_hint' = live'
                  /\ UNCHANGED used
                  /\ Goto(t, "take_release")
    /\ UNCHANGED <<lock, block, exiting, killed, addr>>

(* The block goes back to the system, its descriptor being gone.           *)
SystemFree(t) ==
    /\ At(t, "sys_free")
    /\ block' = [block EXCEPT ![addr[t]] = "free"]
    /\ addr' = [addr EXCEPT ![t] = EMPTY]
    /\ Goto(t, "idle")
    /\ UNCHANGED <<innerVars, live_hint, lock, exiting, killed>>

(* No descriptor: the free goes on to the heaps.  They take a block of     *)
(* theirs and leave any other one as it is, for good.                      *)
HeapFree(t) ==
    /\ At(t, "heap_free")
    /\ block' = [block EXCEPT ![addr[t]] = IF @ = "heap" THEN "free" ELSE "busy"]
    /\ addr' = [addr EXCEPT ![t] = EMPTY]
    /\ Goto(t, "idle")
    /\ UNCHANGED <<innerVars, live_hint, lock, exiting, killed>>

FreeStep(t) ==
    \/ TakeHint(t)
    \/ TryLock(t, "take_lock", "take", "take_spin")
    \/ Spin(t, "take_spin", "take_lock", "heap_free")
    \/ Take(t)
    \/ Unlock(t, "take_release", "sys_free")
    \/ Unlock(t, "miss_release", "heap_free")
    \/ SystemFree(t)
    \/ HeapFree(t)

ExitProcess(t) ==
    /\ At(t, "idle") /\ ~ ExitInProgress
    /\ exiting' = t
    /\ killed' = Threads \ {t}
    /\ UNCHANGED <<innerVars, live_hint, lock, block, pc, addr>>

-----------------------------------------------------------------------------
Next ==
    \/ \E t \in Threads : AllocStep(t) \/ FreeStep(t) \/ ExitProcess(t)
    \/ \E t \in Threads, a \in Addrs : Alloc(t, a) \/ Free(t, a)
    \/ \E a \in Addrs : HeapAlloc(a)

Spec == Init /\ [][Next]_vars

(* A call that can go on does.  Which thread's is left open: the property  *)
(* below is about the time when one thread is left.                        *)
FairSpec == Spec /\ WF_vars(\E t \in Threads : AllocStep(t) \/ FreeStep(t))

-----------------------------------------------------------------------------
(* A probe ends: an array has an EMPTY bucket, tombstones notwithstanding. *)
ProbeEnds == cap > 0 => Is(slots, {EMPTY}) # {}

(* The table knows exactly the narrow blocks of the system allocator: a    *)
(* probe finds the descriptor of each, whatever was removed and rehashed   *)
(* since, and finds none for a block of a heap or for a free address.  The *)
(* probe ends, and used and live are the counts of the buckets.            *)
TableIsExact ==
    /\ TypeOK
    /\ ProbeEnds
    /\ \A a \in Addrs :
         /\ block[a] = "exact" /\ ~ Holding(a) => find(a) # EMPTY
         /\ block[a] \in {"free", "plain", "heap"} => find(a) = EMPTY

(* A free goes where the block came from: to the system only with a        *)
(* descriptor taken, to the heaps only a block of theirs.  At process exit *)
(* a block of the system may be left to the heaps, which ignore it.  Two   *)
(* registrations of one address, which are fatal, do not happen.           *)
FreeGoesHome ==
    \A t \in Threads :
        /\ pc[t] # "fatal"
        /\ At(t, "sys_free") => block[addr[t]] = "exact"
        /\ At(t, "heap_free") /\ ~ ExitInProgress => block[addr[t]] = "heap"

(* Process exit is not blocked by a shard that a stopped thread holds.     *)
ExitIsNotBlocked ==
    ExitInProgress ~> (ExitInProgress /\ pc[exiting] = "idle")
=============================================================================
