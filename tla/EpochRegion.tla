---------------------------- MODULE EpochRegion ----------------------------
(***************************************************************************)
(* A region of a fixed number of slots: src/concurrent/epoch, and the      *)
(* routing of src/concurrent/sharded.                                      *)
(*                                                                         *)
(* A slot has a generation and a value.  Insert takes a free slot under    *)
(* the writer's mutex; a removal moves the generation on by a compare-and- *)
(* swap, takes the value out and gives the slot back: a thread of this     *)
(* shard under the mutex, any other thread through a queue that the next   *)
(* writer drains when a hint says so.  Readers take no lock: they look at  *)
(* the generation, the value and the generation again, and are pinned, so  *)
(* that a value taken out is destroyed only when they are gone.            *)
(*                                                                         *)
(* A value is named by the generation it was installed at.                 *)
(***************************************************************************)
EXTENDS Integers, FiniteSets, Sequences

CONSTANTS Threads,
          CAP,          \* the number of slots
          MAX_GEN,      \* u32::MAX, where a slot is retired
          None, Pending

Slots == 0 .. CAP - 1
Handles == [index : Slots, generation : 0 .. MAX_GEN]

RegionAssumption ==
    /\ CAP \in Nat \ {0} /\ MAX_GEN \in Nat \ {0}
    /\ IsFiniteSet(Threads)
    /\ None \notin Threads \cup (0 .. MAX_GEN) /\ None # Pending
    /\ {None, Pending} \cap Handles = {}

VARIABLES
    state,    \* the thread that holds the writer's mutex, or None
    free,     \* FreeState.free
    queue,    \* remote_free
    pending,  \* remote_free_pending
    gen, value, len,
    pinned,   \* the threads that hold a guard of the epoch
    limbo,    \* values given to defer_destroy, with the pinned threads each
              \* one waits for
    issued,   \* history: the handles given out
    answer,   \* what the last call of a thread returned, or Pending
    rpc, op   \* where each thread is, and its call

slotVars == <<gen, value>>
listVars == <<free, queue, pending>>
epochVars == <<pinned, limbo>>
vars == <<state, listVars, slotVars, len, epochVars, issued, answer, rpc, op>>

NoCall == [handle |-> None, got |-> None, mine |-> FALSE]

Init ==
    /\ state = None
    /\ free = [i \in 1 .. CAP |-> i - 1] /\ queue = <<>> /\ pending = FALSE
    /\ gen = [s \in Slots |-> 0] /\ value = [s \in Slots |-> None] /\ len = 0
    /\ pinned = {} /\ limbo = <<>>
    /\ issued = {}
    /\ answer = [t \in Threads |-> None]
    /\ rpc = [t \in Threads |-> "idle"] /\ op = [t \in Threads |-> NoCall]

At(t, label) == rpc[t] = label
Goto(t, label) == rpc' = [rpc EXCEPT ![t] = label]
Answer(t, r) == answer' = [answer EXCEPT ![t] = r]
Done(t) == Goto(t, "idle") /\ op' = [op EXCEPT ![t] = NoCall]

(* The handle of the call of t, its slot and the generation of it.         *)
Handle(t) == op[t].handle
Slot(t) == Handle(t).index
Gen(t) == Handle(t).generation

(* The guard of the epoch is dropped: nothing waits for this thread.       *)
Unpin(t) ==
    /\ pinned' = pinned \ {t}
    /\ limbo' = [o \in DOMAIN limbo |-> limbo[o] \ {t}]

Pin(t) == pinned' = pinned \cup {t} /\ UNCHANGED limbo

(* A value that nothing waits for may have been destroyed.                 *)
Gone(o) == o \in DOMAIN limbo /\ limbo[o] = {}

Begin(t, label, call) ==
    /\ At(t, "idle")
    /\ Goto(t, label)
    /\ op' = [op EXCEPT ![t] = call]
    /\ Answer(t, Pending)

-----------------------------------------------------------------------------
Insert(t) ==
    /\ Begin(t, "lock", NoCall)
    /\ UNCHANGED <<state, listVars, slotVars, len, epochVars, issued>>

(* The writer's mutex: of insert, and of remove once the slot is evicted.  *)
Lock(t) ==
    /\ rpc[t] \in {"lock", "relock"}
    /\ state = None
    /\ state' = t
    /\ Goto(t, IF At(t, "lock") THEN "hint" ELSE "rehint")
    /\ UNCHANGED <<listVars, slotVars, len, epochVars, issued, answer, op>>

(* Wrong variant: also the slot at its last generation is used again. *)
ReusableAlways(t) == Gen(t) + 1 <= MAX_GEN

(* A slot that has come to its last generation is retired.                 *)
Reusable(t) == Gen(t) + 1 # MAX_GEN

(* Wrong variant: a queue that the hint says is empty is not looked at. *)
MustDrainOnHint(t, hint) == hint

(* The hint decides; an insert without a free slot drains in any case.     *)
MustDrain(t, hint) == hint \/ (At(t, "hint") /\ free = <<>>)

(* The last slot of the free list is taken, or the insert is refused.      *)
Take(t, list) ==
    IF list = <<>>
      THEN /\ Answer(t, None) /\ Done(t)
           /\ state' = None
           /\ free' = list
    ELSE LET s == list[Len(list)]
         IN  /\ op' = [op EXCEPT ![t].handle = [index |-> s, generation |-> gen[s]]]
             /\ free' = SubSeq(list, 1, Len(list) - 1)
             /\ Goto(t, "install")
             /\ UNCHANGED <<state, answer>>

(* The slot of a removal joins the free list, unless it is retired.        *)
Relist(t, list) ==
    /\ free' = IF Reusable(t) THEN Append(list, Slot(t)) ELSE list
    /\ state' = None
    /\ Done(t) /\ Unpin(t)
    /\ UNCHANGED answer

(* The hint is a relaxed load, which may lag behind.                       *)
Hint(t) ==
    /\ rpc[t] \in {"hint", "rehint"}
    /\ \E hint \in {pending, FALSE} :
         IF MustDrain(t, hint)
           THEN /\ Goto(t, IF At(t, "hint") THEN "drain" ELSE "redrain")
                /\ UNCHANGED <<state, free, epochVars, answer, op>>
         ELSE IF At(t, "hint") THEN Take(t, free) /\ UNCHANGED epochVars
         ELSE Relist(t, free)
    /\ UNCHANGED <<queue, pending, slotVars, len, issued>>

(* The free list after the slots of the queue, in order, have joined it,    *)
(* but for those that are retired.                                         *)
Joined(list, slots) ==
    LET after[k \in 0 .. Len(slots)] ==
          IF k = 0 THEN list
          ELSE IF gen[slots[k]] = MAX_GEN THEN after[k - 1]
          ELSE Append(after[k - 1], slots[k])
    IN  after[Len(slots)]

(* drain_remote_free: the hint is cleared and the queue taken under the    *)
(* lock of the queue.                                                      *)
Drain(t) ==
    /\ rpc[t] \in {"drain", "redrain"}
    /\ pending' = FALSE
    /\ queue' = <<>>
    /\ LET list == Joined(free, queue)
       IN  IF At(t, "drain") THEN Take(t, list) /\ UNCHANGED epochVars
           ELSE Relist(t, list)
    /\ UNCHANGED <<slotVars, len, issued>>

(* AtomicSlot::install: the value is published.                            *)
Install(t) ==
    /\ At(t, "install")
    /\ value' = [value EXCEPT ![Slot(t)] = Gen(t)]
    /\ Goto(t, "mint")
    /\ UNCHANGED <<state, listVars, gen, len, epochVars, issued, answer, op>>

(* The handle gets the generation that the slot has now.                   *)
Mint(t) ==
    /\ At(t, "mint")
    /\ LET h == [index |-> Slot(t), generation |-> gen[Slot(t)]]
       IN  issued' = issued \cup {h} /\ Answer(t, h)
    /\ len' = len + 1
    /\ state' = None
    /\ Done(t)
    /\ UNCHANGED <<listVars, slotVars, epochVars>>

-----------------------------------------------------------------------------
(* A thread whose shard this is removes under the mutex (remove), another  *)
(* one through the queue (remote_evict); a shard may have several threads  *)
(* or none.                                                                *)
Discard(t, h, mine) ==
    /\ Begin(t, "evict", [NoCall EXCEPT !.handle = h, !.mine = mine])
    /\ Pin(t)
    /\ UNCHANGED <<state, listVars, slotVars, len, issued>>

(* try_evict_at: of the removals of a handle one moves the generation on.  *)
Evict(t) ==
    /\ At(t, "evict")
    /\ Gen(t) # MAX_GEN /\ gen[Slot(t)] = Gen(t)
    /\ gen' = [gen EXCEPT ![Slot(t)] = @ + 1]
    /\ Answer(t, Handle(t))
    /\ Goto(t, "swap")
    /\ UNCHANGED <<state, listVars, value, len, epochVars, issued, op>>

Stale(t) ==
    /\ At(t, "evict")
    /\ Gen(t) = MAX_GEN \/ gen[Slot(t)] # Gen(t)
    /\ Answer(t, None)
    /\ Done(t) /\ Unpin(t)
    /\ UNCHANGED <<state, listVars, slotVars, len, issued>>

(* The value is taken out, and destroyed when all who are pinned now have  *)
(* let go.  A slot that has no value is none of ours.                      *)
Swap(t) ==
    /\ At(t, "swap")
    /\ LET old == [Handle(t) EXCEPT !.generation = value[Slot(t)]]
       IN  IF value[Slot(t)] = None
             THEN Answer(t, None) /\ Done(t) /\ Unpin(t)
             ELSE /\ limbo' = [o \in DOMAIN limbo \cup {old} |->
                                 IF o = old THEN pinned ELSE limbo[o]]
                  /\ Goto(t, "uncount")
                  /\ UNCHANGED <<answer, op, pinned>>
    /\ value' = [value EXCEPT ![Slot(t)] = None]
    /\ UNCHANGED <<state, listVars, gen, len, issued>>

Uncount(t) ==
    /\ At(t, "uncount")
    /\ len' = len - 1
    /\ IF op[t].mine THEN Goto(t, "relock") /\ UNCHANGED <<op, epochVars>>
       ELSE IF Reusable(t) THEN Goto(t, "push") /\ UNCHANGED <<op, epochVars>>
       ELSE Done(t) /\ Unpin(t)
    /\ UNCHANGED <<state, listVars, slotVars, issued, answer>>

Push(t) ==
    /\ At(t, "push")
    /\ queue' = Append(queue, Slot(t))
    /\ Goto(t, "notify")
    /\ UNCHANGED <<state, free, pending, slotVars, len, epochVars, issued, answer, op>>

Notify(t) ==
    /\ At(t, "notify")
    /\ pending' = TRUE
    /\ Done(t) /\ Unpin(t)
    /\ UNCHANGED <<state, free, queue, slotVars, len, issued, answer>>

-----------------------------------------------------------------------------
(* get_with and AtomicSlot::read_with.                                     *)
Get(t, h) ==
    /\ Begin(t, "generation", [NoCall EXCEPT !.handle = h])
    /\ Pin(t)
    /\ UNCHANGED <<state, listVars, slotVars, len, issued>>

Miss(t) == Answer(t, None) /\ Done(t) /\ Unpin(t)

ReadGeneration(t) ==
    /\ At(t, "generation")
    /\ IF gen[Slot(t)] # Gen(t) THEN Miss(t)
       ELSE Goto(t, "value") /\ UNCHANGED <<answer, op, epochVars>>
    /\ UNCHANGED <<state, listVars, slotVars, len, issued>>

ReadValue(t) ==
    /\ At(t, "value")
    /\ IF value[Slot(t)] = None THEN Miss(t)
       ELSE /\ Goto(t, "validate")
            /\ op' = [op EXCEPT ![t].got = value[Slot(t)]]
            /\ UNCHANGED <<answer, epochVars>>
    /\ UNCHANGED <<state, listVars, slotVars, len, issued>>

(* Wrong variant: the generation is not looked at again. *)
StillThereUnchecked(t) == TRUE

StillThere(t) == gen[Slot(t)] = Gen(t)

(* The generation again: the value may be that of a later handle.          *)
Validate(t) ==
    /\ At(t, "validate")
    /\ IF StillThere(t)
         THEN /\ Answer(t, [Handle(t) EXCEPT !.generation = op[t].got])
              /\ Goto(t, "use") /\ UNCHANGED <<op, epochVars>>
         ELSE Miss(t)
    /\ UNCHANGED <<state, listVars, slotVars, len, issued>>

(* The closure has seen the value.                                         *)
Use(t) ==
    /\ At(t, "use")
    /\ Done(t) /\ Unpin(t)
    /\ UNCHANGED <<state, listVars, slotVars, len, issued, answer>>

Next ==
    \E t \in Threads :
        \/ Insert(t) \/ Lock(t) \/ Hint(t) \/ Drain(t) \/ Install(t) \/ Mint(t)
        \/ Evict(t) \/ Stale(t) \/ Swap(t) \/ Uncount(t) \/ Push(t) \/ Notify(t)
        \/ ReadGeneration(t) \/ ReadValue(t) \/ Validate(t) \/ Use(t)
        \/ \E h \in issued : Get(t, h) \/ \E mine \in BOOLEAN : Discard(t, h, mine)

Spec == Init /\ [][Next]_vars

-----------------------------------------------------------------------------
Live == {h \in issued : gen[h.index] = h.generation}

(* The threads between taking a slot and giving it away.                   *)
Installers(s) == {t \in Threads : rpc[t] \in {"install", "mint"} /\ Slot(t) = s}
Evicting(s) ==
    {t \in Threads :
        /\ rpc[t] \in {"swap", "uncount", "relock", "rehint", "redrain", "push"}
        /\ Slot(t) = s}

Occurrences(s, seq) == Cardinality({i \in DOMAIN seq : seq[i] = s})

(* Each slot is in one place: it has a live handle, is free, waits in the  *)
(* queue, is in the hands of one thread, or is retired; it has a value     *)
(* when it is live or about to be, and len counts the live ones and those  *)
(* about to be taken off.                                                  *)
SlotsHaveOnePlace ==
    /\ \A s \in Slots :
         /\ Cardinality({h \in Live : h.index = s}) + Occurrences(s, free)
              + Occurrences(s, queue) + Cardinality(Installers(s) \cup Evicting(s))
              = IF gen[s] = MAX_GEN /\ Evicting(s) = {} THEN 0 ELSE 1
         /\ value[s] # None <=>
              \/ \E h \in Live : h.index = s
              \/ \E t \in Installers(s) : At(t, "mint")
              \/ \E t \in Evicting(s) : At(t, "swap")
    /\ len = Cardinality(Live)
             + Cardinality({t \in Threads : rpc[t] \in {"swap", "uncount"}})

(* Who looks at a value looks at that of its own handle, and it has not    *)
(* been destroyed.                                                         *)
ReadersAreSafe ==
    \A t \in Threads : At(t, "use") =>
        op[t].got = Gen(t) /\ ~ Gone([Handle(t) EXCEPT !.generation = op[t].got])

(* A slot is never lost or used twice, and a reader never sees the value   *)
(* of another handle or one that is destroyed, whoever inserts and removes *)
(* meanwhile (try_evict_at, drain_remote_free, read_with).                 *)
RegionAccounts == SlotsHaveOnePlace /\ ReadersAreSafe

(* The call of t that has no answer yet, as a store of handles has it.     *)
Asked(t) ==
    CASE rpc[t] \in {"lock", "hint", "drain", "install", "mint"} -> <<"insert">>
      [] rpc[t] \in {"generation", "value", "validate"} -> <<"get", Handle(t)>>
      [] At(t, "evict") -> <<"remove", Handle(t)>>
      [] OTHER -> None

Store == INSTANCE HandleStore
    WITH live <- Live, dead <- issued \ Live, call <- [t \in Threads |-> Asked(t)]

(* The region is a store of handles, each call taking effect at one of its *)
(* accesses: a handle is given out once; a reader gets the value of the    *)
(* handle it asked for as long as that is live, and nothing afterwards     *)
(* (EpochHandle); and an insert is refused only if no slot is left on the  *)
(* free list or in the queue, whatever the hint said (insert).             *)
IsHandleStore ==
    /\ Store!Spec
    /\ [][\A t \in Threads :
            rpc[t] \in {"hint", "drain"} /\ rpc'[t] = "idle" => free = <<>> /\ queue = <<>>]_vars
=============================================================================
