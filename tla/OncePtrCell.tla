---------------------------- MODULE OncePtrCell ----------------------------
(***************************************************************************)
(* crates/once-ptr-cell: a pointer that is initialised on first use, which *)
(* the registry keeps for each of its chunks.  The cell is one word: Null, *)
(* the SENTINEL while a winner runs its init, or the published pointer.    *)
(* One action per access of the word in get_or_try_init; init itself may   *)
(* take any time and ends with an address, with nothing (out of memory) or *)
(* with an unwinding panic.                                                *)
(***************************************************************************)
CONSTANTS Threads,    \* callers
          Ptrs,       \* addresses that init may produce
          Null, SENTINEL, Pending, Unwound

ASSUME CellAssumption ==
    /\ SENTINEL \notin Ptrs \cup {Null}
    /\ {Null, Unwound, Pending} \cap Ptrs = {}
    /\ Pending \notin {Null, Unwound}

VARIABLES ptr,    \* the word of the cell
          pc,     \* next access of each thread
          raw,    \* what the init of a winner produced
          ret     \* what the last call of each thread returned

vars == <<ptr, pc, raw, ret>>

TypeOK ==
    /\ ptr \in Ptrs \cup {Null, SENTINEL}
    /\ pc \in [Threads -> {"idle", "load", "reload", "cas", "init", "publish",
                           "rollback", "unwind", "spin"}]
    /\ raw \in [Threads -> Ptrs \cup {Null}]
    /\ ret \in [Threads -> Ptrs \cup {Null, Unwound}]

Init ==
    /\ ptr = Null
    /\ pc = [t \in Threads |-> "idle"]
    /\ raw = [t \in Threads |-> Null]
    /\ ret = [t \in Threads |-> Null]

is_ready(p) == p \notin {Null, SENTINEL}

Goto(t, label) == pc' = [pc EXCEPT ![t] = label]

Return(t, r) == Goto(t, "idle") /\ ret' = [ret EXCEPT ![t] = r]

get(t) ==
    /\ pc[t] = "idle"
    /\ Return(t, IF is_ready(ptr) THEN ptr ELSE Null)
    /\ UNCHANGED <<ptr, raw>>

get_or_try_init(t) ==
    pc[t] = "idle" /\ Goto(t, "load") /\ UNCHANGED <<ptr, raw, ret>>

(* The fast path, and the same test at the top of the loop of init_slow.   *)
Load(t) ==
    /\ pc[t] \in {"load", "reload"}
    /\ IF is_ready(ptr)
         THEN Return(t, ptr)
         ELSE Goto(t, IF pc[t] = "load" THEN "reload" ELSE "cas") /\ UNCHANGED ret
    /\ UNCHANGED <<ptr, raw>>

(* Wrong variant: the sentinel is stored over whatever is there. *)
ClaimStore(t) ==
    pc[t] = "cas" /\ ptr' = SENTINEL /\ Goto(t, "init") /\ UNCHANGED <<raw, ret>>

Claim(t) ==
    /\ pc[t] = "cas"
    /\ IF ptr = Null
         THEN ptr' = SENTINEL /\ Goto(t, "init")
         ELSE Goto(t, "spin") /\ UNCHANGED ptr
    /\ UNCHANGED <<raw, ret>>

(* The winner's init ends; the assertion on its result refuses the address *)
(* of the sentinel and unwinds.                                            *)
InitSome(t, p) ==
    /\ pc[t] = "init"
    /\ IF is_ready(p)
         THEN raw' = [raw EXCEPT ![t] = p] /\ Goto(t, "publish")
         ELSE Goto(t, "unwind") /\ UNCHANGED raw
    /\ UNCHANGED <<ptr, ret>>

InitNone(t) ==
    pc[t] = "init" /\ Goto(t, "rollback") /\ UNCHANGED <<ptr, raw, ret>>

InitUnwinds(t) ==
    pc[t] = "init" /\ Goto(t, "unwind") /\ UNCHANGED <<ptr, raw, ret>>

(* Wrong variant: the guard is not defused and rolls the cell back. *)
PublishUndefused(t) ==
    /\ pc[t] = "publish"
    /\ ptr' = raw[t]
    /\ raw' = [raw EXCEPT ![t] = Null]
    /\ ret' = [ret EXCEPT ![t] = raw[t]]
    /\ Goto(t, "rollback")

Publish(t) ==
    /\ pc[t] = "publish"
    /\ ptr' = raw[t]
    /\ raw' = [raw EXCEPT ![t] = Null]
    /\ Return(t, raw[t])

Rollback(t) ==
    pc[t] = "rollback" /\ ptr' = Null /\ Return(t, Null) /\ UNCHANGED raw

(* RollbackGuard::drop while init, or the assertion on its result, unwinds *)
Unwind(t) ==
    pc[t] = "unwind" /\ ptr' = Null /\ Return(t, Unwound) /\ UNCHANGED raw

(* Wrong variant: waits for a pointer only. *)
SpinForReady(t) ==
    pc[t] = "spin" /\ is_ready(ptr) /\ Return(t, ptr) /\ UNCHANGED <<ptr, raw>>

(* The loser waits while the cell is being initialised and races again     *)
(* when the winner has rolled it back.                                     *)
Spin(t) ==
    /\ pc[t] = "spin" /\ ptr # SENTINEL
    /\ IF ptr = Null THEN Goto(t, "reload") /\ UNCHANGED ret ELSE Return(t, ptr)
    /\ UNCHANGED <<ptr, raw>>

Step(t) ==
    \/ Load(t) \/ Claim(t) \/ Publish(t) \/ Rollback(t) \/ Unwind(t) \/ Spin(t)
    \/ InitNone(t) \/ InitUnwinds(t) \/ \E p \in Ptrs \cup {SENTINEL} : InitSome(t, p)

Next == \E t \in Threads : get(t) \/ get_or_try_init(t) \/ Step(t)

Spec == Init /\ [][Next]_vars

(* A call that has begun runs on; init ends.                               *)
FairSpec == Spec /\ \A t \in Threads : WF_vars(Step(t))

-----------------------------------------------------------------------------
Winners == {t \in Threads : pc[t] \in {"init", "publish", "rollback", "unwind"}}

(* One thread at a time runs init, and the cell says so: it holds the      *)
(* sentinel exactly while there is a winner, so nobody waits for a winner  *)
(* that is gone and no rollback hits a published pointer.                  *)
SoleInitialiser ==
    /\ \A t, u \in Winners : t = u
    /\ ptr = SENTINEL <=> Winners # {}

(* Every call sees one value that is set once: the cell implements it.     *)
Value == INSTANCE OnceValue
    WITH value <- IF is_ready(ptr) THEN ptr ELSE Null,
         answer <- [t \in Threads |-> IF pc[t] = "idle" THEN ret[t] ELSE Pending]

SetOnce == Value!Spec

(* A call ends once the other threads stand still outside the cell, even   *)
(* after an init that failed or unwound: the losers are set free to race   *)
(* again (the anti-livelock rule of init_slow).                            *)
CallEnds ==
    \A t \in Threads :
        (\A u \in Threads \ {t} : <>[](pc[u] = "idle"))
            => (pc[t] # "idle" ~> pc[t] = "idle")
=============================================================================
