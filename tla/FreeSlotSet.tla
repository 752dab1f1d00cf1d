---------------------------- MODULE FreeSlotSet ----------------------------
(***************************************************************************)
(* What the FREE-slot hint of src/registry/bootstrap/free_slot_hint.rs     *)
(* promises its callers: a set of slot indices.  Publishing adds an index, *)
(* forgetting removes one, and taking hands one member of the set to the   *)
(* taker, and to nobody else.  A taker may also come away with nothing,    *)
(* whatever the set holds: the hint is not authoritative.                  *)
(***************************************************************************)
CONSTANTS Threads, Indices, NoIndex

VARIABLES avail,   \* the published indices
          hand     \* what each thread's current take removed, or NoIndex

vars == <<avail, hand>>

Init == avail = {} /\ hand = [t \in Threads |-> NoIndex]

Publish(i) == avail' = avail \cup {i} /\ UNCHANGED hand

Forget(i) == avail' = avail \ {i} /\ UNCHANGED hand

Take(t, i) ==
    /\ i \in avail
    /\ hand[t] = NoIndex
    /\ avail' = avail \ {i}
    /\ hand' = [hand EXCEPT ![t] = i]

Return(t) == hand' = [hand EXCEPT ![t] = NoIndex] /\ UNCHANGED avail

Next == \/ \E i \in Indices : Publish(i) \/ Forget(i)
        \/ \E t \in Threads : Return(t) \/ \E i \in Indices : Take(t, i)

Spec == Init /\ [][Next]_vars
=============================================================================
