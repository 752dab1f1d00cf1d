----------------------------- MODULE IndexStack -----------------------------
(***************************************************************************)
(* What the tagged index stack promises: a stack of indices, each of which *)
(* is either in the stack or owned by one thread.                          *)
(***************************************************************************)
EXTENDS Sequences

CONSTANTS Threads, Indices, Nobody

VARIABLES stack,   \* the indices in the stack, the top first
          owner    \* of each index: a thread, or Nobody

vars == <<stack, owner>>

Init == stack = <<>> /\ owner \in [Indices -> Threads]

Push(t, i) ==
    /\ owner[i] = t
    /\ stack' = <<i>> \o stack
    /\ owner' = [owner EXCEPT ![i] = Nobody]

Pop(t) ==
    /\ stack # <<>>
    /\ stack' = Tail(stack)
    /\ owner' = [owner EXCEPT ![Head(stack)] = t]

Next == \E t \in Threads : Pop(t) \/ \E i \in Indices : Push(t, i)

Spec == Init /\ [][Next]_vars
=============================================================================
