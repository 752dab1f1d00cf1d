----------------------------- MODULE OnceValue -----------------------------
(***************************************************************************)
(* What a OncePtrCell promises its callers: a value that is set once.  A   *)
(* call returns the value if there is one; while there is none it may set  *)
(* it, or come away without: out of memory or unwinding.                   *)
(***************************************************************************)
CONSTANTS Threads, Ptrs, Null, Pending, Unwound

VARIABLES value,    \* the value, or Null
          answer    \* what the last call of each thread returned, or Pending

vars == <<value, answer>>

Answer(t, r) == answer' = [answer EXCEPT ![t] = r]

Init == value = Null /\ answer = [t \in Threads |-> Null]

Call(t) == answer[t] # Pending /\ Answer(t, Pending) /\ UNCHANGED value

Construct(t, p) ==
    /\ answer[t] = Pending /\ value = Null
    /\ value' = p
    /\ Answer(t, p)

Give(t) ==
    answer[t] = Pending /\ value # Null /\ Answer(t, value) /\ UNCHANGED value

Fail(t, r) ==
    answer[t] = Pending /\ value = Null /\ Answer(t, r) /\ UNCHANGED value

Get(t) == answer[t] # Pending /\ Answer(t, value) /\ UNCHANGED value

Next == \E t \in Threads :
            \/ Call(t) \/ Give(t) \/ Get(t) \/ Fail(t, Null) \/ Fail(t, Unwound)
            \/ \E p \in Ptrs : Construct(t, p)

Spec == Init /\ [][Next]_vars
=============================================================================
