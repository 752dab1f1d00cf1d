---------------------------- MODULE HandleStore ----------------------------
(***************************************************************************)
(* What the regions of src/concurrent promise their callers.  An insert    *)
(* gives out a handle that nobody has had before, or is refused; a get of  *)
(* a handle returns the value it was given out for until the handle is     *)
(* removed, and nothing ever after; of several removals of one handle one  *)
(* succeeds.  Only an insert can be refused: a get or a removal of a live  *)
(* handle finds it.  A value is named by the handle it was inserted under. *)
(***************************************************************************)
CONSTANTS Threads, Handles, None, Pending

VARIABLES live,     \* the handles that lead to their value
          dead,     \* the handles that no longer do
          call,     \* the call of each thread that has no answer yet, or None
          answer    \* what the last call of each thread returned, or Pending

vars == <<live, dead, call, answer>>

InsertCall == <<"insert">>
GetCall(h) == <<"get", h>>
RemoveCall(h) == <<"remove", h>>

Init ==
    /\ live = {} /\ dead = {}
    /\ call = [t \in Threads |-> None]
    /\ answer = [t \in Threads |-> None]

Ask(t, c) ==
    /\ call[t] = None
    /\ call' = [call EXCEPT ![t] = c]
    /\ answer' = [answer EXCEPT ![t] = Pending]
    /\ UNCHANGED <<live, dead>>

(* The call c of t ends with r.                                            *)
Return(t, c, r) ==
    /\ call[t] = c
    /\ call' = [call EXCEPT ![t] = None]
    /\ answer' = [answer EXCEPT ![t] = r]

Insert(t, h) ==
    /\ Return(t, InsertCall, h)
    /\ h \notin live \cup dead
    /\ live' = live \cup {h}
    /\ UNCHANGED dead

Refuse(t) == Return(t, InsertCall, None) /\ UNCHANGED <<live, dead>>

Found(h) == IF h \in live THEN h ELSE None

Get(t, h) == Return(t, GetCall(h), Found(h)) /\ UNCHANGED <<live, dead>>

(* A get that is a single step.                                            *)
Look(t, h) == Return(t, None, Found(h)) /\ UNCHANGED <<live, dead>>

Remove(t, h) ==
    /\ Return(t, RemoveCall(h), Found(h))
    /\ live' = live \ {h}
    /\ dead' = dead \cup (live \cap {h})

Next ==
    \E t \in Threads :
        \/ Ask(t, InsertCall) \/ Refuse(t)
        \/ \E h \in Handles : Insert(t, h)
        \/ \E h \in live \cup dead :
             \/ Ask(t, GetCall(h)) \/ Ask(t, RemoveCall(h))
             \/ Get(t, h) \/ Look(t, h) \/ Remove(t, h)

Spec == Init /\ [][Next]_vars
=============================================================================
