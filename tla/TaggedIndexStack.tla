-------------------------- MODULE TaggedIndexStack --------------------------
(***************************************************************************)
(* crates/tagged-index-stack: a lock-free stack of indices.  The head is   *)
(* one word of an index and a tag; the links are an array beside it.  A    *)
(* push bumps the tag, so that a pop that has slept over pops and pushes   *)
(* of its index fails its compare-and-swap; at its end the tag is not      *)
(* wrapped, pushes are refused instead.  One action per access.            *)
(***************************************************************************)
EXTENDS Integers, Sequences, FiniteSets

CONSTANTS Threads,
          Indices,     \* the link domain
          TAG_MAX,
          TAIL,        \* no index: end of a chain, index half of an empty head
          Nobody

(* What an instance must give the constants.                               *)
StackAssumption ==
    /\ TAG_MAX \in Nat
    /\ TAIL \notin Indices /\ Nobody \notin Threads
    /\ IsFiniteSet(Indices)

VARIABLES head,    \* the head word
          link,    \* the next index of each
          owner,   \* the thread that may push an index, or Nobody
          pc,      \* next access of each thread
          ix,      \* push: the index
          obs,     \* the head word the operation has observed
          nxt      \* pop: the link it has read

vars == <<head, link, owner, pc, ix, obs, nxt>>

Word == [index : Indices \cup {TAIL}, tag : 0 .. TAG_MAX]

(* StackHead::new; the indices start in the hands of the threads.          *)
EmptyHead == [index |-> TAIL, tag |-> 0]

TypeOK ==
    /\ head \in Word
    /\ link \in [Indices -> Indices \cup {TAIL}]
    /\ owner \in [Indices -> Threads \cup {Nobody}]
    /\ pc \in [Threads -> {"idle", "push_link", "push_cas", "pop_next",
                           "pop_cas", "fatal"}]
    /\ ix \in [Threads -> Indices \cup {TAIL}]
    /\ obs \in [Threads -> Word]
    /\ nxt \in [Threads -> Indices \cup {TAIL}]

Init ==
    /\ head = EmptyHead
    /\ link = [i \in Indices |-> TAIL]
    /\ owner \in [Indices -> Threads]
    /\ pc = [t \in Threads |-> "idle"]
    /\ ix = [t \in Threads |-> TAIL]
    /\ obs = [t \in Threads |-> EmptyHead]
    /\ nxt = [t \in Threads |-> TAIL]

Set(f, a, v) == [f EXCEPT ![a] = v]
Goto(t, label) == pc' = Set(pc, t, label)

Return(t) ==
    /\ Goto(t, "idle")
    /\ ix' = Set(ix, t, TAIL)
    /\ obs' = Set(obs, t, EmptyHead)
    /\ nxt' = Set(nxt, t, TAIL)

-----------------------------------------------------------------------------
Push(t, i) ==
    /\ pc[t] = "idle" /\ owner[i] = t
    /\ ix' = Set(ix, t, i)
    /\ obs' = Set(obs, t, head)
    /\ Goto(t, "push_link")
    /\ UNCHANGED <<head, link, owner, nxt>>

(* Wrong variant: the index is taken for the first one. *)
PushLinkTail(t) ==
    /\ pc[t] = "push_link" /\ obs[t].tag < TAG_MAX
    /\ link' = Set(link, ix[t], TAIL)
    /\ Goto(t, "push_cas")
    /\ UNCHANGED <<head, owner, ix, obs, nxt>>

(* The push is refused once the tag is used up; else the index is chained  *)
(* to the head that was observed.                                          *)
PushLink(t) ==
    /\ pc[t] = "push_link"
    /\ IF obs[t].tag = TAG_MAX
         THEN Return(t) /\ UNCHANGED link
         ELSE /\ link' = Set(link, ix[t], obs[t].index)
              /\ Goto(t, "push_cas")
              /\ UNCHANGED <<ix, obs, nxt>>
    /\ UNCHANGED <<head, owner>>

(* Wrong variant: the tag stays as it is. *)
PushCasUntagged(t) ==
    /\ pc[t] = "push_cas"
    /\ IF head = obs[t]
         THEN /\ head' = [index |-> ix[t], tag |-> obs[t].tag]
              /\ owner' = Set(owner, ix[t], Nobody)
              /\ Return(t)
         ELSE obs' = Set(obs, t, head) /\ Goto(t, "push_link")
              /\ UNCHANGED <<head, owner, ix, nxt>>
    /\ UNCHANGED link

PushCas(t) ==
    /\ pc[t] = "push_cas"
    /\ IF head = obs[t]
         THEN /\ head' = [index |-> ix[t], tag |-> obs[t].tag + 1]
              /\ owner' = Set(owner, ix[t], Nobody)
              /\ Return(t)
         ELSE /\ obs' = Set(obs, t, head)
              /\ Goto(t, "push_link")
              /\ UNCHANGED <<head, owner, ix, nxt>>
    /\ UNCHANGED link

-----------------------------------------------------------------------------
Pop(t) ==
    /\ pc[t] = "idle"
    /\ obs' = Set(obs, t, head)
    /\ Goto(t, "pop_next")
    /\ UNCHANGED <<head, link, owner, ix, nxt>>

(* An empty head ends the pop.  A link to the index itself is corrupt and  *)
(* panics.                                                                 *)
PopNext(t) ==
    /\ pc[t] = "pop_next"
    /\ LET i == obs[t].index
       IN  IF i = TAIL
             THEN Return(t)
             ELSE /\ nxt' = Set(nxt, t, link[i])
                  /\ Goto(t, IF link[i] = i THEN "fatal" ELSE "pop_cas")
                  /\ UNCHANGED <<ix, obs>>
    /\ UNCHANGED <<head, link, owner>>

PopCas(t) ==
    /\ pc[t] = "pop_cas"
    /\ IF head = obs[t]
         THEN /\ head' = [index |-> nxt[t], tag |-> obs[t].tag]
              /\ owner' = Set(owner, obs[t].index, t)
              /\ Return(t)
         ELSE /\ obs' = Set(obs, t, head)
              /\ nxt' = Set(nxt, t, TAIL)
              /\ Goto(t, "pop_next")
              /\ UNCHANGED <<head, owner, ix>>
    /\ UNCHANGED link

-----------------------------------------------------------------------------
Step(t) == PushLink(t) \/ PushCas(t) \/ PopNext(t) \/ PopCas(t)

Next == \E t \in Threads : Step(t) \/ Pop(t) \/ \E i \in Indices : Push(t, i)

Spec == Init /\ [][Next]_vars

(* An operation that has begun runs on.                                    *)
FairSpec == Spec /\ \A t \in Threads : WF_vars(Step(t))

-----------------------------------------------------------------------------
(* Where one is after n steps from h along the links l, and the indices    *)
(* that one comes by.                                                      *)
Hops(h, l) ==
    LET at[n \in 0 .. Cardinality(Indices)] ==
          IF n = 0 THEN h
          ELSE IF at[n - 1] = TAIL THEN TAIL ELSE l[at[n - 1]]
    IN  at

ChainFrom(h, l) ==
    LET n == CHOOSE m \in 0 .. Cardinality(Indices) :
               /\ Hops(h, l)[m] = TAIL \/ m = Cardinality(Indices)
               /\ \A k \in 0 .. m - 1 : Hops(h, l)[k] # TAIL
    IN  [k \in 1 .. n |-> Hops(h, l)[k - 1]]

Chain == ChainFrom(head.index, link)

(* Each index is owned by one thread or linked into the stack once, and a  *)
(* pop never reads a corrupt link, however long it slept before the read   *)
(* (the retry-overwrite argument of push_index_impl).                      *)
ChainIsFree ==
    /\ \A i \in Indices :
         Cardinality({k \in DOMAIN Chain : Chain[k] = i})
           = IF owner[i] = Nobody THEN 1 ELSE 0
    /\ \A t \in Threads : pc[t] # "fatal"

(* The head, the links and the compare-and-swaps implement a stack: the    *)
(* tag excludes that a sleeping pop installs a link of an earlier life of  *)
(* its index (ABA), which would issue an index twice or lose a chain.      *)
Stack == INSTANCE IndexStack WITH stack <- Chain

IsStack == Stack!Spec

Busy(t) == pc[t] # "idle"

(* Lock freedom: of any group of threads inside operations one comes out,  *)
(* while the others stand still outside.                                   *)
LockFree ==
    \A S \in (SUBSET Threads) \ {{}} :
        (\A u \in Threads \ S : <>[] ~ Busy(u))
            => ((\A t \in S : Busy(t)) ~> \E t \in S : ~ Busy(t))
=============================================================================
