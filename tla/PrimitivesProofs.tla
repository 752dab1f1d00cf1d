-------------------------- MODULE PrimitivesProofs --------------------------
(***************************************************************************)
(* For any number of threads.  The cell: one thread at a time runs the     *)
(* init of a OncePtrCell, and the cell is a value that is set once.  The   *)
(* tagged stack: its links form a chain of the free indices, and it is a   *)
(* stack.  The FREE-slot bitmap, for any number of words and bits: a word  *)
(* with a bit set is never lost from the summary, and the bitmap           *)
(* implements the set of indices of FreeSlotSet.                           *)
(***************************************************************************)
EXTENDS MCPrimitives, FiniteSetTheorems, SequenceTheorems,
        WellFoundedInduction, TLAPS

-----------------------------------------------------------------------------
(* The cell                                                                *)

(* What a winner publishes came out of its init.                           *)
RawIsMade == \A t \in Threads : pc[t] = "publish" => raw[t] \in Ptrs

Inv == TypeOK /\ RawIsMade /\ SoleInitialiser

LEMMA InitInv == Init => Inv
BY CellAssumption DEF Init, Inv, TypeOK, RawIsMade, SoleInitialiser, Winners

LEMMA StepType == ASSUME Inv, [Next]_vars PROVE TypeOK' /\ RawIsMade'
<1> USE CellAssumption DEF Inv, TypeOK, RawIsMade, Goto, Return, is_ready
<1>1. ASSUME NEW t \in Threads, get(t) \/ get_or_try_init(t) \/ Load(t) \/ Claim(t)
      PROVE  TypeOK' /\ RawIsMade'
  BY <1>1 DEF get, get_or_try_init, Load, Claim
<1>2. ASSUME NEW t \in Threads, NEW p \in Ptrs \cup {SENTINEL},
             InitSome(t, p) \/ InitNone(t) \/ InitUnwinds(t)
      PROVE  TypeOK' /\ RawIsMade'
  BY <1>2 DEF InitSome, InitNone, InitUnwinds
<1>3. ASSUME NEW t \in Threads,
             \/ InitNone(t) \/ InitUnwinds(t)
             \/ Publish(t) \/ Rollback(t) \/ Unwind(t) \/ Spin(t)
      PROVE  TypeOK' /\ RawIsMade'
  BY <1>3 DEF InitNone, InitUnwinds, Publish, Rollback, Unwind, Spin
<1>4. CASE UNCHANGED vars
  BY <1>4 DEF vars
<1> QED
  BY <1>1, <1>2, <1>3, <1>4 DEF Next, Step

(* A step that neither makes nor unmakes a winner.                         *)
LEMMA SameWinners ==
    ASSUME Inv, ptr' = ptr, Winners' = Winners PROVE SoleInitialiser'
BY DEF Inv, SoleInitialiser

(* The step of the last winner.                                            *)
LEMMA LastWinner ==
    ASSUME Inv, NEW t \in Winners, Winners' = Winners \ {t}, ptr' # SENTINEL
    PROVE  SoleInitialiser'
BY DEF Inv, SoleInitialiser

LEMMA StepSole == ASSUME Inv, [Next]_vars PROVE SoleInitialiser'
<1> USE CellAssumption DEF Inv, TypeOK, Goto, Return, is_ready, Winners
<1>1. ASSUME NEW t \in Threads,
             get(t) \/ get_or_try_init(t) \/ Load(t) \/ Spin(t)
      PROVE  SoleInitialiser'
  <2>1. ptr' = ptr /\ Winners' = Winners
    BY <1>1 DEF get, get_or_try_init, Load, Spin
  <2> QED
    BY <2>1, SameWinners
<1>2. ASSUME NEW t \in Threads, InitNone(t) \/ InitUnwinds(t)
      PROVE  SoleInitialiser'
  <2>1. ptr' = ptr /\ Winners' = Winners
    BY <1>2 DEF InitNone, InitUnwinds
  <2> QED
    BY <2>1, SameWinners
<1>3. ASSUME NEW t \in Threads, NEW p \in Ptrs \cup {SENTINEL}, InitSome(t, p)
      PROVE  SoleInitialiser'
  <2>1. ptr' = ptr /\ Winners' = Winners
    BY <1>3 DEF InitSome
  <2> QED
    BY <2>1, SameWinners
<1>4. ASSUME NEW t \in Threads, Claim(t) PROVE SoleInitialiser'
  <2>1. CASE ptr = Null
    <3>1. ptr' = SENTINEL /\ Winners' = Winners \cup {t} /\ Winners = {}
      BY <1>4, <2>1 DEF Claim, SoleInitialiser
    <3> QED
      BY <3>1 DEF SoleInitialiser
  <2>2. CASE ptr # Null
    <3>1. ptr' = ptr /\ Winners' = Winners
      BY <1>4, <2>2 DEF Claim
    <3> QED
      BY <3>1, SameWinners
  <2> QED
    BY <2>1, <2>2
<1>5. ASSUME NEW t \in Threads, Publish(t) \/ Rollback(t) \/ Unwind(t)
      PROVE  SoleInitialiser'
  <2>1. t \in Winners /\ Winners' = Winners \ {t}
    BY <1>5 DEF Publish, Rollback, Unwind
  <2>2. ptr' # SENTINEL
    BY <1>5 DEF Publish, Rollback, Unwind, RawIsMade
  <2> QED
    BY <2>1, <2>2, LastWinner
<1>6. CASE UNCHANGED vars
  <2>1. ptr' = ptr /\ Winners' = Winners
    BY <1>6 DEF vars
  <2> QED
    BY <2>1, SameWinners
<1> QED
  BY <1>1, <1>2, <1>3, <1>4, <1>5, <1>6 DEF Next, Step

LEMMA SpecInv == Spec => []Inv
<1>1. Inv /\ [Next]_vars => Inv'
  BY StepType, StepSole DEF Inv
<1> QED
  BY InitInv, <1>1, PTL DEF Spec

(* The word of the cell and the locals of its callers keep their type.     *)
THEOREM TypeCorrect == Spec => []TypeOK
<1>1. Inv => TypeOK
  BY DEF Inv
<1> QED
  BY SpecInv, <1>1, PTL

(* init runs in one thread at a time, and the sentinel stands exactly      *)
(* while it does (the winner arm of init_slow and its RollbackGuard).      *)
THEOREM OneInitialiser == Spec => []SoleInitialiser
<1>1. Inv => SoleInitialiser
  BY DEF Inv
<1> QED
  BY SpecInv, <1>1, PTL

-----------------------------------------------------------------------------
value == IF is_ready(ptr) THEN ptr ELSE Null
answer == [t \in Threads |-> IF pc[t] = "idle" THEN ret[t] ELSE Pending]

(* How a step of the cell shows in the answers.                            *)
LEMMA AnswerOf ==
    ASSUME Inv, NEW t \in Threads, NEW r, Return(t, r)
    PROVE  answer' = [answer EXCEPT ![t] = r]
<1>1. pc' = [pc EXCEPT ![t] = "idle"] /\ ret' = [ret EXCEPT ![t] = r]
  BY DEF Return, Goto
<1> QED
  BY <1>1 DEF answer, Inv, TypeOK

LEMMA SilentStep ==
    ASSUME Inv, NEW t \in Threads, NEW label, label # "idle", pc[t] # "idle",
           Goto(t, label), ret' = ret
    PROVE  answer' = answer
BY DEF Goto, answer, Inv, TypeOK

LEMMA PendingCall ==
    ASSUME Inv, NEW t \in Threads
    PROVE  answer[t] = Pending <=> pc[t] # "idle"
BY CellAssumption DEF answer, Inv, TypeOK

LEMMA StepSimulates == ASSUME Inv, [Next]_vars PROVE [Value!Next]_(Value!vars)
<1> USE CellAssumption DEF Value!vars, Value!Answer
<1>0. value = (IF is_ready(ptr) THEN ptr ELSE Null)
  BY DEF value
<1>1. ASSUME NEW t \in Threads, get(t) PROVE Value!Get(t)
  <2>1. answer' = [answer EXCEPT ![t] = value] /\ value' = value
    BY <1>1, AnswerOf DEF get, value
  <2>2. answer[t] # Pending
    BY <1>1, PendingCall DEF get
  <2> QED
    BY <2>1, <2>2 DEF Value!Get, value, answer
<1>2. ASSUME NEW t \in Threads, get_or_try_init(t) PROVE Value!Call(t)
  <2>1. answer' = [answer EXCEPT ![t] = Pending] /\ value' = value
    BY <1>2 DEF get_or_try_init, answer, value, Goto, Inv, TypeOK
  <2>2. answer[t] # Pending
    BY <1>2, PendingCall DEF get_or_try_init
  <2> QED
    BY <2>1, <2>2 DEF Value!Call, value, answer
<1>3. ASSUME NEW t \in Threads, Load(t) \/ Spin(t)
      PROVE  Value!Give(t) \/ UNCHANGED Value!vars
  <2>1. answer[t] = Pending /\ value' = value
    BY <1>3, PendingCall DEF Load, Spin, value
  <2>2. CASE is_ready(ptr)
    <3>1. Return(t, ptr) /\ value = ptr /\ ptr # Null
      BY <1>3, <2>2 DEF Load, Spin, value, is_ready
    <3>2. answer' = [answer EXCEPT ![t] = value]
      BY <3>1, AnswerOf
    <3> QED
      BY <2>1, <3>1, <3>2 DEF Value!Give, value, answer
  <2>3. CASE ~ is_ready(ptr)
    <3>1. ret' = ret /\ (Goto(t, "reload") \/ Goto(t, "cas")) /\ pc[t] # "idle"
      BY <1>3, <2>3 DEF Load, Spin, is_ready
    <3>2. answer' = answer
      BY <3>1, SilentStep
    <3> QED
      BY <2>1, <3>2 DEF value, answer
  <2> QED
    BY <2>2, <2>3
<1>4. ASSUME NEW t \in Threads, Claim(t) PROVE UNCHANGED Value!vars
  <2>1. value' = value
    BY <1>4 DEF Claim, value, is_ready
  <2>2. answer' = answer
    BY <1>4, SilentStep DEF Claim
  <2> QED
    BY <2>1, <2>2 DEF value, answer
<1>5. ASSUME NEW t \in Threads, NEW p \in Ptrs \cup {SENTINEL}, InitSome(t, p)
      PROVE  UNCHANGED Value!vars
  <2>1. answer' = answer /\ value' = value
    BY <1>5, SilentStep DEF InitSome, value
  <2> QED
    BY <2>1 DEF value, answer
<1>6. ASSUME NEW t \in Threads, InitNone(t) \/ InitUnwinds(t)
      PROVE  UNCHANGED Value!vars
  <2>1. answer' = answer /\ value' = value
    BY <1>6, SilentStep DEF InitNone, InitUnwinds, value
  <2> QED
    BY <2>1 DEF value, answer
<1>7. ASSUME NEW t \in Threads, pc[t] \in {"publish", "rollback", "unwind"}
      PROVE  value = Null /\ answer[t] = Pending
  <2>1. ptr = SENTINEL
    BY <1>7 DEF Inv, SoleInitialiser, Winners
  <2> QED
    BY <1>7, <2>1, PendingCall DEF value, is_ready
<1>8. ASSUME NEW t \in Threads, Publish(t)
      PROVE  \E p \in Ptrs : Value!Construct(t, p)
  <2>1. PICK p \in Ptrs : p = raw[t]
    BY <1>8 DEF Publish, Inv, RawIsMade
  <2>2. value' = p
    BY <1>8, <2>1 DEF Publish, value, is_ready
  <2>3. answer' = [answer EXCEPT ![t] = p]
    BY <1>8, <2>1, AnswerOf DEF Publish
  <2>4. Value!Construct(t, p)
    BY <1>7, <1>8, <2>2, <2>3 DEF Value!Construct, Publish, value, answer
  <2> QED
    BY <2>4
<1>9. ASSUME NEW t \in Threads, Rollback(t) PROVE Value!Fail(t, Null)
  <2>1. answer' = [answer EXCEPT ![t] = Null] /\ value' = Null
    BY <1>9, AnswerOf DEF Rollback, value, is_ready
  <2> QED
    BY <1>7, <1>9, <2>1 DEF Value!Fail, Rollback, value, answer
<1>10. ASSUME NEW t \in Threads, Unwind(t) PROVE Value!Fail(t, Unwound)
  <2>1. answer' = [answer EXCEPT ![t] = Unwound] /\ value' = Null
    BY <1>10, AnswerOf DEF Unwind, value, is_ready
  <2> QED
    BY <1>7, <1>10, <2>1 DEF Value!Fail, Unwind, value, answer
<1>11. CASE UNCHANGED vars
  BY <1>11 DEF vars, is_ready
<1> QED
  BY <1>1, <1>2, <1>3, <1>4, <1>5, <1>6, <1>8, <1>9, <1>10, <1>11
     DEF Next, Step, Value!Next

(* The cell implements a value that is set once: whatever init does and    *)
(* however the callers race, all of them see one pointer for good.         *)
THEOREM CellIsSetOnce == Spec => SetOnce
<1>1. Init => Value!Init
  BY CellAssumption DEF Init, Value!Init, is_ready
<1>2. Inv /\ [Next]_vars => [Value!Next]_(Value!vars)
  BY StepSimulates
<1> QED
  BY <1>1, <1>2, SpecInv, PTL DEF Spec, SetOnce, Value!Spec

-----------------------------------------------------------------------------
(* The stack: following the links                                          *)

(* The k-th index of s, and TAIL behind the last one.                      *)
At(s, k) == IF k \in 1 .. Len(s) THEN s[k] ELSE TAIL

(* From h the links l lead along s, which has no index twice, to the TAIL. *)
IsChain(s, h, l) ==
    /\ \A j, k \in 1 .. Len(s) : s[j] = s[k] => j = k
    /\ h = At(s, 1)
    /\ \A k \in 1 .. Len(s) : l[s[k]] = At(s, k + 1)

LEMMA NotAboveIsLeast ==
    ASSUME NEW A \in SUBSET Nat, NEW x \in A, \A y \in A : ~ (y < x)
    PROVE  \A y \in A : x =< y
OBVIOUS

LEMMA HasLeast ==
    ASSUME NEW A \in SUBSET Nat, A # {}
    PROVE  \E x \in A : \A y \in A : x =< y
<1>1. PICK R : R = OpToRel(<, Nat)
  OBVIOUS
<1>2. IsWellFoundedOn(R, Nat)
  BY <1>1, NatLessThanWellFounded, Zenon
<1>3. PICK x \in A : \A y \in A : ~ (<<y, x>> \in R)
  BY <1>2, WFMin, Zenon
<1>4. \A y \in A : <<y, x>> \notin R => ~ (y < x)
  BY <1>1, Zenon DEF OpToRel
<1>5. \A y \in A : ~ (y < x)
  BY <1>3, <1>4, Zenon
<1>6. \A y \in A : x =< y
  BY <1>5, NotAboveIsLeast, Zenon
<1> QED
  BY <1>6, Zenon

(* The sizes of sets, as the instance of the stack names them.             *)
LEMMA StackSets ==
    \A A : /\ S!IsFiniteSet(A) <=> IsFiniteSet(A)
           /\ S!Cardinality(A) = Cardinality(A)
BY Zenon DEF S!IsFiniteSet, IsFiniteSet, S!Cardinality, Cardinality

(* A chain without repetition is no longer than there are indices.         *)
LEMMA ChainIsShort ==
    ASSUME S!StackAssumption, NEW s \in Seq(Indices), NEW h, NEW l,
           IsChain(s, h, l)
    PROVE  /\ Cardinality(Indices) \in Nat
           /\ Len(s) \in 0 .. Cardinality(Indices)
<1>1. Cardinality(Indices) \in Nat /\ Len(s) \in Nat
  BY StackSets, FS_CardinalityType, LenProperties DEF S!StackAssumption
<1>2. s \in Injection(1 .. Len(s), Indices)
  BY LenProperties DEF Injection, IsInjective, IsChain
<1>3. Cardinality(1 .. Len(s)) =< Cardinality(Indices)
  BY <1>2, StackSets, FS_Injection DEF S!StackAssumption
<1>4. ASSUME NEW n \in Nat
      PROVE  Cardinality(1 .. n) = n
  <2>1. 1 \in Int /\ n \in Int
    OBVIOUS
  <2>2. Cardinality(1 .. n) = IF 1 > n THEN 0 ELSE n - 1 + 1
    BY <2>1, FS_Interval, Zenon
  <2> QED
    BY <2>2
<1>5. Cardinality(1 .. Len(s)) = Len(s)
  BY <1>1, <1>4
<1> QED
  BY <1>1, <1>3, <1>5

LEMMA HopsAlongChain ==
    ASSUME S!StackAssumption, NEW s \in Seq(Indices), NEW h, NEW l,
           IsChain(s, h, l)
    PROVE  S!Hops(h, l) = [n \in 0 .. S!Cardinality(Indices) |-> At(s, n + 1)]
<1> DEFINE N == S!Cardinality(Indices)
           Walk(f) == [n \in 0 .. N |->
                         IF n = 0 THEN h
                         ELSE IF f[n - 1] = TAIL THEN TAIL ELSE l[f[n - 1]]]
           w == [n \in 0 .. N |-> At(s, n + 1)]
<1>1. N \in Nat /\ Len(s) \in Nat /\ \A k \in 1 .. Len(s) : s[k] # TAIL
  BY ChainIsShort, StackSets, ElementOfSeq DEF S!StackAssumption
<1>2. ASSUME NEW n \in 0 .. N
      PROVE  w[n] = Walk(w)[n]
  <2>1. CASE n = 0
    BY <1>1, <2>1 DEF IsChain
  <2>2. CASE n # 0
    <3>1. n \in 1 .. N /\ n - 1 \in 0 .. N /\ (n - 1) + 1 = n
      BY <1>1, <2>2
    <3>2. w[n - 1] = At(s, n)
      BY <3>1
    <3>3. CASE n \in 1 .. Len(s)
      <4>1. At(s, n) = s[n] /\ s[n] # TAIL /\ l[s[n]] = At(s, n + 1)
        BY <1>1, <3>3 DEF At, IsChain
      <4> QED
        BY <2>2, <3>2, <4>1
    <3>4. CASE n \notin 1 .. Len(s)
      <4>1. At(s, n) = TAIL /\ At(s, n + 1) = TAIL
        BY <1>1, <3>1, <3>4 DEF At
      <4> QED
        BY <2>2, <3>2, <4>1
    <3> QED
      BY <3>3, <3>4
  <2> QED
    BY <2>1, <2>2
<1>3. w = Walk(w)
  BY <1>2, Zenon
<1>4. ASSUME NEW f, f = Walk(f)
      PROVE  f = w
  <2> DEFINE Wrong == {n \in 0 .. N : f[n] # w[n]}
  <2>1. f = [n \in 0 .. N |-> f[n]]
    BY <1>4
  <2>2. ASSUME NEW m \in Wrong, \A y \in Wrong : m =< y
        PROVE  FALSE
    <3>1. f[m] = Walk(f)[m] /\ w[m] = Walk(w)[m]
      BY <1>3, <1>4, Zenon
    <3>2. CASE m = 0
      BY <3>1, <3>2
    <3>3. CASE m # 0
      <4>1. m - 1 \in 0 .. N /\ ~ (m =< m - 1)
        BY <1>1, <3>3
      <4>2. f[m - 1] = w[m - 1]
        BY <2>2, <4>1
      <4> HIDE DEF w
      <4> QED
        BY <3>1, <3>3, <4>2
    <3> QED
      BY <3>2, <3>3
  <2>3. Wrong \in SUBSET Nat
    BY <1>1
  <2>4. Wrong = {}
    BY <2>2, <2>3, HasLeast, Zenon
  <2>5. \A n \in 0 .. N : f[n] = w[n]
    BY <2>4, Zenon
  <2> QED
    BY <2>1, <2>5, Zenon
<1>5. S!Hops(h, l) = CHOOSE f : f = Walk(f)
  BY DEF S!Hops
<1> HIDE DEF Walk, w
<1> QED
  BY <1>3, <1>4, <1>5, Zenon DEF w

(* The chain that one comes by is the chain that there is.                 *)
LEMMA ChainIsFound ==
    ASSUME S!StackAssumption, NEW s \in Seq(Indices), NEW h, NEW l,
           IsChain(s, h, l)
    PROVE  S!ChainFrom(h, l) = s
<1> DEFINE N == S!Cardinality(Indices)
           Ends(m) == /\ S!Hops(h, l)[m] = TAIL \/ m = N
                      /\ \A k \in 0 .. m - 1 : S!Hops(h, l)[k] # TAIL
<1>1. /\ N \in Nat /\ Len(s) \in 0 .. N
      /\ \A k \in 1 .. Len(s) : s[k] # TAIL
  BY ChainIsShort, StackSets, ElementOfSeq DEF S!StackAssumption
<1>2. \A n \in 0 .. N : S!Hops(h, l)[n] = At(s, n + 1)
  BY HopsAlongChain
<1>3. \A n \in 0 .. N : S!Hops(h, l)[n] = TAIL <=> n >= Len(s)
  BY <1>1, <1>2 DEF At
<1>4. Ends(Len(s))
  BY <1>1, <1>3
<1>5. ASSUME NEW m \in 0 .. N, Ends(m)
      PROVE  m = Len(s)
  BY <1>1, <1>3, <1>5
<1>6. (CHOOSE m \in 0 .. N : Ends(m)) = Len(s)
  <2> HIDE DEF Ends
  <2> QED
    BY <1>1, <1>4, <1>5, Zenon
<1>7. S!ChainFrom(h, l) = [k \in 1 .. Len(s) |-> S!Hops(h, l)[k - 1]]
  BY <1>6, Zenon DEF S!ChainFrom
<1>8. \A k \in 1 .. Len(s) : S!Hops(h, l)[k - 1] = s[k]
  BY <1>1, <1>2 DEF At
<1>9. s = [k \in 1 .. Len(s) |-> s[k]]
  BY LenProperties
<1> QED
  BY <1>7, <1>8, <1>9

-----------------------------------------------------------------------------
(* The invariant                                                           *)

InChain(i) == \E k \in 1 .. Len(S!Chain) : S!Chain[k] = i

(* The links form a chain from the head, and what is not owned is in it.   *)
ChainInv ==
    /\ S!Chain \in Seq(Indices)
    /\ IsChain(S!Chain, head.index, link)
    /\ \A i \in Indices : owner[i] = Nobody <=> InChain(i)

(* No index ever links to itself, whether it is in the chain or not.       *)
LinkInv == \A i \in Indices : link[i] # i

(* A push owns its index until its compare-and-swap has succeeded, so the  *)
(* head that it observed was another one.                                  *)
PushInv(t) ==
    /\ spc[t] \in {"push_link", "push_cas"} =>
         /\ ix[t] \in Indices /\ owner[ix[t]] = t
         /\ obs[t].index # ix[t]
    /\ spc[t] = "push_cas" =>
         /\ link[ix[t]] = obs[t].index
         /\ obs[t].tag < TAG_MAX

(* While the tag is the one that a pop has observed, there were only pops: *)
(* the index it has observed is the head or is out of the chain, and if it *)
(* is the head, then the link that was read is still its link.             *)
PopInv(t) ==
    /\ spc[t] # "fatal"
    /\ spc[t] \in {"pop_next", "pop_cas"} =>
         /\ obs[t].tag =< head.tag
         /\ obs[t].tag = head.tag =>
              \/ obs[t].index = head.index
              \/ obs[t].index \in Indices /\ owner[obs[t].index] # Nobody
    /\ spc[t] = "pop_cas" =>
         /\ obs[t].index \in Indices
         /\ obs[t] = head => nxt[t] = link[obs[t].index]

IInv ==
    /\ S!TypeOK /\ ChainInv /\ LinkInv
    /\ \A t \in Threads : PushInv(t) /\ PopInv(t)

-----------------------------------------------------------------------------
(* What the accesses do to the chain                                       *)

(* The head is the first of the chain.                                     *)
LEMMA HeadOfChain ==
    ASSUME S!StackAssumption, S!TypeOK, ChainInv
    PROVE  /\ head.index = TAIL <=> S!Chain = <<>>
           /\ head.index # TAIL => /\ head.index \in Indices
                                   /\ owner[head.index] = Nobody
                                   /\ Head(S!Chain) = head.index
<1>1. Len(S!Chain) \in Nat /\ head.index = At(S!Chain, 1)
  BY LenProperties DEF ChainInv, IsChain
<1>2. CASE S!Chain = <<>>
  BY <1>1, <1>2 DEF At
<1>3. CASE S!Chain # <<>>
  <2>1. 1 \in 1 .. Len(S!Chain)
    BY <1>1, <1>3, EmptySeq DEF ChainInv
  <2>2. head.index = S!Chain[1] /\ S!Chain[1] \in Indices
    BY <1>1, <2>1, ElementOfSeq DEF At, ChainInv
  <2>3. InChain(head.index)
    BY <2>1, <2>2 DEF InChain
  <2> QED
    BY <1>3, <2>2, <2>3 DEF ChainInv, S!StackAssumption
<1> QED
  BY <1>2, <1>3

LEMMA HeadOfChainNext ==
    ASSUME S!StackAssumption, S!TypeOK', ChainInv'
    PROVE  head'.index # TAIL => owner'[head'.index] = Nobody
<1>1. Len(S!Chain') \in Nat /\ head'.index = At(S!Chain', 1)
  BY LenProperties DEF ChainInv, IsChain
<1>2. head'.index # TAIL => /\ 1 \in 1 .. Len(S!Chain')
                           /\ S!Chain'[1] = head'.index
                           /\ head'.index \in Indices
  BY <1>1 DEF At, S!TypeOK, S!Word
<1> QED
  BY <1>2 DEF ChainInv, InChain

(* The links of owned indices may change: the chain stays.                 *)
LEMMA ChainStays ==
    ASSUME S!StackAssumption, S!TypeOK, ChainInv,
           head'.index = head.index, owner' = owner,
           \A i \in Indices : owner[i] = Nobody => link'[i] = link[i]
    PROVE  S!Chain' = S!Chain /\ ChainInv'
<1>1. ASSUME NEW k \in 1 .. Len(S!Chain)
      PROVE  link'[S!Chain[k]] = link[S!Chain[k]]
  <2>1. S!Chain[k] \in Indices /\ InChain(S!Chain[k])
    BY ElementOfSeq DEF ChainInv, InChain
  <2> QED
    BY <2>1 DEF ChainInv
<1>2. IsChain(S!Chain, head'.index, link')
  BY <1>1 DEF ChainInv, IsChain
<1>3. S!Chain \in Seq(Indices)
  BY DEF ChainInv
<1>4. S!Chain' = S!Chain
  <2> DEFINE h == head'.index
             l == link'
  <2>1. S!Chain' = S!ChainFrom(h, l)
    BY DEF S!Chain
  <2> HIDE DEF h, l
  <2>2. IsChain(S!Chain, h, l)
    BY <1>2 DEF h, l
  <2> QED
    BY <1>3, <2>1, <2>2, ChainIsFound, Zenon
<1>5. \A i \in Indices : InChain(i)' <=> InChain(i)
  BY <1>4 DEF InChain
<1> QED
  BY <1>2, <1>3, <1>4, <1>5 DEF ChainInv

(* An owned index that links to the head becomes the head.                 *)
LEMMA ChainGrows ==
    ASSUME S!StackAssumption, S!TypeOK, ChainInv, NEW i \in Indices,
           owner[i] # Nobody, link[i] = head.index,
           head'.index = i, link' = link,
           owner' = [owner EXCEPT ![i] = Nobody]
    PROVE  S!Chain' = <<i>> \o S!Chain /\ ChainInv'
<1> DEFINE s == <<i>> \o S!Chain
<1>1. /\ S!Chain \in Seq(Indices) /\ Len(S!Chain) \in Nat
      /\ <<i>> \in Seq(Indices) /\ Len(<<i>>) = 1
  BY LenProperties DEF ChainInv
<1>2. /\ s \in Seq(Indices) /\ Len(s) = Len(S!Chain) + 1
      /\ s[1] = i
      /\ \A k \in 1 .. Len(S!Chain) : s[k + 1] = S!Chain[k]
  <2>1. /\ s \in Seq(Indices) /\ Len(s) = 1 + Len(S!Chain)
        /\ \A k \in 1 .. 1 + Len(S!Chain) :
             s[k] = IF k =< 1 THEN <<i>>[k] ELSE S!Chain[k - 1]
    BY <1>1, ConcatProperties
  <2> HIDE DEF s
  <2> QED
    BY <1>1, <2>1
<1> HIDE DEF s
<1>3. ASSUME NEW k \in 1 .. Len(s)
      PROVE  k = 1 \/ (k - 1 \in 1 .. Len(S!Chain) /\ s[k] = S!Chain[k - 1])
  <2>1. k = 1 \/ (k - 1 \in 1 .. Len(S!Chain) /\ (k - 1) + 1 = k)
    BY <1>1, <1>2
  <2> QED
    BY <1>2, <2>1
<1>4. \A k \in 1 .. Len(S!Chain) : S!Chain[k] # i
  BY DEF ChainInv, InChain
<1>5. \A j, k \in 1 .. Len(s) : s[j] = s[k] => j = k
  <2>1. TAKE j, k \in 1 .. Len(s)
  <2>2. HAVE s[j] = s[k]
  <2>3. CASE j = 1
    BY <1>2, <1>3, <1>4, <2>2, <2>3
  <2>4. CASE k = 1
    BY <1>2, <1>3, <1>4, <2>2, <2>4
  <2>5. CASE j # 1 /\ k # 1
    <3>1. /\ j - 1 \in 1 .. Len(S!Chain) /\ s[j] = S!Chain[j - 1]
          /\ k - 1 \in 1 .. Len(S!Chain) /\ s[k] = S!Chain[k - 1]
      BY <1>3, <2>5
    <3>2. j - 1 = k - 1
      BY <2>2, <3>1 DEF ChainInv, IsChain
    <3> QED
      BY <1>1, <1>2, <3>2
  <2> QED
    BY <2>3, <2>4, <2>5
<1>6. \A k \in 1 .. Len(s) : At(s, k + 1) = At(S!Chain, k)
  BY <1>1, <1>2 DEF At
<1>7. ASSUME NEW k \in 1 .. Len(s)
      PROVE  link[s[k]] = At(s, k + 1)
  <2>1. CASE k = 1
    BY <1>2, <1>6, <2>1 DEF ChainInv, IsChain
  <2>2. CASE k # 1
    <3>1. k - 1 \in 1 .. Len(S!Chain) /\ s[k] = S!Chain[k - 1] /\ (k - 1) + 1 = k
      BY <1>1, <1>2, <1>3, <2>2
    <3>2. link[S!Chain[k - 1]] = At(S!Chain, k)
      BY <3>1 DEF ChainInv, IsChain
    <3> QED
      BY <1>6, <3>1, <3>2
  <2> QED
    BY <2>1, <2>2
<1>8. IsChain(s, i, link)
  <2>1. At(s, 1) = i
    BY <1>1, <1>2 DEF At
  <2> QED
    BY <1>5, <1>7, <2>1 DEF IsChain
<1>9. S!Chain' = s
  <2>1. S!Chain' = S!ChainFrom(i, link)
    BY DEF S!Chain
  <2> QED
    BY <1>2, <1>8, <2>1, ChainIsFound, Zenon
<1>10. ASSUME NEW j \in Indices
       PROVE  owner'[j] = Nobody <=> InChain(j)'
  <2>1. InChain(j)' <=> j = i \/ InChain(j)
    <3>1. InChain(j)' <=> \E k \in 1 .. Len(s) : s[k] = j
      BY <1>9 DEF InChain
    <3>2. ASSUME NEW k \in 1 .. Len(S!Chain), S!Chain[k] = j
          PROVE  \E m \in 1 .. Len(s) : s[m] = j
      <4>1. k + 1 \in 1 .. Len(s) /\ s[k + 1] = j
        BY <1>1, <1>2, <3>2
      <4> QED
        BY <4>1
    <3>3. 1 \in 1 .. Len(s)
      BY <1>1, <1>2
    <3> QED
      BY <1>2, <1>3, <3>1, <3>2, <3>3 DEF InChain
  <2>2. owner'[j] = Nobody <=> j = i \/ owner[j] = Nobody
    BY DEF S!TypeOK
  <2> QED
    BY <2>1, <2>2 DEF ChainInv
<1> QED
  BY <1>2, <1>8, <1>9, <1>10 DEF ChainInv, s

(* The head goes to a thread, and its link becomes the head.               *)
LEMMA ChainShrinks ==
    ASSUME S!StackAssumption, S!TypeOK, ChainInv, NEW t \in Threads,
           head.index # TAIL, head'.index = link[head.index], link' = link,
           owner' = [owner EXCEPT ![head.index] = t]
    PROVE  S!Chain # <<>> /\ S!Chain' = Tail(S!Chain) /\ ChainInv'
<1> DEFINE s == Tail(S!Chain)
<1>1. /\ S!Chain # <<>> /\ head.index \in Indices
      /\ S!Chain \in Seq(Indices) /\ Len(S!Chain) \in Nat
      /\ 1 \in 1 .. Len(S!Chain) /\ S!Chain[1] = head.index
  <2>1. /\ S!Chain # <<>> /\ head.index \in Indices
        /\ S!Chain \in Seq(Indices) /\ Len(S!Chain) \in Nat
    BY HeadOfChain, LenProperties DEF ChainInv
  <2>2. 1 \in 1 .. Len(S!Chain)
    BY <2>1, EmptySeq
  <2> QED
    BY <2>1, <2>2 DEF ChainInv, IsChain, At
<1>2. /\ s \in Seq(Indices) /\ Len(s) = Len(S!Chain) - 1
      /\ \A k \in 1 .. Len(s) : s[k] = S!Chain[k + 1]
  BY <1>1, HeadTailProperties
<1> HIDE DEF s
<1>3. \A k \in 1 .. Len(s) : k + 1 \in 1 .. Len(S!Chain) /\ k + 1 # 1
  BY <1>1, <1>2
<1>4. \A k \in 1 .. Len(s) + 1 : At(s, k) = At(S!Chain, k + 1)
  BY <1>1, <1>2 DEF At
<1>5. IsChain(s, link[head.index], link)
  <2>1. \A j, k \in 1 .. Len(s) : s[j] = s[k] => j = k
    <3>1. TAKE j, k \in 1 .. Len(s)
    <3>2. HAVE s[j] = s[k]
    <3>3. S!Chain[j + 1] = S!Chain[k + 1]
      BY <1>2, <3>2
    <3>4. j + 1 = k + 1
      BY <1>3, <3>3 DEF ChainInv, IsChain
    <3> QED
      BY <1>1, <1>2, <3>4
  <2>2. link[head.index] = At(s, 1)
    <3>1. link[S!Chain[1]] = At(S!Chain, 1 + 1)
      BY <1>1 DEF ChainInv, IsChain
    <3>2. 1 \in 1 .. Len(s) + 1
      BY <1>1, <1>2
    <3> QED
      BY <1>1, <1>4, <3>1, <3>2
  <2>3. ASSUME NEW k \in 1 .. Len(s)
        PROVE  link[s[k]] = At(s, k + 1)
    <3>1. link[S!Chain[k + 1]] = At(S!Chain, (k + 1) + 1)
      BY <1>3 DEF ChainInv, IsChain
    <3>2. k + 1 \in 1 .. Len(s) + 1
      BY <1>1, <1>2
    <3> QED
      BY <1>2, <1>4, <3>1, <3>2
  <2> QED
    BY <2>1, <2>2, <2>3 DEF IsChain
<1>6. S!Chain' = s
  <2> DEFINE h == link[head.index]
  <2>1. S!Chain' = S!ChainFrom(h, link)
    BY DEF S!Chain
  <2>2. IsChain(s, h, link)
    BY <1>5
  <2> HIDE DEF h
  <2> QED
    BY <1>2, <2>1, <2>2, ChainIsFound, Zenon
<1>7. ASSUME NEW j \in Indices
      PROVE  owner'[j] = Nobody <=> InChain(j)'
  <2>1. InChain(j)' <=> j # head.index /\ InChain(j)
    <3>1. InChain(j)' <=> \E k \in 1 .. Len(s) : s[k] = j
      BY <1>6 DEF InChain
    <3>2. ASSUME NEW k \in 1 .. Len(s), s[k] = j
          PROVE  j # head.index /\ InChain(j)
      <4>1. k + 1 \in 1 .. Len(S!Chain) /\ k + 1 # 1 /\ S!Chain[k + 1] = j
        BY <1>2, <1>3, <3>2
      <4> QED
        BY <1>1, <4>1 DEF InChain, ChainInv, IsChain
    <3>3. ASSUME NEW k \in 1 .. Len(S!Chain), S!Chain[k] = j, j # head.index
          PROVE  \E m \in 1 .. Len(s) : s[m] = j
      <4>1. k # 1
        BY <1>1, <3>3
      <4>2. k - 1 \in 1 .. Len(s) /\ (k - 1) + 1 = k
        BY <1>1, <1>2, <4>1
      <4>3. s[k - 1] = j
        BY <1>2, <3>3, <4>2
      <4> QED
        BY <4>2, <4>3
    <3> QED
      BY <3>1, <3>2, <3>3 DEF InChain
  <2>2. owner'[j] = IF j = head.index THEN t ELSE owner[j]
    BY <1>1 DEF S!TypeOK
  <2> QED
    BY <2>1, <2>2 DEF ChainInv, S!StackAssumption
<1> QED
  BY <1>1, <1>2, <1>5, <1>6, <1>7 DEF ChainInv, s

-----------------------------------------------------------------------------
(* The steps                                                               *)

LEMMA InitHolds ==
    ASSUME S!StackAssumption, S!Init
    PROVE  IInv /\ S!Stack!Init
<1>1. S!TypeOK
  BY DEF S!Init, S!TypeOK, S!EmptyHead, S!Word, S!StackAssumption
<1>2. IsChain(<<>>, TAIL, link)
  BY DEF IsChain, At
<1>3. S!Chain = <<>>
  <2>1. <<>> \in Seq(Indices)
    OBVIOUS
  <2>2. S!Chain = S!ChainFrom(TAIL, link)
    BY DEF S!Chain, S!Init, S!EmptyHead
  <2> QED
    BY <1>2, <2>1, <2>2, ChainIsFound, Zenon
<1>4. ChainInv
  <2>1. head.index = TAIL
    BY DEF S!Init, S!EmptyHead
  <2>2. \A i \in Indices : ~ InChain(i)
    BY <1>3 DEF InChain
  <2>3. \A i \in Indices : owner[i] # Nobody
    BY DEF S!Init, S!StackAssumption
  <2> QED
    BY <1>2, <1>3, <2>1, <2>2, <2>3 DEF ChainInv
<1>5. LinkInv /\ \A t \in Threads : PushInv(t) /\ PopInv(t)
  BY DEF S!Init, LinkInv, PushInv, PopInv, S!StackAssumption
<1> QED
  BY <1>1, <1>3, <1>4, <1>5 DEF IInv, S!Init, S!Stack!Init

LEMMA TypeStep ==
    ASSUME S!StackAssumption, S!TypeOK, \A t \in Threads : PushInv(t), [S!Next]_(S!vars)
    PROVE  S!TypeOK'
<1> USE DEF S!Set, S!Goto, S!Return, S!EmptyHead
<1>0. TAG_MAX \in Nat
  BY DEF S!StackAssumption
<1>1. ASSUME NEW t \in Threads, NEW i \in Indices, S!Push(t, i)
      PROVE  S!TypeOK'
  BY <1>1 DEF S!TypeOK, S!Push
<1>2. ASSUME NEW t \in Threads, S!PushLink(t)
      PROVE  S!TypeOK'
  <2>1. ix[t] \in Indices /\ obs[t].index \in Indices \cup {TAIL}
    BY <1>2 DEF S!PushLink, PushInv, S!TypeOK, S!Word
  <2>2. [index |-> TAIL, tag |-> 0] \in S!Word
    BY <1>0 DEF S!Word
  <2>3. CASE obs[t].tag = TAG_MAX
    BY <1>2, <2>2, <2>3 DEF S!TypeOK, S!PushLink
  <2>4. CASE obs[t].tag # TAG_MAX
    BY <1>2, <2>1, <2>4 DEF S!TypeOK, S!PushLink
  <2> QED
    BY <2>3, <2>4
<1>3. ASSUME NEW t \in Threads, S!PushCas(t)
      PROVE  S!TypeOK'
  <2>1. ix[t] \in Indices /\ obs[t] \in S!Word /\ obs[t].tag < TAG_MAX
    BY <1>3 DEF S!PushCas, PushInv, S!TypeOK
  <2>2. [index |-> ix[t], tag |-> obs[t].tag + 1] \in S!Word
    BY <1>0, <2>1 DEF S!Word
  <2>3. [index |-> TAIL, tag |-> 0] \in S!Word
    BY <1>0 DEF S!Word
  <2> QED
    BY <1>3, <2>2, <2>3 DEF S!TypeOK, S!PushCas
<1>4. ASSUME NEW t \in Threads, S!Pop(t)
      PROVE  S!TypeOK'
  BY <1>4 DEF S!TypeOK, S!Pop
<1>5. ASSUME NEW t \in Threads, S!PopNext(t)
      PROVE  S!TypeOK'
  <2>1. obs[t].index \in Indices \cup {TAIL}
    BY DEF S!TypeOK, S!Word
  <2>2. [index |-> TAIL, tag |-> 0] \in S!Word
    BY <1>0 DEF S!Word
  <2> QED
    BY <1>5, <2>1, <2>2 DEF S!TypeOK, S!PopNext
<1>6. ASSUME NEW t \in Threads, S!PopCas(t)
      PROVE  S!TypeOK'
  <2>1. [index |-> nxt[t], tag |-> obs[t].tag] \in S!Word
    BY DEF S!TypeOK, S!Word
  <2>2. [index |-> TAIL, tag |-> 0] \in S!Word
    BY <1>0 DEF S!Word
  <2> QED
    BY <1>6, <2>1, <2>2 DEF S!TypeOK, S!PopCas
<1>7. CASE UNCHANGED S!vars
  BY <1>7 DEF S!TypeOK, S!vars
<1> QED
  BY <1>1, <1>2, <1>3, <1>4, <1>5, <1>6, <1>7 DEF S!Next, S!Step

(* Every step is one of the stack or leaves it alone.                      *)
LEMMA ChainStep ==
    ASSUME S!StackAssumption, IInv, [S!Next]_(S!vars)
    PROVE  ChainInv' /\ [S!Stack!Next]_(S!Stack!vars)
<1> USE DEF S!Set, S!Goto, S!Return
<1>0. S!TypeOK /\ ChainInv
  BY DEF IInv
<1>a. ASSUME head' = head, owner' = owner,
             \A i \in Indices : owner[i] = Nobody => link'[i] = link[i]
      PROVE  ChainInv' /\ [S!Stack!Next]_(S!Stack!vars)
  BY <1>0, <1>a, ChainStays DEF S!Stack!vars
<1>1. ASSUME NEW t \in Threads, NEW i \in Indices, S!Push(t, i)
      PROVE  ChainInv' /\ [S!Stack!Next]_(S!Stack!vars)
  BY <1>1, <1>a DEF S!Push
<1>2. ASSUME NEW t \in Threads, S!PushLink(t)
      PROVE  ChainInv' /\ [S!Stack!Next]_(S!Stack!vars)
  <2>1. owner[ix[t]] = t /\ t # Nobody
    BY <1>2 DEF IInv, PushInv, S!PushLink, S!StackAssumption
  <2>2. \A i \in Indices : owner[i] = Nobody => link'[i] = link[i]
    BY <1>0, <1>2, <2>1 DEF S!PushLink, S!TypeOK
  <2> QED
    BY <1>2, <1>a, <2>2 DEF S!PushLink
<1>3. ASSUME NEW t \in Threads, S!PushCas(t)
      PROVE  ChainInv' /\ [S!Stack!Next]_(S!Stack!vars)
  <2>1. CASE head = obs[t]
    <3>1. /\ ix[t] \in Indices /\ owner[ix[t]] = t /\ t # Nobody
          /\ link[ix[t]] = head.index
      BY <1>3, <2>1 DEF IInv, PushInv, S!PushCas, S!StackAssumption
    <3>2. /\ head'.index = ix[t] /\ link' = link
          /\ owner' = [owner EXCEPT ![ix[t]] = Nobody]
      BY <1>3, <2>1 DEF S!PushCas
    <3>3. S!Chain' = <<ix[t]>> \o S!Chain /\ ChainInv'
      BY <1>0, <3>1, <3>2, ChainGrows
    <3>4. S!Stack!Push(t, ix[t])
      BY <3>1, <3>2, <3>3 DEF S!Stack!Push
    <3> QED
      BY <3>1, <3>3, <3>4 DEF S!Stack!Next
  <2>2. CASE head # obs[t]
    BY <1>3, <1>a, <2>2 DEF S!PushCas
  <2> QED
    BY <2>1, <2>2
<1>4. ASSUME NEW t \in Threads, S!Pop(t)
      PROVE  ChainInv' /\ [S!Stack!Next]_(S!Stack!vars)
  BY <1>4, <1>a DEF S!Pop
<1>5. ASSUME NEW t \in Threads, S!PopNext(t)
      PROVE  ChainInv' /\ [S!Stack!Next]_(S!Stack!vars)
  BY <1>5, <1>a DEF S!PopNext
<1>6. ASSUME NEW t \in Threads, S!PopCas(t)
      PROVE  ChainInv' /\ [S!Stack!Next]_(S!Stack!vars)
  <2>1. CASE head = obs[t]
    <3>1. head.index # TAIL /\ nxt[t] = link[head.index]
      BY <1>6, <2>1 DEF IInv, PopInv, S!PopCas, S!StackAssumption
    <3>2. /\ head'.index = link[head.index] /\ link' = link
          /\ owner' = [owner EXCEPT ![head.index] = t]
      BY <1>6, <2>1, <3>1 DEF S!PopCas
    <3>3. S!Chain # <<>> /\ S!Chain' = Tail(S!Chain) /\ ChainInv'
      BY <1>0, <3>1, <3>2, ChainShrinks
    <3>4. Head(S!Chain) = head.index
      BY <1>0, <3>1, HeadOfChain
    <3>5. S!Stack!Pop(t)
      BY <3>2, <3>3, <3>4 DEF S!Stack!Pop
    <3> QED
      BY <3>3, <3>5 DEF S!Stack!Next
  <2>2. CASE head # obs[t]
    BY <1>6, <1>a, <2>2 DEF S!PopCas
  <2> QED
    BY <2>1, <2>2
<1>7. CASE UNCHANGED S!vars
  BY <1>7, <1>a DEF S!vars
<1> QED
  BY <1>1, <1>2, <1>3, <1>4, <1>5, <1>6, <1>7 DEF S!Next, S!Step

(* What a step of t may do to an operation of another thread: take the     *)
(* observed index out of the chain, or bump the tag.                       *)
LEMMA OtherKeepsPush ==
    ASSUME S!TypeOK, NEW u \in Threads, PushInv(u),
           spc'[u] = spc[u], ix'[u] = ix[u], obs'[u] = obs[u],
           owner[ix[u]] = u => owner'[ix[u]] = u /\ link'[ix[u]] = link[ix[u]]
    PROVE  PushInv(u)'
BY DEF PushInv

LEMMA OtherKeepsPop ==
    ASSUME S!StackAssumption, S!TypeOK, NEW u \in Threads, PopInv(u),
           spc'[u] = spc[u], obs'[u] = obs[u], nxt'[u] = nxt[u],
           head' = head, owner' = owner,
           \A i \in Indices : owner[i] = Nobody => link'[i] = link[i],
           head.index # TAIL => owner[head.index] = Nobody
    PROVE  PopInv(u)'
<1>1. obs[u] = head /\ obs[u].index \in Indices
        => link'[obs[u].index] = link[obs[u].index]
  BY DEF S!StackAssumption
<1> QED
  BY <1>1 DEF PopInv

LEMMA ThreadsStep ==
    ASSUME S!StackAssumption, IInv, ChainInv', S!TypeOK', [S!Next]_(S!vars)
    PROVE  LinkInv' /\ \A t \in Threads : PushInv(t)' /\ PopInv(t)'
<1> USE DEF S!Set, S!Goto, S!Return, S!EmptyHead
<1>0. /\ S!TypeOK /\ ChainInv /\ LinkInv
      /\ TAG_MAX \in Nat /\ TAIL \notin Indices
      /\ \A t \in Threads : PushInv(t) /\ PopInv(t) /\ t # Nobody
  BY DEF IInv, S!StackAssumption
<1>h. head.index # TAIL => head.index \in Indices /\ owner[head.index] = Nobody
  BY <1>0, HeadOfChain
<1>t. head.tag \in Nat /\ \A t \in Threads : obs[t].tag \in Nat
  BY <1>0 DEF S!TypeOK, S!Word
<1>1. ASSUME NEW t \in Threads, NEW i \in Indices, S!Push(t, i)
      PROVE  LinkInv' /\ \A u \in Threads : PushInv(u)' /\ PopInv(u)'
  <2>1. LinkInv'
    BY <1>0, <1>1 DEF LinkInv, S!Push
  <2>2. PushInv(t)' /\ PopInv(t)'
    BY <1>0, <1>1, <1>h DEF S!Push, PushInv, PopInv, S!TypeOK
  <2>3. ASSUME NEW u \in Threads, u # t
        PROVE  PushInv(u)' /\ PopInv(u)'
    <3>1. /\ spc'[u] = spc[u] /\ obs'[u] = obs[u] /\ nxt'[u] = nxt[u]
          /\ ix'[u] = ix[u]
      BY <1>0, <1>1, <2>3 DEF S!Push, S!TypeOK
    <3> QED
      BY <1>0, <1>1, <1>h, <3>1, OtherKeepsPush, OtherKeepsPop DEF S!Push
  <2> QED
    BY <2>1, <2>2, <2>3
<1>2. ASSUME NEW t \in Threads, S!PushLink(t)
      PROVE  LinkInv' /\ \A u \in Threads : PushInv(u)' /\ PopInv(u)'
  <2>1. /\ ix[t] \in Indices /\ owner[ix[t]] = t /\ obs[t].index # ix[t]
        /\ obs[t].tag \in 0 .. TAG_MAX
    BY <1>0, <1>2 DEF S!PushLink, PushInv, S!TypeOK, S!Word
  <2>2. \A i \in Indices : \/ link'[i] = link[i]
                           \/ i = ix[t] /\ link'[i] = obs[t].index
    <3>1. \/ link' = link
          \/ link' = [link EXCEPT ![ix[t]] = obs[t].index]
      BY <1>2 DEF S!PushLink
    <3>2. link \in [Indices -> Indices \cup {TAIL}]
      BY <1>0 DEF S!TypeOK
    <3>3. CASE link' = link
      BY <3>3
    <3>4. CASE link' = [link EXCEPT ![ix[t]] = obs[t].index]
      BY <3>2, <3>4
    <3> QED
      BY <3>1, <3>3, <3>4
  <2>3. LinkInv'
    BY <1>0, <2>1, <2>2 DEF LinkInv
  <2>4. PushInv(t)' /\ PopInv(t)'
    <3>1. CASE obs[t].tag = TAG_MAX
      <4>1. spc'[t] = "idle"
        BY <1>0, <1>2, <3>1 DEF S!PushLink, S!TypeOK
      <4> QED
        BY <4>1 DEF PushInv, PopInv
    <3>2. CASE obs[t].tag # TAG_MAX
      <4>1. /\ spc'[t] = "push_cas" /\ owner' = owner /\ obs' = obs /\ ix' = ix
            /\ link'[ix[t]] = obs[t].index
        BY <1>0, <1>2, <2>1, <3>2 DEF S!PushLink, S!TypeOK
      <4>2. obs[t].tag < TAG_MAX
        BY <1>0, <2>1, <3>2
      <4> QED
        BY <2>1, <4>1, <4>2 DEF PushInv, PopInv
    <3> QED
      BY <3>1, <3>2
  <2>5. ASSUME NEW u \in Threads, u # t
        PROVE  PushInv(u)' /\ PopInv(u)'
    <3>1. /\ spc'[u] = spc[u] /\ obs'[u] = obs[u] /\ nxt'[u] = nxt[u]
          /\ ix'[u] = ix[u] /\ head' = head /\ owner' = owner
      BY <1>0, <1>2, <2>5 DEF S!PushLink, S!TypeOK
    <3>2. \A i \in Indices : owner[i] # t => link'[i] = link[i]
      BY <2>1, <2>2
    <3>3. PushInv(u)'
      <4>1. PushInv(u) /\ PushInv(u)' <=> PushInv(u)
        <5>1. ix[u] \in Indices /\ owner[ix[u]] = u
                => link'[ix[u]] = link[ix[u]]
          BY <2>5, <3>2
        <5> QED
          BY <3>1, <5>1 DEF PushInv
      <4> QED
        BY <1>0, <4>1
    <3> QED
      BY <1>0, <1>h, <3>1, <3>2, <3>3, OtherKeepsPop
  <2> QED
    BY <2>3, <2>4, <2>5
<1>3. ASSUME NEW t \in Threads, S!PushCas(t)
      PROVE  LinkInv' /\ \A u \in Threads : PushInv(u)' /\ PopInv(u)'
  <2>1. LinkInv'
    BY <1>0, <1>3 DEF LinkInv, S!PushCas
  <2>2. ix[t] \in Indices /\ owner[ix[t]] = t
    BY <1>0, <1>3 DEF S!PushCas, PushInv
  <2>3. CASE head = obs[t]
    <3>1. /\ head'.tag = head.tag + 1 /\ link' = link
          /\ owner' = [owner EXCEPT ![ix[t]] = Nobody]
          /\ spc'[t] = "idle"
      BY <1>0, <1>3, <2>3 DEF S!PushCas, S!TypeOK
    <3>2. PushInv(t)' /\ PopInv(t)'
      BY <3>1 DEF PushInv, PopInv
    <3>3. ASSUME NEW u \in Threads, u # t
          PROVE  PushInv(u)' /\ PopInv(u)'
      <4>1. /\ spc'[u] = spc[u] /\ obs'[u] = obs[u] /\ nxt'[u] = nxt[u]
            /\ ix'[u] = ix[u]
        BY <1>0, <1>3, <2>3, <3>3 DEF S!PushCas, S!TypeOK
      <4>2. owner[ix[u]] = u => owner'[ix[u]] = u
        BY <1>0, <2>2, <3>1, <3>3 DEF S!TypeOK
      <4>3. PushInv(u)'
        BY <1>0, <3>1, <4>1, <4>2, OtherKeepsPush
      <4>4. spc[u] \in {"pop_next", "pop_cas"}
              => obs[u].tag =< head'.tag /\ obs[u].tag # head'.tag
        BY <1>0, <1>t, <3>1 DEF PopInv
      <4>5. PopInv(u)'
        BY <1>0, <4>1, <4>4 DEF PopInv
      <4> QED
        BY <4>3, <4>5
    <3> QED
      BY <2>1, <3>2, <3>3
  <2>4. CASE head # obs[t]
    <3>1. PushInv(t)' /\ PopInv(t)'
      BY <1>0, <1>3, <1>h, <2>2, <2>4 DEF S!PushCas, PushInv, PopInv, S!TypeOK
    <3>2. ASSUME NEW u \in Threads, u # t
          PROVE  PushInv(u)' /\ PopInv(u)'
      <4>1. /\ spc'[u] = spc[u] /\ obs'[u] = obs[u] /\ nxt'[u] = nxt[u]
            /\ ix'[u] = ix[u] /\ head' = head /\ owner' = owner /\ link' = link
        BY <1>0, <1>3, <2>4, <3>2 DEF S!PushCas, S!TypeOK
      <4> QED
        BY <1>0, <1>h, <4>1, OtherKeepsPush, OtherKeepsPop
    <3> QED
      BY <2>1, <3>1, <3>2
  <2> QED
    BY <2>3, <2>4
<1>4. ASSUME NEW t \in Threads, S!Pop(t)
      PROVE  LinkInv' /\ \A u \in Threads : PushInv(u)' /\ PopInv(u)'
  <2>1. LinkInv'
    BY <1>0, <1>4 DEF LinkInv, S!Pop
  <2>2. /\ spc'[t] = "pop_next" /\ obs'[t] = head /\ head' = head
    BY <1>0, <1>4 DEF S!Pop, S!TypeOK
  <2>3. PushInv(t)' /\ PopInv(t)'
    BY <1>t, <2>2 DEF PushInv, PopInv
  <2>4. ASSUME NEW u \in Threads, u # t
        PROVE  PushInv(u)' /\ PopInv(u)'
    <3>1. /\ spc'[u] = spc[u] /\ obs'[u] = obs[u] /\ nxt'[u] = nxt[u]
          /\ ix'[u] = ix[u] /\ head' = head /\ owner' = owner /\ link' = link
      BY <1>0, <1>4, <2>4 DEF S!Pop, S!TypeOK
    <3> QED
      BY <1>0, <1>h, <3>1, OtherKeepsPush, OtherKeepsPop
  <2> QED
    BY <2>1, <2>3, <2>4
<1>5. ASSUME NEW t \in Threads, S!PopNext(t)
      PROVE  LinkInv' /\ \A u \in Threads : PushInv(u)' /\ PopInv(u)'
  <2>1. LinkInv'
    BY <1>0, <1>5 DEF LinkInv, S!PopNext
  <2>2. PushInv(t)' /\ PopInv(t)'
    <3>1. CASE obs[t].index = TAIL
      <4>1. spc'[t] = "idle"
        BY <1>0, <1>5, <3>1 DEF S!PopNext, S!TypeOK
      <4> QED
        BY <4>1 DEF PushInv, PopInv
    <3>2. CASE obs[t].index # TAIL
      <4>1. obs[t].index \in Indices
        BY <1>0, <3>2 DEF S!TypeOK, S!Word
      <4>2. /\ spc'[t] = "pop_cas" /\ nxt'[t] = link[obs[t].index]
            /\ obs' = obs /\ head' = head /\ owner' = owner /\ link' = link
        BY <1>0, <1>5, <3>2, <4>1 DEF S!PopNext, S!TypeOK, LinkInv
      <4>3. spc[t] = "pop_next"
        BY <1>5 DEF S!PopNext
      <4> QED
        BY <1>0, <4>1, <4>2, <4>3 DEF PushInv, PopInv
    <3> QED
      BY <3>1, <3>2
  <2>3. ASSUME NEW u \in Threads, u # t
        PROVE  PushInv(u)' /\ PopInv(u)'
    <3>1. /\ spc'[u] = spc[u] /\ obs'[u] = obs[u] /\ nxt'[u] = nxt[u]
          /\ ix'[u] = ix[u] /\ head' = head /\ owner' = owner /\ link' = link
      BY <1>0, <1>5, <2>3 DEF S!PopNext, S!TypeOK
    <3> QED
      BY <1>0, <1>h, <3>1, OtherKeepsPush, OtherKeepsPop
  <2> QED
    BY <2>1, <2>2, <2>3
<1>6. ASSUME NEW t \in Threads, S!PopCas(t)
      PROVE  LinkInv' /\ \A u \in Threads : PushInv(u)' /\ PopInv(u)'
  <2>1. LinkInv'
    BY <1>0, <1>6 DEF LinkInv, S!PopCas
  <2>2. CASE head = obs[t]
    <3>1. /\ head.index \in Indices /\ owner[head.index] = Nobody
      BY <1>0, <1>6, <1>h, <2>2 DEF S!PopCas, PopInv
    <3>2. /\ head'.tag = head.tag /\ link' = link
          /\ owner' = [owner EXCEPT ![head.index] = t]
          /\ spc'[t] = "idle"
      BY <1>0, <1>6, <2>2 DEF S!PopCas, S!TypeOK
    <3>3. PushInv(t)' /\ PopInv(t)'
      BY <3>2 DEF PushInv, PopInv
    <3>4. head'.index # TAIL => owner'[head'.index] = Nobody
      BY HeadOfChainNext
    <3>5. ASSUME NEW u \in Threads, u # t
          PROVE  PushInv(u)' /\ PopInv(u)'
      <4>1. /\ spc'[u] = spc[u] /\ obs'[u] = obs[u] /\ nxt'[u] = nxt[u]
            /\ ix'[u] = ix[u]
        BY <1>0, <1>6, <2>2, <3>5 DEF S!PopCas, S!TypeOK
      <4>2. owner[ix[u]] = u => owner'[ix[u]] = u
        BY <1>0, <3>1, <3>2 DEF S!TypeOK
      <4>3. PushInv(u)'
        BY <1>0, <3>2, <4>1, <4>2, OtherKeepsPush
      <4>4. ASSUME spc[u] \in {"pop_next", "pop_cas"}, obs[u].tag = head.tag,
                   obs[u].index # TAIL
            PROVE  obs[u].index \in Indices /\ owner'[obs[u].index] # Nobody
        <5>1. obs[u].index \in Indices
          BY <1>0, <4>4 DEF S!TypeOK, S!Word
        <5>2. obs[u].index = head.index \/ owner[obs[u].index] # Nobody
          BY <1>0, <4>4 DEF PopInv
        <5> QED
          BY <1>0, <3>2, <5>1, <5>2 DEF S!TypeOK
      <4>5. obs[u].index = TAIL /\ spc[u] \in {"pop_next", "pop_cas"}
              => obs[u].tag # head.tag
        BY <1>0, <3>1 DEF PopInv
      <4>6. spc[u] = "pop_cas" => obs[u].index \in Indices
        BY <1>0 DEF PopInv
      <4>7. spc[u] = "pop_cas" => obs[u] # head'
        BY <1>0, <3>2, <3>4, <4>4, <4>6
      <4>8. spc[u] \in {"pop_next", "pop_cas"} => obs[u].tag =< head'.tag
        BY <1>0, <3>2 DEF PopInv
      <4>9. PopInv(u)'
        BY <1>0, <3>2, <4>1, <4>4, <4>5, <4>6, <4>7, <4>8 DEF PopInv
      <4> QED
        BY <4>3, <4>9
    <3> QED
      BY <2>1, <3>3, <3>5
  <2>3. CASE head # obs[t]
    <3>1. spc'[t] = "pop_next" /\ obs'[t] = head /\ head' = head
      BY <1>0, <1>6, <2>3 DEF S!PopCas, S!TypeOK
    <3>2. PushInv(t)' /\ PopInv(t)'
      BY <1>t, <3>1 DEF PushInv, PopInv
    <3>3. ASSUME NEW u \in Threads, u # t
          PROVE  PushInv(u)' /\ PopInv(u)'
      <4>1. /\ spc'[u] = spc[u] /\ obs'[u] = obs[u] /\ nxt'[u] = nxt[u]
            /\ ix'[u] = ix[u] /\ head' = head /\ owner' = owner /\ link' = link
        BY <1>0, <1>6, <2>3, <3>3 DEF S!PopCas, S!TypeOK
      <4> QED
        BY <1>0, <1>h, <4>1, OtherKeepsPush, OtherKeepsPop
    <3> QED
      BY <2>1, <3>2, <3>3
  <2> QED
    BY <2>2, <2>3
<1>7. CASE UNCHANGED S!vars
  BY <1>0, <1>7 DEF S!vars, LinkInv, PushInv, PopInv
<1> QED
  BY <1>1, <1>2, <1>3, <1>4, <1>5, <1>6, <1>7 DEF S!Next, S!Step

-----------------------------------------------------------------------------
(* Theorems                                                                *)

LEMMA StepHolds ==
    ASSUME S!StackAssumption, IInv, [S!Next]_(S!vars)
    PROVE  IInv' /\ [S!Stack!Next]_(S!Stack!vars)
<1>1. S!TypeOK'
  BY TypeStep DEF IInv
<1>2. ChainInv' /\ [S!Stack!Next]_(S!Stack!vars)
  BY ChainStep
<1>3. LinkInv' /\ \A t \in Threads : PushInv(t)' /\ PopInv(t)'
  BY <1>1, <1>2, ThreadsStep
<1> QED
  BY <1>1, <1>2, <1>3 DEF IInv

LEMMA AlwaysIInv ==
    ASSUME S!StackAssumption
    PROVE  S!Spec => []IInv
<1>1. S!Init => IInv
  BY InitHolds
<1>2. IInv /\ [S!Next]_(S!vars) => IInv'
  BY StepHolds
<1> QED
  BY <1>1, <1>2, PTL DEF S!Spec

LEMMA OneOrNone ==
    ASSUME S!StackAssumption, IInv, NEW i \in Indices
    PROVE  Cardinality({k \in DOMAIN S!Chain : S!Chain[k] = i})
             = IF owner[i] = Nobody THEN 1 ELSE 0
<1> DEFINE P == {k \in DOMAIN S!Chain : S!Chain[k] = i}
<1>1. DOMAIN S!Chain = 1 .. Len(S!Chain) /\ ChainInv
  BY LenProperties DEF IInv, ChainInv
<1>2. CASE owner[i] = Nobody
  <2>1. PICK k \in 1 .. Len(S!Chain) : S!Chain[k] = i
    BY <1>1, <1>2 DEF ChainInv, InChain
  <2>2. P = {k}
    BY <1>1, <2>1 DEF ChainInv, IsChain
  <2> QED
    BY <1>2, <2>2, FS_Singleton, Zenon
<1>3. CASE owner[i] # Nobody
  <2>1. P = {}
    BY <1>1, <1>3 DEF ChainInv, InChain
  <2> QED
    BY <1>3, <2>1, FS_EmptySet, Zenon
<1> QED
  BY <1>2, <1>3

LEMMA StackIsFree ==
    ASSUME S!StackAssumption
    PROVE  S!Spec => [](S!TypeOK /\ S!ChainIsFree)
<1>1. IInv => S!TypeOK /\ S!ChainIsFree
  <2>1. ASSUME IInv
        PROVE  S!ChainIsFree
    <3>1. \A t \in Threads : spc[t] # "fatal"
      BY <2>1 DEF IInv, PopInv
    <3>2. \A i \in Indices :
            S!Cardinality({k \in DOMAIN S!Chain : S!Chain[k] = i})
              = IF owner[i] = Nobody THEN 1 ELSE 0
      BY <2>1, OneOrNone, StackSets, Zenon
    <3> QED
      BY <3>1, <3>2, Zenon DEF S!ChainIsFree
  <2> QED
    BY <2>1 DEF IInv
<1> QED
  BY <1>1, AlwaysIInv, PTL

LEMMA StackIsStack ==
    ASSUME S!StackAssumption
    PROVE  S!Spec => S!IsStack
<1>1. S!Init => S!Stack!Init
  BY InitHolds
<1>2. IInv /\ [S!Next]_(S!vars) => [S!Stack!Next]_(S!Stack!vars)
  BY StepHolds
<1> QED
  BY <1>1, <1>2, AlwaysIInv, PTL DEF S!Spec, S!IsStack, S!Stack!Spec

-----------------------------------------------------------------------------
(* The sum: who chooses the cell leaves the stack where it starts.         *)
LEMMA SumIsStack == PrimitivesSpec => S!Spec
<1>1. PrimitivesInit => S!Init
  BY DEF PrimitivesInit
<1>2. [PrimitivesNext]_allVars => [S!Next]_(S!vars)
  BY DEF PrimitivesNext, Cell, Stack, Hint, allVars, stackVars, S!vars
<1> QED
  BY <1>1, <1>2, PTL DEF PrimitivesSpec, S!Spec

(* push_index_impl, pop_index_impl: every index is owned by one thread or  *)
(* linked into the stack once, and no pop reads a corrupt link, however    *)
(* long it slept.  The state keeps its type, the tag within its width.     *)
THEOREM ChainStaysFree == PrimitivesSpec => []ChainIsFree
<1>1. S!Spec => [](S!TypeOK /\ S!ChainIsFree)
  BY StackAssumed, StackIsFree
<1>2. S!TypeOK /\ S!ChainIsFree => ChainIsFree
  BY DEF ChainIsFree
<1> QED
  BY <1>1, <1>2, SumIsStack, PTL

(* The head word, the links and the compare-and-swaps implement a stack:   *)
(* the tag excludes ABA.                                                   *)
THEOREM StackImplemented == PrimitivesSpec => IsStack
BY StackAssumed, SumIsStack, StackIsStack DEF IsStack

-----------------------------------------------------------------------------
(* The bitmap                                                              *)

(* The lowest set bit of a word that is not zero is one of its bits.       *)
LEMMA TrailingZerosIsSet ==
    ASSUME NEW A \in SUBSET Nat, A # {}
    PROVE  H!TrailingZeros(A) \in A
BY HasLeast, Zenon DEF H!TrailingZeros

-----------------------------------------------------------------------------
(* Word and bit of an index, and back.                                     *)

LEMMA IndexOfWordBit ==
    ASSUME H!SizeAssumption, NEW w \in H!Word, NEW n \in H!Bit
    PROVE  /\ w * WordBits + n \in H!Index
           /\ (w * WordBits + n) \div WordBits = w
           /\ (w * WordBits + n) % WordBits = n
<1> DEFINE i == w * WordBits + n
<1> USE DEF H!SizeAssumption, H!Word, H!Bit, H!Index
<1>1. i \in Nat
  BY SMT
<1>2. (w + 1) * WordBits =< WORDS * WordBits
  BY SMT
<1>3. i \in H!Index
  BY <1>1, <1>2, SMT
<1> HIDE DEF i
<1>4. /\ i = WordBits * (i \div WordBits) + (i % WordBits)
      /\ i % WordBits \in 0 .. WordBits - 1
      /\ i \div WordBits \in Nat
  BY <1>1, SMT
<1>5. i \div WordBits = w /\ i % WordBits = n
  BY <1>4, SMT DEF i
<1> QED
  BY <1>3, <1>5 DEF i

LEMMA WordBitOfIndex ==
    ASSUME H!SizeAssumption, NEW i \in H!Index
    PROVE  /\ i \div WordBits \in H!Word
           /\ i % WordBits \in H!Bit
           /\ i = (i \div WordBits) * WordBits + (i % WordBits)
<1> USE DEF H!SizeAssumption, H!Word, H!Bit, H!Index
<1>1. /\ i = WordBits * (i \div WordBits) + (i % WordBits)
      /\ i % WordBits \in 0 .. WordBits - 1
      /\ i \div WordBits \in Nat
  BY SMT
<1>2. i \div WordBits =< WORDS - 1
  BY <1>1, SMT
<1> QED
  BY <1>1, <1>2, SMT

-----------------------------------------------------------------------------
(* A take holds an index only between its successful fetch_and and its     *)
(* return.                                                                 *)
PickedInv ==
    \A t \in HintThreads :
        hpc[t] \in {"idle", "pub_summary", "take_summary", "take_word", "take_bit"}
            => picked[t] = NoIndex

HintInv == H!TypeOK /\ PickedInv

LEMMA InitHint == ASSUME H!SizeAssumption PROVE H!Init => HintInv
<1> USE DEF H!SizeAssumption
<1>1. 0 \in H!Word /\ 0 \in H!Bit
  BY SMT DEF H!Word, H!Bit
<1> QED
  BY <1>1, SMT DEF H!Init, HintInv, H!TypeOK, PickedInv, H!PCs

LEMMA NextHint ==
    ASSUME H!SizeAssumption PROVE HintInv /\ [H!Next]_(H!vars) => HintInv'
<1> SUFFICES ASSUME HintInv, [H!Next]_(H!vars) PROVE HintInv'
  OBVIOUS
<1> USE DEF H!SizeAssumption, HintInv, H!TypeOK, PickedInv, H!PCs, H!Goto
<1>0. 0 \in H!Word /\ 0 \in H!Bit
  BY SMT DEF H!Word, H!Bit
<1>1. ASSUME NEW t \in HintThreads, NEW i \in H!Index, H!Publish(t, i)
      PROVE  HintInv'
  BY <1>1, WordBitOfIndex, SMT DEF H!Publish
<1>2. ASSUME NEW t \in HintThreads, NEW i \in H!Index, H!Forget(t, i)
      PROVE  HintInv'
  BY <1>2, WordBitOfIndex, SMT DEF H!Forget
<1>3. ASSUME NEW t \in HintThreads, H!Take(t)
      PROVE  HintInv'
  BY <1>3, SMT DEF H!Take
<1>4. ASSUME NEW t \in HintThreads, H!PublishSummary(t)
      PROVE  HintInv'
  BY <1>0, <1>4, SMT DEF H!PublishSummary
<1>5. ASSUME NEW t \in HintThreads, H!TakeSummary(t)
      PROVE  HintInv'
  <2>1. summary # {} => H!TrailingZeros(summary) \in H!Word
    BY TrailingZerosIsSet, H!Word \subseteq Nat DEF H!Word
  <2> QED
    BY <1>0, <1>5, <2>1, SMT DEF H!TakeSummary
<1>6. ASSUME NEW t \in HintThreads, H!TakeWord(t)
      PROVE  HintInv'
  <2>1. words[word[t]] # {} => H!TrailingZeros(words[word[t]]) \in H!Bit
    BY TrailingZerosIsSet, H!Bit \subseteq Nat DEF H!Bit
  <2> QED
    BY <1>6, <2>1, SMT DEF H!TakeWord
<1>7. ASSUME NEW t \in HintThreads, H!TakeBit(t)
      PROVE  HintInv'
  <2>1. word[t] * WordBits + bit[t] \in H!Index
    BY IndexOfWordBit
  <2> QED
    BY <1>0, <1>7, <2>1, SMT DEF H!TakeBit
<1>8. ASSUME NEW t \in HintThreads, H!TakeReturn(t)
      PROVE  HintInv'
  BY <1>0, <1>8, SMT DEF H!TakeReturn
<1>9. ASSUME NEW t \in HintThreads, H!ClearSummary(t)
      PROVE  HintInv'
  BY <1>9, SMT DEF H!ClearSummary
<1>10. ASSUME NEW t \in HintThreads, H!Recheck(t)
       PROVE  HintInv'
  BY <1>10, SMT DEF H!Recheck, H!AfterClear
<1>11. ASSUME NEW t \in HintThreads, H!ResetSummary(t)
       PROVE  HintInv'
  BY <1>11, SMT DEF H!ResetSummary, H!AfterClear
<1>12. CASE UNCHANGED H!vars
  BY <1>12, SMT DEF H!vars
<1> QED
  BY <1>1, <1>2, <1>3, <1>4, <1>5, <1>6, <1>7, <1>8, <1>9, <1>10, <1>11, <1>12
  DEF H!Next, H!Call, H!Step

-----------------------------------------------------------------------------
(* The sum: who chooses the cell or the stack leaves the bitmap alone.     *)
LEMMA SumIsHint == PrimitivesSpec => H!Spec
<1>1. PrimitivesInit => H!Init
  BY DEF PrimitivesInit
<1>2. [PrimitivesNext]_allVars => [H!Next]_(H!vars)
  BY DEF PrimitivesNext, Cell, Stack, Hint, allVars, hintVars, H!vars
<1> QED
  BY <1>1, <1>2, PTL DEF PrimitivesSpec, H!Spec

LEMMA HintInvHolds == H!Spec => []HintInv
BY HintAssumed, InitHint, NextHint, PTL DEF H!Spec

(* Type correctness of the hint, for any number of threads, words and      *)
(* bits.                                                                   *)
THEOREM HintTypeCorrect == PrimitivesSpec => []H!TypeOK
<1>1. HintInv => H!TypeOK
  BY DEF HintInv
<1> QED
  BY SumIsHint, HintInvHolds, <1>1, PTL

-----------------------------------------------------------------------------
LEMMA NextVisible ==
    ASSUME H!SizeAssumption
    PROVE  HintInv /\ H!NonemptyWordIsVisible /\ [H!Next]_(H!vars) => H!NonemptyWordIsVisible'
<1> SUFFICES ASSUME HintInv, H!NonemptyWordIsVisible, [H!Next]_(H!vars),
                    NEW w \in H!Word, words'[w] # {}
             PROVE  w \in summary' \/ \E t \in HintThreads : H!Repairing(t, w)'
  BY DEF H!NonemptyWordIsVisible
<1> USE DEF HintInv, H!TypeOK, H!PCs, H!Goto, H!Repairing
<1>1. ASSUME NEW t \in HintThreads, NEW i \in H!Index, H!Publish(t, i)
      PROVE  w \in summary' \/ \E u \in HintThreads : H!Repairing(u, w)'
  <2>1. CASE w = i \div WordBits
    BY <1>1, <2>1 DEF H!Publish
  <2>2. CASE w # i \div WordBits
    <3>1. words[w] # {}
      BY <1>1, <2>2, WordBitOfIndex DEF H!Publish
    <3> QED
      BY <1>1, <3>1 DEF H!Publish, H!NonemptyWordIsVisible
  <2> QED
    BY <2>1, <2>2
<1>2. ASSUME words[w] # {}, NEW t \in HintThreads,
             \/ \E i \in H!Index : H!Forget(t, i)
             \/ H!Take(t) \/ H!PublishSummary(t) \/ H!TakeSummary(t)
             \/ H!TakeWord(t) \/ H!TakeBit(t) \/ H!TakeReturn(t) \/ H!ResetSummary(t)
      PROVE  w \in summary' \/ \E u \in HintThreads : H!Repairing(u, w)'
  BY <1>2 DEF H!NonemptyWordIsVisible, H!Forget, H!Take, H!PublishSummary, H!TakeSummary,
     H!TakeWord, H!TakeBit, H!TakeReturn, H!ResetSummary
<1>3. ASSUME NEW t \in HintThreads, NEW i \in H!Index, H!Forget(t, i)
      PROVE  words[w] # {}
  BY <1>3, WordBitOfIndex DEF H!Forget
<1>4. ASSUME NEW t \in HintThreads, H!TakeBit(t)
      PROVE  words[w] # {}
  BY <1>4 DEF H!TakeBit
<1>5. ASSUME NEW t \in HintThreads, H!ClearSummary(t)
      PROVE  w \in summary' \/ \E u \in HintThreads : H!Repairing(u, w)'
  BY <1>5 DEF H!ClearSummary, H!NonemptyWordIsVisible
<1>6. ASSUME NEW t \in HintThreads, H!Recheck(t)
      PROVE  w \in summary' \/ \E u \in HintThreads : H!Repairing(u, w)'
  BY <1>6 DEF H!Recheck, H!NonemptyWordIsVisible
<1>7. ASSUME NEW t \in HintThreads,
             \/ H!Take(t) \/ H!PublishSummary(t) \/ H!TakeSummary(t)
             \/ H!TakeWord(t) \/ H!TakeReturn(t) \/ H!ResetSummary(t)
      PROVE  words[w] # {}
  BY <1>7 DEF H!Take, H!PublishSummary, H!TakeSummary, H!TakeWord, H!TakeReturn,
     H!ResetSummary
<1>8. CASE UNCHANGED H!vars
  BY <1>8 DEF H!vars, H!NonemptyWordIsVisible
<1> QED
  BY <1>1, <1>2, <1>3, <1>4, <1>5, <1>6, <1>7, <1>8 DEF H!Next, H!Call, H!Step

(* No index that publish has put into the bitmap is lost from the summary, *)
(* whatever the interleaving of publishers, takers and their summary       *)
(* repairs (publish, clear_summary_recheck).                               *)
THEOREM PublishedStaysVisible == PrimitivesSpec => []NonemptyWordIsVisible
<1>1. H!Init => H!NonemptyWordIsVisible
  BY DEF H!Init, H!NonemptyWordIsVisible
<1>2. HintInv /\ H!NonemptyWordIsVisible /\ [H!Next]_(H!vars) => H!NonemptyWordIsVisible'
  BY HintAssumed, NextVisible
<1>3. H!NonemptyWordIsVisible <=> NonemptyWordIsVisible
  BY DEF NonemptyWordIsVisible
<1> QED
  BY SumIsHint, HintInvHolds, <1>1, <1>2, <1>3, PTL DEF H!Spec

-----------------------------------------------------------------------------
(* The refinement: the abstract set is the set of indices whose bit is     *)
(* set, and a taker's hand is the index its fetch_and removed.             *)

Published == {i \in H!Index : i % WordBits \in words[i \div WordBits]}

LEMMA AddBit ==
    ASSUME H!SizeAssumption, HintInv, NEW i \in H!Index,
           words' = [words EXCEPT ![i \div WordBits] = @ \cup {i % WordBits}]
    PROVE  Published' = Published \cup {i}
<1>1. ASSUME NEW j \in H!Index
      PROVE  j % WordBits \in words'[j \div WordBits]
                <=> j % WordBits \in words[j \div WordBits] \/ j = i
  <2>1. /\ i \div WordBits \in H!Word /\ j \div WordBits \in H!Word
        /\ (i \div WordBits = j \div WordBits /\ i % WordBits = j % WordBits => i = j)
    BY WordBitOfIndex
  <2> QED
    BY <2>1 DEF HintInv, H!TypeOK
<1> QED
  BY <1>1 DEF Published

LEMMA RemoveBit ==
    ASSUME H!SizeAssumption, HintInv, NEW i \in H!Index,
           words' = [words EXCEPT ![i \div WordBits] = @ \ {i % WordBits}]
    PROVE  Published' = Published \ {i}
<1>1. ASSUME NEW j \in H!Index
      PROVE  j % WordBits \in words'[j \div WordBits]
                <=> j % WordBits \in words[j \div WordBits] /\ j # i
  <2>1. /\ i \div WordBits \in H!Word /\ j \div WordBits \in H!Word
        /\ (i \div WordBits = j \div WordBits /\ i % WordBits = j % WordBits => i = j)
    BY WordBitOfIndex
  <2> QED
    BY <2>1 DEF HintInv, H!TypeOK
<1> QED
  BY <1>1 DEF Published

LEMMA HintStepImplements ==
    ASSUME H!SizeAssumption
    PROVE  HintInv /\ [H!Next]_(H!vars) => [H!Abstract!Next]_(H!Abstract!vars)
<1> SUFFICES ASSUME HintInv, [H!Next]_(H!vars)
             PROVE  H!Abstract!Next \/ (Published' = Published /\ picked' = picked)
  BY DEF H!Abstract!vars, Published
<1> USE DEF H!Abstract!Next
<1>1. ASSUME NEW t \in HintThreads, NEW i \in H!Index, H!Publish(t, i)
      PROVE  H!Abstract!Publish(i)
  BY <1>1, AddBit DEF H!Publish, H!Abstract!Publish, Published
<1>2. ASSUME NEW t \in HintThreads, NEW i \in H!Index, H!Forget(t, i)
      PROVE  H!Abstract!Forget(i)
  BY <1>2, RemoveBit DEF H!Forget, H!Abstract!Forget, Published
<1>3. ASSUME NEW t \in HintThreads, H!TakeBit(t)
      PROVE  H!Abstract!Next \/ (Published' = Published /\ picked' = picked)
  <2>0. PICK i : i = word[t] * WordBits + bit[t]
    OBVIOUS
  <2>1. i \in H!Index /\ i \div WordBits = word[t] /\ i % WordBits = bit[t]
    BY <2>0, IndexOfWordBit DEF HintInv, H!TypeOK
  <2>2. Published' = Published \ {i}
    BY <1>3, <2>1, RemoveBit DEF H!TakeBit
  <2>3. CASE bit[t] \notin words[word[t]]
    <3>1. i \notin Published
      BY <2>1, <2>3 DEF Published
    <3>2. picked' = picked
      BY <1>3, <2>3 DEF H!TakeBit
    <3>3. Published \ {i} = Published
      BY <3>1, SMT
    <3> QED
      BY <2>2, <3>2, <3>3, Zenon
  <2>4. CASE bit[t] \in words[word[t]]
    <3>1. i \in Published
      BY <2>1, <2>4 DEF Published
    <3>2. picked[t] = NoIndex
      BY <1>3 DEF H!TakeBit, HintInv, PickedInv
    <3>3. picked' = [picked EXCEPT ![t] = i]
      BY <1>3, <2>0, <2>4 DEF H!TakeBit
    <3>4. H!Abstract!Take(t, i)
      BY <2>2, <3>1, <3>2, <3>3 DEF H!Abstract!Take, Published
    <3>5. \E j \in H!Index : H!Abstract!Take(t, j)
      BY <2>1, <3>4, Zenon
    <3> QED
      BY <3>5, Zenon
  <2> QED
    BY <2>3, <2>4
<1>4. ASSUME NEW t \in HintThreads, H!TakeReturn(t)
      PROVE  H!Abstract!Return(t)
  BY <1>4 DEF H!TakeReturn, H!Abstract!Return
<1>5. ASSUME NEW t \in HintThreads,
             \/ H!Take(t) \/ H!PublishSummary(t) \/ H!TakeSummary(t) \/ H!TakeWord(t)
             \/ H!ClearSummary(t) \/ H!Recheck(t) \/ H!ResetSummary(t)
      PROVE  Published' = Published /\ picked' = picked
  BY <1>5 DEF H!Take, H!PublishSummary, H!TakeSummary, H!TakeWord, H!ClearSummary,
     H!Recheck, H!ResetSummary, Published
<1>6. CASE UNCHANGED H!vars
  BY <1>6 DEF H!vars, Published
<1> QED
  BY <1>1, <1>2, <1>3, <1>4, <1>5, <1>6 DEF H!Next, H!Call, H!Step

(* The bitmap implements the abstract set for every size and every number  *)
(* of threads: an index is handed out only when published and to one taker *)
(* only (fetch_and in take_nonempty).                                      *)
THEOREM HintImplementsSet == PrimitivesSpec => ImplementsSet
<1>1. H!Init => H!Abstract!Init
  BY HintAssumed, WordBitOfIndex DEF H!Init, H!Abstract!Init
<1>2. HintInv /\ [H!Next]_(H!vars) => [H!Abstract!Next]_(H!Abstract!vars)
  BY HintAssumed, HintStepImplements
<1>3. H!Spec => H!ImplementsSet
  BY HintInvHolds, <1>1, <1>2, PTL DEF H!Spec, H!ImplementsSet, H!Abstract!Spec
<1> QED
  BY SumIsHint, <1>3 DEF ImplementsSet
=============================================================================
