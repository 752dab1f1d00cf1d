---------------------------- MODULE MCPrimitives ----------------------------
(***************************************************************************)
(* The lock-free primitives underneath the registry, each in an instance   *)
(* of its own: the once-initialised pointer cell (OncePtrCell), the tagged *)
(* index stack (TaggedIndexStack), and the bitmap of the free heap slots   *)
(* (FreeSlotHint, two threads, two words of two bits).  A behaviour        *)
(* chooses one of them at the start and leaves the others alone.           *)
(***************************************************************************)
EXTENDS OncePtrCell

CONSTANTS t1, t2, t3, a, b, i1, i2, Indices, TAG_MAX, TAIL, Nobody,
          HintThreads, WORDS, WordBits, TAKE_ATTEMPTS, NoIndex

MCThreads == {t1, t2, t3}
MCHintThreads == {t1, t2}
MCPtrs == {a, b}
MCIndices == {i1, i2}

VARIABLES kind,  \* the instance that moves: "cell", "stack" or "hint"
          head, link, owner, spc, ix, obs, nxt,
          summary, words, hpc, word, bit, tries, picked

S == INSTANCE TaggedIndexStack WITH pc <- spc
H == INSTANCE FreeSlotHint WITH Threads <- HintThreads, pc <- hpc

ASSUME StackAssumed == S!StackAssumption
ASSUME HintAssumed == H!SizeAssumption

stackVars == <<head, link, owner, spc, ix, obs, nxt>>
hintVars == <<summary, words, hpc, word, bit, tries, picked>>
allVars == <<kind, vars, stackVars, hintVars>>

Cell(A) == kind = "cell" /\ A /\ UNCHANGED <<kind, stackVars, hintVars>>
Stack(A) == kind = "stack" /\ A /\ UNCHANGED <<kind, vars, hintVars>>
Hint(A) == kind = "hint" /\ A /\ UNCHANGED <<kind, vars, stackVars>>

PrimitivesInit ==
    /\ kind \in {"cell", "stack", "hint"}
    /\ Init /\ S!Init /\ H!Init
    /\ kind # "stack" => owner = [i \in Indices |-> t1]

PrimitivesNext == Cell(Next) \/ Stack(S!Next) \/ Hint(H!Next)

(* The fairness of each: an operation that has begun runs on.              *)
PrimitivesSpec ==
    /\ PrimitivesInit /\ [][PrimitivesNext]_allVars
    /\ \A t \in Threads :
         WF_allVars(\/ Cell(Step(t)) \/ Stack(S!Step(t))
                    \/ t \in HintThreads /\ Hint(H!Step(t)))

(* The properties of the stack (push_index_impl, pop_index_impl), stated   *)
(* in TaggedIndexStack: the chain holds each free index once, and the tag  *)
(* stays within its width,                                                 *)
ChainIsFree == S!TypeOK /\ S!ChainIsFree

(* and head and links implement a stack.                                   *)
IsStack == S!IsStack

(* The bitmap, stated in FreeSlotHint: a word with a bit set is not lost   *)
(* from the summary (publish, clear_summary_recheck),                      *)
NonemptyWordIsVisible == H!NonemptyWordIsVisible

(* words and summary implement a set of indices (take_nonempty),           *)
ImplementsSet == H!ImplementsSet

(* and a take uses up an attempt in every round and ends (take_nonempty).  *)
TakeEnds == H!TakeEnds

(* The calls make progress: each of the cell ends (init_slow), and of any  *)
(* group of threads inside operations of the stack one comes out.          *)
Progress == CallEnds /\ S!LockFree
=============================================================================
