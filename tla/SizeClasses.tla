----------------------------- MODULE SizeClasses -----------------------------
(***************************************************************************)
(* The size classes of small blocks: crates/size-classes, with the caller  *)
(* src/alloc_core/platform/size_classes.rs.                                *)
(*                                                                         *)
(* A scheme is built once: the table of block sizes, a geometric run       *)
(* merged with extra sizes, and for each bucket of min_block bytes the     *)
(* class that serves its largest size.  After that class_for and           *)
(* divides_with are asked in any order; a question of class_for with a     *)
(* large alignment walks through the table, one jump per step.             *)
(*                                                                         *)
(* A table is a sequence from 1, its classes are counted from 0.           *)
(***************************************************************************)
EXTENDS Integers, Sequences
LOCAL INSTANCE SequencesExt

CONSTANTS BITS,        \* bits of a usize, 2^ROUNDS of them
          ROUNDS,      \* steps of the reciprocal (6 for 64 bits)
          AllParams,   \* Params: [min_block, num, den, geo_count, extras]
          None

ClassAssumption == ROUNDS \in Nat /\ BITS = 2 ^ ROUNDS

Usize == 0 .. 2 ^ BITS - 1
Wrap(n) == n % 2 ^ BITS
Aligns == {2 ^ e : e \in 0 .. BITS - 1}

VARIABLES sc,        \* the scheme: [min_block, table, size2class]
          question,  \* [size, align] or [class, off], or None
          walk,      \* the class where the walk of class_for stands, or None
          answer

vars == <<sc, question, walk, answer>>

-----------------------------------------------------------------------------
RoundUp(n, unit) == ((n + unit - 1) \div unit) * unit
DivCeil(n, d) == (n + d - 1) \div d

(* The class after cur, or one min_block more.                             *)
Advance(p, cur) ==
    LET rounded == RoundUp(DivCeil(cur * p.num, p.den), p.min_block)
    IN  IF rounded > cur THEN rounded ELSE cur + p.min_block

Geometric(p) ==
    FoldLeft(LAMBDA run, i : Append(run, Advance(p, run[i])), <<p.min_block>>,
             [i \in 1 .. p.geo_count - 1 |-> i])

(* The merge of the run with the extras, the lesser head first.            *)
build_table(p) ==
    LET geo == Geometric(p)
        take(m, k) ==
            IF m.ei > Len(p.extras) \/ (m.gi <= Len(geo) /\ geo[m.gi] < p.extras[m.ei])
              THEN [m EXCEPT !.out = Append(@, geo[m.gi]), !.gi = @ + 1]
              ELSE [m EXCEPT !.out = Append(@, p.extras[m.ei]), !.ei = @ + 1]
        N == Len(geo) + Len(p.extras)
    IN  FoldLeft(take, [gi |-> 1, ei |-> 1, out |-> <<>>], [k \in 1 .. N |-> k]).out

Increasing(seq) == \A i \in 2 .. Len(seq) : seq[i] > seq[i - 1]

(* What build_table asserts of its parameters and of the merged table.     *)
Accepted(p) ==
    /\ p.min_block \in Aligns /\ p.geo_count > 0 /\ p.den > 0
    /\ \A i \in DOMAIN p.extras :
         p.extras[i] % p.min_block = 0 /\ p.extras[i] >= p.min_block
    /\ Increasing(p.extras)
    /\ \A i \in DOMAIN Geometric(p) : Geometric(p)[i] \in Usize
    /\ Increasing(build_table(p))

size2class_len(max_class, min_block) == max_class \div min_block + 1

(* The largest size of bucket k; a product that is not a usize is larger   *)
(* than any class.                                                         *)
NeedOfBucket(k, min_block, small_max) ==
    IF (k + 1) * min_block \in Usize /\ (k + 1) * min_block < small_max
      THEN (k + 1) * min_block ELSE small_max

(* One pointer runs through the table while the buckets are filled.        *)
build_size2class(table, min_block) ==
    LET small_max == table[Len(table)]
        from(i, need) ==
            CHOOSE j \in i .. Len(table) - 1 :
                table[j + 1] >= need /\ \A l \in i .. j - 1 : table[l + 1] < need
        fill(out, k) ==
            Append(out, from(IF out = <<>> THEN 0 ELSE Last(out),
                             NeedOfBucket(k, min_block, small_max)))
        L == size2class_len(small_max, min_block)
        filled == FoldLeft(fill, <<>>, [k \in 1 .. L |-> k - 1])
    IN  [k \in 0 .. L - 1 |-> filled[k + 1]]

build(p) ==
    [min_block |-> p.min_block, table |-> build_table(p),
     size2class |-> build_size2class(build_table(p), p.min_block)]

Init ==
    /\ \E p \in AllParams : Accepted(p) /\ sc = build(p)
    /\ question = None /\ walk = None /\ answer = None

Classes == 0 .. Len(sc.table) - 1
block_size(i) == sc.table[i + 1]

-----------------------------------------------------------------------------
(* The class of a bucket; only the last bucket lies past the largest class. *)
ClassOfBucket(idx) ==
    IF idx >= size2class_len(block_size(Len(sc.table) - 1), sc.min_block) - 1 THEN None
    ELSE sc.size2class[idx]

(* Wrong variant: a size at the top of a bucket goes to the next one. *)
SeedIndexUp(need) == need \div sc.min_block

SeedIndex(need) == (need - 1) \div sc.min_block

(* For alignments up to min_block the bucket decides (and class_for_small_ *)
(* align looks at the size alone); for larger ones the walk begins there.  *)
ClassFor(size, align) ==
    LET need == IF align > sc.min_block /\ align > size THEN align
                ELSE IF size = 0 THEN 1 ELSE size
        seed == ClassOfBucket(SeedIndex(need))
    IN  /\ question = None
        /\ question' = [size |-> size, align |-> align]
        /\ IF seed # None /\ align > sc.min_block
             THEN walk' = seed /\ answer' = None
             ELSE walk' = None /\ answer' = seed
        /\ UNCHANGED sc

(* Wrong variant: the walk skips the multiple right after the block. *)
NextIndexFar(block, align) == ((block \div align + 1) * align) \div sc.min_block

(* (block | (align - 1)) >> shift: the bucket of the next multiple.        *)
NextIndex(block, align) == ((block \div align) * align + align - 1) \div sc.min_block

Walk ==
    LET block == block_size(walk)
        next == ClassOfBucket(NextIndex(block, question.align))
    IN  /\ walk # None
        /\ IF block % question.align = 0 THEN answer' = walk /\ walk' = None
           ELSE answer' = None /\ walk' = next
        /\ UNCHANGED <<sc, question>>

-----------------------------------------------------------------------------
TrailingZeros(d) == CHOOSE k \in 0 .. BITS - 1 : d % 2 ^ k = 0 /\ (d \div 2 ^ k) % 2 = 1

(* Wrong variant: the reciprocal is one step short. *)
NewtonShort(odd) ==
    FoldLeft(LAMBDA x, i : Wrap(x * Wrap(2 - Wrap(odd * x))), 1, [i \in 1 .. ROUNDS - 1 |-> i])

(* x with odd * x = 1: each step doubles the bits that are right.          *)
Newton(odd) ==
    FoldLeft(LAMBDA x, i : Wrap(x * Wrap(2 - Wrap(odd * x))), 1, [i \in 1 .. ROUNDS |-> i])

reciprocal(d) == Newton(d \div 2 ^ TrailingZeros(d))

rotate_right(v, k) == v \div 2 ^ k + (v % 2 ^ k) * 2 ^ (BITS - k)

divisor(idx) ==
    LET d == block_size(idx)
    IN  <<reciprocal(d), (2 ^ BITS - 1) \div d, TrailingZeros(d)>>

divides_with(params, off) == rotate_right(Wrap(off * params[1]), params[3]) <= params[2]

Divides(idx, off) ==
    /\ question = None
    /\ question' = [class |-> idx, off |-> off]
    /\ answer' = IF divides_with(divisor(idx), off) THEN 1 ELSE 0
    /\ UNCHANGED <<sc, walk>>

(* The caller has its answer.                                              *)
Return ==
    /\ question # None /\ walk = None
    /\ question' = None /\ answer' = None
    /\ UNCHANGED <<sc, walk>>

Next ==
    \/ \E size \in Usize, align \in Aligns : ClassFor(size, align)
    \/ Walk \/ Return
    \/ \E idx \in Classes, off \in Usize : Divides(idx, off)

Spec == Init /\ [][Next]_vars

-----------------------------------------------------------------------------
(* A class serves a layout.                                                *)
Serves(i, size, align) == block_size(i) >= size /\ block_size(i) % align = 0

Asked(field) == question # None /\ field \in DOMAIN question

(* The table is of multiples of min_block; class_for answers with the      *)
(* smallest class that serves the layout, or with None only if none does,  *)
(* and its walk has passed none that does (build_size2class, class_for).   *)
ClassIsLeast ==
    /\ \A i \in Classes : block_size(i) % sc.min_block = 0
    /\ Asked("size") =>
         LET Serving == {i \in Classes : Serves(i, question.size, question.align)}
         IN  CASE walk # None -> \A i \in Serving : i >= walk
               [] answer # None -> answer \in Serving /\ \A i \in Serving : i >= answer
               [] OTHER -> Serving = {}

(* divides_with, a multiplication and a rotation at the width of a word,   *)
(* is divisibility by the block size, for every offset.                    *)
DividesIsExact ==
    Asked("off") => (answer = 1 <=> question.off % block_size(question.class) = 0)

(* The walk only goes up the table.                                        *)
WalkAdvances == [][walk # None /\ walk' # None => walk' > walk]_vars
=============================================================================
