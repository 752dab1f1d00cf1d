--------------------------- MODULE MCHeapRegistry ---------------------------
(* HeapRegistry with two threads, at most one worker, and one or two slots. *)
EXTENDS HeapRegistry, TLC

CONSTANTS t1, t2, w1

MCThreads == {t1, t2}
MCWorkers == {w1}
ThreadSymmetry == Permutations(Threads)
=============================================================================
