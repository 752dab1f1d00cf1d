---------------------------- MODULE MCThreadHeaps ----------------------------
(* ThreadHeaps with two threads and one heap.                              *)
EXTENDS ThreadHeaps

CONSTANTS t1, t2, h1

MCThreads == {t1, t2}
MCHeaps == {h1}
=============================================================================
