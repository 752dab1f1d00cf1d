---------------------------- MODULE MCRemoteFree ----------------------------
(* Small instances of RemoteFree.                                          *)
EXTENDS RemoteFree, TLC

CONSTANTS p1, p2, a1, a2, a3

MCProducers == {p1, p2}
MCBases == {a1, a2, a3}
MCTwoBases == {a1, a2}
MCOneProducer == {p1}

Symmetric == Permutations(MCProducers) \cup Permutations(MCBases)
=============================================================================
