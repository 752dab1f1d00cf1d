---------------------------- MODULE MCMagazines ----------------------------
(* Magazines with two classes that have a depot and one that has none.     *)
EXTENDS Magazines

MCClasses == {1, 2, 3}
MCDepotClasses == {1, 2}
MCFREE_PARK_CAP == <<2, 2, 1>>
MCDEPOT_K == <<1, 1>>
MCmag_bytes == <<2, 3>>

(* The first setup has room for three records of class 1 and the blocks to *)
(* reach them: park_simple needs a record before it and room after it.     *)
MCSetups == {[depot_budget |-> 6, it |-> 0, others |-> <<7, 0, 0>>],
             [depot_budget |-> 4, it |-> 1, others |-> <<6, 0, 0>>],
             [depot_budget |-> 4, it |-> 3, others |-> <<5, 0, 1>>],
             [depot_budget |-> 3, it |-> 0, others |-> <<5, 5, 0>>]}
=============================================================================
