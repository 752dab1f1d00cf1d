------------------------------ MODULE MCShards ------------------------------
(***************************************************************************)
(* The two sharded tables of addresses whose locks give up at process      *)
(* exit, each in an instance of its own: the route directory               *)
(* (RouteDirectory) and the descriptors of the exact-object prototype      *)
(* (ExactObject).  A behaviour chooses one of them at the start and leaves *)
(* the other one alone.  Two of the three addresses of the table collide.  *)
(***************************************************************************)
EXTENDS RouteDirectory

CONSTANTS t1, t2, a1, a2, a3,
          Addrs, hash, INIT_CAP, EMPTY, TOMB

MCThreads == {t1, t2}
MCAddrs == {a1, a2, a3}
MChash == [a \in MCAddrs |-> IF a = a3 THEN 1 ELSE 0]

TwoThreads == [threads |-> {t1, t2}, keys |-> {1, 2}, pinned |-> {1}, half |-> 1,
               exits |-> TRUE]
MCSetups ==
    {TwoThreads,
     [threads |-> {t1, t2}, keys |-> 1 .. 3, pinned |-> {}, half |-> 1, exits |-> FALSE],
     [threads |-> {t1}, keys |-> 1 .. 7, pinned |-> {}, half |-> 2, exits |-> FALSE]}

VARIABLES kind,  \* the instance that moves: "directory" or "table"
          slots, used, live, live_hint, xlock, block, xexiting, xkilled, xpc, addr

Table == INSTANCE ExactObject
    WITH lock <- xlock, exiting <- xexiting, killed <- xkilled, pc <- xpc

ASSUME TableAssumed == Table!ExactAssumption

tableVars == <<slots, used, live, live_hint, xlock, block, xexiting, xkilled, xpc, addr>>
allVars == <<kind, vars, tableVars>>

ShardsInit ==
    /\ kind \in {"directory", "table"}
    /\ Init /\ Table!Init
    /\ kind = "table" => setup = TwoThreads

ShardsNext ==
    \/ kind = "directory" /\ Next /\ UNCHANGED <<kind, tableVars>>
    \/ kind = "table" /\ Table!Next /\ UNCHANGED <<kind, vars>>

DirectoryStep ==
    /\ kind = "directory" /\ setup.exits
    /\ \E t \in Threads : Step(t)
    /\ UNCHANGED <<kind, tableVars>>

TableStep ==
    /\ kind = "table"
    /\ \E t \in Threads : Table!AllocStep(t) \/ Table!FreeStep(t)
    /\ UNCHANGED <<kind, vars>>

(* The fairness of both: a call that can go on does.  Where the process    *)
(* does not exit none is needed.                                           *)
ShardsSpec ==
    /\ ShardsInit /\ [][ShardsNext]_allVars
    /\ WF_vars(DirectoryStep) /\ WF_tableVars(TableStep)

(* The table of descriptors (exact_shard.rs): it knows exactly the narrow  *)
(* blocks of the system, and a free goes where its block came from; stated *)
(* in ExactObject.                                                         *)
TableIsExact == Table!TableIsExact /\ Table!FreeGoesHome

(* Process exit is not blocked by the lock of a shard that a stopped       *)
(* thread holds, of the one (lock_unless_exiting) or of the other          *)
(* (acquire_unless_exiting).                                               *)
ExitGoesOn == ExitIsNotBlocked /\ Table!ExitIsNotBlocked
=============================================================================
