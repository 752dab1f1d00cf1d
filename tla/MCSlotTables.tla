----------------------------- MODULE MCSlotTables -----------------------------
(***************************************************************************)
(* The tables of slots, each in an instance of its own: the table of a     *)
(* heap's segments (SegmentTable, five windows whose homes make clusters   *)
(* that run over the end of the hash table), the two regions               *)
(* (EpochRegion and LockFreeRegion, two threads, the latter with pages of  *)
(* one slot or of two) and the size classes (SizeClasses, five schemes).  *)
(* A behaviour chooses one of them at the start and leaves the others      *)
(* alone.                                                                  *)
(***************************************************************************)
EXTENDS EpochRegion, TLC

CONSTANTS t1, t2, MAX_SEGMENTS, HASH_CAPACITY, OWN_CACHE_SIZE, WORD, Keys,
          Primordial, hash_index,
          FANOUT, PAGE_SIZES, PAGES, MAX_INSERTS, Inserting,
          BITS, ROUNDS, AllParams

MCThreads == {t1, t2}
MCKeys == 1 .. 5
MCHome == 1 :> 3 @@ 2 :> 4 @@ 3 :> 4 @@ 4 :> 0 @@ 5 :> 3
MCPages == {0, 3}
MCPageSizes == {1, 2}

Scheme(m, n, d, g, e) ==
    [min_block |-> m, num |-> n, den |-> d, geo_count |-> g, extras |-> e]

(* The last bucket of the fourth scheme ends past the largest usize; the   *)
(* last two are refused, for an extra that the run has and for an overflow.*)
MCParams ==
    {Scheme(16, 5, 4, 4, <<128>>), Scheme(4, 5, 4, 10, <<88>>),
     Scheme(1, 3, 2, 8, <<16, 64>>), Scheme(64, 3, 2, 3, <<>>),
     Scheme(8, 0, 1, 3, <<40, 128>>),
     Scheme(16, 5, 4, 6, <<48>>), Scheme(64, 2, 1, 3, <<>>)}

VARIABLES kind,  \* the instance that moves
          slots, count, free_list, hash, own_cache, memo, leaf, ksummary, fatal,
          PAGE, lstate, writers, loaded, lissued, lanswer, call,
          sc, question, walk, sanswer

T == INSTANCE SegmentTable WITH summary <- ksummary
L == INSTANCE LockFreeRegion
    WITH state <- lstate, issued <- lissued, answer <- lanswer
C == INSTANCE SizeClasses WITH answer <- sanswer

ASSUME TableAssumed == T!TableAssumption
ASSUME RegionAssumed == RegionAssumption
ASSUME GrowingAssumed == L!LockFreeAssumption
ASSUME ClassAssumed == C!ClassAssumption

tableVars == <<slots, count, free_list, hash, own_cache, memo, leaf, ksummary, fatal>>
growingVars == <<PAGE, lstate, writers, loaded, lissued, lanswer, call>>
classVars == <<sc, question, walk, sanswer>>
allVars == <<kind, tableVars, vars, growingVars, classVars>>

Table(A) ==
    /\ kind = "table" /\ A
    /\ UNCHANGED <<kind, vars, growingVars, classVars>>
Epoch(A) ==
    /\ kind = "epoch" /\ A
    /\ UNCHANGED <<kind, tableVars, growingVars, classVars>>
Growing(A) ==
    /\ kind = "growing" /\ A
    /\ UNCHANGED <<kind, tableVars, vars, classVars>>
Sizes(A) ==
    /\ kind = "sizes" /\ A
    /\ UNCHANGED <<kind, tableVars, vars, growingVars>>

(* The instances that do not move stand at one initial state of theirs.    *)
SlotTablesInit ==
    /\ kind \in {"table", "epoch", "growing", "sizes"}
    /\ T!Init /\ Init /\ L!Init /\ C!Init
    /\ kind # "growing" => lstate = L!with_pages(0) /\ PAGE = 1
    /\ kind # "sizes" => sc.min_block = 8

SlotTablesNext ==
    Table(T!Next) \/ Epoch(Next) \/ Growing(L!Next) \/ Sizes(C!Next)

SlotTablesSpec == SlotTablesInit /\ [][SlotTablesNext]_allVars

(* The table of segments, stated in SegmentTable: each slot is live or on  *)
(* the free list, the index by kind agrees with the slots                  *)
(* (register_payload, unregister, recycle), and after any history a lookup *)
(* finds what is registered (hash_remove, own_cache_clear).                *)
TableIsSound == kind = "table" => T!SlotsAreAccounted /\ T!LookupsAreExact

(* The two regions, stated in EpochRegion and LockFreeRegion: no slot is   *)
(* lost or used twice, and no reader sees the value of another handle or   *)
(* one that is destroyed (try_evict_at, drain_remote_free, read_with;      *)
(* insert_reusing, insert_growing, remove).                                *)
RegionsAccount ==
    /\ kind = "epoch" => RegionAccounts
    /\ kind = "growing" => L!ChainIsExact

(* A get of the growing region is one step; the other calls wait for the   *)
(* mutex of the writers.                                                   *)
GrowingAsked(t) ==
    CASE call[t] = None -> None
      [] call[t] = Inserting -> <<"insert">>
      [] OTHER -> <<"remove", call[t]>>

GrowingStore == INSTANCE HandleStore
    WITH live <- L!Live, dead <- lissued \ L!Live, answer <- lanswer,
         call <- [t \in Threads |-> GrowingAsked(t)], Handles <- L!Handles

(* Both are stores of handles: a get or a removal of a handle finds its    *)
(* value until a removal has taken it, and nothing after that (EpochHandle,*)
(* RegionHandle).                                                          *)
RegionsAreStores == IsHandleStore /\ GrowingStore!Spec

(* The size classes: class_for answers with the least class that serves    *)
(* the layout, its walk goes up the table, and divides_with is             *)
(* divisibility (build_size2class, class_for, reciprocal).                 *)
SizesAreServed ==
    /\ [](kind = "sizes" => C!ClassIsLeast /\ C!DividesIsExact)
    /\ C!WalkAdvances
=============================================================================
