--------------------------- MODULE RouteDirectory ---------------------------
(***************************************************************************)
(* One shard of the route directory: the sorted list of the registered     *)
(* segments, by key (registry/segment_route/directory, shard_lock.rs).  It *)
(* is kept in two levels, an index of blocks of entry pointers, under a    *)
(* lock that is never held while memory is allocated or given back: an     *)
(* insert that needs memory lets go of the lock, allocates, comes back,    *)
(* hands over what it brought and starts anew.  Entries are counted: one   *)
(* reference of the owner, one for each pin.  The lock gives up at process *)
(* exit, when its holder may have been stopped for good.                   *)
(*                                                                         *)
(* The system allocator is external.  It may give the address of a freed   *)
(* entry out again: an entry is named by its key and one of two addresses. *)
(***************************************************************************)
EXTENDS Integers, Sequences, FiniteSets, SequencesExt

CONSTANTS Threads,
          Setups,              \* see setup
          INITIAL_INDEX_CAP,
          Nobody, NoEntry

ASSUME RouteDirectoryAssumption ==
    /\ Setups \subseteq [threads : SUBSET Threads, keys : SUBSET Nat, pinned : SUBSET Nat,
                         half : Nat \ {0}, exits : BOOLEAN]
    /\ \A s \in Setups : s.pinned \subseteq s.keys /\ NoEntry \notin s.keys \X {0, 1}
    /\ INITIAL_INDEX_CAP \in Nat \ {0}
    /\ IsFiniteSet(Threads) /\ Nobody \notin Threads

VARIABLES
    setup,       \* who runs; the keys; those looked up; BLOCK_HALF; whether the
                 \* process may exit
    index, cap,  \* the blocks by first key, and how many the index has room for
    spare,       \* how many empty blocks the shard keeps, 0 or 1
    lock,
    refs,        \* references of each entry; 0: its memory is free
    held,        \* entries with a live RouteRegistration, no call under way
    retained,    \* entries whose unlink gave up
    pc, entry,   \* of a thread: the next access, the entry it is about
    want, got,   \* Insert::Need and what was allocated for it: block, index_cap
    blocks, indexes,  \* how many of them the system has given out
    exiting, killed

shardVars == <<index, cap, spare>>
callVars == <<entry, want, got>>
memVars == <<blocks, indexes>>
exitVars == <<exiting, killed>>
vars == <<setup, shardVars, lock, refs, held, retained, pc, callVars, memVars, exitVars>>

Keys == setup.keys
Entries == Keys \X {0, 1}
BLOCK_HALF == setup.half
BLOCK_CAP == 2 * BLOCK_HALF
Nothing == [block |-> 0, index_cap |-> 0]

PCs == {"idle", "r_lock", "r_insert", "r_alloc", "i_lock", "i_given_up", "r_install",
        "r_failed", "l_lock", "l_given_up", "l_find", "pinned", "d_lock", "d_given_up",
        "d_remove", "d_release", "fatal"}

Sum(s) == FoldSeq(LAMBDA x, y : x + y, 0, s)

TypeOK ==
    /\ setup \in Setups
    /\ index \in Seq(Seq(Entries))
    /\ cap \in Nat /\ Len(index) <= cap
    /\ spare \in {0, 1}
    /\ lock \in Threads \cup {Nobody}
    /\ refs \in [Entries -> Nat]
    /\ held \subseteq Entries /\ retained \subseteq Entries
    /\ pc \in [Threads -> PCs]
    /\ entry \in [Threads -> Entries \cup {NoEntry}]
    /\ want \in [Threads -> [block : {0, 1}, index_cap : Nat]]
    /\ got \in [Threads -> [block : {0, 1}, index_cap : Nat]]
    /\ exiting \in Threads \cup {Nobody} /\ killed \subseteq Threads

Init ==
    /\ setup \in Setups
    /\ index = <<>> /\ cap = 0 /\ spare = 0
    /\ lock = Nobody
    /\ refs = [e \in Entries |-> 0]
    /\ held = {} /\ retained = {}
    /\ pc = [t \in Threads |-> "idle"]
    /\ entry = [t \in Threads |-> NoEntry]
    /\ want = [t \in Threads |-> Nothing] /\ got = [t \in Threads |-> Nothing]
    /\ blocks = 0 /\ indexes = 0
    /\ exiting = Nobody /\ killed = {}

At(t, label) == t \in setup.threads \ killed /\ pc[t] = label
Goto(t, label) == pc' = [pc EXCEPT ![t] = label]
Larger(x, y) == IF x > y THEN x ELSE y
Smaller(x, y) == IF x < y THEN x ELSE y

-----------------------------------------------------------------------------
(* Shard, under the lock.                                                  *)
Key(e) == e[1]
KeysOf(b) == {Key(index[b][i]) : i \in DOMAIN index[b]}

(* The block that has or would have the key: the last one that begins at   *)
(* or below it, or the first; 0 if there is none.                          *)
Block(key) ==
    Smaller(Len(index),
            Larger(1, Cardinality({b \in DOMAIN index : Key(index[b][1]) <= key})))
Position(key) ==
    Cardinality({i \in DOMAIN index[Block(key)] : Key(index[Block(key)][i]) < key})

(* Shard::find: the entry at the key's place, if it is there. *)
find(key) ==
    IF index = <<>> THEN NoEntry
    ELSE LET b == Block(key)
             pos == Position(key) + 1
         IN  IF pos \in DOMAIN index[b] /\ Key(index[b][pos]) = key THEN index[b][pos]
             ELSE NoEntry

needs_block(key) == index = <<>> \/ Len(index[Block(key)]) = BLOCK_CAP

Need(key) ==
    [block |-> IF needs_block(key) THEN 1 - spare ELSE 0,
     index_cap |-> IF ~ needs_block(key) \/ Len(index) < cap THEN 0
                   ELSE IF cap = 0 THEN INITIAL_INDEX_CAP ELSE 2 * cap]

(* The index with e in block b, at pos of a block that is split if full.   *)
WithEntry(e) ==
    IF index = <<>> THEN <<<<e>>>>
    ELSE LET b == Block(Key(e))
             pos == Position(Key(e))
             low == SubSeq(index[b], 1, BLOCK_HALF)
             high == SubSeq(index[b], BLOCK_HALF + 1, BLOCK_CAP)
         IN  IF ~ needs_block(Key(e))
               THEN ReplaceAt(index, b, InsertAt(index[b], pos + 1, e))
             ELSE IF pos <= BLOCK_HALF
               THEN InsertAt(ReplaceAt(index, b, InsertAt(low, pos + 1, e)), b + 1, high)
             ELSE InsertAt(ReplaceAt(index, b, low), b + 1,
                           InsertAt(high, pos - BLOCK_HALF + 1, e))

(* Wrong variant: the right neighbour goes in front. *)
MergedLeft(ix, b) == ReplaceAt(RemoveAt(ix, b + 1), b, ix[b + 1] \o ix[b])

(* absorb: block b takes what its right neighbour has. *)
Merged(ix, b) == ReplaceAt(RemoveAt(ix, b + 1), b, ix[b] \o ix[b + 1])
MergedIfSmall(ix, b) ==
    IF b \in 1 .. Len(ix) - 1 /\ Len(ix[b]) + Len(ix[b + 1]) <= BLOCK_HALF
      THEN Merged(ix, b) ELSE ix

(* Shard::remove: an empty block is dropped, a small one merged with its   *)
(* neighbours.                                                             *)
WithoutEntry(e) ==
    LET b == Block(Key(e))
        ix == ReplaceAt(index, b, RemoveAt(index[b], Position(Key(e)) + 1))
    IN  IF ix[b] = <<>> THEN RemoveAt(ix, b)
        ELSE MergedIfSmall(MergedIfSmall(ix, b), b - 1)

-----------------------------------------------------------------------------
(* ShardLock::lock_unless_exiting: a thread waits for the lock, or gives   *)
(* up when the process is exiting.                                         *)
MayGiveUp(t) == lock # Nobody /\ exiting # Nobody

Lock(t, here, locked, give_up) ==
    /\ At(t, here)
    /\ IF lock = Nobody THEN lock' = t /\ Goto(t, locked)
       ELSE MayGiveUp(t) /\ Goto(t, give_up) /\ UNCHANGED lock
    /\ UNCHANGED <<setup, shardVars, refs, held, retained, callVars, memVars, exitVars>>

(* EntryHandle::drop: the last reference frees the entry.                  *)
Dropped(e) == refs' = [refs EXCEPT ![e] = @ - 1]
Done(t) == Goto(t, "idle") /\ entry' = [entry EXCEPT ![t] = NoEntry]

-----------------------------------------------------------------------------
(* RouteDirectory::register_route: the entry first, with its sidecar.  A   *)
(* call that does not get them changes nothing.                            *)
Register(t, key) ==
    /\ At(t, "idle")
    /\ \E e \in Entries :
         /\ Key(e) = key /\ refs[e] = 0
         /\ \A f \in Entries : Key(f) = key /\ refs[f] = 0 => e[2] <= f[2]
         /\ refs' = [refs EXCEPT ![e] = 1]
         /\ entry' = [entry EXCEPT ![t] = e]
    /\ Goto(t, "r_lock")
    /\ UNCHANGED <<setup, shardVars, lock, held, retained, want, got, memVars, exitVars>>

RegisterFailed(t) ==
    /\ At(t, "r_failed")
    /\ Dropped(entry[t]) /\ Done(t)
    /\ UNCHANGED <<setup, shardVars, lock, held, retained, want, got, memVars, exitVars>>

(* Shard::insert, and the guard is dropped. *)
Insert(t) ==
    /\ At(t, "r_insert")
    /\ lock' = Nobody
    /\ LET e == entry[t]
           need == Need(Key(e))
       IN  IF find(Key(e)) # NoEntry
             THEN Goto(t, "r_failed") /\ UNCHANGED <<shardVars, held, entry, want>>
           ELSE IF need # Nothing
             THEN Goto(t, "r_alloc") /\ want' = [want EXCEPT ![t] = need]
                  /\ UNCHANGED <<shardVars, held, entry>>
           ELSE /\ index' = WithEntry(e)
                /\ spare' = IF needs_block(Key(e)) THEN 0 ELSE spare
                /\ held' = held \cup {e}
                /\ Done(t)
                /\ UNCHANGED <<cap, want>>
    /\ UNCHANGED <<setup, refs, retained, got, memVars, exitVars>>

(* SpareBlock::allocate, then BlockIndex::with_capacity; a block goes back *)
(* when the index cannot be had.                                           *)
Allocate(t) ==
    /\ At(t, "r_alloc")
    /\ want' = [want EXCEPT ![t] = Nothing]
    /\ \/ /\ got' = [got EXCEPT ![t] = want[t]]
          /\ blocks' = blocks + want[t].block
          /\ indexes' = indexes + IF want[t].index_cap > 0 THEN 1 ELSE 0
          /\ Goto(t, "i_lock")
       \/ Goto(t, "r_failed") /\ UNCHANGED <<got, memVars>>
    /\ UNCHANGED <<setup, shardVars, lock, refs, held, retained, entry, exitVars>>

(* Shard::install returns what somebody else has brought in the meantime.  *)
Surplus(t) == IF spare + got[t].block > 1 THEN 1 ELSE 0

Install(t) ==
    /\ At(t, "r_install")
    /\ lock' = Nobody
    /\ spare' = Larger(spare, got[t].block)
    /\ blocks' = blocks - Surplus(t)
    /\ cap' = IF Len(index) = cap THEN Larger(cap, got[t].index_cap) ELSE cap
    (* one of the two index arrays goes: the old one, or the new *)
    /\ indexes' = IF got[t].index_cap > 0 /\ cap > 0 THEN indexes - 1 ELSE indexes
    /\ got' = [got EXCEPT ![t] = Nothing]
    /\ Goto(t, "r_lock")
    /\ UNCHANGED <<setup, index, refs, held, retained, entry, want, exitVars>>

(* At exit the lock is not to be had: what was allocated goes back.        *)
InstallGivenUp(t) ==
    /\ At(t, "i_given_up")
    /\ blocks' = blocks - got[t].block
    /\ indexes' = indexes - IF got[t].index_cap > 0 THEN 1 ELSE 0
    /\ got' = [got EXCEPT ![t] = Nothing]
    /\ Goto(t, "r_failed")
    /\ UNCHANGED <<setup, shardVars, lock, refs, held, retained, entry, want, exitVars>>

-----------------------------------------------------------------------------
(* RouteDirectory::lookup of a key.                                        *)
Lookup(t, key) ==
    /\ At(t, "idle")
    /\ entry' = [entry EXCEPT ![t] = <<key, 0>>]
    /\ Goto(t, "l_lock")
    /\ UNCHANGED <<setup, shardVars, lock, refs, held, retained, want, got, memVars, exitVars>>

Find(t) ==
    /\ At(t, "l_find")
    /\ lock' = Nobody
    /\ LET e == find(Key(entry[t]))
       IN  IF e = NoEntry THEN Done(t) /\ UNCHANGED refs
           ELSE IF refs[e] = 0 THEN Goto(t, "fatal") /\ UNCHANGED <<refs, entry>>
           ELSE /\ refs' = [refs EXCEPT ![e] = @ + 1]
                /\ entry' = [entry EXCEPT ![t] = e]
                /\ Goto(t, "pinned")
    /\ UNCHANGED <<setup, shardVars, held, retained, want, got, memVars, exitVars>>

LookupGivenUp(t) ==
    /\ At(t, "l_given_up")
    /\ Done(t)
    /\ UNCHANGED <<setup, shardVars, lock, refs, held, retained, want, got, memVars, exitVars>>

(* The pin is dropped, long after the lock. *)
Unpin(t) ==
    /\ At(t, "pinned")
    /\ Dropped(entry[t]) /\ Done(t)
    /\ UNCHANGED <<setup, shardVars, lock, held, retained, want, got, memVars, exitVars>>

-----------------------------------------------------------------------------
(* RouteRegistration::drop.                                                *)
Deregister(t, e) ==
    /\ At(t, "idle")
    /\ e \in held
    /\ held' = held \ {e}
    /\ entry' = [entry EXCEPT ![t] = e]
    /\ Goto(t, "d_lock")
    /\ UNCHANGED <<setup, shardVars, lock, refs, retained, want, got, memVars, exitVars>>

(* Under the lock.  One displaced block is kept if there is no spare, the  *)
(* others are freed when the lock is free.                                 *)
Unlink(t) ==
    /\ At(t, "d_remove")
    /\ lock' = Nobody
    /\ IF find(Key(entry[t])) # entry[t]
         THEN Goto(t, "fatal") /\ UNCHANGED <<index, spare, blocks>>
         ELSE LET retired == Len(index) - Len(WithoutEntry(entry[t]))
                  kept == Smaller(1 - spare, retired)
              IN  /\ index' = WithoutEntry(entry[t])
                  /\ spare' = spare + kept
                  /\ blocks' = blocks - (retired - kept)
                  /\ Goto(t, "d_release")
    /\ UNCHANGED <<setup, cap, refs, held, retained, callVars, indexes, exitVars>>

Release(t) ==
    /\ At(t, "d_release")
    /\ Dropped(entry[t]) /\ Done(t)
    /\ UNCHANGED <<setup, shardVars, lock, held, retained, want, got, memVars, exitVars>>

(* Wrong variant: the owner reference is given back all the same. *)
RemoveGivenUpDropped(t) ==
    /\ At(t, "d_given_up")
    /\ Dropped(entry[t]) /\ Done(t)
    /\ UNCHANGED <<setup, shardVars, lock, held, retained, want, got, memVars, exitVars>>

(* The unlink gave up: the shard still points to the entry, which stays.   *)
RemoveGivenUp(t) ==
    /\ At(t, "d_given_up")
    /\ retained' = retained \cup {entry[t]}
    /\ Done(t)
    /\ UNCHANGED <<setup, shardVars, lock, refs, held, want, got, memVars, exitVars>>

-----------------------------------------------------------------------------
(* One thread ends the process: the others stop where they are.            *)
ExitProcess(t) ==
    /\ At(t, "idle") /\ exiting = Nobody
    /\ setup.exits
    /\ exiting' = t
    /\ killed' = setup.threads \ {t}
    /\ UNCHANGED <<setup, shardVars, lock, refs, held, retained, pc, callVars, memVars>>

Step(t) ==
    \/ Lock(t, "r_lock", "r_insert", "r_failed")
    \/ Insert(t) \/ Allocate(t) \/ RegisterFailed(t)
    \/ Lock(t, "i_lock", "r_install", "i_given_up")
    \/ Install(t) \/ InstallGivenUp(t)
    \/ Lock(t, "l_lock", "l_find", "l_given_up")
    \/ Find(t) \/ LookupGivenUp(t) \/ Unpin(t)
    \/ Lock(t, "d_lock", "d_remove", "d_given_up")
    \/ Unlink(t) \/ Release(t) \/ RemoveGivenUp(t)

Next ==
    \E t \in Threads :
        \/ Step(t) \/ ExitProcess(t)
        \/ \E key \in Keys : Register(t, key)
        \/ \E key \in setup.pinned : Lookup(t, key)
        \/ \E e \in Entries : Deregister(t, e)

Spec == Init /\ [][Next]_vars

(* A call that can go on does; which thread's is left open.                *)
FairSpec == Spec /\ WF_vars(\E t \in Threads : Step(t))

-----------------------------------------------------------------------------
(* Where the entries in the shard are: for each key the two-level search   *)
(* finds the registered entry, whatever was split and merged since, and it *)
(* finds nothing else.  No block is empty or beyond its capacity.          *)
Linked ==
    held \cup retained
    \cup {entry[t] : t \in {u \in setup.threads :
                               pc[u] \in {"d_lock", "d_remove", "d_given_up"}}}

RouteIsFound ==
    /\ \A e \in Linked : find(Key(e)) = e
    /\ \A b \in DOMAIN index : Len(index[b]) \in 1 .. BLOCK_CAP
    /\ Sum([b \in DOMAIN index |-> Len(index[b])]) = Cardinality(Linked)

(* Entries: one is there as long as somebody may come to it, through the shard *)
(* or through a pin, and is freed with the last reference: the count is    *)
(* the number of those who will give a reference back.                     *)
RefsAreExact ==
    /\ \A e \in Entries :
         refs[e] = Cardinality({t \in setup.threads :
                                  entry[t] = e /\ pc[t] \notin {"idle", "l_lock", "l_find",
                                                                "l_given_up"}})
                   + IF e \in held \cup retained THEN 1 ELSE 0
    /\ \A b \in DOMAIN index : \A i \in DOMAIN index[b] : refs[index[b][i]] > 0
    /\ \A t \in Threads : pc[t] # "fatal"

(* Entries, blocks and index arrays are neither lost nor freed twice on    *)
(* the way between the system, a thread and the shard; the state has its   *)
(* type, the index within its capacity.                                    *)
MemoryIsAccounted ==
    /\ TypeOK
    /\ RefsAreExact
    /\ blocks = Len(index) + spare + Cardinality({t \in Threads : got[t].block = 1})
    /\ indexes = (IF cap > 0 THEN 1 ELSE 0) + Cardinality({t \in Threads : got[t].index_cap > 0})

(* The shard finds every entry it holds and no other, and what it is made  *)
(* of is accounted for (insert, remove, the restart of an insert).         *)
DirectoryIsSound == MemoryIsAccounted /\ RouteIsFound

(* The call of the thread that ends the process comes to an end, though    *)
(* the shard may be locked for ever.                                       *)
ExitIsNotBlocked == (exiting # Nobody) ~> (exiting # Nobody /\ pc[exiting] = "idle")
=============================================================================
