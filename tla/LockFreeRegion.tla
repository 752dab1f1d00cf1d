-------------------------- MODULE LockFreeRegion --------------------------
(***************************************************************************)
(* A region that grows: src/concurrent/lock_free.                          *)
(*                                                                         *)
(* The whole region is one immutable snapshot.  A reader loads it and      *)
(* looks; a writer, under the mutex, makes the next one, which shares all  *)
(* but one page with it, and stores it.  The slots of a snapshot are in    *)
(* pages, the pages in a tree of fixed fanout (LockFreePageTable), the     *)
(* vacant slots in a chain that runs through all pages.                    *)
(*                                                                         *)
(* A value is named by the handle it was inserted under.                   *)
(***************************************************************************)
EXTENDS Integers, FiniteSets, Sequences
LOCAL INSTANCE FiniteSetsExt

CONSTANTS Threads,
          PAGE_SIZES,   \* bound: slots of a page
          FANOUT,       \* children of a node
          PAGES,        \* bound: numbers of pages that a region starts with
          MAX_INSERTS,  \* bound: handles given out
          MAX_GEN,      \* u32::MAX, where a slot is retired
          None, Pending, Inserting

LockFreeAssumption ==
    /\ PAGE_SIZES \subseteq Nat \ {0} /\ FANOUT \in Nat \ {0, 1} /\ MAX_GEN \in Nat
    /\ PAGES \subseteq Nat /\ MAX_INSERTS \in Nat

VARIABLES PAGE,     \* slots of a page, the same for ever
          state,    \* the current snapshot
          writers,  \* the thread that holds the mutex of the writers, or None
          loaded,   \* the snapshot that this thread has loaded
          issued,   \* history: the handles given out
          answer,   \* what the last call of a thread returned, or Pending
          call      \* the handle to remove, Inserting, or None

vars == <<PAGE, state, writers, loaded, issued, answer, call>>

-----------------------------------------------------------------------------
(* The page table: a node is a sequence, of pages at level 0, of nodes     *)
(* above.  The way to a page is in the digits of its number.               *)

(* The number of a page without its lowest digits, and one digit.          *)
above(idx, level) ==
    LET rest[l \in 0 .. level] == IF l = 0 THEN idx ELSE rest[l - 1] \div FANOUT
    IN  rest[level]
digit(idx, level) == above(idx, level) % FANOUT

Child(node, d) == IF d < Len(node) THEN node[d + 1] ELSE <<>>

WithChild(node, d, child) ==
    [i \in 1 .. IF d < Len(node) THEN Len(node) ELSE d + 1 |->
        IF i = d + 1 THEN child ELSE node[i]]

(* The nodes on the way from the root down to the item, by level; one that *)
(* is missing is an empty one.                                             *)
Way(root, height, idx) ==
    LET node[l \in 0 .. height] ==
          IF l = height THEN root ELSE Child(node[l + 1], digit(idx, l + 1))
    IN  node

(* That way is copied, from the leaf up.                                   *)
put(root, height, idx, item) ==
    LET way == Way(root, height, idx)
        copy[l \in 0 .. height] ==
          WithChild(way[l], digit(idx, l), IF l = 0 THEN item ELSE copy[l - 1])
    IN  copy[height]

get(table, idx) ==
    IF idx >= table.len THEN None
    ELSE Child(Way(table.root, table.height, idx)[0], digit(idx, 0))

set(table, idx, item) ==
    [table EXCEPT !.root = put(@, table.height, idx, item)]

(* Wrong variant: the tree grows one item late. *)
IsFullLate(table) == table.len # 0 /\ above(table.len - 1, table.height + 1) # 0

(* There are as many items as there are numbers of height + 1 digits.      *)
IsFull(table) == table.len # 0 /\ above(table.len, table.height + 1) # 0

(* A full tree becomes the first child of a new root.                      *)
push(table, item) ==
    LET root == IF IsFull(table) THEN <<table.root>> ELSE table.root
        height == IF IsFull(table) THEN table.height + 1 ELSE table.height
    IN  [root |-> put(root, height, table.len, item), height |-> height, len |-> table.len + 1]

(* from_vec: the items in chunks, level by level.                          *)
Chunks(items) ==
    [i \in 1 .. (Len(items) + FANOUT - 1) \div FANOUT |->
        SubSeq(items, (i - 1) * FANOUT + 1,
               IF i * FANOUT > Len(items) THEN Len(items) ELSE i * FANOUT)]

from_vec(items) ==
    LET levels[h \in 0 .. Len(items)] == Chunks(IF h = 0 THEN items ELSE levels[h - 1])
        height == CHOOSE h \in 0 .. Len(items) :
                    Len(levels[h]) <= 1 /\ \A l \in 0 .. h - 1 : Len(levels[l]) > 1
    IN  [root |-> IF items = <<>> THEN <<>> ELSE levels[height][1],
         height |-> height, len |-> Len(items)]

-----------------------------------------------------------------------------
(* Slots.  A vacant one has the next slot of the chain.                    *)
Vacant(generation, next) ==
    [generation |-> generation, value |-> None, next_free |-> next]

Page(snap, index) == get(snap.pages, index \div PAGE)
SlotOf(page, index) == page[(index % PAGE) + 1]

WithSlot(pages, index, slot) ==
    set(pages, index \div PAGE,
        [get(pages, index \div PAGE) EXCEPT ![(index % PAGE) + 1] = slot])

Handle(index, generation) == [index |-> index, generation |-> generation]

(* with_pages: all slots are in the chain, in order.                       *)
with_pages(n) ==
    [pages |-> from_vec([p \in 1 .. n |->
                  [i \in 1 .. PAGE |->
                      Vacant(0, IF (p - 1) * PAGE + i >= n * PAGE THEN None
                                ELSE (p - 1) * PAGE + i)]]),
     free_head |-> IF n = 0 THEN None ELSE 0, len |-> 0]

Init ==
    /\ PAGE \in PAGE_SIZES
    /\ \E n \in PAGES : state = with_pages(n)
    /\ writers = None /\ issued = {}
    /\ loaded = [t \in Threads |-> None]
    /\ answer = [t \in Threads |-> None]
    /\ call = [t \in Threads |-> None]

(* The handle resolves: its generation is the slot's, which is occupied.   *)
Resolves(snap, h) ==
    LET page == Page(snap, h.index)
        slot == SlotOf(page, h.index)
    IN  page # None /\ slot.generation = h.generation /\ slot.value # None

Value(snap, h) == SlotOf(Page(snap, h.index), h.index).value

(* insert_reusing: the head of the chain.                                  *)
insert_reusing(snap) ==
    LET index == snap.free_head
        slot == SlotOf(Page(snap, index), index)
        h == Handle(index, slot.generation)
    IN  [snap |-> [pages |-> WithSlot(snap.pages, index,
                                      [Vacant(slot.generation, None) EXCEPT !.value = h]),
                   free_head |-> slot.next_free, len |-> snap.len + 1],
         handle |-> h]

(* insert_growing: a new page, its first slot taken, the others the chain. *)
insert_growing(snap) ==
    LET base == snap.pages.len * PAGE
        page == [i \in 1 .. PAGE |->
                    IF i = 1 THEN [Vacant(0, None) EXCEPT !.value = Handle(base, 0)]
                    ELSE Vacant(0, IF i = PAGE THEN None ELSE base + i)]
    IN  [snap |-> [pages |-> push(snap.pages, page),
                   free_head |-> IF PAGE > 1 THEN base + 1 ELSE None, len |-> snap.len + 1],
         handle |-> Handle(base, 0)]

insert(snap) == IF snap.free_head # None THEN insert_reusing(snap) ELSE insert_growing(snap)

(* Wrong variant: the slot of the last generation is used again. *)
VacatedAlways(snap, h) ==
    [snap EXCEPT !.pages = WithSlot(@, h.index, Vacant((h.generation + 1) % (MAX_GEN + 1),
                                                       snap.free_head)),
                 !.free_head = h.index, !.len = @ - 1]

(* The slot goes to the head of the chain under a new generation; after    *)
(* the last one it is left out of the chain.                               *)
Vacated(snap, h) ==
    IF h.generation < MAX_GEN
      THEN [snap EXCEPT !.pages = WithSlot(@, h.index, Vacant(h.generation + 1, snap.free_head)),
                        !.free_head = h.index, !.len = @ - 1]
      ELSE [snap EXCEPT !.pages = WithSlot(@, h.index, Vacant(h.generation, None)),
                        !.len = @ - 1]

-----------------------------------------------------------------------------
Begin(t, c) ==
    /\ answer[t] # Pending
    /\ answer' = [answer EXCEPT ![t] = Pending]
    /\ call' = [call EXCEPT ![t] = c]
    /\ UNCHANGED <<PAGE, state, writers, loaded, issued>>

Insert(t) ==
    /\ Cardinality(issued) + Cardinality({u \in Threads : call[u] = Inserting}) < MAX_INSERTS
    /\ Begin(t, Inserting)

(* A reader: one load, then the answer of that snapshot.                   *)
Get(t, h) ==
    /\ answer[t] # Pending
    /\ answer' = [answer EXCEPT ![t] = IF Resolves(state, h) THEN Value(state, h) ELSE None]
    /\ UNCHANGED <<PAGE, state, writers, loaded, issued, call>>

(* A writer takes the mutex and loads the snapshot.                        *)
Lock(t) ==
    /\ answer[t] = Pending /\ writers = None
    /\ writers' = t
    /\ loaded' = [loaded EXCEPT ![t] = state]
    /\ UNCHANGED <<PAGE, state, issued, answer, call>>

Unlock(t, r) ==
    /\ writers' = None
    /\ loaded' = [loaded EXCEPT ![t] = None]
    /\ answer' = [answer EXCEPT ![t] = r]
    /\ call' = [call EXCEPT ![t] = None]
    /\ UNCHANGED PAGE

PublishInsert(t) ==
    /\ writers = t /\ call[t] = Inserting
    /\ LET r == insert(loaded[t])
       IN  /\ state' = r.snap
           /\ issued' = issued \cup {r.handle}
           /\ Unlock(t, r.handle)

PublishRemove(t) ==
    /\ writers = t /\ call[t] # Inserting
    /\ LET h == call[t]
       IN  IF Resolves(loaded[t], h)
             THEN state' = Vacated(loaded[t], h) /\ Unlock(t, Value(loaded[t], h))
             ELSE Unlock(t, None) /\ UNCHANGED state
    /\ UNCHANGED issued

Next ==
    \E t \in Threads :
        \/ Insert(t) \/ Lock(t) \/ PublishInsert(t) \/ PublishRemove(t)
        \/ \E h \in issued : Get(t, h) \/ Begin(t, h)

Spec == Init /\ [][Next]_vars

-----------------------------------------------------------------------------
Indices == 0 .. state.pages.len * PAGE - 1
At(index) == SlotOf(Page(state, index), index)

(* The slots along the chain, as many as there are, and one more.          *)
Chain ==
    LET link[n \in 0 .. state.pages.len * PAGE] ==
          IF n = 0 THEN state.free_head
          ELSE LET i == link[n - 1] IN IF i = None THEN None ELSE At(i).next_free
    IN  link

(* Each slot is occupied, on the chain once, or retired; the chain ends;   *)
(* len counts the occupied ones; and every page is found where it was put  *)
(* (insert_reusing, insert_growing, remove, PageTable::push).              *)
ChainIsExact ==
    LET chain == Chain
        onChain == {chain[i] : i \in DOMAIN chain} \ {None}
        Occupied == {index \in Indices : At(index).value # None}
        Retired == {index \in Indices \ Occupied :
                      At(index).generation = MAX_GEN /\ Handle(index, MAX_GEN) \in issued}
    IN  /\ chain[state.pages.len * PAGE] = None
        /\ \A i, j \in DOMAIN chain : chain[i] = chain[j] /\ chain[i] # None => i = j
        /\ onChain = Indices \ (Occupied \cup Retired)
        /\ \A index \in Occupied : At(index).value = Handle(index, At(index).generation)
        /\ state.len = Cardinality(Occupied)

Live == {h \in issued : Resolves(state, h)}

Handles == [index : 0 .. (Max(PAGES) + MAX_INSERTS) * Max(PAGE_SIZES) - 1, generation : 0 .. MAX_GEN]
=============================================================================
