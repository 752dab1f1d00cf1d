------------------------------ MODULE MCDrains ------------------------------
(***************************************************************************)
(* The two ways in which a foreign free comes home, each in an instance    *)
(* of its own: small blocks through the notification (RemoteFree), Large   *)
(* blocks through the rotating cursor (LargeSegments).  A behaviour        *)
(* chooses one of them at the start and leaves the other one alone.        *)
(***************************************************************************)
EXTENDS RemoteFree

CONSTANTS p1, p2, a1, a2, e1, e2,
          Nothing, Entries, Sizes, BiasedSizes, MAX_SEGMENTS, LARGE_CACHE_SLOTS,
          BUDGET, HEADROOM, LARGE_HOT_BUDGET, MAX_LARGE_GENERATION

MCProducers == {p1, p2}
MCBases == {a1, a2}
MCEntries == {e1, e2}

VARIABLES kind,  \* the instance that moves: "small" or "large"
          hdr, entry, slots, routes, count, free_list, cache, used, cursor,
          fate, issued, lpc, lobj, lpin, lopc, want, scan, fatal

Large == INSTANCE LargeSegments
    WITH None <- Nothing,
         pc <- lpc, obj <- lobj, pin <- lpin, opc <- lopc

largeVars == <<hdr, entry, slots, routes, count, free_list, cache, used, cursor,
               fate, issued, lpc, lobj, lpin, lopc, want, scan, fatal>>

Small(A) == kind = "small" /\ A /\ UNCHANGED <<kind, largeVars>>
Big(A) == kind = "large" /\ A /\ UNCHANGED <<kind, vars>>

DrainsInit == kind \in {"small", "large"} /\ Init /\ Large!Init

DrainsNext == Small(Next) \/ Big(Large!Next)

allVars == <<kind, vars, largeVars>>

LargeOwner == \/ Large!Wrap \/ Large!Visit \/ Large!EndDrain
              \/ Large!AllocLarge \/ Large!AllocSlow
LargeProducer(p) == Large!Lookup(p) \/ Large!Publish(p)

(* The fairness of RemoteFree!FairSpec and of LargeSegments!Fairness: only *)
(* one side of each disjunction is ever enabled in a behaviour.            *)
DrainsSpec ==
    /\ DrainsInit /\ [][DrainsNext]_allVars
    /\ \A p \in Producers : WF_allVars(Small(ProducerStep(p)) \/ Big(LargeProducer(p)))
    /\ WF_allVars(Small(OwnerStep) \/ Big(LargeOwner))
    /\ SF_allVars(Small(TakeSummary) \/ Big(Large!StartDrain(FALSE, Nothing)))

(* A foreign free comes home.  A small block is reclaimed through the      *)
(* notification alone (process_ingress); a Large block goes back to the    *)
(* cache or the system, the bounded drain reaching every slot of the table *)
(* (drain_large_sidecar_ingress_hot_bounded).                              *)
FreesComeHome == RemoteFreeReclaimed /\ Large!ForeignFreeReclaimed
=============================================================================
