---------------------------- MODULE MCMaintenance ----------------------------
(***************************************************************************)
(* Maintenance from both sides, each in an instance of its own: a claim    *)
(* that meets the lease of the worker (HeapRegistry), and the service with *)
(* its worker and what that does in a heap (Maintenance).  A behaviour     *)
(* chooses one of them at the start and leaves the other one alone.        *)
(***************************************************************************)
EXTENDS HeapRegistry

CONSTANTS t1, t2, w1, Setups,
          SLOT_BUDGET, BACKGROUND_INGRESS_BUDGET, FALLBACK_IDLE_VISITS

MCThreads == {t1, t2}
MCWorkers == {w1}

(* The start with two starters, the visits to the fallback heap, the       *)
(* passes over two heaps, the drain of two slots, and that of two words.   *)
MCSetups ==
    LET Size(s, h, i, w, f) ==
          [starters |-> s, heaps |-> h, slots |-> i, words |-> w, fallback |-> f]
    IN  {Size({t1, t2}, 0, 0, 0, FALSE), Size({t1}, 0, 0, 0, TRUE),
         Size({t1}, 2, 1, 1, FALSE), Size({t1}, 1, 2, 1, FALSE), Size({t1}, 1, 1, 2, FALSE)}

VARIABLES kind,  \* the instance that moves: "registry" or "service"
          setup, service, control, spc, said, workers, aborted, wpc, heaps, cursor, pass,
          fbinit, fblock, samples, since, idle, self_acquired, calm, sampled

Service == INSTANCE Maintenance
    WITH Starters <- Threads, state <- service, prev <- samples,
         init <- fbinit, lock <- fblock

ASSUME ServiceAssumed == Service!ServiceAssumption

serviceVars ==
    <<setup, service, control, spc, said, workers, aborted, wpc, heaps, cursor, pass,
      fbinit, fblock, samples, since, idle, self_acquired, calm, sampled>>
allVars == <<kind, vars, serviceVars>>

BothInit ==
    /\ kind \in {"registry", "service"}
    /\ Init /\ Service!Init
    /\ kind = "registry" => setup.fallback

BothNext ==
    \/ kind = "registry" /\ Next /\ UNCHANGED <<kind, serviceVars>>
    \/ kind = "service" /\ Service!Next /\ UNCHANGED <<kind, vars>>

ClaimRuns(t) ==
    kind = "registry" /\ (ClaimStep(t) \/ DropTail(t)) /\ UNCHANGED <<kind, serviceVars>>
StarterRuns(s) == kind = "service" /\ Service!StarterStep(s) /\ UNCHANGED <<kind, vars>>
WorkerRuns == kind = "service" /\ Service!WorkerStep /\ UNCHANGED <<kind, vars>>

(* The fairness of both: an operation that can go on does, and so do the   *)
(* worker of the service and those who start it.                           *)
BothSpec ==
    /\ BothInit /\ [][BothNext]_allVars
    /\ \A t \in Threads : WF_vars(ClaimRuns(t)) /\ WF_serviceVars(StarterRuns(t))
    /\ WF_serviceVars(WorkerRuns)

(* A start that answers Ok has left the one worker behind, the state says  *)
(* where worker and starters are (start, StartingGuard), and the worker    *)
(* trims the fallback heap only after enough visits that found it idle     *)
(* (fallback_idle); the parts are stated in Maintenance.                   *)
ServiceIsHonest == Service!StartIsHonest /\ Service!TrimsOnlyIdle

(* A start of the service returns, and then the worker reclaims the frees  *)
(* that are left in heaps without an owner (maintenance_pass, its cursor   *)
(* and that of drain_sidecar_ingress_bounded); stated in Maintenance.      *)
ServiceDelivers == Service!StartReturns /\ Service!FreesAreReclaimed
=============================================================================
