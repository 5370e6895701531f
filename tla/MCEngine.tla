------------------------------ MODULE MCEngine ------------------------------
(***************************************************************************)
(* ResourceLease with instances of EngineDispatcher and EngineHost for     *)
(* TLC.  A behaviour moves the component `part' names; the others stay in  *)
(* their initial state.                                                    *)
(***************************************************************************)
EXTENDS ResourceLease, TLC

CONSTANTS
    Hosts, Clients, HostJobs, MaxKills, MaxInterrupts, MaxScanFaults,     \* of EngineHost
    DispatcherJobs, Workspaces, Home, MaxPending, MaxActive, PageSize,     \* of EngineDispatcher
    MaxLaunches, MaxStoreFaults, MaxTakes, MaxResponses, MaxCrashes, MaxLost

VARIABLES
    part,
    job, launches, cancelling, orphans, others, pending, known, active, requested, failed,
    dispatcherDraining, stopped, cursor, resumeAt, scan, due, loop, worker, notifying,
    unnotified, hostThread, dispatcherBudget,
    launch, lifetime, descriptor, host, accepted, quiet, draining, asked, requests, client,
    queued, hostBudget

-----------------------------------------------------------------------------
(* The dispatcher for TLC: one Job of one Workspace.                       *)
OneInstance == <<"w1">>
OneHome == [j \in DispatcherJobs |-> "w1"]

Dispatcher == INSTANCE EngineDispatcher WITH
    Jobs <- DispatcherJobs, Instances <- Workspaces, MaxFaults <- MaxStoreFaults,
    draining <- dispatcherDraining, host <- hostThread, budget <- dispatcherBudget

Host == INSTANCE EngineHost WITH
    Jobs <- HostJobs, None <- Nobody, MaxFaults <- MaxScanFaults, budget <- hostBudget

ASSUME EngineAssumption == Dispatcher!DispatcherAssumption /\ Host!HostAssumption

-----------------------------------------------------------------------------
dispatcherVars ==
    <<job, launches, cancelling, orphans, others, pending, known, active, requested, failed,
      dispatcherDraining, stopped, cursor, resumeAt, scan, due, loop, worker, notifying,
      unnotified, hostThread, dispatcherBudget>>
hostVars ==
    <<launch, lifetime, descriptor, host, accepted, quiet, draining, asked, requests, client,
      queued, hostBudget>>

EngineInit ==
    /\ part \in {"lease", "dispatcher", "host"}
    /\ Init /\ Dispatcher!Init /\ Host!Init

LeaseMoves == part = "lease" /\ Next /\ UNCHANGED <<part, dispatcherVars, hostVars>>
DispatcherMoves ==
    part = "dispatcher" /\ Dispatcher!Next /\ UNCHANGED <<part, vars, hostVars>>
HostMoves == part = "host" /\ Host!Next /\ UNCHANGED <<part, vars, dispatcherVars>>

EngineNext == LeaseMoves \/ DispatcherMoves \/ HostMoves

EngineSpec == EngineInit /\ [][EngineNext]_<<part, vars, dispatcherVars, hostVars>>

\* Owners and hosts are compared for equality only.
Symmetry == Permutations(Owners) \cup Permutations(Hosts)

-----------------------------------------------------------------------------
(* Properties of EngineDispatcher and EngineHost; those of ResourceLease   *)
(* are its own.                                                            *)

\* A Job that neither ended nor asked its user is launched at most MaxLaunches times,
\* also when its engine was killed and another counts on (EngineDispatcher).
LaunchBudgetHolds == Dispatcher!LaunchBudgetHolds

\* A host lets go of a Job it accepted only when the Job is done, when a stop was asked
\* for or when it was killed: an idle stop never drops one (EngineHost).
AcceptedJobsAreKept == Host!AcceptedJobsAreKept

\* An engine that serves is the one its descriptor names, unless a client was interrupted
\* while it waited for a launch (EngineHost).
ServingEngineIsFound == Host!ServingEngineIsFound

=============================================================================
