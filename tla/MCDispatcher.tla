---------------------------- MODULE MCDispatcher ----------------------------
(***************************************************************************)
(* Instances of EngineDispatcher for TLC, with its fairness: two Jobs that *)
(* crowd one queue and one worker, or one Job that meets every             *)
(* disturbance, as `part' says.                                            *)
(***************************************************************************)
EXTENDS Naturals, TLC

VARIABLES
    part,
    job, launches, cancelling, orphans, others, pending, known, active, requested, failed,
    draining, stopped, cursor, resumeAt, scan, due, loop, worker, notifying, unnotified, host,
    budget

TwoJobs == {1, 2}
OneInstance == <<"w1">>
OneHome == [j \in TwoJobs |-> "w1"]

Crowded == INSTANCE EngineDispatcher WITH
    Jobs <- TwoJobs, Instances <- OneInstance, Home <- OneHome, MaxPending <- 1, MaxActive <- 1,
    PageSize <- 1, MaxLaunches <- 1, MaxFaults <- 0, MaxTakes <- 0, MaxResponses <- 0,
    MaxCrashes <- 0, MaxLost <- 0
Disturbed == INSTANCE EngineDispatcher WITH
    Jobs <- TwoJobs, Instances <- OneInstance, Home <- OneHome, MaxPending <- 1, MaxActive <- 1,
    PageSize <- 1, MaxLaunches <- 2, MaxFaults <- 1, MaxTakes <- 1, MaxResponses <- 1,
    MaxCrashes <- 0, MaxLost <- 1

ASSUME DispatcherInstances ==
    Crowded!DispatcherAssumption /\ Disturbed!DispatcherAssumption

-----------------------------------------------------------------------------
vars == <<job, launches, cancelling, orphans, others, pending, known, active, requested, failed,
          draining, stopped, cursor, resumeAt, scan, due, loop, worker, notifying, unnotified,
          host, budget>>

Init == \/ part = "crowded" /\ Crowded!Init
        \/ part = "disturbed" /\ Disturbed!Init

Next == /\ \/ part = "crowded" /\ Crowded!Next
           \/ part = "disturbed" /\ Disturbed!Next /\ job'[2] = "absent"
        /\ cancelling' = {} /\ UNCHANGED part

\* The actions of EngineDispatcher's FairSpec.
ScanStep == IF part = "crowded" THEN Crowded!ScanStep ELSE Disturbed!ScanStep
LoopStep == IF part = "crowded" THEN Crowded!LoopStep ELSE Disturbed!LoopStep
HostStep == IF part = "crowded" THEN Crowded!HostStep ELSE Disturbed!HostStep
TimerExpires == IF part = "crowded" THEN Crowded!TimerExpires ELSE Disturbed!TimerExpires
OthersFree == part = "disturbed" /\ Disturbed!OthersFree
NotifyEnqueue(j) ==
    IF part = "crowded" THEN Crowded!NotifyEnqueue(j) ELSE Disturbed!NotifyEnqueue(j)
SuperviseStep(j) ==
    IF part = "crowded" THEN Crowded!SuperviseStep(j) ELSE Disturbed!SuperviseStep(j)

Spec ==
    /\ Init /\ [][Next]_<<part, vars>>
    /\ WF_vars(ScanStep) /\ WF_vars(LoopStep) /\ WF_vars(TimerExpires) /\ WF_vars(HostStep)
    /\ WF_vars(OthersFree)
    /\ \A j \in TwoJobs : WF_vars(NotifyEnqueue(j)) /\ WF_vars(SuperviseStep(j))

-----------------------------------------------------------------------------
\* A ready Job does not stay in the store untouched while an engine serves: whether its
\* notification was lost, refused or dropped as a duplicate by LocalJobDispatcher.notify,
\* a worker is launched for it or it is no longer ready.
ReadyJobsProceed == Disturbed!ReadyJobsProceed

=============================================================================
