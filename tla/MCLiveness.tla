----------------------------- MODULE MCLiveness -----------------------------
(***************************************************************************)
(* Instances of EngineHost, PortablePublish and CodexPool for TLC, with    *)
(* the fairness of each: what must happen in the end.  A behaviour moves   *)
(* the component `part' names; the others stay in their initial state, and *)
(* nothing is asked of them.                                               *)
(***************************************************************************)
EXTENDS Naturals, TLC

CONSTANTS h1, h2, q1, q2, p1, p2, t1, t2, codex, Nobody

VARIABLES
    part,
    launch, lifetime, descriptor, host, accepted, quiet, draining, asked, requests, client,
    queued, hostBudget,
    proc, handle, staging, final, checkpoint, jobs, claim, lease, expired, tx, faulted,
    publishBudget,
    call, codexClient, server, slots, taken, over, begun, deaths

-----------------------------------------------------------------------------
(* Two hosts that launch and leave in turn, one client.                    *)
Hosts == {h1, h2}
OneClient == {"client"}
OneJob == {q1}

Host == INSTANCE EngineHost WITH
    Clients <- OneClient, Jobs <- OneJob, None <- Nobody, MaxKills <- 0, MaxInterrupts <- 0,
    MaxFaults <- 0, budget <- hostBudget

(* Two Jobs of one Workspace, a process lost, a claim or lease run out.    *)
Candidates == {q1, q2}
Procs == {p1, p2}
NoCancellation == {}

Publish == INSTANCE PortablePublish WITH
    Jobs <- Candidates, None <- Nobody, Cancellable <- NoCancellation, MaxCrashes <- 1,
    MaxLapses <- 1, MaxFaults <- 0, budget <- publishBudget

(* Two threads, one Codex process, one slot, a server that exits.          *)
Threads == {t1, t2}
OnePool == {codex}
OneHomeEach == [t \in Threads |-> codex]

Pool == INSTANCE CodexPool WITH
    Clients <- OnePool, Callers <- Threads, Home <- OneHomeEach, PoolSize <- 1, Capacity <- 1,
    MaxCalls <- 2, MaxDeaths <- 1, client <- codexClient

ASSUME LivenessAssumption == Host!HostAssumption /\ Pool!PoolAssumption

-----------------------------------------------------------------------------
hostVars ==
    <<launch, lifetime, descriptor, host, accepted, quiet, draining, asked, requests, client,
      queued, hostBudget>>
publishVars ==
    <<proc, handle, staging, final, checkpoint, jobs, claim, lease, expired, tx, faulted,
      publishBudget>>
poolVars == <<call, codexClient, server, slots, taken, over, begun, deaths>>

Init ==
    /\ part \in {"host", "publish", "pool"}
    /\ Host!Init /\ Publish!Init /\ Pool!Init

HostMoves ==
    part = "host" /\ Host!Next /\ UNCHANGED <<part, publishVars, poolVars>>
PublishMoves ==
    part = "publish" /\ Publish!Next /\ UNCHANGED <<part, hostVars, poolVars>>
PoolMoves ==
    part = "pool" /\ Pool!Next /\ UNCHANGED <<part, hostVars, publishVars>>

Next == HostMoves \/ PublishMoves \/ PoolMoves

-----------------------------------------------------------------------------
(* The fairness of each component's FairSpec, while it is the part.        *)
HostFairness ==
    /\ \A c \in OneClient : WF_hostVars(part = "host" /\ Host!ClientStep(c))
    /\ \A h \in Hosts : /\ WF_hostVars(part = "host" /\ Host!HostStep(h))
                        /\ WF_hostVars(part = "host" /\ Host!IdleTimePasses(h))
                        /\ WF_hostVars(part = "host" /\ Host!Forget(h))
    /\ WF_hostVars(part = "host" /\ \E q \in requests : Host!Accept(q) \/ Host!Handle(q))
PublishFairness ==
    /\ \A p \in Procs : WF_publishVars(part = "publish" /\ Publish!Execute(p))
    /\ \A j \in Candidates :
          /\ WF_publishVars(part = "publish" /\ \E p \in Procs : Publish!Claim(p, j))
          /\ WF_publishVars(/\ part = "publish" /\ claim[j] # Nobody
                            /\ Publish!Job(claim[j]) # j /\ Publish!ClaimRunsOut(j))
    /\ WF_publishVars(/\ part = "publish" /\ lease # Nobody
                      /\ Publish!At(lease, "idle") /\ Publish!LeaseRunsOut)
PoolFairness ==
    \A t \in Threads : /\ WF_poolVars(part = "pool" /\ Pool!Run(t))
                       /\ WF_poolVars(part = "pool" /\ Pool!Deadline(t))

Spec ==
    /\ Init /\ [][Next]_<<part, hostVars, publishVars, poolVars>>
    /\ HostFairness /\ PublishFairness /\ PoolFairness

-----------------------------------------------------------------------------
\* No launch, stop or idle check keeps the launch lock of LocalEngineClient and of the
\* host's idle stop, although each waits for the other.
LaunchLockReturns == Host!LaunchLockReturns

\* A bundle that publish_candidate made visible becomes the result of its Job, whoever
\* is lost after the rename and whichever claim or lease runs out.
PublishedBecomesResult == Publish!PublishedBecomesResult

\* Every call of run_markdown_turn ends, whatever the servers, the machine's slots, the
\* other threads and close() do.
EveryCallEnds == Pool!EveryCallEnds

=============================================================================
