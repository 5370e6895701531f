--------------------------- MODULE PortablePublish --------------------------
(***************************************************************************)
(* The last steps of the Jobs of one Workspace: the candidate bundle is    *)
(* assembled in its staging directory (core/portable/bundle_assembler.py,  *)
(* _FileCandidateBundleWriter), recorded by a checkpoint, prepared, and    *)
(* published while the process holds the machine's publish lease           *)
(* (core/jobs/workspace_publish.py) and the store's immediate transaction  *)
(* (IWikiPortableGateway, VideoService._commit, DocumentService._commit).  *)
(*                                                                         *)
(* Attempts and fencing tokens are those of JobStore: here the claim row   *)
(* names the process whose token is current.  The commit of the iwiki SDK  *)
(* is external: it stamps the staged bundle and renames the directory, and *)
(* a bundle already renamed is prepared and committed again idempotently.  *)
(***************************************************************************)
EXTENDS Naturals, FiniteSets

CONSTANTS
    Jobs,         \* Jobs of the Workspace that have reached the assembly
    Procs,        \* processes that may execute them
    None,
    Cancellable,  \* the Jobs the user may cancel
    MaxCrashes,   \* bound on processes killed
    MaxLapses,    \* bound on claims and leases that run out while their process lives
    MaxFaults     \* bound on file system and SDK errors

Publish == "publish"   \* the resource name of the Workspace's lease

ASSUME PublishAssumption ==
    /\ None \notin Procs /\ Publish \notin Jobs /\ Cancellable \subseteq Jobs
    /\ {MaxCrashes, MaxLapses, MaxFaults} \subseteq Nat

VARIABLES
    proc,        \* each process: the Job it executes and how far it is
    handle,      \* its PreparedBundle in the gateway's registry
    staging,     \* each Job's bundle.partial
    final,       \* bundles renamed into the Workspace
    checkpoint,  \* Jobs whose candidate is recorded
    jobs,        \* the Job rows
    claim,       \* the claim rows
    lease,       \* the publish lease
    expired,     \* claims and leases that have run out
    tx,          \* the process in the store's immediate transaction
    faulted,     \* auxiliary: Jobs that met an error of the file system or the SDK
    budget

files == <<staging, final, checkpoint>>
admission == <<claim, lease, expired>>
vars == <<proc, handle, files, jobs, admission, tx, faulted, budget>>

Publishing == {"committing", "stamped", "renamed"}
Phases == Publishing \cup {"idle", "begin", "writing", "complete", "prepare", "prepared",
                           "held", "error"}
States == {"running", "succeeded", "failed", "cancelled"}

Idle == [phase |-> "idle", job |-> None]

Init ==
    /\ proc = [p \in Procs |-> Idle] /\ handle = [p \in Procs |-> "none"]
    /\ staging = [j \in Jobs |-> "absent"] /\ final = {} /\ checkpoint = {}
    /\ jobs = [j \in Jobs |-> [state |-> "running", cancel |-> FALSE]]
    /\ claim = [j \in Jobs |-> None] /\ lease = None /\ expired = {}
    /\ tx = None /\ faulted = {}
    /\ budget = [crashes |-> MaxCrashes, lapses |-> MaxLapses, faults |-> MaxFaults]

Job(p) == proc[p].job
At(p, phase) == proc[p].phase = phase
Goto(p, phase) == proc' = [proc EXCEPT ![p].phase = phase]
Spend(what) == budget[what] > 0 /\ budget' = [budget EXCEPT ![what] = @ - 1]

\* The store grants a write to p.
CanWrite(p) == tx \in {None, p}

\* The claim is p's and in time: _assert_job_authority.
Authorised(p) == claim[Job(p)] = p /\ Job(p) \notin expired

-----------------------------------------------------------------------------
(* The ways an execution leaves.                                           *)

\* Leaving the publish scope: the transaction is rolled back, the lease
\* released if it is still p's, and a handle the commit never got discarded.
Unwind(p) ==
    /\ tx' = IF tx = p THEN None ELSE tx
    /\ lease' = IF lease = p THEN None ELSE lease
    /\ expired' = IF lease = p THEN expired \ {Publish} ELSE expired
    /\ handle' = [handle EXCEPT ![p] = "none"]

\* release_job_claim, whose failure on a busy store is ignored.
ReleaseClaim(p) ==
    claim' = IF claim[Job(p)] = p /\ CanWrite(p) THEN [claim EXCEPT ![Job(p)] = None]
             ELSE claim

\* job_store_busy and resource_busy leave the Job as it is.
Leave(p) ==
    /\ Unwind(p) /\ ReleaseClaim(p)
    /\ proc' = [proc EXCEPT ![p] = Idle]
    /\ UNCHANGED <<files, jobs, faulted, budget>>

\* Any other error goes to _fail_job.
Raise(p) == Unwind(p) /\ Goto(p, "error") /\ UNCHANGED <<files, jobs, claim>>

RaiseRefused(p) == Raise(p) /\ UNCHANGED <<faulted, budget>>

RaiseFault(p) ==
    Raise(p) /\ Spend("faults") /\ faulted' = faulted \cup {Job(p)}

\* _fail_job and fail_job_atomic; without authority the Job is left alone.
FailJob(p) ==
    /\ At(p, "error") /\ CanWrite(p)
    /\ jobs' = IF Authorised(p) /\ jobs[Job(p)].state = "running"
               THEN [jobs EXCEPT ![Job(p)].state =
                        IF jobs[Job(p)].cancel THEN "cancelled" ELSE "failed"]
               ELSE jobs
    /\ ReleaseClaim(p)
    /\ proc' = [proc EXCEPT ![p] = Idle]
    /\ UNCHANGED <<handle, files, lease, expired, tx, faulted, budget>>

\* Any write waits for the transaction of another process, but not for ever.
StoreBusy(p) ==
    /\ proc[p].phase \in {"complete", "held", "error"} /\ ~CanWrite(p)
    /\ Leave(p)

-----------------------------------------------------------------------------
(* claim_job and the assembly.                                             *)

Claimable(j) == claim[j] = None \/ j \in expired

\* claim_job settles a cancelled Job; otherwise the execution reuses the
\* recorded candidate, or assembles it.
Claim(p, j) ==
    /\ At(p, "idle") /\ Claimable(j) /\ jobs[j].state = "running" /\ tx = None
    /\ jobs' = IF jobs[j].cancel THEN [jobs EXCEPT ![j].state = "cancelled"] ELSE jobs
    /\ IF jobs[j].cancel THEN UNCHANGED <<proc, claim, expired>>
       ELSE /\ claim' = [claim EXCEPT ![j] = p] /\ expired' = expired \ {j}
            /\ proc' = [proc EXCEPT ![p] =
                  [phase |-> IF j \in checkpoint THEN "prepare" ELSE "begin", job |-> j]]
    /\ UNCHANGED <<handle, files, lease, tx, faulted, budget>>

\* _CandidateLocationCapability.begin: the directory is made exclusively.
Begin(p) ==
    /\ At(p, "begin") /\ staging[Job(p)] = "absent" /\ Goto(p, "writing")
    /\ staging' = [staging EXCEPT ![Job(p)] = "partial"]
    /\ UNCHANGED <<handle, final, checkpoint, jobs, admission, tx, faulted, budget>>

\* video_bundle_candidate_exists.  The nonce of the directory is derived from
\* the Job, so every execution of the Job meets the same one.
CandidateExists(p) ==
    /\ At(p, "begin") /\ staging[Job(p)] # "absent" /\ RaiseRefused(p)

\* The payloads are written and synced, then bundle.json and the directories.
Complete(p) ==
    /\ At(p, "writing") /\ Goto(p, "complete")
    /\ staging' = [staging EXCEPT ![Job(p)] = "complete"]
    /\ UNCHANGED <<handle, final, checkpoint, jobs, admission, tx, faulted, budget>>

\* A write or a sync fails: the marker does not stay behind.
WriteFails(p) ==
    /\ At(p, "writing") /\ Unwind(p) /\ Goto(p, "error")
    /\ staging' = [staging EXCEPT ![Job(p)] = "partial"]
    /\ Spend("faults") /\ faulted' = faulted \cup {Job(p)}
    /\ UNCHANGED <<final, checkpoint, jobs, claim>>

\* record_checkpoint and the validation that follows it.
RecordCandidate(p) ==
    /\ At(p, "complete") /\ CanWrite(p)
    /\ Authorised(p) /\ ~jobs[Job(p)].cancel /\ jobs[Job(p)].state = "running"
    /\ checkpoint' = checkpoint \cup {Job(p)}
    /\ Goto(p, "prepare")
    /\ UNCHANGED <<handle, staging, final, jobs, admission, tx, faulted, budget>>

RecordRefused(p) ==
    /\ At(p, "complete") /\ CanWrite(p)
    /\ ~Authorised(p) \/ jobs[Job(p)].cancel \/ jobs[Job(p)].state # "running"
    /\ RaiseRefused(p)

-----------------------------------------------------------------------------
(* The commit.                                                             *)

\* Mutant: only a staged bundle can be prepared.
PreparableStaged(j) == staging[j] \in {"complete", "stamped"}

Preparable(j) == staging[j] \in {"complete", "stamped"} \/ j \in final

\* prepare_candidate registers the handle.
Prepare(p) ==
    /\ At(p, "prepare") /\ Preparable(Job(p)) /\ Goto(p, "prepared")
    /\ handle' = [handle EXCEPT ![p] = "prepared"]
    /\ UNCHANGED <<files, jobs, admission, tx, faulted, budget>>

PrepareRefused(p) ==
    /\ At(p, "prepare") /\ ~Preparable(Job(p)) /\ RaiseRefused(p)

\* Mutant: a busy lease is an error like any other.
PublishBusyFails(p) ==
    /\ At(p, "prepared") /\ lease # None /\ Publish \notin expired /\ RaiseRefused(p)

\* WorkspacePublishCoordinator.hold finds the lease taken.
PublishBusy(p) ==
    /\ At(p, "prepared") /\ lease # None /\ Publish \notin expired /\ Leave(p)

Hold(p) ==
    /\ At(p, "prepared") /\ Goto(p, "held")
    /\ \/ lease = None
       \/ Publish \in expired
    /\ lease' = p /\ expired' = expired \ {Publish}
    /\ UNCHANGED <<handle, files, jobs, claim, tx, faulted, budget>>

MayCommit(p) ==
    Authorised(p) /\ jobs[Job(p)].state = "running" /\ ~jobs[Job(p)].cancel

\* BEGIN IMMEDIATE and _assert_commit_guard; the callback claims the handle.
BeginCommit(p) ==
    /\ At(p, "held") /\ tx = None /\ MayCommit(p)
    /\ tx' = p /\ handle' = [handle EXCEPT ![p] = "claimed"]
    /\ Goto(p, "committing")
    /\ UNCHANGED <<files, jobs, admission, faulted, budget>>

GuardRefuses(p) ==
    /\ At(p, "held") /\ tx = None /\ ~MayCommit(p) /\ RaiseRefused(p)

\* The SDK writes commit.json into the staged bundle.
Stamp(p) ==
    /\ At(p, "committing") /\ Goto(p, "stamped")
    /\ staging' = [staging EXCEPT ![Job(p)] = IF @ = "complete" THEN "stamped" ELSE @]
    /\ UNCHANGED <<handle, final, checkpoint, jobs, admission, tx, faulted, budget>>

\* ... and renames the directory, or finds it renamed; the handle is closed.
Rename(p) ==
    /\ At(p, "stamped") /\ Goto(p, "renamed")
    /\ final' = final \cup {Job(p)}
    /\ staging' = [staging EXCEPT ![Job(p)] = IF Job(p) \in final THEN @ ELSE "absent"]
    /\ handle' = [handle EXCEPT ![p] = "none"]
    /\ UNCHANGED <<checkpoint, jobs, admission, tx, faulted, budget>>

\* _finish_commit_guard and COMMIT, then the lease and the claim are released.
SqlCommit(p) ==
    /\ At(p, "renamed") /\ Unwind(p) /\ ReleaseClaim(p)
    /\ jobs' = [jobs EXCEPT ![Job(p)].state = "succeeded"]
    /\ proc' = [proc EXCEPT ![p] = Idle]
    /\ UNCHANGED <<files, faulted, budget>>

\* commit_prepared, or the store after it, raises.
CommitFails(p) == proc[p].phase \in Publishing /\ RaiseFault(p) /\ UNCHANGED files

-----------------------------------------------------------------------------
(* Processes, time and the user.                                           *)

\* The claim, the lease and the files stay; the transaction and the handle go.
Crash(p) ==
    /\ ~At(p, "idle") /\ Spend("crashes")
    /\ proc' = [proc EXCEPT ![p] = Idle] /\ handle' = [handle EXCEPT ![p] = "none"]
    /\ tx' = IF tx = p THEN None ELSE tx
    /\ UNCHANGED <<files, jobs, admission, faulted>>

\* A claim or lease runs out: at once when its process is gone, else within the bound.
RunsOut(name, live) ==
    /\ name \notin expired /\ expired' = expired \cup {name}
    /\ IF live THEN Spend("lapses") ELSE UNCHANGED budget
    /\ UNCHANGED <<proc, handle, files, jobs, claim, lease, tx, faulted>>

ClaimRunsOut(j) == claim[j] # None /\ RunsOut(j, Job(claim[j]) = j)
LeaseRunsOut ==
    lease # None /\ RunsOut(Publish, proc[lease].phase \in Publishing \cup {"held"})

\* cancel_job
RequestCancel(j) ==
    /\ j \in Cancellable /\ jobs[j].state = "running" /\ ~jobs[j].cancel /\ tx = None
    /\ jobs' = [jobs EXCEPT ![j].cancel = TRUE]
    /\ UNCHANGED <<proc, handle, files, admission, tx, faulted, budget>>

Execute(p) ==
    \/ Begin(p) \/ CandidateExists(p) \/ Complete(p)
    \/ RecordCandidate(p) \/ RecordRefused(p)
    \/ Prepare(p) \/ PrepareRefused(p) \/ PublishBusy(p) \/ Hold(p)
    \/ BeginCommit(p) \/ GuardRefuses(p) \/ Stamp(p) \/ Rename(p) \/ SqlCommit(p)
    \/ StoreBusy(p) \/ FailJob(p)

Fault(p) == WriteFails(p) \/ CommitFails(p) \/ Crash(p)

Next ==
    \/ \E p \in Procs : Execute(p) \/ Fault(p) \/ \E j \in Jobs : Claim(p, j)
    \/ \E j \in Jobs : ClaimRunsOut(j) \/ RequestCancel(j)
    \/ LeaseRunsOut

Spec == Init /\ [][Next]_vars

\* A process goes on, a Job that is not claimed is executed again (the engine
\* reconciles, the user waits), and what a lost process held runs out.
FairSpec ==
    /\ Spec
    /\ \A p \in Procs : WF_vars(Execute(p))
    /\ \A j \in Jobs : /\ WF_vars(\E p \in Procs : Claim(p, j))
                       /\ WF_vars(claim[j] # None /\ Job(claim[j]) # j /\ ClaimRunsOut(j))
    /\ WF_vars(lease # None /\ At(lease, "idle") /\ LeaseRunsOut)

-----------------------------------------------------------------------------
(* Properties.                                                             *)

\* Types, and that the process inside the immediate transaction is the one that
\* publishes.
TypeOK ==
    /\ proc \in [Procs -> [phase : Phases, job : Jobs \cup {None}]]
    /\ handle \in [Procs -> {"none", "prepared", "claimed"}]
    /\ staging \in [Jobs -> {"absent", "partial", "complete", "stamped"}]
    /\ final \subseteq Jobs /\ checkpoint \subseteq Jobs /\ faulted \subseteq Jobs
    /\ jobs \in [Jobs -> [state : States, cancel : BOOLEAN]]
    /\ claim \in [Jobs -> Procs \cup {None}] /\ lease \in Procs \cup {None}
    /\ expired \subseteq Jobs \cup {Publish} /\ tx \in Procs \cup {None}
    /\ budget \in [crashes : 0 .. MaxCrashes, lapses : 0 .. MaxLapses, faults : 0 .. MaxFaults]
    /\ \A p \in Procs : tx = p <=> proc[p].phase \in Publishing

\* The candidate a checkpoint names stays complete until it is the bundle,
\* whatever an overtaken process still writes, discards or leaves behind.
RecordedCandidateStays ==
    \A j \in checkpoint : staging[j] \in {"complete", "stamped"} \/ j \in final

\* However an execution ends, its PreparedBundle is closed: the gateway keeps no
\* open handle on a directory nobody works on.
HandlesClosed == \A p \in Procs : At(p, "idle") => handle[p] = "none"

\* A Job whose candidate is recorded fails only from an error of its own: neither
\* contention for the lease and the store, nor a loss of its process, nor a
\* publication that was lost after the rename, ends it.
RecordedJobsSurvive == \A j \in checkpoint : jobs[j].state = "failed" => j \in faulted

\* A bundle appears only for a Job that is running and not cancelled, by the
\* process its claim names: a cancellation or a takeover that came first wins,
\* and none can come between the guard and the rename.
RenameIsAuthorised ==
    [][\A j \in final' \ final :
          /\ jobs[j].state = "running" /\ ~jobs[j].cancel
          /\ \E p \in Procs : claim[j] = p /\ Job(p) = j /\ tx = p]_vars

\* A bundle that is visible becomes the result of its Job, whoever was lost after
\* the rename, when no error and no cancellation intervenes.
PublishedBecomesResult == \A j \in Jobs : j \in final ~> jobs[j].state = "succeeded"

\* Every Job ends.
EveryJobEnds == \A j \in Jobs : <>(jobs[j].state # "running")

\* What the recovery table of the bundle design promises: a candidate that was
\* assembled but not yet prepared can be prepared again after a loss, so no Job
\* fails without an error of its own.
FailedMeansFault == \A j \in Jobs : jobs[j].state = "failed" => j \in faulted
=============================================================================
