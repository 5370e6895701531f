----------------------------- MODULE JobExecution -----------------------------
(***************************************************************************)
(* Processes that execute Jobs: VideoService.wait_job, its steps run by    *)
(* CheckpointedStepRunner, the paid calls of ModelCallCoordinator and the  *)
(* portable commit, over the JobStore.                                     *)
(*                                                                         *)
(* A process is one service instance (one owner id).  Between two calls of *)
(* the store it may be overtaken by any other process, its claim may run   *)
(* out, and it may crash; a crashed process never returns under the same   *)
(* owner id.  The three steps stand for the ones that differ: `preflight'  *)
(* runs again in every execution (reuse=False), `compile' makes a paid     *)
(* call and is reused from its checkpoint, `commit' publishes the bundle.  *)
(***************************************************************************)
EXTENDS JobStore

VARIABLES
    proc,         \* what each process is doing, and what it remembers
    checkpoints,  \* Attempts whose checkpoint record_checkpoint accepted
    published     \* Jobs whose bundle was renamed into the workspace

execVars == <<vars, proc, checkpoints, published>>

ASSUME ExecutionAssumption ==
    /\ Steps = {"preflight", "compile", "commit"}
    /\ \E r \in Requests : Requests = {r}    \* the paid call of the compile step

-----------------------------------------------------------------------------

InRunner == {"call", "begin", "provider", "settle", "save"}
OutsideRunner == {"recover", "reconcile", "pause", "enter", "start", "done", "publish"}
Phases == {"idle", "converge", "fail_read", "fail_write", "release", "dead"}
             \cup InRunner \cup OutsideRunner

\* active: the Attempt object wait_job got from its claim or takeover, in memory
\* and therefore `running' forever; cur: the Attempt under work; plan: how the
\* paid call is to be settled; err: the error being propagated (`abrupt': a busy
\* store or a KeyboardInterrupt, which wait_job lets through without failing the
\* Job).
Process == [phase : Phases, auth : Authority \cup {Nobody},
            active : Attempts \cup {Nobody}, cur : Attempts \cup {Nobody},
            step : Steps, op : Operations \cup {Nobody},
            plan : {"none", "succeeded", "failed", "unknown"},
            err : {"none", "unknown", "cancelled", "abrupt", "other"}]

Idle == [phase |-> "idle", auth |-> Nobody, active |-> Nobody, cur |-> Nobody,
         step |-> "preflight", op |-> Nobody, plan |-> "none", err |-> "none"]

\* What a process at work always remembers: an authority that claim_job returned
\* to it, the Attempt its phase works on, and the paid call it settles.  One that is
\* idle or lost remembers no authority.
AtWork == Phases \ {"idle", "dead"}
OnAttempt == InRunner \cup {"recover", "reconcile", "pause", "start", "done", "publish", "converge"}
OnOperation == {"begin", "provider", "settle"}

Remembers(p, w, granted) ==
    /\ p.phase \in AtWork => p.auth \in granted /\ p.auth.owner = w
    /\ p.phase \in OnAttempt => p.cur \in Attempts
    /\ p.phase \in OnOperation => p.op \in Operations
    /\ p.phase = "settle" => p.plan # "none"
    /\ p.phase \notin AtWork => p.auth = Nobody

ProcessesOK ==
    /\ proc \in [Owners -> Process]
    /\ \A w \in Owners : Remembers(proc[w], w, authorities)

ExecTypeOK ==
    /\ TypeOK
    /\ ProcessesOK
    /\ checkpoints \subseteq Attempts
    /\ published \subseteq Jobs

ExecInit ==
    /\ Init
    /\ proc = [w \in Owners |-> Idle]
    /\ checkpoints = {}
    /\ published = {}

At(w, phase) == proc[w].phase = phase
Become(w, p) == proc' = [proc EXCEPT ![w] = p]
Go(w, phase) == proc' = [proc EXCEPT ![w].phase = phase]
JobOf(w) == proc[w].auth.job

\* Phases that only need the authority (and the Attempt in memory) any more.
ToRelease(w) ==
    Become(w, [Idle EXCEPT !.phase = "release", !.auth = proc[w].auth])
ToFailJob(w) ==
    Become(w, [Idle EXCEPT !.phase = "fail_read", !.auth = proc[w].auth,
                           !.active = proc[w].active])

EnterStep(w, step) ==
    [proc[w] EXCEPT !.phase = "enter", !.step = step, !.cur = Nobody]
AfterStepSkipping(step) == IF step = "preflight" THEN "commit" ELSE step

AfterStep(step) == IF step = "preflight" THEN "compile" ELSE "commit"

\* _is_resumed_step
IsResumed(w) == /\ proc[w].active # Nobody
                /\ attempt[proc[w].active].step = proc[w].step

Checkpointed(j, step) ==
    \E a \in checkpoints : attempt[a].job = j /\ attempt[a].step = step

-----------------------------------------------------------------------------
(* wait_job: claim, recovery of a lost process's work, release.            *)

\* Once an Attempt is known to be ours: _reconcile_commit or _execute.
Resume(p, a) ==
    IF a # Nobody /\ attempt'[a].step = "commit"
    THEN [p EXCEPT !.phase = "publish", !.active = a, !.cur = a, !.step = "commit"]
    ELSE [p EXCEPT !.phase = "enter", !.active = a, !.cur = Nobody]

Claim(w, j) ==
    /\ At(w, "idle")
    /\ \E g \in Generations :
          LET p == [Idle EXCEPT !.auth = [job |-> j, owner |-> w, generation |-> g]] IN
          /\ ClaimJob(j, w, g)
          /\ \/ /\ job[j].cancel
                /\ Become(w, [p EXCEPT !.phase = "release"])
             \/ /\ ~job[j].cancel
                /\ NewestUnsettled(j) = {}
                /\ Become(w, Resume(p, Nobody))
             \/ /\ ~job[j].cancel
                /\ \E a \in NewestUnsettled(j) :
                      IF attempt'[a].token = g
                      THEN Become(w, Resume(p, a))
                      ELSE Become(w, [p EXCEPT !.phase = "recover", !.cur = a])
    /\ UNCHANGED <<checkpoints, published>>

TakeOver(w) ==
    /\ At(w, "recover")
    /\ \E b \in Attempts :
          /\ TakeOverAttempt(proc[w].cur, b, proc[w].auth)
          /\ IF job[JobOf(w)].cancel
             THEN ToRelease(w)
             ELSE Become(w, [proc[w] EXCEPT !.phase = "reconcile", !.active = b, !.cur = b])
    /\ UNCHANGED <<checkpoints, published>>

\* The lost process's started calls become unknown; if there are any, the Job
\* pauses for the user.
Reconcile(w) ==
    /\ At(w, "reconcile")
    /\ \/ ReconcileOperations(proc[w].auth) /\ Go(w, "pause")
       \/ /\ JobAuthority(JobOf(w), proc[w].auth)
          /\ LostOperations(JobOf(w), proc[w].auth.generation) = {}
          /\ UNCHANGED vars
          /\ Become(w, Resume(proc[w], proc[w].active))
    /\ UNCHANGED <<checkpoints, published>>

Pause(w) ==
    /\ At(w, "pause")
    /\ \E c \in Challenges : PauseForExternalOutcome(proc[w].cur, c, proc[w].auth)
    /\ ToRelease(w)
    /\ UNCHANGED <<checkpoints, published>>

\* Release is best effort: an exception here is swallowed.
Release(w) ==
    /\ At(w, "release")
    /\ ReleaseJobClaim(proc[w].auth) \/ UNCHANGED vars
    /\ Become(w, Idle)
    /\ UNCHANGED <<checkpoints, published>>

-----------------------------------------------------------------------------
(* CheckpointedStepRunner.run                                              *)

\* A valid checkpoint stands for the step; the Attempt resumed on it succeeds.
ReuseCheckpoint(w) ==
    /\ At(w, "enter")
    /\ proc[w].step = "compile"
    /\ Checkpointed(JobOf(w), "compile")
    /\ IF IsResumed(w)
       THEN TransitionAttempt(proc[w].active, "succeeded", proc[w].auth)
       ELSE UNCHANGED vars
    /\ Become(w, EnterStep(w, "commit"))
    /\ UNCHANGED <<checkpoints, published>>

\* Mutant: the checkpoint is not looked up.
MustRunAlways(w) == proc[w].step \in Steps

MustRun(w) == ~(proc[w].step = "compile" /\ Checkpointed(JobOf(w), "compile"))

\* What a step does once its Attempt runs.
Work(step) == CASE step = "preflight" -> "save"
                [] step = "compile" -> "call"
                [] step = "commit" -> "publish"

ResumeAttempt(w) ==
    /\ At(w, "enter")
    /\ MustRun(w)
    /\ IsResumed(w) /\ proc[w].step # "commit"
    /\ Become(w, [proc[w] EXCEPT !.phase = Work(proc[w].step), !.cur = proc[w].active])
    /\ UNCHANGED <<vars, checkpoints, published>>

BeginAttempt(w) ==
    /\ At(w, "enter")
    /\ MustRun(w)
    /\ ~IsResumed(w) \/ proc[w].step = "commit"
    /\ \E a \in Attempts :
          /\ CreateAttempt(JobOf(w), proc[w].step, a, proc[w].auth)
          /\ Become(w, [proc[w] EXCEPT !.phase = "start", !.cur = a])
    /\ UNCHANGED <<checkpoints, published>>

Start(w) ==
    /\ At(w, "start")
    /\ StartAttempt(proc[w].cur, proc[w].auth)
    /\ Go(w, Work(proc[w].step))
    /\ UNCHANGED <<checkpoints, published>>

\* Mutant: record_checkpoint without the authority check.
SaveCheckpointUnfenced(w) ==
    /\ At(w, "save")
    /\ job[JobOf(w)].state = "running"
    /\ checkpoints' = checkpoints \cup {proc[w].cur}
    /\ Go(w, "done")
    /\ UNCHANGED <<vars, published>>

\* FileAttemptStorage.save_checkpoint ends in record_checkpoint.
SaveCheckpoint(w) ==
    /\ At(w, "save")
    /\ ExecutionAuthority(proc[w].cur, proc[w].auth)
    /\ job[JobOf(w)].state = "running"
    /\ ~job[JobOf(w)].cancel
    /\ checkpoints' = checkpoints \cup {proc[w].cur}
    /\ Go(w, "done")
    /\ UNCHANGED <<vars, published>>

Succeed(w) ==
    /\ At(w, "done")
    /\ TransitionAttempt(proc[w].cur, "succeeded", proc[w].auth)
    /\ Become(w, EnterStep(w, AfterStep(proc[w].step)))
    /\ UNCHANGED <<checkpoints, published>>

\* The except clauses: pause on an unknown outcome, else cancel or fail the
\* Attempt; losing the authority on the way is swallowed.
AfterConverge(w) ==
    IF proc[w].err = "abrupt" THEN ToRelease(w) ELSE ToFailJob(w)

Converge(w) ==
    /\ At(w, "converge")
    /\ CASE proc[w].err = "unknown" ->
              \E c \in Challenges : PauseForExternalOutcome(proc[w].cur, c, proc[w].auth)
         [] proc[w].err = "cancelled" ->
              TransitionAttempt(proc[w].cur, "cancelled", proc[w].auth)
         [] OTHER ->
              TransitionAttempt(proc[w].cur, "failed", proc[w].auth)
    /\ AfterConverge(w)
    /\ UNCHANGED <<checkpoints, published>>

ConvergeFenced(w) ==
    /\ At(w, "converge")
    /\ ~ExecutionAuthority(proc[w].cur, proc[w].auth)
    /\ AfterConverge(w)
    /\ UNCHANGED <<vars, checkpoints, published>>

-----------------------------------------------------------------------------
(* ModelCallCoordinator.execute                                            *)

Throw(w, e) == [proc[w] EXCEPT !.phase = "converge", !.err = e, !.op = Nobody,
                               !.plan = "none"]

Siblings(w, states) ==
    UNION {SiblingsIn(JobOf(w), proc[w].step, r, states) : r \in Requests}

\* prepare returns the operation: new, reassigned, or already prepared by this
\* very Attempt.
Prepare(w) ==
    /\ At(w, "call")
    /\ \E o \in Operations, r \in Requests :
          /\ \/ PrepareOperation(o, proc[w].cur, r, proc[w].auth)
             \/ /\ MayPrepare(proc[w].cur, r, proc[w].auth)
                /\ o \in Siblings(w, {"prepared"})
                /\ operation[o].attempt = proc[w].cur
                /\ UNCHANGED vars
          /\ Become(w, [proc[w] EXCEPT !.phase = "begin", !.op = o])
    /\ UNCHANGED <<checkpoints, published>>

\* prepare returns an operation that succeeded before: its stored result is
\* used, or the terminal error it anchors is raised again.
RecoverResult(w) ==
    /\ At(w, "call")
    /\ Siblings(w, {"unknown", "started"}) = {}
    /\ Siblings(w, {"succeeded"}) # {}
    /\ Go(w, "save") \/ Become(w, Throw(w, "other"))
    /\ UNCHANGED <<vars, checkpoints, published>>

PrepareMeetsUnknown(w) ==
    /\ At(w, "call")
    /\ Siblings(w, {"unknown"}) # {}
    /\ Become(w, Throw(w, "unknown"))
    /\ UNCHANGED <<vars, checkpoints, published>>

\* guard.start: from here on the provider may bill.
Call(w) ==
    /\ At(w, "begin")
    /\ StartOperation(proc[w].op, proc[w].auth)
    /\ Go(w, "provider")
    /\ UNCHANGED <<checkpoints, published>>

\* The provider's answer, and how execute() means to record it: a terminal error
\* closes the call as succeeded; cancellation and unclear errors as unknown.
Answer(w) ==
    /\ At(w, "provider")
    /\ \E plan \in {"succeeded", "failed", "unknown"},
          e \in {"none", "unknown", "cancelled", "other"} :
          /\ plan = "succeeded" => e \in {"none", "other"}
          /\ plan = "failed" => e = "none"
          /\ plan = "unknown" => e # "none"
          /\ e = "cancelled" => job[JobOf(w)].cancel
          /\ Become(w, [proc[w] EXCEPT !.phase = "settle", !.plan = plan, !.err = e])
    /\ UNCHANGED <<vars, checkpoints, published>>

Settled(w) ==
    IF proc[w].err # "none" THEN Throw(w, proc[w].err)
    ELSE [proc[w] EXCEPT !.plan = "none", !.op = Nobody,
            !.phase = IF proc[w].plan = "failed" THEN "call" ELSE "save"]

\* Mutant: the answer is recorded without asking whether the call is still ours.
SettleUnfenced(w) ==
    /\ At(w, "settle")
    /\ operation' = [operation EXCEPT ![proc[w].op].state = proc[w].plan]
    /\ Become(w, Settled(w))
    /\ UNCHANGED <<job, claim, attempt, challenge, authorities, checkpoints, published>>

Settle(w) ==
    /\ At(w, "settle")
    /\ IF proc[w].plan = "unknown"
       THEN MarkOperationUnknown(proc[w].op, proc[w].auth)
       ELSE FinishOperation(proc[w].op, proc[w].plan, proc[w].auth)
    /\ Become(w, Settled(w))
    /\ UNCHANGED <<checkpoints, published>>

\* token.raise_if_cancelled, and the calls that refuse a cancelled Job.
ObserveCancellation(w) ==
    /\ \/ proc[w].phase \in {"call", "begin", "save"}
       \/ At(w, "settle") /\ proc[w].plan = "succeeded"
    /\ job[JobOf(w)].cancel
    /\ Become(w, Throw(w, "cancelled"))
    /\ UNCHANGED <<vars, checkpoints, published>>

-----------------------------------------------------------------------------
(* _commit: the bundle is renamed into the workspace inside the SQLite     *)
(* transaction, so nothing else is written to the store meanwhile.         *)

Publish(w) ==
    /\ At(w, "publish")
    /\ CommitResult(proc[w].cur, proc[w].auth)
    /\ published' = published \cup {JobOf(w)}
    /\ ToRelease(w)
    /\ UNCHANGED checkpoints

\* The rename happened, the SQLite commit did not: the process died, or the
\* database refused (which is not an error wait_job converges on).
PublishRolledBack(w) ==
    /\ At(w, "publish")
    /\ CommitGuard(proc[w].cur, proc[w].auth)
    /\ published' = published \cup {JobOf(w)}
    /\ Become(w, [Idle EXCEPT !.phase = "dead"]) \/ ToRelease(w)
    /\ UNCHANGED <<vars, checkpoints>>

-----------------------------------------------------------------------------
(* Failures.                                                               *)

\* Any call may raise: the store is busy, a lease is lost, a file or a media
\* tool fails.  A KeyboardInterrupt skips every handler but the runner's.
StepFails(w) ==
    /\ \/ /\ proc[w].phase \in InRunner \ {"provider"}
          /\ \E e \in {"abrupt", "other"} : Become(w, Throw(w, e))
       \/ /\ At(w, "provider")
          /\ Become(w, Throw(w, "abrupt"))
       \/ /\ proc[w].phase \in OutsideRunner
          /\ ToFailJob(w) \/ ToRelease(w)
       \/ /\ proc[w].phase \in {"converge", "fail_read", "fail_write"}
          /\ ToRelease(w)
    /\ UNCHANGED <<vars, checkpoints, published>>

\* _fail_job first reads the Job and its newest unsettled Attempt, then writes.
\* Without an unsettled one it falls back on the Attempt object in memory.
FailureTarget(w) ==
    LET newest == NewestUnsettled(JobOf(w)) IN
    IF newest = {} THEN proc[w].active
    ELSE LET a == CHOOSE a \in newest : TRUE IN
         IF attempt[a].state = "running" /\ attempt[a].token = proc[w].auth.generation
         THEN a ELSE Nobody

FailRead(w) ==
    /\ At(w, "fail_read")
    /\ IF job[JobOf(w)].state # "running"
       THEN ToRelease(w)
       ELSE Become(w, [proc[w] EXCEPT !.phase = "fail_write", !.cur = FailureTarget(w)])
    /\ UNCHANGED <<vars, checkpoints, published>>

FailWrite(w) ==
    /\ At(w, "fail_write")
    /\ IF proc[w].cur = Nobody
       THEN FailJob(JobOf(w), proc[w].auth)
       ELSE FailJobWithAttempt(proc[w].cur, proc[w].auth)
    /\ ToRelease(w)
    /\ UNCHANGED <<checkpoints, published>>

Crash(w) ==
    /\ proc[w].phase \notin {"idle", "dead"}
    /\ Become(w, [Idle EXCEPT !.phase = "dead"])
    /\ UNCHANGED <<vars, checkpoints, published>>

\* The runner and its heartbeat thread keep renewing, and may revive, the claim;
\* nothing renews it during recovery or the portable commit.
Heartbeat(w) ==
    /\ proc[w].phase \in InRunner \cup {"enter"}
    /\ proc[w].step # "commit"
    /\ HeartbeatJobClaim(proc[w].auth)
    /\ UNCHANGED <<proc, checkpoints, published>>

-----------------------------------------------------------------------------

ExecStep(w) ==
    \/ \E j \in Jobs : Claim(w, j)
    \/ TakeOver(w) \/ Reconcile(w) \/ Pause(w) \/ Release(w)
    \/ ReuseCheckpoint(w) \/ ResumeAttempt(w) \/ BeginAttempt(w) \/ Start(w)
    \/ SaveCheckpoint(w) \/ Succeed(w) \/ Converge(w) \/ ConvergeFenced(w)
    \/ Prepare(w) \/ RecoverResult(w) \/ PrepareMeetsUnknown(w)
    \/ Call(w) \/ Answer(w) \/ Settle(w) \/ ObserveCancellation(w)
    \/ Publish(w) \/ PublishRolledBack(w)
    \/ FailRead(w) \/ FailWrite(w)

Disturb ==
    \/ \E w \in Owners : StepFails(w) \/ Crash(w) \/ Heartbeat(w)
    \/ /\ \E j \in Jobs : ExpireClaim(j)
       /\ UNCHANGED <<proc, checkpoints, published>>

\* respond_job refuses the Challenges executions raise (they report an unknown
\* outcome, require_respondable), so no answer is among the user's calls.
User ==
    /\ \/ \E j \in Jobs, c \in ClientIds \cup {Nobody} : CreateJob(j, c)
       \/ \E j \in Jobs : CancelJob(j)
       \/ \E original, j \in Jobs, c \in ClientIds :
             CreateRetryJob(original, j, c, UnknownOperations(original))
    /\ UNCHANGED <<proc, checkpoints, published>>

ExecNext == (\E w \in Owners : ExecStep(w)) \/ Disturb \/ User

ExecSpec == ExecInit /\ [][ExecNext]_execVars

\* A process that is running goes on, if only by raising what a refused call raises; a claim
\* that is not renewed runs out; whoever drives the Job (wait_job of the command line, the
\* engine's worker) claims it again.
Works(w) == ExecStep(w) /\ proc[w].phase # "idle"

Fairness ==
    /\ \A w \in Owners : WF_execVars(Works(w) \/ StepFails(w))
    /\ \A j \in Jobs : /\ WF_execVars(\E w \in Owners : Claim(w, j))
                       /\ WF_execVars(ExpireClaim(j) /\ UNCHANGED <<proc, checkpoints, published>>)

ExecFairSpec == ExecSpec /\ Fairness

-----------------------------------------------------------------------------
(* Properties.                                                             *)

\* Whatever processes do, crash and lose, the store sees nothing but its own calls,
\* each with an authority it handed out: executions implement JobStore, and every
\* property of JobStore holds of them.
ImplementsJobStore == Spec

\* "An old owner cannot checkpoint or commit even if it still runs": once a
\* newer generation of its Job is granted, no step of a process changes a Job,
\* an Attempt, a paid call, a Challenge, a checkpoint or a bundle.
ZombieWritesNothing ==
    [][\A w \in Owners :
          /\ proc'[w] # proc[w]
          /\ proc[w].auth # Nobody
          /\ proc[w].auth.generation < claim[JobOf(w)].generation
          => UNCHANGED <<job, attempt, operation, challenge, checkpoints, published>>
      ]_execVars

\* A step whose checkpoint is recorded is not worked on again by a process that
\* owns the Job: neither its media work nor its paid call is repeated.
CheckpointedStepsNotRepeated ==
    \A w \in Owners :
        /\ proc[w].phase \in {"call", "begin", "provider", "settle", "save"}
        /\ proc[w].step = "compile"
        /\ JobAuthority(JobOf(w), proc[w].auth)
        => ~Checkpointed(JobOf(w), "compile")

\* A Job that waits for the user, and was not cancelled, has an open question and a
\* paid call whose outcome is unknown: nobody waits for an answer that was not asked for.
WaitingJobsAsk ==
    \A j \in Jobs : job[j].state = "waiting_for_input" /\ ~job[j].cancel =>
        /\ \E c \in Challenges : challenge[c].job = j /\ challenge[c].state = "pending"
        /\ UnknownOperations(j) # {}

\* A succeeded Job has its bundle in the workspace and owes the provider no
\* unsettled call.
SucceededJobsComplete ==
    \A j \in Jobs : job[j].state = "succeeded" =>
        /\ j \in published
        /\ Checkpointed(j, "compile")
        /\ \A o \in OperationsOf(j) : operation[o].state \notin {"started", "unknown"}

\* When a process executes a Job it owns, every Attempt a lost process left
\* running has been interrupted (architecture design, restart step 6).
LostAttemptsInterrupted ==
    \A w \in Owners : \A a \in Attempts :
        /\ proc[w].phase \in (InRunner \cup {"start", "done", "publish"})
        /\ JobAuthority(JobOf(w), proc[w].auth)
        /\ attempt[a].job = JobOf(w)
        /\ attempt[a].state = "running"
        => attempt[a].token = proc[w].auth.generation

\* A terminal Job has told the user every paid call whose outcome is open: none
\* is left `started', where create_retry_job_atomic does not ask about it.
TerminalJobsDiscloseCalls ==
    \A o \in Operations :
        operation[o].state = "started" => job[operation[o].job].state \notin JobTerminal

\* Once the bundle is renamed into the workspace the Job can only succeed.
PublishedJobsSucceed ==
    \A j \in published : job[j].state \notin {"failed", "cancelled"}

\* A Job that was started ends or asks its user, however often processes are lost, as long
\* as faults cease and a process can still claim it: no refusal on the way (a failure that
\* names an Attempt settled meanwhile, say) leaves it running for ever.
NoMoreFaults ==
    <>[][\A w \in Owners :
            /\ ~PublishRolledBack(w)
            /\ StepFails(w) => /\ ~ENABLED Works(w)
                               /\ proc'[w].err # "abrupt"
                               /\ proc[w].phase \in OutsideRunner => proc'[w].phase = "fail_read"
            /\ \A j \in Jobs :
                  ExpireClaim(j) /\ claim[j].owner = w => proc[w].phase \in {"idle", "dead"}
        ]_execVars

\* The bounds of the instance are used up, or every process is lost.
Exhausted(j) ==
    \/ \A a \in Attempts : attempt[a].state # "absent"
    \/ \A w \in Owners : At(w, "dead")
    \/ /\ claim[j].generation = MaxGeneration
       /\ \A w \in Owners : proc[w].phase \in {"idle", "dead"}
       /\ claim[j].status = "released" \/ At(claim[j].owner, "dead")

JobsEndOrAsk ==
    NoMoreFaults =>
        \A j \in Jobs : []<>(job[j].state \notin {"queued", "running"} \/ Exhausted(j))

\* A cancelled Job that waits for its user can still end: claim_job refuses it, so a process
\* that owns it must be at work ("the Job is finally cancelled").
CancelledJobCanEnd ==
    \A j \in Jobs : job[j].state = "waiting_for_input" /\ job[j].cancel =>
        \E w \in Owners : /\ proc[w].phase \in AtWork /\ JobOf(w) = j
                          /\ proc[w].auth.generation = claim[j].generation

=============================================================================
