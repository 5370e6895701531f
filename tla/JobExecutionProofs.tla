-------------------------- MODULE JobExecutionProofs --------------------------
(***************************************************************************)
(* Executions implement the Job store: every step of a process, whatever   *)
(* it lost or forgot, is a call of JobStore with an authority claim_job    *)
(* granted, or leaves the store alone.  The theorems about JobStore then   *)
(* hold of executions.                                                     *)
(***************************************************************************)
EXTENDS JobExecution, JobStoreProofs

-----------------------------------------------------------------------------
(* What processes remember.                                                *)

\* The names of the three steps are steps.
LEMMA StepsType == {"preflight", "compile", "commit"} = Steps
BY ExecutionAssumption

\* A process that keeps a well-typed memory it is entitled to keeps them all so.
LEMMA BecomeKeeps ==
    ASSUME ProcessesOK, NEW w \in Owners, NEW p \in Process,
           Become(w, p), authorities \subseteq authorities',
           Remembers(p, w, authorities')
    PROVE  ProcessesOK'
<1>1. proc' \in [Owners -> Process]
  BY DEF ProcessesOK, Become
<1>2. ASSUME NEW v \in Owners PROVE Remembers(proc'[v], v, authorities')
  <2>1. CASE v = w
    BY <2>1 DEF Become, ProcessesOK
  <2>2. CASE v # w
    BY <2>2 DEF Become, ProcessesOK, Remembers
  <2> QED
    BY <2>1, <2>2
<1> QED
  BY <1>1, <1>2 DEF ProcessesOK

\* Processes that do not move remember what they did.
LEMMA IdleKeeps ==
    ASSUME ProcessesOK, UNCHANGED proc, authorities \subseteq authorities'
    PROVE  ProcessesOK'
BY DEF ProcessesOK, Remembers

\* A call with an authority is a step of the store.
LEMMA AuthorisedCalls ==
    ASSUME NEW auth \in authorities,
           AttemptStep(auth) \/ OperationStep(auth) \/ EndStep(auth)
    PROVE  Next
BY DEF Next

\* What the phase of a working process guarantees.
LEMMA WorkingProcess ==
    ASSUME ProcessesOK, NEW w \in Owners, proc[w].phase \in AtWork
    PROVE  /\ proc[w] \in Process
           /\ proc[w].auth \in authorities /\ proc[w].auth.owner = w
           /\ proc[w].phase \in OnAttempt => proc[w].cur \in Attempts
           /\ proc[w].phase \in OnOperation => proc[w].op \in Operations
           /\ proc[w].phase = "settle" => proc[w].plan # "none"
BY DEF ProcessesOK, Remembers

-----------------------------------------------------------------------------
(* Every step is a step of the store.                                      *)

\* The user's calls and the passage of time.
LEMMA UserCalls ==
    ASSUME User \/ \E j \in Jobs : ExpireClaim(j) PROVE Next
<1>1. CASE \E j \in Jobs : ExpireClaim(j)
  BY <1>1 DEF Next, ClaimStep
<1>2. CASE User
  <2>1. ASSUME NEW original \in Jobs, NEW j \in Jobs, NEW c \in ClientIds,
               CreateRetryJob(original, j, c, UnknownOperations(original))
        PROVE  UserStep
    <3>1. UnknownOperations(original) \in SUBSET Operations
      BY DEF UnknownOperations, OperationsOf
    <3> QED
      BY <2>1, <3>1 DEF UserStep
  <2>2. ASSUME NEW j \in Jobs, NEW c \in ClientIds \cup {Nobody}, CreateJob(j, c)
        PROVE  UserStep
    BY <2>2 DEF UserStep
  <2>3. ASSUME NEW j \in Jobs, CancelJob(j)
        PROVE  UserStep
    BY <2>3 DEF UserStep
  <2> QED
    BY <1>2, <2>1, <2>2, <2>3 DEF User, Next
<1> QED
  BY <1>1, <1>2

\* A step that moves a process makes one call of the store or none.
LEMMA StoreStep ==
    ASSUME ProcessesOK, [ExecNext]_execVars
    PROVE  [Next]_vars
<1>1. ASSUME NEW w \in Owners, NEW j \in Jobs, Claim(w, j)
      PROVE  Next
  BY <1>1 DEF Claim, Next, ClaimStep
<1>2. ASSUME NEW w \in Owners, TakeOver(w)
      PROVE  Next \/ UNCHANGED vars
  <2>1. proc[w].auth \in authorities /\ proc[w].cur \in Attempts
    BY <1>2, WorkingProcess DEF TakeOver, At, AtWork, Phases, OnAttempt, OnOperation, InRunner, OutsideRunner
  <2> QED
    BY <1>2, <2>1, AuthorisedCalls DEF TakeOver, AttemptStep
<1>3. ASSUME NEW w \in Owners, Reconcile(w)
      PROVE  Next \/ UNCHANGED vars
  <2>1. proc[w].auth \in authorities
    BY <1>3, WorkingProcess DEF Reconcile, At, AtWork, Phases, OnAttempt, OnOperation, InRunner, OutsideRunner
  <2> QED
    BY <1>3, <2>1, AuthorisedCalls DEF Reconcile, OperationStep
<1>4. ASSUME NEW w \in Owners, Pause(w)
      PROVE  Next \/ UNCHANGED vars
  <2>1. proc[w].auth \in authorities /\ proc[w].cur \in Attempts
    BY <1>4, WorkingProcess DEF Pause, At, AtWork, Phases, OnAttempt, OnOperation, InRunner, OutsideRunner
  <2> QED
    BY <1>4, <2>1, AuthorisedCalls DEF Pause, AttemptStep
<1>5. ASSUME NEW w \in Owners, Release(w)
      PROVE  Next \/ UNCHANGED vars
  <2>1. proc[w].auth \in authorities
    BY <1>5, WorkingProcess DEF Release, At, AtWork, Phases, OnAttempt, OnOperation, InRunner, OutsideRunner
  <2> QED
    BY <1>5, <2>1 DEF Release, Next, ClaimStep
<1>6. ASSUME NEW w \in Owners, ReuseCheckpoint(w)
      PROVE  Next \/ UNCHANGED vars
  <2>1. proc[w].auth \in authorities /\ proc[w] \in Process
    BY <1>6, WorkingProcess DEF ReuseCheckpoint, At, AtWork, Phases, OnAttempt, OnOperation, InRunner, OutsideRunner
  <2> QED
    BY <1>6, <2>1, AuthorisedCalls DEF ReuseCheckpoint, AttemptStep, IsResumed, AttemptTerminal, Process
<1>7. ASSUME NEW w \in Owners, BeginAttempt(w)
      PROVE  Next \/ UNCHANGED vars
  <2>1. proc[w].auth \in authorities /\ proc[w] \in Process
    BY <1>7, WorkingProcess DEF BeginAttempt, At, AtWork, Phases, OnAttempt, OnOperation, InRunner, OutsideRunner
  <2> QED
    BY <1>7, <2>1, AuthorisedCalls DEF BeginAttempt, AttemptStep, JobOf, Process
<1>8. ASSUME NEW w \in Owners, Start(w)
      PROVE  Next \/ UNCHANGED vars
  <2>1. proc[w].auth \in authorities /\ proc[w].cur \in Attempts
    BY <1>8, WorkingProcess DEF Start, At, AtWork, Phases, OnAttempt, OnOperation, InRunner, OutsideRunner
  <2> QED
    BY <1>8, <2>1, AuthorisedCalls DEF Start, AttemptStep
<1>9. ASSUME NEW w \in Owners, Succeed(w)
      PROVE  Next \/ UNCHANGED vars
  <2>1. proc[w].auth \in authorities /\ proc[w].cur \in Attempts
    BY <1>9, WorkingProcess DEF Succeed, At, AtWork, Phases, OnAttempt, OnOperation, InRunner, OutsideRunner
  <2> QED
    BY <1>9, <2>1, AuthorisedCalls DEF Succeed, AttemptStep, AttemptTerminal
<1>10. ASSUME NEW w \in Owners, Converge(w)
      PROVE  Next \/ UNCHANGED vars
  <2>1. proc[w].auth \in authorities /\ proc[w].cur \in Attempts
    BY <1>10, WorkingProcess DEF Converge, At, AtWork, Phases, OnAttempt, OnOperation, InRunner, OutsideRunner
  <2> QED
    BY <1>10, <2>1, AuthorisedCalls DEF Converge, AttemptStep, AttemptTerminal
<1>11. ASSUME NEW w \in Owners, Prepare(w)
      PROVE  Next \/ UNCHANGED vars
  <2>1. proc[w].auth \in authorities /\ proc[w].cur \in Attempts
    BY <1>11, WorkingProcess DEF Prepare, At, AtWork, Phases, OnAttempt, OnOperation, InRunner, OutsideRunner
  <2> QED
    BY <1>11, <2>1, AuthorisedCalls DEF Prepare, OperationStep
<1>12. ASSUME NEW w \in Owners, Call(w)
      PROVE  Next \/ UNCHANGED vars
  <2>1. proc[w].auth \in authorities /\ proc[w].op \in Operations
    BY <1>12, WorkingProcess DEF Call, At, AtWork, Phases, OnAttempt, OnOperation, InRunner, OutsideRunner
  <2> QED
    BY <1>12, <2>1, AuthorisedCalls DEF Call, OperationStep
<1>13. ASSUME NEW w \in Owners, Settle(w)
      PROVE  Next \/ UNCHANGED vars
  <2>1. proc[w].auth \in authorities /\ proc[w].op \in Operations /\ proc[w] \in Process /\ proc[w].plan # "none"
    BY <1>13, WorkingProcess DEF Settle, At, AtWork, Phases, OnAttempt, OnOperation, InRunner, OutsideRunner
  <2> QED
    BY <1>13, <2>1, AuthorisedCalls DEF Settle, OperationStep, Process
<1>14. ASSUME NEW w \in Owners, Publish(w)
      PROVE  Next \/ UNCHANGED vars
  <2>1. proc[w].auth \in authorities /\ proc[w].cur \in Attempts
    BY <1>14, WorkingProcess DEF Publish, At, AtWork, Phases, OnAttempt, OnOperation, InRunner, OutsideRunner
  <2> QED
    BY <1>14, <2>1, AuthorisedCalls DEF Publish, EndStep
<1>15. ASSUME NEW w \in Owners, FailWrite(w)
      PROVE  Next \/ UNCHANGED vars
  <2>1. proc[w].auth \in authorities /\ proc[w] \in Process
    BY <1>15, WorkingProcess DEF FailWrite, At, AtWork, Phases, OnAttempt, OnOperation, InRunner, OutsideRunner
  <2> QED
    BY <1>15, <2>1, AuthorisedCalls DEF FailWrite, EndStep, JobOf, Process
<1>16. ASSUME NEW w \in Owners, Heartbeat(w)
      PROVE  Next \/ UNCHANGED vars
  <2>1. proc[w].auth \in authorities
    BY <1>16, WorkingProcess DEF Heartbeat, At, AtWork, Phases, OnAttempt, OnOperation, InRunner, OutsideRunner
  <2> QED
    BY <1>16, <2>1 DEF Heartbeat, Next, ClaimStep
<1>17. ASSUME NEW w \in Owners,
             \/ ResumeAttempt(w) \/ SaveCheckpoint(w) \/ ConvergeFenced(w)
             \/ RecoverResult(w) \/ PrepareMeetsUnknown(w) \/ Answer(w)
             \/ ObserveCancellation(w) \/ PublishRolledBack(w) \/ FailRead(w)
             \/ StepFails(w) \/ Crash(w)
      PROVE  UNCHANGED vars
  BY <1>17 DEF ResumeAttempt, SaveCheckpoint, ConvergeFenced, RecoverResult, PrepareMeetsUnknown, Answer, ObserveCancellation, PublishRolledBack, FailRead, StepFails, Crash
<1>18. CASE UNCHANGED execVars
  BY <1>18 DEF execVars
<1> QED
  BY UserCalls, <1>1, <1>2, <1>3, <1>4, <1>5, <1>6, <1>7, <1>8, <1>9, <1>10, <1>11, <1>12, <1>13, <1>14, <1>15, <1>16, <1>17, <1>18
     DEF ExecNext, ExecStep, Disturb

-----------------------------------------------------------------------------
(* Every step keeps what processes remember.                               *)

\* A new service instance remembers nothing.
LEMMA IdleType == Idle \in Process /\ Idle.phase = "idle"
BY StepsType DEF Idle, Process, Phases

\* Every name in the sets of phases is a phase of a working process.
LEMMA PhasesType ==
    /\ OnAttempt \subseteq AtWork /\ OnOperation \subseteq OnAttempt
    /\ AtWork \subseteq Phases
    /\ InRunner \subseteq OnAttempt /\ OutsideRunner \subseteq AtWork
BY DEF OnAttempt, OnOperation, AtWork, Phases, InRunner, OutsideRunner

\* The finally clause of wait_job.
LEMMA ReleaseKeeps ==
    ASSUME ProcessesOK, NEW w \in Owners, proc[w].phase \in AtWork,
           ToRelease(w), authorities \subseteq authorities'
    PROVE  ProcessesOK'
<1> DEFINE p == [Idle EXCEPT !.phase = "release", !.auth = proc[w].auth]
<1>1. p \in Process /\ p.phase = "release" /\ p.auth = proc[w].auth
  BY WorkingProcess, IdleType DEF Process, Phases
<1>2. Remembers(p, w, authorities')
  BY <1>1, WorkingProcess DEF Remembers, OnAttempt, OnOperation, InRunner, AtWork, Phases, OutsideRunner
<1> HIDE DEF p
<1> QED
  BY <1>1, <1>2, BecomeKeeps DEF ToRelease, p

\* The except clause of wait_job: on to _fail_job.
LEMMA FailKeeps ==
    ASSUME ProcessesOK, NEW w \in Owners, proc[w].phase \in AtWork,
           ToFailJob(w), authorities \subseteq authorities'
    PROVE  ProcessesOK'
<1> DEFINE p == [Idle EXCEPT !.phase = "fail_read", !.auth = proc[w].auth,
                             !.active = proc[w].active]
<1>1. p \in Process /\ p.phase = "fail_read" /\ p.auth = proc[w].auth
  BY WorkingProcess, IdleType DEF Process, Phases
<1>2. Remembers(p, w, authorities')
  BY <1>1, WorkingProcess DEF Remembers, OnAttempt, OnOperation, InRunner, AtWork, Phases, OutsideRunner
<1> HIDE DEF p
<1> QED
  BY <1>1, <1>2, BecomeKeeps DEF ToFailJob, p

\* An idle or dead process.
LEMMA ForgetKeeps ==
    ASSUME ProcessesOK, NEW w \in Owners, NEW phase \in {"idle", "dead"},
           Become(w, [Idle EXCEPT !.phase = phase]),
           authorities \subseteq authorities'
    PROVE  ProcessesOK'
<1> DEFINE p == [Idle EXCEPT !.phase = phase]
<1>1. p \in Process /\ p.phase = phase /\ p.auth = Nobody
  BY IdleType DEF Process, Phases, Idle
<1>2. Remembers(p, w, authorities')
  BY <1>1 DEF Remembers, AtWork, OnAttempt, OnOperation, InRunner
<1> HIDE DEF p
<1> QED
  BY <1>1, <1>2, BecomeKeeps DEF p

\* A working process turns to another part of its work, with the Attempt and the
\* paid call this part needs.
LEMMA TurnKeeps ==
    ASSUME ProcessesOK, NEW w \in Owners, proc[w].phase \in AtWork,
           NEW p \in Process, Become(w, p), p.auth = proc[w].auth,
           p.phase \notin {"idle", "dead"},
           p.phase \in OnAttempt => p.cur \in Attempts,
           p.phase \in OnOperation => p.op \in Operations,
           p.phase = "settle" => p.plan # "none",
           authorities \subseteq authorities'
    PROVE  ProcessesOK'
<1>1. Remembers(p, w, authorities')
  BY WorkingProcess DEF Remembers, AtWork, Process
<1> QED
  BY <1>1, BecomeKeeps

\* An exception inside the runner.
LEMMA ThrowKeeps ==
    ASSUME ProcessesOK, NEW w \in Owners, proc[w].phase \in InRunner,
           NEW e \in {"unknown", "cancelled", "abrupt", "other"},
           Become(w, Throw(w, e)), authorities \subseteq authorities'
    PROVE  ProcessesOK'
<1>1. proc[w].phase \in AtWork /\ proc[w].cur \in Attempts /\ proc[w] \in Process
  BY PhasesType, WorkingProcess
<1>2. /\ Throw(w, e) \in Process
      /\ Throw(w, e).phase = "converge"
      /\ Throw(w, e).auth = proc[w].auth
      /\ Throw(w, e).cur = proc[w].cur
  BY <1>1 DEF Throw, Process, Phases
<1>3. "converge" \notin OnOperation
  BY DEF OnOperation
<1> QED
  BY <1>1, <1>2, <1>3, TurnKeeps

\* A process that resumes publishes, or enters its next step.
LEMMA ResumeType ==
    ASSUME NEW p \in Process, NEW a \in Attempts \cup {Nobody}
    PROVE  /\ Resume(p, a) \in Process /\ Resume(p, a).auth = p.auth
           /\ Resume(p, a).phase \in {"publish", "enter"}
           /\ Resume(p, a).phase = "publish" => Resume(p, a).cur \in Attempts
<1>1. "commit" \in Steps /\ "publish" \in Phases /\ "enter" \in Phases
  BY StepsType DEF Phases, InRunner, OutsideRunner
<1>2. CASE a # Nobody /\ attempt'[a].step = "commit"
  <2> DEFINE q == [p EXCEPT !.phase = "publish", !.active = a, !.cur = a, !.step = "commit"]
  <2>1. Resume(p, a) = q
    BY <1>2 DEF Resume
  <2>2. q \in Process /\ q.auth = p.auth /\ q.phase = "publish" /\ q.cur = a
    BY <1>1, <1>2 DEF Process
  <2> QED
    BY <1>2, <2>1, <2>2
<1>3. CASE ~(a # Nobody /\ attempt'[a].step = "commit")
  <2> DEFINE q == [p EXCEPT !.phase = "enter", !.active = a, !.cur = Nobody]
  <2>1. Resume(p, a) = q
    BY <1>3 DEF Resume
  <2>2. q \in Process /\ q.auth = p.auth /\ q.phase = "enter"
    BY <1>1 DEF Process
  <2> QED
    BY <2>1, <2>2
<1> QED
  BY <1>2, <1>3

\* A claim gives the process its authority, and the Attempt to resume if any.
LEMMA ClaimKeeps ==
    ASSUME ProcessesOK, NEW w \in Owners, NEW j \in Jobs, Claim(w, j)
    PROVE  ProcessesOK'
<1>1. PICK g \in Generations :
         LET p == [Idle EXCEPT !.auth = [job |-> j, owner |-> w, generation |-> g]] IN
         /\ ClaimJob(j, w, g)
         /\ \/ Become(w, [p EXCEPT !.phase = "release"])
            \/ Become(w, Resume(p, Nobody))
            \/ \E a \in NewestUnsettled(j) :
                  \/ Become(w, Resume(p, a))
                  \/ Become(w, [p EXCEPT !.phase = "recover", !.cur = a])
  BY DEF Claim
<1> DEFINE auth == [job |-> j, owner |-> w, generation |-> g]
           p == [Idle EXCEPT !.auth = auth]
<1>2. auth \in Authority /\ auth \in authorities' /\ authorities \subseteq authorities'
      /\ auth.owner = w
  BY <1>1 DEF ClaimJob, Authority
<1> HIDE DEF auth
<1>3. p \in Process /\ p.auth = auth /\ NewestUnsettled(j) \subseteq Attempts
  BY <1>2, IdleType DEF Process, NewestUnsettled, AttemptsOf
<1> HIDE DEF p
<1>4. CASE Become(w, [p EXCEPT !.phase = "release"])
  <2>1. [p EXCEPT !.phase = "release"] \in Process
    BY <1>3 DEF Process, Phases
  <2>2. Remembers([p EXCEPT !.phase = "release"], w, authorities')
    BY <1>2, <1>3 DEF Remembers, Process, OnAttempt, OnOperation, InRunner, AtWork, Phases
  <2> QED
    BY <1>2, <1>4, <2>1, <2>2, BecomeKeeps
<1>5. ASSUME NEW a \in Attempts \cup {Nobody}, Become(w, Resume(p, a))
      PROVE  ProcessesOK'
  <2>1. Resume(p, a) \in Process /\ Resume(p, a).auth = auth
        /\ Resume(p, a).phase \in {"publish", "enter"}
        /\ (Resume(p, a).phase = "publish" => Resume(p, a).cur \in Attempts)
    BY <1>3, ResumeType
  <2>2. Remembers(Resume(p, a), w, authorities')
    BY <1>2, <2>1 DEF Remembers, OnAttempt, OnOperation, InRunner, AtWork, Phases, OutsideRunner
  <2> QED
    BY <1>2, <1>5, <2>1, <2>2, BecomeKeeps
<1>6. ASSUME NEW a \in Attempts, Become(w, [p EXCEPT !.phase = "recover", !.cur = a])
      PROVE  ProcessesOK'
  <2>1. [p EXCEPT !.phase = "recover", !.cur = a] \in Process
    BY <1>3 DEF Process, Phases, InRunner, OutsideRunner
  <2>2. Remembers([p EXCEPT !.phase = "recover", !.cur = a], w, authorities')
    BY <1>2, <1>3 DEF Remembers, Process, OnOperation, AtWork, Phases, OutsideRunner
  <2> QED
    BY <1>2, <1>6, <2>1, <2>2, BecomeKeeps
<1> QED
  BY <1>1, <1>3, <1>4, <1>5, <1>6 DEF p, auth

\* Every step of a working process keeps the memory of all.
LEMMA WorkKeeps ==
    ASSUME ProcessesOK, NEW w \in Owners, authorities \subseteq authorities',
           \/ \E j \in Jobs : Claim(w, j)
           \/ TakeOver(w) \/ Reconcile(w) \/ Pause(w) \/ Release(w)
           \/ ReuseCheckpoint(w) \/ ResumeAttempt(w) \/ BeginAttempt(w) \/ Start(w)
           \/ SaveCheckpoint(w) \/ Succeed(w) \/ Converge(w) \/ ConvergeFenced(w)
           \/ Prepare(w) \/ RecoverResult(w) \/ PrepareMeetsUnknown(w)
           \/ Call(w) \/ Answer(w) \/ Settle(w) \/ ObserveCancellation(w)
           \/ Publish(w) \/ PublishRolledBack(w) \/ FailRead(w) \/ FailWrite(w)
           \/ StepFails(w) \/ Crash(w) \/ Heartbeat(w)
    PROVE  ProcessesOK'
<1> DEFINE Moved == ProcessesOK'
<1>a. ASSUME proc[w].phase \in AtWork
      PROVE  /\ proc[w] \in Process
             /\ proc[w].phase \in OnAttempt => proc[w].cur \in Attempts
             /\ proc[w].phase \in OnOperation => proc[w].op \in Operations
  BY <1>a, WorkingProcess
<1>b. ASSUME ToRelease(w) \/ ToFailJob(w), proc[w].phase \in AtWork
      PROVE  Moved
  BY <1>b, ReleaseKeeps, FailKeeps
<1>c. ASSUME NEW step \in Steps, Become(w, EnterStep(w, step)), proc[w].phase \in AtWork
      PROVE  Moved
  <2>1. EnterStep(w, step) \in Process
    BY <1>a, <1>c DEF EnterStep, Process, Phases, OutsideRunner
  <2>2. EnterStep(w, step).phase = "enter" /\ EnterStep(w, step).auth = proc[w].auth
    BY <1>a, <1>c DEF EnterStep, Process
  <2>3. "enter" \notin OnAttempt /\ "enter" \notin OnOperation
    BY DEF OnAttempt, OnOperation, InRunner
  <2> QED
    BY <1>c, <2>1, <2>2, <2>3, TurnKeeps
<1>d. ASSUME NEW phase \in Phases, Go(w, phase), proc[w].phase \in OnAttempt,
             phase \notin {"settle", "idle", "dead"},
             phase \in OnOperation => proc[w].op \in Operations
      PROVE  Moved
  <2> DEFINE p == [proc[w] EXCEPT !.phase = phase]
  <2>1. p \in Process /\ p.phase = phase /\ p.auth = proc[w].auth
        /\ p.cur = proc[w].cur /\ p.op = proc[w].op
    BY <1>a, <1>d, PhasesType DEF Process
  <2>2. Become(w, p)
    BY <1>d DEF Go, Become
  <2> HIDE DEF p
  <2> QED
    BY <1>a, <1>d, <2>1, <2>2, PhasesType, TurnKeeps
<1>e. ASSUME NEW e \in {"unknown", "cancelled", "abrupt", "other"},
             Become(w, Throw(w, e)), proc[w].phase \in InRunner
      PROVE  Moved
  BY <1>e, ThrowKeeps
<1>1. CASE \E j \in Jobs : Claim(w, j)
  BY <1>1, ClaimKeeps
<1>2. CASE TakeOver(w)
  <2>1. proc[w].phase = "recover" /\ "recover" \in AtWork
    BY <1>2 DEF TakeOver, At, AtWork, Phases, OutsideRunner
  <2>2. ASSUME NEW b \in Attempts,
               Become(w, [proc[w] EXCEPT !.phase = "reconcile", !.active = b, !.cur = b])
        PROVE  Moved
    <3> DEFINE p == [proc[w] EXCEPT !.phase = "reconcile", !.active = b, !.cur = b]
    <3>1. p \in Process /\ p.phase = "reconcile" /\ p.auth = proc[w].auth /\ p.cur \in Attempts
      BY <1>a, <2>1 DEF Process, Phases, OutsideRunner
    <3>2. "reconcile" \notin OnOperation
      BY DEF OnOperation
    <3> HIDE DEF p
    <3> QED
      BY <2>1, <2>2, <3>1, <3>2, TurnKeeps DEF p
  <2> QED
    BY <1>2, <1>b, <2>1, <2>2 DEF TakeOver
<1>3. CASE Reconcile(w)
  <2>1. proc[w].phase = "reconcile" /\ "reconcile" \in OnAttempt
        /\ "pause" \in Phases /\ "pause" \notin OnOperation
    BY <1>3 DEF Reconcile, At, OnAttempt, Phases, OutsideRunner, OnOperation
  <2>2. ASSUME Become(w, Resume(proc[w], proc[w].active))
        PROVE  Moved
    <3> DEFINE p == Resume(proc[w], proc[w].active)
    <3>1. p \in Process /\ p.auth = proc[w].auth /\ p.phase \in {"publish", "enter"}
          /\ (p.phase = "publish" => p.cur \in Attempts)
      <4>1. proc[w] \in Process /\ proc[w].active \in Attempts \cup {Nobody}
        BY DEF ProcessesOK, Process
      <4> QED
        BY <4>1, ResumeType
    <3>2. "enter" \notin OnAttempt /\ {"publish", "enter"} \cap OnOperation = {}
      BY DEF OnAttempt, OnOperation, InRunner
    <3> HIDE DEF p
    <3> QED
      BY <2>1, <2>2, <3>1, <3>2, PhasesType, TurnKeeps DEF p
  <2> QED
    BY <1>3, <1>d, <2>1, <2>2 DEF Reconcile
<1>4. CASE Pause(w)
  BY <1>4, <1>b DEF Pause, At, AtWork, Phases, OnAttempt, OnOperation, InRunner, OutsideRunner
<1>5. CASE Release(w)
  <2>1. Idle = [Idle EXCEPT !.phase = "idle"]
    BY DEF Idle
  <2> QED
    BY <1>5, <2>1, ForgetKeeps DEF Release
<1>6. CASE ReuseCheckpoint(w)
  BY <1>6, <1>c, StepsType DEF ReuseCheckpoint, At, AtWork, Phases, OnAttempt, OnOperation, InRunner, OutsideRunner
<1>7. CASE ResumeAttempt(w)
  <2>1. proc[w].phase \in AtWork
    BY <1>7 DEF ResumeAttempt, At, AtWork, Phases, OutsideRunner
  <2> DEFINE p == [proc[w] EXCEPT !.phase = Work(proc[w].step), !.cur = proc[w].active]
  <2>2. proc[w].step \in Steps /\ proc[w].active \in Attempts
    BY <1>7, <1>a, <2>1 DEF ResumeAttempt, IsResumed, Process
  <2>3. Work(proc[w].step) \in {"save", "call", "publish"}
    BY <2>2, StepsType DEF Work
  <2>4. p \in Process /\ p.phase \in {"save", "call", "publish"}
        /\ p.auth = proc[w].auth /\ p.cur \in Attempts
    BY <1>a, <2>1, <2>2, <2>3 DEF Process, Phases, InRunner, OutsideRunner
  <2>5. {"save", "call", "publish"} \cap (OnOperation \cup {"settle"}) = {}
    BY DEF OnOperation
  <2> HIDE DEF p
  <2> QED
    BY <1>7, <2>1, <2>4, <2>5, TurnKeeps DEF ResumeAttempt, p
<1>8. CASE BeginAttempt(w)
  <2>1. proc[w].phase \in AtWork
    BY <1>8 DEF BeginAttempt, At, AtWork, Phases, OutsideRunner
  <2>2. PICK a \in Attempts : Become(w, [proc[w] EXCEPT !.phase = "start", !.cur = a])
    BY <1>8 DEF BeginAttempt
  <2> DEFINE p == [proc[w] EXCEPT !.phase = "start", !.cur = a]
  <2>3. p \in Process /\ p.phase = "start" /\ p.auth = proc[w].auth /\ p.cur \in Attempts
    BY <1>a, <2>1 DEF Process, Phases, OutsideRunner
  <2>4. "start" \notin OnOperation
    BY DEF OnOperation
  <2> HIDE DEF p
  <2> QED
    BY <2>1, <2>2, <2>3, <2>4, TurnKeeps DEF p
<1>9. CASE Start(w)
  <2>1. proc[w].phase \in OnAttempt
    BY <1>9 DEF Start, At, OnAttempt
  <2>2. Work(proc[w].step) \in {"save", "call", "publish"}
    BY <1>a, <2>1, StepsType, PhasesType DEF Work, Process
  <2>3. {"save", "call", "publish"} \subseteq Phases
        /\ {"save", "call", "publish"} \cap (OnOperation \cup {"settle"}) = {}
    BY DEF OnOperation, Phases, InRunner, OutsideRunner
  <2> QED
    BY <1>9, <1>d, <2>1, <2>2, <2>3 DEF Start
<1>10. CASE SaveCheckpoint(w)
  BY <1>10, <1>d DEF SaveCheckpoint, At, AtWork, Phases, OnAttempt, OnOperation, InRunner, OutsideRunner
<1>11. CASE Succeed(w)
  <2>1. proc[w].phase \in AtWork
    BY <1>11 DEF Succeed, At, AtWork, Phases, OutsideRunner
  <2>2. AfterStep(proc[w].step) \in Steps
    BY StepsType DEF AfterStep
  <2> QED
    BY <1>11, <1>c, <2>1, <2>2 DEF Succeed
<1>12. CASE Converge(w)
  BY <1>12, <1>b DEF Converge, At, AtWork, Phases, OnAttempt, OnOperation, InRunner, OutsideRunner, AfterConverge
<1>13. CASE ConvergeFenced(w)
  BY <1>13, <1>b DEF ConvergeFenced, At, AtWork, Phases, OnAttempt, OnOperation, InRunner, OutsideRunner, AfterConverge
<1>14. CASE Prepare(w)
  <2>1. proc[w].phase \in OnAttempt
    BY <1>14 DEF Prepare, At, OnAttempt, InRunner
  <2>2. PICK o \in Operations : Become(w, [proc[w] EXCEPT !.phase = "begin", !.op = o])
    BY <1>14 DEF Prepare
  <2> DEFINE p == [proc[w] EXCEPT !.phase = "begin", !.op = o]
  <2>3. p \in Process /\ p.phase = "begin" /\ p.auth = proc[w].auth
        /\ p.cur \in Attempts /\ p.op \in Operations
    BY <1>a, <2>1, PhasesType DEF Process, Phases, InRunner
  <2> HIDE DEF p
  <2> QED
    BY <2>1, <2>2, <2>3, PhasesType, TurnKeeps DEF p
<1>15. CASE RecoverResult(w)
  BY <1>15, <1>d, <1>e DEF RecoverResult, At, AtWork, Phases, OnAttempt, OnOperation, InRunner, OutsideRunner
<1>16. CASE PrepareMeetsUnknown(w)
  BY <1>16, <1>e DEF PrepareMeetsUnknown, At, AtWork, Phases, OnAttempt, OnOperation, InRunner, OutsideRunner
<1>17. CASE Call(w)
  <2>1. proc[w].phase \in OnAttempt /\ proc[w].op \in Operations /\ "provider" \in Phases
    BY <1>17, <1>a DEF Call, At, AtWork, Phases, OnAttempt, OnOperation, InRunner
  <2> QED
    BY <1>17, <1>d, <2>1 DEF Call
<1>18. CASE Answer(w)
  <2>1. proc[w].phase = "provider" /\ proc[w].phase \in OnOperation
    BY <1>18 DEF Answer, At, OnOperation
  <2>2. PICK plan \in {"succeeded", "failed", "unknown"},
             e \in {"none", "unknown", "cancelled", "other"} :
                Become(w, [proc[w] EXCEPT !.phase = "settle", !.plan = plan, !.err = e])
    BY <1>18 DEF Answer
  <2> DEFINE p == [proc[w] EXCEPT !.phase = "settle", !.plan = plan, !.err = e]
  <2>3. p \in Process /\ p.phase = "settle" /\ p.auth = proc[w].auth
        /\ p.cur \in Attempts /\ p.op \in Operations /\ p.plan # "none"
    <3>1. proc[w] \in Process /\ proc[w].cur \in Attempts /\ proc[w].op \in Operations
      BY <1>a, <2>1, PhasesType DEF InRunner
    <3>2. "settle" \in Phases
      BY DEF Phases, InRunner
    <3> QED
      BY <3>1, <3>2 DEF Process
  <2> HIDE DEF p
  <2> QED
    BY <2>1, <2>2, <2>3, PhasesType, TurnKeeps DEF p
<1>19. CASE Settle(w)
  <2>1. proc[w].phase = "settle" /\ proc[w].phase \in OnAttempt \cap InRunner
    BY <1>19 DEF Settle, At, OnAttempt, InRunner
  <2>2. CASE proc[w].err # "none"
    <3>1. proc[w].err \in {"unknown", "cancelled", "abrupt", "other"}
      BY <1>a, <2>1, <2>2, PhasesType DEF Process
    <3> QED
      BY <1>19, <1>e, <2>1, <2>2, <3>1 DEF Settle, Settled
  <2>3. CASE proc[w].err = "none"
    <3>1. Settled(w) \in Process /\ Settled(w).phase \in {"call", "save"}
          /\ Settled(w).auth = proc[w].auth /\ Settled(w).cur \in Attempts
      <4> DEFINE phase == IF proc[w].plan = "failed" THEN "call" ELSE "save"
                 p == [proc[w] EXCEPT !.plan = "none", !.op = Nobody, !.phase = phase]
      <4>1. phase \in {"call", "save"} /\ phase \in Phases
        BY DEF Phases, InRunner
      <4>2. Settled(w) = p
        BY <2>3 DEF Settled
      <4>3. proc[w] \in Process /\ proc[w].cur \in Attempts
        BY <1>a, <2>1, PhasesType DEF InRunner
      <4> HIDE DEF phase
      <4>4. p \in Process /\ p.phase = phase /\ p.auth = proc[w].auth /\ p.cur = proc[w].cur
        BY <4>1, <4>3 DEF Process
      <4> QED
        BY <4>1, <4>2, <4>3, <4>4
    <3>2. {"call", "save"} \cap (OnOperation \cup {"settle"}) = {}
      BY DEF OnOperation
    <3> QED
      BY <1>19, <2>1, <3>1, <3>2, PhasesType, TurnKeeps DEF Settle
  <2> QED
    BY <2>2, <2>3
<1>20. CASE ObserveCancellation(w)
  BY <1>20, <1>e DEF ObserveCancellation, At, AtWork, Phases, OnAttempt, OnOperation, InRunner, OutsideRunner
<1>21. CASE Publish(w)
  BY <1>21, <1>b DEF Publish, At, AtWork, Phases, OnAttempt, OnOperation, InRunner, OutsideRunner
<1>22. CASE PublishRolledBack(w)
  <2>1. proc[w].phase \in AtWork
    BY <1>22 DEF PublishRolledBack, At, AtWork, Phases, OutsideRunner
  <2> QED
    BY <1>22, <1>b, <2>1, ForgetKeeps DEF PublishRolledBack
<1>23. CASE FailRead(w)
  <2>1. proc[w].phase = "fail_read" /\ "fail_read" \in AtWork
    BY <1>23 DEF FailRead, At, AtWork, Phases
  <2>2. CASE Become(w, [proc[w] EXCEPT !.phase = "fail_write", !.cur = FailureTarget(w)])
    <3> DEFINE p == [proc[w] EXCEPT !.phase = "fail_write", !.cur = FailureTarget(w)]
    <3>1. FailureTarget(w) \in Attempts \cup {Nobody}
      <4>1. NewestUnsettled(JobOf(w)) \subseteq Attempts
        BY DEF NewestUnsettled, AttemptsOf
      <4>2. proc[w].active \in Attempts \cup {Nobody}
        BY <1>a, <2>1 DEF Process
      <4> QED
        BY <4>1, <4>2 DEF FailureTarget
    <3>2. p \in Process /\ p.phase = "fail_write" /\ p.auth = proc[w].auth
      BY <1>a, <2>1, <3>1 DEF Process, Phases
    <3>3. "fail_write" \notin OnAttempt /\ "fail_write" \notin OnOperation
      BY DEF OnAttempt, OnOperation, InRunner
    <3> HIDE DEF p
    <3> QED
      BY <2>1, <2>2, <3>2, <3>3, TurnKeeps DEF p
  <2> QED
    BY <1>23, <1>b, <2>1, <2>2 DEF FailRead
<1>24. CASE FailWrite(w)
  BY <1>24, <1>b DEF FailWrite, At, AtWork, Phases, OnAttempt, OnOperation, InRunner, OutsideRunner
<1>25. CASE StepFails(w)
  <2>1. proc[w].phase \in AtWork
    BY <1>25 DEF StepFails, At, AtWork, Phases, InRunner, OutsideRunner
  <2>2. "provider" \in InRunner
    BY DEF InRunner
  <2> QED
    BY <1>25, <1>b, <1>e, <2>1, <2>2 DEF StepFails, At
<1>26. CASE Crash(w)
  BY <1>26, ForgetKeeps DEF Crash, Become
<1>27. CASE Heartbeat(w)
  BY <1>27, IdleKeeps DEF Heartbeat
<1> QED
  BY <1>1, <1>2, <1>3, <1>4, <1>5, <1>6, <1>7, <1>8, <1>9, <1>10, <1>11, <1>12, <1>13, <1>14, <1>15, <1>16, <1>17, <1>18, <1>19, <1>20, <1>21, <1>22, <1>23, <1>24, <1>25, <1>26, <1>27

\* What processes remember is preserved by every step of the system.
LEMMA ProcessesStep ==
    ASSUME ProcessesOK, [ExecNext]_execVars PROVE ProcessesOK'
<1>1. authorities \subseteq authorities'
  BY StoreStep, AuthoritiesGrow
<1>2. ASSUME NEW w \in Owners, ExecStep(w) \/ StepFails(w) \/ Crash(w) \/ Heartbeat(w)
      PROVE  ProcessesOK'
  BY <1>1, <1>2, WorkKeeps DEF ExecStep
<1>3. CASE User \/ UNCHANGED proc
  BY <1>1, <1>3, IdleKeeps DEF User
<1>4. CASE UNCHANGED execVars
  BY <1>4, <1>3 DEF execVars
<1> QED
  BY <1>2, <1>3, <1>4 DEF ExecNext, Disturb

-----------------------------------------------------------------------------
(* Theorems.                                                               *)

\* wait_job, the step runner and the model call coordinator never act on an
\* authority claim_job did not grant to this process, or without an Attempt and a
\* paid call of their own.
THEOREM ProcessesRemember == ExecSpec => []ProcessesOK
<1>1. ExecInit => ProcessesOK
  BY IdleType DEF ExecInit, ProcessesOK, Remembers, AtWork, OnAttempt, OnOperation, InRunner, Idle
<1>2. ProcessesOK /\ [ExecNext]_execVars => ProcessesOK'
  BY ProcessesStep
<1> QED
  BY <1>1, <1>2, PTL DEF ExecSpec

\* Executions implement the Job store: whatever wait_job and its callees do between
\* two crashes, each step is one repository call the store allows, or none.
THEOREM ExecutionsImplementStore == ExecSpec => ImplementsJobStore
<1>1. ExecInit => Init
  BY DEF ExecInit
<1>2. ProcessesOK /\ [ExecNext]_execVars => [Next]_vars
  BY StoreStep
<1> QED
  BY <1>1, <1>2, ProcessesRemember, PTL DEF ExecSpec, ImplementsJobStore, Spec

\* The invariants of the store hold of executions, with any number of processes,
\* crashes and lost claims.
THEOREM ExecutionsAreSafe ==
    ExecSpec => [](/\ TypeOK /\ FencingTokensUnique /\ RunningAttemptsClaimed
                   /\ OneOpenOperation /\ CallsWithinBudget /\ ChallengesCoherent
                   /\ TerminalJobsSettled /\ SubmissionsIdempotent)
BY ExecutionsImplementStore, TypeCorrect, FencingTokensAreUnique,
   RunningAttemptsAreClaimed, RequestsAreNotDoubled, CallsStayWithinBudget,
   ChallengesStayCoherent, JobsEndSettled, SubmissionsStayIdempotent, PTL
   DEF ImplementsJobStore

-----------------------------------------------------------------------------
(* Zombies.                                                                *)

\* No mutator of the repository accepts an authority other than the one its Job's
\* lease names.
LEMMA StaleAuthority ==
    ASSUME NEW j, NEW auth, auth # Nobody,
           JobAuthorityOrUnclaimed(j, auth) \/ JobAuthority(j, auth)
    PROVE  auth.job = j /\ claim[auth.job].generation = auth.generation
BY DEF JobAuthorityOrUnclaimed, JobAuthority

\* What a process writes, it writes with the authority it remembers.
LEMMA WritesNeedAuthority ==
    ASSUME NEW w \in Owners, proc[w].auth # Nobody,
           claim[JobOf(w)].generation # proc[w].auth.generation,
           ExecStep(w) \/ StepFails(w) \/ Crash(w),
           ~(\E j \in Jobs : Claim(w, j))
    PROVE  UNCHANGED <<job, attempt, operation, challenge, checkpoints, published>>
<1> DEFINE Unwritten == UNCHANGED <<job, attempt, operation, challenge, checkpoints, published>>
<1>0. ASSUME NEW j, JobAuthorityOrUnclaimed(j, proc[w].auth) \/ JobAuthority(j, proc[w].auth)
      PROVE  FALSE
  BY <1>0, StaleAuthority DEF JobOf
<1>1. ~ExecutionAuthority(proc[w].cur, proc[w].auth)
  BY <1>0 DEF ExecutionAuthority
<1>2. ASSUME NEW a, NEW state, TransitionAttempt(a, state, proc[w].auth) PROVE FALSE
  BY <1>2, <1>0 DEF TransitionAttempt, ExecutionAuthority
<1>3. ASSUME NEW o, OwnsOperation(o, proc[w].auth) PROVE FALSE
  BY <1>3, <1>0 DEF OwnsOperation, ExecutionAuthority
<1>4. CASE Release(w)
  BY <1>4 DEF Release, ReleaseJobClaim, vars
<1>5. CASE TakeOver(w)
  BY <1>5, <1>0 DEF TakeOver, TakeOverAttempt
<1>6. CASE Reconcile(w)
  BY <1>6, <1>0 DEF Reconcile, ReconcileOperations
<1>7. CASE Pause(w)
  BY <1>7, <1>1 DEF Pause, PauseForExternalOutcome
<1>8. CASE ReuseCheckpoint(w)
  BY <1>8, <1>2 DEF ReuseCheckpoint, vars
<1>9. CASE BeginAttempt(w)
  BY <1>9, <1>0 DEF BeginAttempt, CreateAttempt
<1>10. CASE Start(w)
  BY <1>10, <1>0 DEF Start, StartAttempt
<1>11. CASE SaveCheckpoint(w)
  BY <1>11, <1>1 DEF SaveCheckpoint
<1>12. CASE Succeed(w)
  BY <1>12, <1>2 DEF Succeed
<1>13. CASE Converge(w)
  BY <1>13, <1>1, <1>2 DEF Converge, PauseForExternalOutcome
<1>14. CASE Prepare(w)
  BY <1>14, <1>1 DEF Prepare, PrepareOperation, MayPrepare
<1>15. CASE Call(w)
  BY <1>15, <1>3 DEF Call, StartOperation
<1>16. CASE Settle(w)
  BY <1>16, <1>3 DEF Settle, MarkOperationUnknown, FinishOperation
<1>17. CASE Publish(w)
  BY <1>17, <1>1 DEF Publish, CommitResult, CommitGuard
<1>18. CASE PublishRolledBack(w)
  BY <1>18, <1>1 DEF PublishRolledBack, CommitGuard
<1>19. CASE FailWrite(w)
  BY <1>19, <1>0 DEF FailWrite, FailJob, FailJobWithAttempt
<1>20. CASE \/ ResumeAttempt(w) \/ ConvergeFenced(w) \/ RecoverResult(w)
            \/ PrepareMeetsUnknown(w) \/ Answer(w) \/ ObserveCancellation(w)
            \/ FailRead(w) \/ StepFails(w) \/ Crash(w)
  BY <1>20 DEF ResumeAttempt, ConvergeFenced, RecoverResult, PrepareMeetsUnknown, Answer,
               ObserveCancellation, FailRead, StepFails, Crash, vars
<1> QED
  BY <1>4, <1>5, <1>6, <1>7, <1>8, <1>9, <1>10, <1>11, <1>12, <1>13, <1>14, <1>15,
     <1>16, <1>17, <1>18, <1>19, <1>20
     DEF ExecStep

\* A step changes the memory of one process.
LEMMA OneProcessMoves ==
    ASSUME ProcessesOK, [ExecNext]_execVars, NEW w \in Owners, proc'[w] # proc[w]
    PROVE  ExecStep(w) \/ StepFails(w) \/ Crash(w)
<1>1. ASSUME NEW v \in Owners, NEW p, Become(v, p) PROVE w = v
  BY <1>1 DEF Become, ProcessesOK
<1>2. ASSUME NEW v \in Owners, NEW phase, Go(v, phase) PROVE w = v
  BY <1>2 DEF Go, ProcessesOK
<1>3. ASSUME NEW v \in Owners, ToRelease(v) \/ ToFailJob(v) PROVE w = v
  BY <1>1, <1>3 DEF ToRelease, ToFailJob
<1>4. ASSUME NEW v \in Owners, ExecStep(v) PROVE w = v
  BY <1>1, <1>2, <1>3, <1>4
     DEF ExecStep, Claim, TakeOver, Reconcile, Pause, Release, ReuseCheckpoint, ResumeAttempt,
         BeginAttempt, Start, SaveCheckpoint, Succeed, Converge, ConvergeFenced, AfterConverge,
         Prepare, RecoverResult, PrepareMeetsUnknown, Call, Answer, Settle,
         ObserveCancellation, Publish, PublishRolledBack, FailRead, FailWrite
<1>5. ASSUME NEW v \in Owners, StepFails(v) \/ Crash(v) PROVE w = v
  BY <1>1, <1>3, <1>5 DEF StepFails, Crash
<1>6. \E v \in Owners : ExecStep(v) \/ StepFails(v) \/ Crash(v)
  BY DEF ExecNext, Disturb, User, Heartbeat, execVars
<1> QED
  BY <1>4, <1>5, <1>6

\* An old owner cannot change a Job, record a checkpoint or publish, whatever it still
\* does: every write of wait_job and its callees presents the authority it was granted.
THEOREM ZombiesWriteNothing == ExecSpec => ZombieWritesNothing
<1>1. ASSUME ProcessesOK, TypeOK, [ExecNext]_execVars, NEW w \in Owners,
             proc'[w] # proc[w], proc[w].auth # Nobody,
             proc[w].auth.generation < claim[JobOf(w)].generation
      PROVE  UNCHANGED <<job, attempt, operation, challenge, checkpoints, published>>
  <2>1. proc[w].phase \in AtWork /\ proc[w].auth \in Authority
    BY <1>1 DEF ProcessesOK, Remembers, Process
  <2>2. proc[w].auth.generation \in Int /\ proc[w].auth.job \in Jobs
    BY <2>1, JobStoreAssumption DEF Authority, Generations
  <2>3. claim[JobOf(w)].generation # proc[w].auth.generation
    BY <1>1, <2>2
  <2>4. ~(\E j \in Jobs : Claim(w, j))
    BY <2>1 DEF Claim, At, AtWork
  <2> QED
    BY <1>1, <2>3, <2>4, OneProcessMoves, WritesNeedAuthority
<1>2. ProcessesOK /\ TypeOK /\ [ExecNext]_execVars =>
         [\A w \in Owners :
             /\ proc'[w] # proc[w]
             /\ proc[w].auth # Nobody
             /\ proc[w].auth.generation < claim[JobOf(w)].generation
             => UNCHANGED <<job, attempt, operation, challenge, checkpoints, published>>
         ]_execVars
  BY <1>1
<1>3. ExecSpec => []TypeOK
  BY ExecutionsImplementStore, TypeCorrect, PTL DEF ImplementsJobStore
<1> QED
  BY <1>2, <1>3, ProcessesRemember, PTL DEF ExecSpec, ZombieWritesNothing

-----------------------------------------------------------------------------
(* The calls executions make, and what they may do to a row.               *)

AuthorisedCall(auth) ==
    \/ \E a \in Attempts : StartAttempt(a, auth) \/ FailJobWithAttempt(a, auth)
    \/ \E a \in Attempts, state \in AttemptTerminal : TransitionAttempt(a, state, auth)
    \/ \E a \in Attempts, c \in Challenges : PauseForExternalOutcome(a, c, auth)
    \/ \E o \in Operations : StartOperation(o, auth) \/ MarkOperationUnknown(o, auth)
    \/ \E o \in Operations, outcome \in {"succeeded", "failed"} : FinishOperation(o, outcome, auth)
    \/ ReconcileOperations(auth)
    \/ FailJob(auth.job, auth)

UserCall ==
    \/ \E j \in Jobs, c \in ClientIds \cup {Nobody} : CreateJob(j, c)
    \/ \E j \in Jobs : CancelJob(j)
    \/ \E original, j \in Jobs, c \in ClientIds :
          CreateRetryJob(original, j, c, UnknownOperations(original))

ClaimCall ==
    \/ \E j \in Jobs, o \in Owners, g \in Generations : ClaimJob(j, o, g)
    \/ \E j \in Jobs : ExpireClaim(j)
    \/ \E auth \in authorities : HeartbeatJobClaim(auth) \/ ReleaseJobClaim(auth)

StoreCall ==
    \/ UNCHANGED vars
    \/ UserCall
    \/ ClaimCall
    \/ \E w \in Owners : BeginAttempt(w) \/ TakeOver(w) \/ Prepare(w) \/ Publish(w)
    \/ \E auth \in authorities : AuthorisedCall(auth)

\* Executions use these calls of the repository and no other.
LEMMA ExecutionCalls ==
    ASSUME ProcessesOK, [ExecNext]_execVars PROVE StoreCall
<1>a. ASSUME NEW w \in Owners, proc[w].phase \in AtWork
      PROVE  /\ proc[w] \in Process /\ proc[w].auth \in authorities
             /\ proc[w].phase \in OnAttempt => proc[w].cur \in Attempts
             /\ proc[w].phase \in OnOperation => proc[w].op \in Operations
             /\ proc[w].phase = "settle" => proc[w].plan # "none"
  BY <1>a, WorkingProcess
<1>1. ASSUME NEW w \in Owners, NEW j \in Jobs, Claim(w, j) PROVE StoreCall
  BY <1>1 DEF Claim, StoreCall, ClaimCall
<1>2. ASSUME NEW w \in Owners, Reconcile(w) PROVE StoreCall
  BY <1>2, <1>a DEF Reconcile, At, AtWork, Phases, OutsideRunner, StoreCall, AuthorisedCall
<1>3. ASSUME NEW w \in Owners, Pause(w) PROVE StoreCall
  BY <1>3, <1>a DEF Pause, At, AtWork, Phases, OutsideRunner, OnAttempt, StoreCall, AuthorisedCall
<1>4. ASSUME NEW w \in Owners, Release(w) PROVE StoreCall
  BY <1>4, <1>a DEF Release, At, AtWork, Phases, StoreCall, ClaimCall
<1>5. ASSUME NEW w \in Owners, ReuseCheckpoint(w) PROVE StoreCall
  BY <1>5, <1>a DEF ReuseCheckpoint, At, AtWork, Phases, OutsideRunner, IsResumed, Process,
                    AttemptTerminal, StoreCall, AuthorisedCall
<1>6. ASSUME NEW w \in Owners, Start(w) PROVE StoreCall
  BY <1>6, <1>a DEF Start, At, AtWork, Phases, OutsideRunner, OnAttempt, StoreCall, AuthorisedCall
<1>7. ASSUME NEW w \in Owners, Succeed(w) PROVE StoreCall
  BY <1>7, <1>a DEF Succeed, At, AtWork, Phases, OutsideRunner, OnAttempt, AttemptTerminal,
                    StoreCall, AuthorisedCall
<1>8. ASSUME NEW w \in Owners, Converge(w) PROVE StoreCall
  <2>1. proc[w].auth \in authorities /\ proc[w].cur \in Attempts
    BY <1>8, <1>a DEF Converge, At, AtWork, Phases, OnAttempt
  <2>2. ASSUME NEW state \in {"cancelled", "failed"},
               TransitionAttempt(proc[w].cur, state, proc[w].auth)
        PROVE  StoreCall
    BY <2>1, <2>2 DEF AttemptTerminal, StoreCall, AuthorisedCall
  <2>3. ASSUME NEW c \in Challenges, PauseForExternalOutcome(proc[w].cur, c, proc[w].auth)
        PROVE  StoreCall
    BY <2>1, <2>3 DEF StoreCall, AuthorisedCall
  <2> QED
    BY <1>8, <2>2, <2>3 DEF Converge
<1>9. ASSUME NEW w \in Owners, Call(w) PROVE StoreCall
  BY <1>9, <1>a DEF Call, At, AtWork, Phases, InRunner, OnOperation, StoreCall, AuthorisedCall
<1>10. ASSUME NEW w \in Owners, Settle(w) PROVE StoreCall
  <2>1. /\ proc[w].auth \in authorities /\ proc[w].op \in Operations
        /\ proc[w].plan \in {"succeeded", "failed", "unknown"}
    BY <1>10, <1>a DEF Settle, At, AtWork, Phases, InRunner, OnOperation, Process
  <2> QED
    BY <1>10, <2>1 DEF Settle, StoreCall, AuthorisedCall
<1>11. ASSUME NEW w \in Owners, FailWrite(w) PROVE StoreCall
  <2>1. /\ proc[w].auth \in authorities
        /\ proc[w].cur \in Attempts \cup {Nobody}
    BY <1>11, <1>a DEF FailWrite, At, AtWork, Phases, Process
  <2> QED
    BY <1>11, <2>1 DEF FailWrite, JobOf, StoreCall, AuthorisedCall
<1>12. ASSUME NEW w \in Owners, Heartbeat(w) PROVE StoreCall
  BY <1>12, <1>a DEF Heartbeat, AtWork, Phases, InRunner, OutsideRunner, StoreCall, ClaimCall
<1>13. ASSUME NEW w \in Owners,
             \/ ResumeAttempt(w) \/ SaveCheckpoint(w) \/ ConvergeFenced(w)
             \/ RecoverResult(w) \/ PrepareMeetsUnknown(w) \/ Answer(w)
             \/ ObserveCancellation(w) \/ PublishRolledBack(w) \/ FailRead(w)
             \/ StepFails(w) \/ Crash(w)
      PROVE  StoreCall
  BY <1>13 DEF ResumeAttempt, SaveCheckpoint, ConvergeFenced, RecoverResult,
               PrepareMeetsUnknown, Answer, ObserveCancellation, PublishRolledBack, FailRead,
               StepFails, Crash, StoreCall
<1>14. CASE User
  BY <1>14 DEF User, UserCall, StoreCall
<1>15. CASE \E j \in Jobs : ExpireClaim(j)
  BY <1>15 DEF StoreCall, ClaimCall
<1>16. CASE UNCHANGED execVars
  BY <1>16 DEF execVars, StoreCall
<1>17. CASE \E w \in Owners : BeginAttempt(w) \/ TakeOver(w) \/ Prepare(w) \/ Publish(w)
  BY <1>17 DEF StoreCall
<1> QED
  BY <1>1, <1>2, <1>3, <1>4, <1>5, <1>6, <1>7, <1>8, <1>9, <1>10, <1>11, <1>12, <1>13,
     <1>14, <1>15, <1>16, <1>17
     DEF ExecNext, ExecStep, Disturb

\* A new Attempt is the one of the step a process enters, or replaces a lost one of
\* the same Job and step.
MadeBySomeone(a) ==
    \E w \in Owners :
        \/ /\ BeginAttempt(w)
           /\ attempt'[a].job = JobOf(w) /\ attempt'[a].step = proc[w].step
        \/ /\ TakeOver(w)
           /\ attempt'[a].job = attempt[proc[w].cur].job
           /\ attempt'[a].step = attempt[proc[w].cur].step

\* Every new Attempt is one of the Job and step of the process that makes it.
LEMMA NewAttempts ==
    ASSUME TypeOK, ProcessesOK, [ExecNext]_execVars, NEW a \in Attempts,
           attempt[a].state = "absent", attempt'[a].state # "absent"
    PROVE  MadeBySomeone(a)
<1> DEFINE Goal == MadeBySomeone(a)
<1>a. attempt[a] \in AttemptRow /\ attempt \in [Attempts -> AttemptRow]
  BY DEF TypeOK, TablesOK
<1>b. ASSUME attempt'[a] = attempt[a] PROVE Goal
  BY <1>b
<1>c. ASSUME NEW j, NEW states, "absent" \notin states, attempt' = AttemptsCancelled(j, states)
      PROVE  Goal
  BY <1>a, <1>b, <1>c DEF AttemptsCancelled
<1>d. ASSUME NEW j, SettleClaimedCancellation(j) PROVE Goal
  BY <1>c, <1>d DEF SettleClaimedCancellation, Unsettled
<1>e. ASSUME NEW b \in Attempts, attempt[b].state # "absent", NEW row,
             attempt' = [attempt EXCEPT ![b] = row]
      PROVE  Goal
  BY <1>a, <1>b, <1>e
<1>f. ASSUME NEW b \in Attempts, attempt[b].state # "absent", NEW state,
             attempt' = [attempt EXCEPT ![b].state = state]
      PROVE  Goal
  BY <1>a, <1>b, <1>f
<1>1. CASE UNCHANGED attempt
  BY <1>1, <1>b
<1>2. CASE UserCall
  BY <1>2, <1>1, <1>c DEF UserCall, CreateJob, CreateRetryJob, CancelJob, CancelActiveJob,
                          CancelCancelledJob
<1>3. CASE \E j \in Jobs, o \in Owners, g \in Generations : ClaimJob(j, o, g)
  <2>1. ASSUME NEW j, NEW g, attempt' = NewestStarted(j, g) PROVE Goal
    BY <1>a, <1>b, <2>1 DEF NewestStarted
  <2> QED
    BY <1>3, <1>d, <2>1 DEF ClaimJob, ClaimRunnable, ClaimCancelled
<1>4. ASSUME NEW w \in Owners, BeginAttempt(w) PROVE Goal
  <2>1. PICK b \in Attempts : attempt' = [attempt EXCEPT ![b] = NewAttempt(JobOf(w), proc[w].step)]
    BY <1>4 DEF BeginAttempt, CreateAttempt
  <2>2. CASE a = b
    BY <1>a, <1>4, <2>1, <2>2 DEF NewAttempt, MadeBySomeone
  <2> QED
    BY <1>a, <1>b, <2>1, <2>2
<1>5. ASSUME NEW w \in Owners, TakeOver(w) PROVE Goal
  <2>1. PICK b \in Attempts : TakeOverAttempt(proc[w].cur, b, proc[w].auth)
    BY <1>5 DEF TakeOver
  <2>2. CASE SettleClaimedCancellation(attempt[proc[w].cur].job)
    BY <1>d, <2>2
  <2> DEFINE row == [NewAttempt(attempt[proc[w].cur].job, attempt[proc[w].cur].step)
                        EXCEPT !.state = "running", !.token = proc[w].auth.generation]
  <2>3. CASE attempt' = [attempt EXCEPT ![proc[w].cur].state = "interrupted", ![b] = row]
    <3>1. attempt[proc[w].cur].state = "running"
      BY <2>1 DEF TakeOverAttempt
    <3>2. row.job = attempt[proc[w].cur].job /\ row.step = attempt[proc[w].cur].step
      BY DEF NewAttempt
    <3> HIDE DEF row
    <3>3. CASE a = b
      BY <1>a, <1>5, <2>3, <3>2, <3>3 DEF MadeBySomeone
    <3>4. CASE a # b
      BY <1>a, <1>b, <2>3, <3>1, <3>4
    <3> QED
      BY <3>3, <3>4
  <2> QED
    BY <2>1, <2>2, <2>3 DEF TakeOverAttempt
<1>6. ASSUME NEW w \in Owners, Prepare(w) PROVE Goal
  BY <1>1, <1>6 DEF Prepare, PrepareOperation, vars
<1>7. ASSUME NEW w \in Owners, Publish(w) PROVE Goal
  <2>1. proc[w].cur \in Attempts
    BY <1>7, WorkingProcess DEF Publish, At, AtWork, Phases, OutsideRunner, OnAttempt
  <2> QED
    BY <1>7, <1>f, <2>1 DEF Publish, CommitResult, CommitGuard, ExecutionAuthority
<1>8. ASSUME NEW auth \in authorities, AuthorisedCall(auth) PROVE Goal
  <2>1. ASSUME NEW b \in Attempts, NEW state \in AttemptTerminal, TransitionAttempt(b, state, auth)
        PROVE  Goal
    BY <1>f, <2>1 DEF TransitionAttempt, LegalAttemptTransitions
  <2>2. ASSUME NEW b \in Attempts, StartAttempt(b, auth)
        PROVE  Goal
    BY <1>a, <1>b, <2>2 DEF StartAttempt
  <2>3. ASSUME NEW b \in Attempts, FailJobWithAttempt(b, auth)
        PROVE  Goal
    BY <1>d, <1>f, <2>3 DEF FailJobWithAttempt, ExecutionAuthority
  <2>4. ASSUME NEW b \in Attempts, NEW c \in Challenges, PauseForExternalOutcome(b, c, auth)
        PROVE  Goal
    BY <1>d, <1>f, <2>4 DEF PauseForExternalOutcome, ExecutionAuthority
  <2>5. CASE FailJob(auth.job, auth)
    BY <1>1, <1>d, <2>5 DEF FailJob
  <2>6. CASE \/ \E o \in Operations : StartOperation(o, auth) \/ MarkOperationUnknown(o, auth)
             \/ \E o \in Operations, outcome \in {"succeeded", "failed"} :
                   FinishOperation(o, outcome, auth)
             \/ ReconcileOperations(auth)
    BY <1>1, <2>6 DEF StartOperation, MarkOperationUnknown, FinishOperation, ReconcileOperations
  <2> QED
    BY <1>8, <2>1, <2>2, <2>3, <2>4, <2>5, <2>6 DEF AuthorisedCall
<1> QED
  BY ExecutionCalls, <1>1, <1>2, <1>3, <1>4, <1>5, <1>6, <1>7, <1>8
     DEF StoreCall, ClaimCall, vars, ExpireClaim, HeartbeatJobClaim, ReleaseJobClaim

\* A paid call is made for the step of the Attempt that prepares it.
LEMMA NewOperations ==
    ASSUME TypeOK, ProcessesOK, [ExecNext]_execVars, NEW o \in Operations,
           operation'[o].state # "absent"
    PROVE  \/ /\ operation[o].state # "absent" /\ operation'[o].step = operation[o].step
              /\ operation'[o].request = operation[o].request
           \/ /\ operation'[o].request \in Requests
              /\ \E w \in Owners : At(w, "call") /\ operation'[o].step = attempt[proc[w].cur].step
<1> DEFINE Goal ==
       \/ /\ operation[o].state # "absent" /\ operation'[o].step = operation[o].step
          /\ operation'[o].request = operation[o].request
       \/ /\ operation'[o].request \in Requests
          /\ \E w \in Owners : At(w, "call") /\ operation'[o].step = attempt[proc[w].cur].step
<1>a. operation[o] \in OperationRow /\ operation \in [Operations -> OperationRow]
  BY DEF TypeOK, TablesOK
<1>b. ASSUME operation'[o] = operation[o] PROVE Goal
  BY <1>b
<1>c. ASSUME NEW lost, operation' = StartedBecomeUnknown(lost) PROVE Goal
  BY <1>a, <1>b, <1>c DEF StartedBecomeUnknown, OperationRow
<1>d. ASSUME NEW j, SettleClaimedCancellation(j) PROVE Goal
  BY <1>c, <1>d DEF SettleClaimedCancellation
<1>e. ASSUME NEW p \in Operations, operation[p].state # "absent", NEW state,
             operation' = [operation EXCEPT ![p].state = state]
      PROVE  Goal
  BY <1>a, <1>b, <1>e DEF OperationRow
<1>1. CASE UNCHANGED operation
  BY <1>1, <1>b
<1>2. CASE UserCall
  BY <1>2, <1>1 DEF UserCall, CreateJob, CreateRetryJob, CancelJob, CancelActiveJob,
                    CancelCancelledJob
<1>3. CASE \E j \in Jobs, w \in Owners, g \in Generations : ClaimJob(j, w, g)
  BY <1>1, <1>3, <1>d DEF ClaimJob, ClaimRunnable, ClaimCancelled
<1>4. ASSUME NEW w \in Owners, Prepare(w) PROVE Goal
  <2>1. PICK p \in Operations, r \in Requests :
           \/ PrepareOperation(p, proc[w].cur, r, proc[w].auth)
           \/ UNCHANGED vars
    BY <1>4 DEF Prepare
  <2> DEFINE row == [job |-> attempt[proc[w].cur].job, step |-> attempt[proc[w].cur].step,
                     request |-> r, attempt |-> proc[w].cur, state |-> "prepared"]
  <2>2. CASE operation' = [operation EXCEPT ![p] = row]
    <3>1. row.step = attempt[proc[w].cur].step /\ row.request \in Requests
      OBVIOUS
    <3> HIDE DEF row
    <3> QED
      BY <1>4, <1>a, <1>b, <2>2, <3>1 DEF Prepare
  <2>3. CASE /\ operation[p].state = "prepared"
             /\ operation' = [operation EXCEPT ![p].attempt = proc[w].cur]
    BY <1>a, <1>b, <2>3 DEF OperationRow
  <2> QED
    BY <1>1, <2>1, <2>2, <2>3 DEF PrepareOperation, SiblingsIn, vars
<1>5. CASE \E w \in Owners : BeginAttempt(w) \/ Publish(w)
  BY <1>1, <1>5 DEF BeginAttempt, CreateAttempt, Publish, CommitResult
<1>6. CASE \E w \in Owners : TakeOver(w)
  BY <1>1, <1>6, <1>d DEF TakeOver, TakeOverAttempt
<1>7. ASSUME NEW auth \in authorities, AuthorisedCall(auth) PROVE Goal
  <2>1. CASE \/ \E b \in Attempts, state \in AttemptTerminal : TransitionAttempt(b, state, auth)
             \/ \E b \in Attempts : StartAttempt(b, auth)
    BY <1>1, <2>1 DEF TransitionAttempt, StartAttempt
  <2>2. CASE \/ \E b \in Attempts : FailJobWithAttempt(b, auth)
             \/ FailJob(auth.job, auth)
             \/ \E b \in Attempts, c \in Challenges : PauseForExternalOutcome(b, c, auth)
    BY <1>1, <1>d, <2>2 DEF FailJobWithAttempt, FailJob, PauseForExternalOutcome
  <2>3. ASSUME NEW p \in Operations,
               \/ StartOperation(p, auth) \/ MarkOperationUnknown(p, auth)
               \/ \E outcome \in {"succeeded", "failed"} : FinishOperation(p, outcome, auth)
        PROVE  Goal
    BY <1>e, <2>3 DEF StartOperation, MarkOperationUnknown, FinishOperation
  <2>4. CASE ReconcileOperations(auth)
    BY <1>c, <2>4 DEF ReconcileOperations
  <2> QED
    BY <1>7, <2>1, <2>2, <2>3, <2>4 DEF AuthorisedCall
<1> QED
  BY ExecutionCalls, <1>1, <1>2, <1>3, <1>4, <1>5, <1>6, <1>7
     DEF StoreCall, ClaimCall, vars, ExpireClaim, HeartbeatJobClaim, ReleaseJobClaim

\* A Job waits for the user only after pause_for_external_outcome_atomic met a call
\* whose outcome nobody knows, and asked about it.
Asked(j) ==
    /\ UnknownOperations(j) # {} /\ UNCHANGED operation
    /\ \E c \in Challenges : challenge'[c].job = j /\ challenge'[c].state = "pending"

\* A Job succeeds only when a process publishes it.
PublishedBySomeone(j) ==
    \E w \in Owners : Publish(w) /\ attempt[proc[w].cur].job = j

JobMove(j) ==
    /\ job[j].cancel => job'[j].cancel
    /\ \/ job'[j].state \in {job[j].state, "queued", "running", "failed", "cancelled"}
       \/ job'[j].state = "waiting_for_input" /\ Asked(j)
       \/ job'[j].state = "succeeded" /\ PublishedBySomeone(j)

\* How a step may move the state of a Job.
LEMMA JobMoves ==
    ASSUME TypeOK, ProcessesOK, [ExecNext]_execVars, NEW j \in Jobs,
           job[j].state = "absent" => ~job[j].cancel
    PROVE  JobMove(j)
<1> DEFINE Goal == JobMove(j)
<1>a. job \in [Jobs -> JobRow] /\ job[j] \in JobRow
  BY DEF TypeOK, TablesOK
<1>b. ASSUME job'[j] = job[j] PROVE Goal
  BY <1>b DEF JobMove
<1>c. ASSUME NEW jobs \in [Jobs -> JobRow], NEW k, NEW attempts,
             job' = SettledIfIdle(jobs, k, attempts),
             jobs[j].state = job[j].state, job[j].cancel => jobs[j].cancel
      PROVE  Goal
  <2>1. \/ job'[j] = jobs[j]
        \/ job'[j] = [jobs[j] EXCEPT !.state = "cancelled"]
    BY <1>c, SettledIfIdleKeepsRow
  <2> QED
    BY <1>a, <1>c, <2>1 DEF JobMove, JobRow
<1>d. ASSUME NEW k, SettleClaimedCancellation(k) PROVE Goal
  BY <1>a, <1>c, <1>d DEF SettleClaimedCancellation
<1>e. ASSUME NEW k \in Jobs, NEW state \in {"queued", "running", "failed"},
             job' = [job EXCEPT ![k].state = state]
      PROVE  Goal
  BY <1>a, <1>e DEF JobMove, JobRow
<1>f. ASSUME NEW k \in Jobs, NEW c, NEW original, job[k].state = "absent",
             NewJob(k, c, original)
      PROVE  Goal
  BY <1>a, <1>f DEF JobMove, JobRow, NewJob
<1>1. CASE UNCHANGED job
  BY <1>1, <1>b
<1>2. CASE UserCall
  <2>1. ASSUME NEW k \in Jobs, CancelActiveJob(k) PROVE Goal
    <3> DEFINE jobs == [job EXCEPT ![k].cancel = TRUE]
    <3>1. jobs \in [Jobs -> JobRow]
      BY <1>a DEF JobRow
    <3>2. jobs[j].state = job[j].state /\ (job[j].cancel => jobs[j].cancel)
      BY <1>a DEF JobRow
    <3>3. job' = SettledIfIdle(jobs, k, attempt')
      BY <2>1 DEF CancelActiveJob
    <3> HIDE DEF jobs
    <3> QED
      BY <1>c, <3>1, <3>2, <3>3
  <2> QED
    BY <1>1, <1>2, <1>f, <2>1 DEF UserCall, CreateJob, CreateRetryJob, CancelJob,
       CancelCancelledJob
<1>3. CASE \E k \in Jobs, o \in Owners, g \in Generations : ClaimJob(k, o, g)
  BY <1>3, <1>d, <1>e DEF ClaimJob, ClaimRunnable, ClaimCancelled
<1>4. CASE \E w \in Owners : BeginAttempt(w) \/ Prepare(w)
  BY <1>1, <1>4 DEF BeginAttempt, CreateAttempt, Prepare, PrepareOperation, vars
<1>5. CASE \E w \in Owners : TakeOver(w)
  BY <1>1, <1>5, <1>d DEF TakeOver, TakeOverAttempt
<1>6. ASSUME NEW w \in Owners, Publish(w) PROVE Goal
  <2>1. job' = [job EXCEPT ![attempt[proc[w].cur].job].state = "succeeded"]
    BY <1>6 DEF Publish, CommitResult
  <2>2. CASE attempt[proc[w].cur].job = j
    BY <1>a, <1>6, <2>1, <2>2 DEF JobMove, JobRow, PublishedBySomeone
  <2>3. CASE attempt[proc[w].cur].job # j
    BY <1>a, <1>b, <2>1, <2>3
  <2> QED
    BY <2>2, <2>3
<1>7. ASSUME NEW auth \in authorities, AuthorisedCall(auth) PROVE Goal
  <2>1. ASSUME NEW b \in Attempts, NEW state, TransitionAttempt(b, state, auth)
        PROVE  Goal
    BY <1>a, <1>c, <2>1 DEF TransitionAttempt
  <2>2. CASE \/ \E b \in Attempts : StartAttempt(b, auth)
             \/ \E o \in Operations : StartOperation(o, auth) \/ MarkOperationUnknown(o, auth)
             \/ \E o \in Operations, outcome \in {"succeeded", "failed"} :
                   FinishOperation(o, outcome, auth)
             \/ ReconcileOperations(auth)
    BY <1>1, <2>2 DEF StartAttempt, StartOperation, MarkOperationUnknown, FinishOperation,
       ReconcileOperations
  <2>3. ASSUME NEW b \in Attempts, NEW c \in Challenges, PauseForExternalOutcome(b, c, auth)
        PROVE  Goal
    <3> DEFINE k == attempt[b].job
    <3>1. CASE SettleClaimedCancellation(k)
      BY <1>d, <3>1
    <3>2. CASE ~SettleClaimedCancellation(k)
      <4>1. /\ UnknownOperations(k) # {} /\ OpenChallenge(c, k, b) /\ UNCHANGED operation
        BY <2>3, <3>2 DEF PauseForExternalOutcome
      <4>2. challenge \in [Challenges -> ChallengeRow]
        BY DEF TypeOK, TablesOK
      <4>3. challenge'[c].job = k /\ challenge'[c].state = "pending"
        BY <4>1, <4>2 DEF OpenChallenge
      <4>4. job' = [job EXCEPT ![k].state = "waiting_for_input"]
        BY <4>1 DEF OpenChallenge
      <4> HIDE DEF k
      <4>5. CASE j = k
        <5>1. Asked(j)
          BY <4>1, <4>3, <4>5 DEF Asked
        <5> QED
          BY <1>a, <4>4, <4>5, <5>1 DEF JobMove, JobRow
      <4>6. CASE j # k
        BY <1>a, <1>b, <4>4, <4>6
      <4> QED
        BY <4>5, <4>6
    <3> QED
      BY <3>1, <3>2
  <2>4. CASE FailJob(auth.job, auth)
    <3>1. auth.job \in Jobs
      BY AuthorityType DEF TypeOK
    <3> QED
      BY <1>d, <1>e, <2>4, <3>1 DEF FailJob
  <2>5. ASSUME NEW b \in Attempts, FailJobWithAttempt(b, auth)
        PROVE  Goal
    <3>1. attempt[b].job \in Jobs
      BY <2>5, AuthorityType DEF FailJobWithAttempt, JobAuthority, TypeOK
    <3> QED
      BY <1>d, <1>e, <2>5, <3>1 DEF FailJobWithAttempt
  <2> QED
    BY <1>7, <2>1, <2>2, <2>3, <2>4, <2>5 DEF AuthorisedCall
<1> QED
  BY ExecutionCalls, <1>1, <1>2, <1>3, <1>4, <1>5, <1>6, <1>7
     DEF StoreCall, ClaimCall, vars, ExpireClaim, HeartbeatJobClaim, ReleaseJobClaim

-----------------------------------------------------------------------------
(* Jobs that wait for their user.                                          *)

\* Only cancel_job closes a Challenge an execution raised.
LEMMA PendingChallengeKept ==
    ASSUME TypeOK, ProcessesOK, [ExecNext]_execVars,
           NEW c \in Challenges, challenge[c].state = "pending"
    PROVE  \/ challenge'[c] = challenge[c]
           \/ job'[challenge[c].job].cancel \/ job'[challenge[c].job].state = "cancelled"
<1> DEFINE j == challenge[c].job
           Goal == \/ challenge'[c] = challenge[c]
                   \/ job'[j].cancel \/ job'[j].state = "cancelled"
<1>a. /\ challenge \in [Challenges -> ChallengeRow] /\ job \in [Jobs -> JobRow]
      /\ j \in Jobs
  BY DEF TypeOK, TablesOK, ForeignKeys
<1>1. CASE UNCHANGED challenge
  BY <1>1
<1>2. ASSUME NEW k \in Jobs, CancelActiveJob(k) PROVE Goal
  <2>1. CASE k = j
    <3> DEFINE jobs == [job EXCEPT ![k].cancel = TRUE]
    <3>1. jobs \in [Jobs -> JobRow] /\ jobs[j].cancel
      BY <1>a, <2>1 DEF JobRow
    <3>2. job' = SettledIfIdle(jobs, k, attempt')
      BY <1>2 DEF CancelActiveJob
    <3> HIDE DEF jobs
    <3>3. job'[j] = jobs[j] \/ job'[j] = [jobs[j] EXCEPT !.state = "cancelled"]
      BY <1>a, <3>1, <3>2, SettledIfIdleKeepsRow
    <3> QED
      BY <1>a, <3>1, <3>3 DEF JobRow
  <2>2. CASE k # j
    BY <1>2, <2>2 DEF CancelActiveJob, PendingChallengesCancelled
  <2> QED
    BY <2>1, <2>2
<1>3. ASSUME NEW k \in Jobs, CancelCancelledJob(k) PROVE Goal
  BY <1>3 DEF CancelCancelledJob, PendingChallengesCancelled
<1>4. ASSUME NEW b \in Attempts, NEW d \in Challenges, NEW auth,
             PauseForExternalOutcome(b, d, auth)
      PROVE  Goal
  BY <1>4, <1>a DEF PauseForExternalOutcome, OpenChallenge
<1>5. CASE UserCall
  BY <1>1, <1>2, <1>3, <1>5 DEF UserCall, CreateJob, CreateRetryJob, CancelJob
<1>6. CASE \E w \in Owners : BeginAttempt(w) \/ TakeOver(w) \/ Prepare(w) \/ Publish(w)
  BY <1>1, <1>6 DEF BeginAttempt, CreateAttempt, TakeOver, TakeOverAttempt, Prepare,
     PrepareOperation, Publish, CommitResult, vars
<1>7. CASE \E auth \in authorities : AuthorisedCall(auth)
  BY <1>1, <1>4, <1>7 DEF AuthorisedCall, StartAttempt, FailJobWithAttempt, TransitionAttempt,
     StartOperation, MarkOperationUnknown, FinishOperation, ReconcileOperations, FailJob
<1> QED
  BY ExecutionCalls, <1>1, <1>5, <1>6, <1>7
     DEF StoreCall, ClaimCall, ClaimJob, vars, ExpireClaim, HeartbeatJobClaim, ReleaseJobClaim

\* What nobody knows the outcome of stays so.
LEMMA UnknownKept ==
    ASSUME TypeOK, [Next]_vars, NEW o \in Operations, operation[o].state = "unknown"
    PROVE  operation'[o] = operation[o]
BY OperationRowStep DEF OperationRowKept, Moves

\* A waiting Job keeps its question and the call the question is about.
LEMMA WaitingStep ==
    ASSUME TypeOK, ProcessesOK, SubmissionInv, WaitingJobsAsk, [ExecNext]_execVars
    PROVE  WaitingJobsAsk'
<1> SUFFICES ASSUME NEW j \in Jobs,
                    job'[j].state = "waiting_for_input" /\ ~job'[j].cancel
             PROVE  /\ \E c \in Challenges : challenge'[c].job = j /\ challenge'[c].state = "pending"
                    /\ UnknownOperations(j)' # {}
  BY DEF WaitingJobsAsk
<1>1. job[j].state = "absent" => ~job[j].cancel
  BY DEF SubmissionInv
<1>2. JobMove(j)
  BY <1>1, JobMoves
<1>3. CASE Asked(j)
  BY <1>3 DEF Asked, UnknownOperations, OperationsOf
<1>4. CASE job[j].state = "waiting_for_input" /\ ~job[j].cancel
  <2>1. PICK c \in Challenges : challenge[c].job = j /\ challenge[c].state = "pending"
    BY <1>4 DEF WaitingJobsAsk
  <2>2. challenge'[c] = challenge[c]
    BY <2>1, PendingChallengeKept
  <2>3. PICK o \in Operations : operation[o].job = j /\ operation[o].state = "unknown"
    BY <1>4 DEF WaitingJobsAsk, UnknownOperations, OperationsOf
  <2>4. operation'[o] = operation[o]
    BY <2>3, StoreStep, UnknownKept
  <2> QED
    BY <2>1, <2>2, <2>3, <2>4 DEF UnknownOperations, OperationsOf
<1> QED
  BY <1>2, <1>3, <1>4 DEF JobMove

\* A Job that waits, and was not cancelled, has a question pending and a paid call whose
\* outcome is unknown, however the processes that executed it were lost.
THEOREM WaitingJobsHaveAsked == ExecSpec => []WaitingJobsAsk
<1>1. ExecInit => WaitingJobsAsk
  BY DEF ExecInit, Init, WaitingJobsAsk
<1>2. TypeOK /\ ProcessesOK /\ SubmissionInv /\ WaitingJobsAsk /\ [ExecNext]_execVars => WaitingJobsAsk'
  BY WaitingStep
<1>3. ExecSpec => [](TypeOK /\ SubmissionInv)
  BY ExecutionsImplementStore, TypeCorrect, SubmissionInvHolds, PTL DEF ImplementsJobStore
<1> QED
  BY <1>1, <1>2, <1>3, ProcessesRemember, PTL DEF ExecSpec

-----------------------------------------------------------------------------
(* The order of the steps.                                                 *)

PaidFor(j, ops) == \E o \in Operations : ops[o].job = j /\ ops[o].state = "succeeded"
CompileSaved(j, cps, att) == \E a \in cps : att[a].job = j /\ att[a].step = "compile"
Own(p, a, att) == a # Nobody => att[a].state # "absent" /\ att[a].job = p.auth.job

OnStep == InRunner \cup {"start", "done", "publish"}

\* What a process knows of its Job when it reaches a phase: whose Attempts it holds, for
\* which step, and which steps are behind it.
Sound(p, att, ops, cps) == p.phase \in AtWork =>
    /\ Own(p, p.active, att)
    /\ p.phase \in OnStep \cup {"recover"} => Own(p, p.cur, att)
    /\ p.phase \in OnStep => att[p.cur].step = p.step
    /\ p.phase \in InRunner \ {"save"} => p.step = "compile"
    /\ p.phase \in {"save", "done"} => p.step # "commit"
    /\ p.phase \in {"recover", "reconcile"} => p.step = "preflight"
    /\ p.phase = "publish" => p.step = "commit"
    /\ p.phase = "settle" /\ p.plan = "unknown" => p.err # "none"
    /\ p.phase = "save" /\ p.step = "compile" => PaidFor(p.auth.job, ops)
    /\ p.phase = "done" /\ p.step = "compile" => CompileSaved(p.auth.job, cps, att)
    /\ p.phase \in {"enter", "start", "publish"} /\ p.step = "commit" =>
          CompileSaved(p.auth.job, cps, att)

ProcessesSound == \A w \in Owners : Sound(proc[w], attempt, operation, checkpoints)

\* What the tables and files say of the order in which a Job was executed.
RecordsSound ==
    /\ checkpoints \subseteq Attempts
    /\ \A a \in checkpoints : attempt[a].state # "absent"
    /\ \A o \in Operations : operation[o].state # "absent" =>
          operation[o].step = "compile" /\ operation[o].request \in Requests
    /\ \A a \in Attempts : attempt[a].state # "absent" /\ attempt[a].step = "commit" =>
          CompileSaved(attempt[a].job, checkpoints, attempt)
    /\ \A j \in Jobs : CompileSaved(j, checkpoints, attempt) => PaidFor(j, operation)
    /\ \A j \in Jobs : job[j].state = "succeeded" =>
          j \in published /\ CompileSaved(j, checkpoints, attempt)

\* save_checkpoint is the only writer of checkpoints, and no bundle is withdrawn.
LEMMA FilesStep ==
    ASSUME [ExecNext]_execVars
    PROVE  /\ checkpoints' = checkpoints \/ \E w \in Owners : SaveCheckpoint(w)
           /\ published \subseteq published'
BY DEF ExecNext, ExecStep, Disturb, User, execVars, Claim, TakeOver, Reconcile, Pause, Release,
       ReuseCheckpoint, ResumeAttempt, BeginAttempt, Start, SaveCheckpoint, Succeed, Converge,
       ConvergeFenced, Prepare, RecoverResult, PrepareMeetsUnknown, Call, Answer, Settle,
       ObserveCancellation, Publish, PublishRolledBack, FailRead, FailWrite, StepFails, Crash,
       Heartbeat

\* What was achieved stays: Attempts keep their Job and step, a call that was paid and a
\* step that was checkpointed stay so.
RowsKept ==
    /\ \A a \in Attempts : attempt[a].state # "absent" =>
          /\ attempt'[a].state # "absent"
          /\ attempt'[a].job = attempt[a].job /\ attempt'[a].step = attempt[a].step
    /\ \A j \in Jobs : PaidFor(j, operation) => PaidFor(j, operation')
    /\ \A j \in Jobs : CompileSaved(j, checkpoints, attempt) => CompileSaved(j, checkpoints', attempt')

\* What a step may do to the rows the order of execution is read from.
LEMMA RowsStep ==
    ASSUME TypeOK, ProcessesOK, RecordsSound, [ExecNext]_execVars
    PROVE  RowsKept
<1>1. \A a \in Attempts : attempt[a].state # "absent" =>
          /\ attempt'[a].state # "absent"
          /\ attempt'[a].job = attempt[a].job /\ attempt'[a].step = attempt[a].step
  BY StoreStep, AttemptKeysStep DEF AttemptKeysKept
<1>2. ASSUME NEW o \in Operations, operation[o].state = "succeeded"
      PROVE  operation'[o] = operation[o]
  BY <1>2, StoreStep, OperationRowStep DEF OperationRowKept, Moves
<1>3. checkpoints \subseteq checkpoints' /\ checkpoints \subseteq Attempts
  BY FilesStep DEF SaveCheckpoint, RecordsSound
<1>4. ASSUME NEW j \in Jobs, PaidFor(j, operation) PROVE PaidFor(j, operation')
  BY <1>2, <1>4 DEF PaidFor
<1>5. ASSUME NEW j \in Jobs, CompileSaved(j, checkpoints, attempt)
      PROVE  CompileSaved(j, checkpoints', attempt')
  BY <1>1, <1>3, <1>5 DEF CompileSaved, RecordsSound
<1> QED
  BY <1>1, <1>4, <1>5 DEF RowsKept

\* Others' steps do not disturb what a process relies on.
LEMMA SoundKept ==
    ASSUME RowsKept, NEW p \in Process, p.phase \in AtWork => p.auth \in Authority,
           p.phase \in OnAttempt => p.cur \in Attempts,
           Sound(p, attempt, operation, checkpoints)
    PROVE  Sound(p, attempt', operation', checkpoints')
<1> SUFFICES ASSUME p.phase \in AtWork PROVE Sound(p, attempt', operation', checkpoints')
  BY DEF Sound
<1>1. /\ p.auth.job \in Jobs /\ p.active \in Attempts \cup {Nobody}
      /\ p.cur \in Attempts \cup {Nobody}
  BY DEF Authority, Process
<1>2. OnStep \cup {"recover"} \subseteq OnAttempt
  BY DEF OnStep, OnAttempt
<1>3. Own(p, p.active, attempt')
  BY <1>1 DEF RowsKept, Own, Sound
<1>4. ASSUME p.phase \in OnStep \cup {"recover"} PROVE Own(p, p.cur, attempt')
  BY <1>1, <1>4 DEF RowsKept, Own, Sound
<1>5. ASSUME p.phase \in OnStep PROVE attempt'[p.cur].step = p.step
  <2>1. p.cur \in Attempts /\ p.cur # Nobody
    BY <1>2, <1>5, JobStoreAssumption
  <2>2. attempt[p.cur].state # "absent" /\ attempt[p.cur].step = p.step
    BY <1>5, <2>1 DEF Sound, Own
  <2> QED
    BY <2>1, <2>2 DEF RowsKept
<1>6. PaidFor(p.auth.job, operation) => PaidFor(p.auth.job, operation')
  BY <1>1 DEF RowsKept
<1>7. CompileSaved(p.auth.job, checkpoints, attempt) => CompileSaved(p.auth.job, checkpoints', attempt')
  BY <1>1 DEF RowsKept
<1> QED
  BY <1>3, <1>4, <1>5, <1>6, <1>7 DEF Sound

\* What a step writes is in order if the process that makes it was.
LEMMA RecordsStep ==
    ASSUME TypeOK, ProcessesOK, RecordsSound, ProcessesSound, SubmissionInv, [ExecNext]_execVars
    PROVE  RecordsSound'
<1>a. RowsKept
  BY RowsStep
<1>b. ASSUME NEW w \in Owners, proc[w].phase \in OnAttempt
      PROVE  /\ proc[w].phase \in AtWork /\ proc[w].cur \in Attempts
             /\ proc[w].cur # Nobody /\ proc[w].auth \in Authority
             /\ Sound(proc[w], attempt, operation, checkpoints)
  BY <1>b, PhasesType, WorkingProcess, JobStoreAssumption DEF ProcessesSound, TypeOK, TablesOK
<1>c. ASSUME NEW w \in Owners, SaveCheckpoint(w)
      PROVE  /\ proc[w].cur \in Attempts /\ checkpoints' = checkpoints \cup {proc[w].cur}
             /\ attempt' = attempt /\ operation' = operation
             /\ attempt[proc[w].cur].state # "absent"
             /\ attempt[proc[w].cur].step = "compile" =>
                   PaidFor(attempt[proc[w].cur].job, operation)
  <2>1. proc[w].phase = "save" /\ "save" \in OnAttempt /\ "save" \in OnStep
    BY <1>c DEF SaveCheckpoint, At, OnAttempt, OnStep, InRunner
  <2> QED
    BY <1>b, <1>c, <2>1 DEF SaveCheckpoint, Sound, Own, vars
<1>1. checkpoints' \subseteq Attempts
  BY <1>c, FilesStep DEF RecordsSound
<1>2. ASSUME NEW a \in checkpoints' PROVE attempt'[a].state # "absent"
  <2>1. CASE a \in checkpoints
    BY <1>a, <2>1 DEF RowsKept, RecordsSound
  <2>2. CASE a \notin checkpoints
    BY <1>2, <1>c, <2>2, FilesStep
  <2> QED
    BY <2>1, <2>2
<1>3. ASSUME NEW o \in Operations, operation'[o].state # "absent"
      PROVE  operation'[o].step = "compile" /\ operation'[o].request \in Requests
  <2>1. ASSUME NEW w \in Owners, At(w, "call") PROVE attempt[proc[w].cur].step = "compile"
    <3>1. proc[w].phase = "call" /\ "call" \in OnAttempt /\ "call" \in OnStep /\ "call" \in InRunner \ {"save"}
      BY <2>1 DEF At, OnAttempt, OnStep, InRunner
    <3> QED
      BY <1>b, <3>1 DEF Sound
  <2> QED
    BY <1>3, <2>1, NewOperations DEF RecordsSound
<1>4. ASSUME NEW a \in Attempts, attempt'[a].state # "absent", attempt'[a].step = "commit"
      PROVE  CompileSaved(attempt'[a].job, checkpoints', attempt')
  <2>0. ASSUME NEW j \in Jobs, CompileSaved(j, checkpoints, attempt), attempt'[a].job = j
        PROVE  CompileSaved(attempt'[a].job, checkpoints', attempt')
    BY <1>a, <2>0 DEF RowsKept
  <2>1. CASE attempt[a].state # "absent"
    <3>1. attempt'[a].job = attempt[a].job /\ attempt'[a].step = attempt[a].step
      BY <1>a, <2>1 DEF RowsKept
    <3>2. attempt[a].job \in Jobs
      BY <2>1 DEF TypeOK, ForeignKeys
    <3> QED
      BY <1>4, <2>0, <2>1, <3>1, <3>2 DEF RecordsSound
  <2>2. ASSUME NEW w \in Owners, BeginAttempt(w), attempt'[a].job = JobOf(w),
               attempt'[a].step = proc[w].step
        PROVE  CompileSaved(attempt'[a].job, checkpoints', attempt')
    <3>1. proc[w].phase = "enter" /\ proc[w].phase \in AtWork
      BY <2>2 DEF BeginAttempt, At, AtWork, Phases, OutsideRunner
    <3>2. JobOf(w) \in Jobs
      BY <3>1, WorkingProcess DEF TypeOK, TablesOK, Authority, JobOf
    <3> QED
      BY <1>4, <2>0, <2>2, <3>1, <3>2 DEF ProcessesSound, Sound, JobOf
  <2>3. ASSUME NEW w \in Owners, TakeOver(w), attempt'[a].job = attempt[proc[w].cur].job,
               attempt'[a].step = attempt[proc[w].cur].step
        PROVE  CompileSaved(attempt'[a].job, checkpoints', attempt')
    <3>1. proc[w].cur \in Attempts
      BY <1>b, <2>3 DEF TakeOver, At, OnAttempt
    <3>2. attempt[proc[w].cur].state # "absent"
      BY <2>3 DEF TakeOver, TakeOverAttempt
    <3>3. attempt[proc[w].cur].job \in Jobs
      BY <3>1, <3>2 DEF TypeOK, ForeignKeys
    <3> QED
      BY <1>4, <2>0, <2>3, <3>1, <3>2, <3>3 DEF RecordsSound
  <2> QED
    BY <1>4, <2>1, <2>2, <2>3, NewAttempts DEF MadeBySomeone
<1>5. ASSUME NEW j \in Jobs, CompileSaved(j, checkpoints', attempt')
      PROVE  PaidFor(j, operation')
  <2>1. PICK a \in checkpoints' : attempt'[a].job = j /\ attempt'[a].step = "compile"
    BY <1>5 DEF CompileSaved
  <2>2. CASE a \in checkpoints
    <3>1. attempt[a].job = j /\ attempt[a].step = "compile"
      BY <1>a, <2>1, <2>2 DEF RowsKept, RecordsSound
    <3> QED
      BY <1>a, <2>2, <3>1 DEF RowsKept, RecordsSound, CompileSaved
  <2>3. CASE a \notin checkpoints
    BY <1>c, <2>1, <2>3, FilesStep
  <2> QED
    BY <2>2, <2>3
<1>6. ASSUME NEW j \in Jobs, job'[j].state = "succeeded"
      PROVE  j \in published' /\ CompileSaved(j, checkpoints', attempt')
  <2>1. CASE job[j].state = "succeeded"
    BY <1>a, <2>1, FilesStep DEF RowsKept, RecordsSound
  <2>2. ASSUME NEW w \in Owners, Publish(w), attempt[proc[w].cur].job = j
        PROVE  j \in published' /\ CompileSaved(j, checkpoints', attempt')
    <3>1. proc[w].phase = "publish" /\ "publish" \in OnAttempt /\ "publish" \in OnStep
      BY <2>2 DEF Publish, At, OnAttempt, OnStep
    <3>2. JobOf(w) = j /\ CompileSaved(j, checkpoints, attempt)
      BY <1>b, <2>2, <3>1 DEF Sound, Own, JobOf
    <3> QED
      BY <1>a, <2>2, <3>2 DEF Publish, RowsKept
  <2> QED
    BY <1>6, <2>1, <2>2, JobMoves DEF JobMove, PublishedBySomeone, SubmissionInv
<1> QED
  BY <1>1, <1>2, <1>3, <1>4, <1>5, <1>6 DEF RecordsSound

\* A process that gives up, pauses or converges relies on little.
LEMMA SoundLeaves ==
    ASSUME NEW p, NEW q, NEW att, NEW ops, NEW cps, p.phase \in AtWork, Sound(p, att, ops, cps),
           q.auth = p.auth, q.active = p.active \/ q.active = Nobody,
           q.phase \in {"release", "fail_read", "fail_write", "pause", "converge"}
    PROVE  Sound(q, att, ops, cps)
BY DEF Sound, Own, OnStep, InRunner

\* Going on with the same Attempt.
LEMMA SoundGoes ==
    ASSUME NEW p \in Process, NEW phase, NEW att, NEW ops, NEW cps, p.phase \in OnStep,
           Sound(p, att, ops, cps),
           phase \in OnStep, phase # "settle",
           phase \in InRunner \ {"save"} => p.step = "compile",
           phase \in {"save", "done"} => p.step # "commit",
           phase = "save" /\ p.step = "compile" => PaidFor(p.auth.job, ops),
           phase = "done" /\ p.step = "compile" => CompileSaved(p.auth.job, cps, att),
           phase = "publish" => p.step = "commit" /\ CompileSaved(p.auth.job, cps, att),
           phase # "start", NEW op, NEW plan, NEW err
    PROVE  /\ Sound([p EXCEPT !.phase = phase], att, ops, cps)
           /\ Sound([p EXCEPT !.phase = phase, !.op = op], att, ops, cps)
           /\ Sound([p EXCEPT !.plan = plan, !.op = op, !.phase = phase], att, ops, cps)
<1>1. p.phase \in AtWork
  BY DEF OnStep, InRunner, AtWork, Phases, OutsideRunner
<1>2. phase \notin {"recover", "reconcile", "enter"}
  BY DEF OnStep, InRunner
<1>3. ASSUME NEW q, q.phase = phase, q.auth = p.auth, q.active = p.active, q.cur = p.cur,
             q.step = p.step
      PROVE  Sound(q, att, ops, cps)
  BY <1>1, <1>2, <1>3 DEF Sound, Own
<1>4. [p EXCEPT !.phase = phase].phase = phase
  BY DEF Process
<1> QED
  BY <1>3 DEF Process

\* The next step.
LEMMA SoundEnters ==
    ASSUME NEW w \in Owners, NEW att, NEW ops, NEW cps, proc[w] \in Process,
           proc[w].phase \in AtWork, Sound(proc[w], att, ops, cps), NEW step,
           step = "commit" => CompileSaved(proc[w].auth.job, cps, att)
    PROVE  Sound(EnterStep(w, step), att, ops, cps)
<1> DEFINE q == EnterStep(w, step)
<1>1. /\ q.phase = "enter" /\ q.auth = proc[w].auth /\ q.active = proc[w].active
      /\ q.step = step
  BY DEF EnterStep, Process
<1> HIDE DEF q
<1>2. Sound(q, att, ops, cps)
  BY <1>1 DEF Sound, Own, OnStep, InRunner
<1> QED
  BY <1>2 DEF q

\* _reconcile_commit or _execute, with an Attempt of this Job.
LEMMA SoundResumes ==
    ASSUME NEW p \in Process, NEW a \in Attempts \cup {Nobody}, NEW ops, NEW cps,
           Own(p, a, attempt'), p.step = "preflight",
           a \in Attempts /\ attempt'[a].step = "commit" => CompileSaved(p.auth.job, cps, attempt')
    PROVE  Sound(Resume(p, a), attempt', ops, cps)
<1> DEFINE q == Resume(p, a)
<1>1. CASE a # Nobody /\ attempt'[a].step = "commit"
  <2>1. /\ q.phase = "publish" /\ q.auth = p.auth /\ q.active = a /\ q.cur = a
        /\ q.step = "commit"
    BY <1>1 DEF Resume, Process
  <2> HIDE DEF q
  <2>2. Own(q, a, attempt') /\ CompileSaved(q.auth.job, cps, attempt')
    BY <1>1, <2>1 DEF Own
  <2>3. Sound(q, attempt', ops, cps)
    BY <1>1, <2>1, <2>2 DEF Sound, OnStep, InRunner
  <2> QED
    BY <2>3 DEF q
<1>2. CASE ~(a # Nobody /\ attempt'[a].step = "commit")
  <2>1. /\ q.phase = "enter" /\ q.auth = p.auth /\ q.active = a /\ q.step = "preflight"
    BY <1>2 DEF Resume, Process
  <2> HIDE DEF q
  <2>2. Own(q, a, attempt')
    BY <2>1 DEF Own
  <2>3. Sound(q, attempt', ops, cps)
    BY <2>1, <2>2 DEF Sound, OnStep, InRunner
  <2> QED
    BY <2>3 DEF q
<1> QED
  BY <1>1, <1>2

\* What becomes of the process that moves.
LEMMA SoundMoves ==
    ASSUME TypeOK, ProcessesOK, RecordsSound, RecordsSound', ProcessesSound, RowsKept,
           NEW w \in Owners,
           ExecStep(w) \/ StepFails(w) \/ Crash(w),
           [ExecNext]_execVars
    PROVE  Sound(proc'[w], attempt', operation', checkpoints')
<1> DEFINE S(p) == Sound(p, attempt', operation', checkpoints')
           Goal == S(proc'[w])
           q == proc[w]
<1>a. q \in Process
  BY DEF ProcessesOK
<1>b. q.phase \in AtWork =>
         /\ q.auth \in authorities /\ q.auth \in Authority /\ q.auth.job \in Jobs
         /\ q.phase \in OnAttempt => q.cur \in Attempts /\ q.cur # Nobody
  BY WorkingProcess, JobStoreAssumption DEF TypeOK, TablesOK, Authority
<1>c. S(q)
  BY <1>a, <1>b, SoundKept, PhasesType DEF ProcessesSound
<1>d. ASSUME NEW p, Become(w, p) PROVE proc'[w] = p
  BY <1>d DEF Become, ProcessesOK
<1>e. ASSUME NEW phase, Go(w, phase) PROVE proc'[w] = [q EXCEPT !.phase = phase]
  BY <1>e DEF Go, ProcessesOK
<1>f. ASSUME q.phase \in AtWork, ToRelease(w) \/ ToFailJob(w) PROVE Goal
  <2> DEFINE r == [Idle EXCEPT !.phase = "release", !.auth = proc[w].auth]
             f == [Idle EXCEPT !.phase = "fail_read", !.auth = proc[w].auth, !.active = proc[w].active]
  <2>1. /\ r.phase = "release" /\ r.auth = q.auth /\ r.active = Nobody
        /\ f.phase = "fail_read" /\ f.auth = q.auth /\ f.active = q.active
    BY DEF Idle
  <2>2. proc'[w] = r \/ proc'[w] = f
    BY <1>d, <1>f DEF ToRelease, ToFailJob
  <2> HIDE DEF r, f
  <2> QED
    BY <1>c, <1>f, <2>1, <2>2, SoundLeaves
<1>g. ASSUME q.phase \in AtWork, NEW e, Become(w, Throw(w, e)) PROVE Goal
  <2>1. Throw(w, e).phase = "converge" /\ Throw(w, e).auth = q.auth /\ Throw(w, e).active = q.active
    BY <1>a DEF Throw, Process
  <2>2. proc'[w] = Throw(w, e)
    BY <1>d, <1>g
  <2> QED
    BY <1>c, <1>g, <2>1, <2>2, SoundLeaves
<1>h. ASSUME NEW phase \in {"idle", "dead"}, Become(w, [Idle EXCEPT !.phase = phase]) PROVE Goal
  <2>1. proc'[w].phase = phase
    BY <1>d, <1>h DEF Idle
  <2> QED
    BY <2>1 DEF Sound, AtWork
<1>i. ASSUME NEW step, Become(w, EnterStep(w, step)), q.phase \in AtWork,
             step = "commit" => CompileSaved(q.auth.job, checkpoints', attempt')
      PROVE  Goal
  BY <1>a, <1>c, <1>d, <1>i, SoundEnters
<1>k. CompileSaved(q.auth.job, checkpoints, attempt) /\ q.phase \in AtWork =>
         CompileSaved(q.auth.job, checkpoints', attempt')
  BY <1>b DEF RowsKept
<1>1. ASSUME NEW j \in Jobs, Claim(w, j) PROVE Goal
  <2>1. PICK g \in Generations :
           LET p == [Idle EXCEPT !.auth = [job |-> j, owner |-> w, generation |-> g]] IN
           \/ Become(w, [p EXCEPT !.phase = "release"])
           \/ Become(w, Resume(p, Nobody))
           \/ \E a \in NewestUnsettled(j) :
                 \/ Become(w, Resume(p, a))
                 \/ Become(w, [p EXCEPT !.phase = "recover", !.cur = a])
    BY <1>1 DEF Claim
  <2> DEFINE auth == [job |-> j, owner |-> w, generation |-> g]
             p == [Idle EXCEPT !.auth = auth]
  <2>2. auth.job = j /\ auth \in Authority
    BY DEF Authority
  <2> HIDE DEF auth
  <2>3. p \in Process /\ p.auth = auth /\ p.step = "preflight" /\ p.active = Nobody
    BY <2>2, IdleType DEF Process, Idle
  <2> HIDE DEF p
  <2>4. ASSUME NEW a \in NewestUnsettled(j)
        PROVE  a \in Attempts /\ Own(p, a, attempt')
    BY <2>2, <2>3, <2>4 DEF NewestUnsettled, AttemptsOf, Unsettled, Own, RowsKept
  <2>5. CASE Become(w, [p EXCEPT !.phase = "release"])
    <3>1. proc'[w].phase = "release" /\ proc'[w].active = Nobody
      BY <1>d, <2>3, <2>5 DEF Process
    <3> QED
      BY <3>1 DEF Sound, Own, OnStep, InRunner
  <2>6. ASSUME NEW a \in Attempts \cup {Nobody}, Own(p, a, attempt'), Become(w, Resume(p, a))
        PROVE  Goal
    <3>1. a \in Attempts /\ attempt'[a].step = "commit" =>
             CompileSaved(p.auth.job, checkpoints', attempt')
      BY <2>6, JobStoreAssumption DEF RecordsSound, Own
    <3>2. Sound(Resume(p, a), attempt', operation', checkpoints')
      BY <2>3, <2>6, <3>1, SoundResumes
    <3> QED
      BY <1>d, <2>6, <3>2
  <2>7. ASSUME NEW a \in NewestUnsettled(j), Become(w, [p EXCEPT !.phase = "recover", !.cur = a])
        PROVE  Goal
    <3> DEFINE r == [p EXCEPT !.phase = "recover", !.cur = a]
    <3>1. r.phase = "recover" /\ r.auth = auth /\ r.cur = a /\ r.step = "preflight" /\ r.active = Nobody
      BY <2>3 DEF Process
    <3>2. proc'[w] = r
      BY <1>d, <2>7
    <3> HIDE DEF r
    <3>3. Own(r, a, attempt') /\ Own(r, Nobody, attempt')
      BY <2>3, <2>4, <2>7, <3>1 DEF Own
    <3> QED
      BY <3>1, <3>2, <3>3 DEF Sound, OnStep, InRunner
  <2>8. Own(p, Nobody, attempt')
    BY DEF Own
  <2> QED
    BY <2>1, <2>4, <2>5, <2>6, <2>7, <2>8 DEF p, auth
<1>2. CASE TakeOver(w)
  <2>1. q.phase = "recover" /\ q.phase \in AtWork /\ q.phase \in OnAttempt
    BY <1>2 DEF TakeOver, At, AtWork, Phases, OutsideRunner, OnAttempt
  <2>2. attempt[q.cur].job = JobOf(w) /\ q.step = "preflight"
    BY <1>b, <2>1 DEF ProcessesSound, Sound, Own, JobOf
  <2>3. CASE job[JobOf(w)].cancel
    BY <1>2, <1>f, <2>1, <2>3 DEF TakeOver
  <2>4. CASE ~job[JobOf(w)].cancel
    <3>1. PICK b \in Attempts :
             /\ TakeOverAttempt(q.cur, b, q.auth)
             /\ Become(w, [q EXCEPT !.phase = "reconcile", !.active = b, !.cur = b])
      BY <1>2, <2>4 DEF TakeOver
    <3> DEFINE r == [q EXCEPT !.phase = "reconcile", !.active = b, !.cur = b]
               row == [NewAttempt(JobOf(w), attempt[q.cur].step)
                          EXCEPT !.state = "running", !.token = q.auth.generation]
    <3>2. attempt' = [attempt EXCEPT ![q.cur].state = "interrupted", ![b] = row]
      BY <2>2, <2>4, <3>1 DEF TakeOverAttempt
    <3>3. row.state = "running" /\ row.job = JobOf(w)
      BY DEF NewAttempt
    <3>4. r.phase = "reconcile" /\ r.auth = q.auth /\ r.active = b /\ r.step = "preflight"
      BY <1>a, <2>2 DEF Process
    <3>5. proc'[w] = r
      BY <1>d, <3>1
    <3> HIDE DEF row, r
    <3>6. attempt'[b] = row
      BY <3>2 DEF TypeOK, TablesOK
    <3>7. Own(r, b, attempt')
      BY <3>3, <3>4, <3>6 DEF Own, JobOf
    <3> QED
      BY <3>4, <3>5, <3>7 DEF Sound, OnStep, InRunner
  <2> QED
    BY <2>3, <2>4
<1>3. CASE Reconcile(w)
  <2>1. q.phase = "reconcile" /\ q.phase \in AtWork
    BY <1>3 DEF Reconcile, At, AtWork, Phases, OutsideRunner
  <2>2. CASE Go(w, "pause")
    <3>1. /\ [q EXCEPT !.phase = "pause"].phase = "pause"
          /\ [q EXCEPT !.phase = "pause"].auth = q.auth
          /\ [q EXCEPT !.phase = "pause"].active = q.active
      BY <1>a DEF Process
    <3> QED
      BY <1>c, <1>e, <2>1, <2>2, <3>1, SoundLeaves
  <2>3. CASE Become(w, Resume(q, q.active))
    <3>1. Own(q, q.active, attempt') /\ q.step = "preflight" /\ q.active \in Attempts \cup {Nobody}
      BY <1>a, <1>c, <2>1 DEF Sound, Process
    <3>2. q.active \in Attempts /\ attempt'[q.active].step = "commit" =>
             CompileSaved(q.auth.job, checkpoints', attempt')
      BY <3>1, JobStoreAssumption DEF RecordsSound, Own
    <3>3. Sound(Resume(q, q.active), attempt', operation', checkpoints')
      BY <1>a, <3>1, <3>2, SoundResumes
    <3> QED
      BY <1>d, <2>3, <3>3
  <2> QED
    BY <1>3, <2>2, <2>3 DEF Reconcile
<1>4. CASE Pause(w)
  BY <1>4, <1>f DEF Pause, At, AtWork, Phases, OutsideRunner
<1>5. CASE Release(w)
  <2>1. Idle = [Idle EXCEPT !.phase = "idle"]
    BY DEF Idle
  <2> QED
    BY <1>5, <1>h, <2>1 DEF Release
<1>6. CASE ReuseCheckpoint(w)
  <2>1. q.phase \in AtWork
    BY <1>6 DEF ReuseCheckpoint, At, AtWork, Phases, OutsideRunner
  <2>2. CompileSaved(q.auth.job, checkpoints, attempt)
    BY <1>6 DEF ReuseCheckpoint, Checkpointed, CompileSaved, JobOf
  <2> QED
    BY <1>6, <1>i, <1>k, <2>1, <2>2 DEF ReuseCheckpoint
<1>7. CASE ResumeAttempt(w)
  <2>1. q.phase = "enter" /\ q.phase \in AtWork
    BY <1>7 DEF ResumeAttempt, At, AtWork, Phases, OutsideRunner
  <2>2. /\ q.step \in {"preflight", "compile"} /\ q.active \in Attempts /\ q.active # Nobody
        /\ attempt[q.active].step = q.step /\ attempt' = attempt
    BY <1>7, <1>a, StepsType DEF ResumeAttempt, IsResumed, Process, vars
  <2> DEFINE r == [q EXCEPT !.phase = Work(q.step), !.cur = q.active]
  <2>3. /\ r.phase = Work(q.step) /\ r.auth = q.auth /\ r.active = q.active /\ r.cur = q.active
        /\ r.step = q.step
    BY <1>a DEF Process
  <2>4. proc'[w] = r
    BY <1>7, <1>d DEF ResumeAttempt
  <2> HIDE DEF r
  <2>5. Own(r, q.active, attempt')
    BY <1>c, <2>1, <2>3 DEF Sound, Own
  <2>6. \/ q.step = "preflight" /\ r.phase = "save"
        \/ q.step = "compile" /\ r.phase = "call"
    BY <2>2, <2>3 DEF Work
  <2>7. Sound(r, attempt', operation', checkpoints')
    BY <2>2, <2>3, <2>5, <2>6 DEF Sound, OnStep, InRunner
  <2> QED
    BY <2>4, <2>7
<1>8. CASE BeginAttempt(w)
  <2>1. q.phase = "enter" /\ q.phase \in AtWork
    BY <1>8 DEF BeginAttempt, At, AtWork, Phases, OutsideRunner
  <2>2. PICK a \in Attempts : CreateAttempt(JobOf(w), q.step, a, q.auth)
                              /\ Become(w, [q EXCEPT !.phase = "start", !.cur = a])
    BY <1>8 DEF BeginAttempt
  <2> DEFINE r == [q EXCEPT !.phase = "start", !.cur = a]
             row == NewAttempt(JobOf(w), q.step)
  <2>3. /\ r.phase = "start" /\ r.auth = q.auth /\ r.active = q.active /\ r.cur = a
        /\ r.step = q.step
    BY <1>a DEF Process
  <2>4. proc'[w] = r
    BY <1>d, <2>2
  <2>5. row.state = "pending" /\ row.job = JobOf(w) /\ row.step = q.step
    BY DEF NewAttempt
  <2>6. attempt'[a] = row
    BY <2>2 DEF CreateAttempt, TypeOK, TablesOK
  <2> HIDE DEF r, row
  <2>7. Own(r, a, attempt') /\ Own(r, r.active, attempt') /\ attempt'[a].step = r.step
    BY <1>c, <2>1, <2>3, <2>5, <2>6 DEF Own, JobOf, Sound
  <2>8. r.step = "commit" => CompileSaved(r.auth.job, checkpoints', attempt')
    BY <1>c, <2>1, <2>3 DEF Sound
  <2>9. Sound(r, attempt', operation', checkpoints')
    BY <2>3, <2>7, <2>8 DEF Sound, OnStep, InRunner
  <2> QED
    BY <2>4, <2>9
<1>9. CASE Start(w)
  <2>1. q.phase = "start" /\ q.phase \in OnStep /\ q.phase \in AtWork
    BY <1>9 DEF Start, At, OnStep, AtWork, Phases, OutsideRunner
  <2>2. \/ q.step = "preflight" /\ Work(q.step) = "save"
        \/ q.step = "compile" /\ Work(q.step) = "call"
        \/ q.step = "commit" /\ Work(q.step) = "publish"
    BY <1>a, StepsType DEF Process, Work
  <2>3. q.step = "commit" => CompileSaved(q.auth.job, checkpoints', attempt')
    BY <1>c, <2>1 DEF Sound
  <2>4. Sound([q EXCEPT !.phase = Work(q.step)], attempt', operation', checkpoints')
    <3> DEFINE phase == Work(q.step)
    <3>1. /\ phase \in OnStep /\ phase # "settle" /\ phase # "start"
          /\ phase \in InRunner \ {"save"} => q.step = "compile"
          /\ phase \in {"save", "done"} => q.step # "commit"
          /\ ~(phase = "save" /\ q.step = "compile")
          /\ phase # "done"
          /\ phase = "publish" => q.step = "commit"
      BY <2>2 DEF OnStep, InRunner
    <3> HIDE DEF phase
    <3>2. Sound([q EXCEPT !.phase = phase], attempt', operation', checkpoints')
      BY <1>a, <1>c, <2>1, <2>3, <3>1, SoundGoes
    <3> QED
      BY <3>2 DEF phase
  <2> QED
    BY <1>9, <1>e, <2>4 DEF Start
<1>10. CASE SaveCheckpoint(w)
  <2>1. /\ q.phase = "save" /\ q.phase \in OnStep /\ q.phase \in AtWork /\ q.phase \in OnAttempt
        /\ "done" \in OnStep /\ "done" \notin InRunner
    BY <1>10 DEF SaveCheckpoint, At, OnStep, AtWork, Phases, InRunner, OnAttempt
  <2>2. q.step = "compile" => CompileSaved(q.auth.job, checkpoints', attempt')
    BY <1>10, <1>b, <1>c, <2>1 DEF SaveCheckpoint, Sound, Own, CompileSaved
  <2>3. Sound([q EXCEPT !.phase = "done"], attempt', operation', checkpoints')
    <3>1. q.step # "commit"
      BY <1>c, <2>1 DEF Sound
    <3> QED
      BY <1>a, <1>c, <2>1, <2>2, <3>1, SoundGoes
  <2> QED
    BY <1>10, <1>e, <2>3 DEF SaveCheckpoint
<1>11. CASE Succeed(w)
  <2>1. q.phase = "done" /\ q.phase \in AtWork
    BY <1>11 DEF Succeed, At, AtWork, Phases, OutsideRunner
  <2>2. AfterStep(q.step) = "commit" => CompileSaved(q.auth.job, checkpoints', attempt')
    BY <1>a, <1>c, <2>1, StepsType DEF AfterStep, Sound, Process
  <2> QED
    BY <1>11, <1>i, <2>1, <2>2 DEF Succeed
<1>12. CASE Converge(w) \/ ConvergeFenced(w)
  BY <1>12, <1>f DEF Converge, ConvergeFenced, At, AtWork, Phases, AfterConverge
<1>13. CASE Prepare(w)
  <2>1. q.phase = "call" /\ q.phase \in OnStep /\ q.phase \in AtWork /\ q.phase \in InRunner \ {"save"}
        /\ "begin" \in OnStep
    BY <1>13 DEF Prepare, At, OnStep, AtWork, Phases, InRunner
  <2>2. PICK o \in Operations : Become(w, [q EXCEPT !.phase = "begin", !.op = o])
    BY <1>13 DEF Prepare
  <2>3. Sound([q EXCEPT !.phase = "begin", !.op = o], attempt', operation', checkpoints')
    <3>1. q.step = "compile"
      BY <1>c, <2>1 DEF Sound
    <3> QED
      BY <1>a, <1>c, <2>1, <3>1, SoundGoes
  <2> QED
    BY <1>d, <2>2, <2>3
<1>14. CASE RecoverResult(w)
  <2>1. q.phase = "call" /\ q.phase \in OnStep /\ q.phase \in AtWork /\ q.phase \in InRunner \ {"save"}
        /\ "save" \in OnStep
    BY <1>14 DEF RecoverResult, At, OnStep, AtWork, Phases, InRunner
  <2>2. PaidFor(q.auth.job, operation')
    <3>1. \E o \in OperationsOf(JobOf(w)) : operation[o].state = "succeeded"
      BY <1>14 DEF RecoverResult, Siblings, SiblingsIn
    <3> QED
      BY <1>14, <3>1 DEF PaidFor, OperationsOf, RecoverResult, vars, JobOf
  <2>3. Sound([q EXCEPT !.phase = "save"], attempt', operation', checkpoints')
    <3>1. q.step = "compile"
      BY <1>c, <2>1 DEF Sound
    <3> QED
      BY <1>a, <1>c, <2>1, <2>2, <3>1, SoundGoes
  <2> QED
    BY <1>14, <1>e, <1>g, <2>1, <2>3 DEF RecoverResult
<1>15. CASE PrepareMeetsUnknown(w) \/ ObserveCancellation(w)
  BY <1>15, <1>g DEF PrepareMeetsUnknown, ObserveCancellation, At, AtWork, Phases, InRunner
<1>16. CASE Call(w)
  <2>1. q.phase = "begin" /\ q.phase \in OnStep /\ q.phase \in AtWork /\ q.phase \in InRunner \ {"save"}
        /\ "provider" \in OnStep
    BY <1>16 DEF Call, At, OnStep, AtWork, Phases, InRunner
  <2>2. Sound([q EXCEPT !.phase = "provider"], attempt', operation', checkpoints')
    <3>1. q.step = "compile"
      BY <1>c, <2>1 DEF Sound
    <3> QED
      BY <1>a, <1>c, <2>1, <3>1, SoundGoes
  <2> QED
    BY <1>16, <1>e, <2>2 DEF Call
<1>17. CASE Answer(w)
  <2>1. q.phase = "provider" /\ q.phase \in OnStep /\ q.phase \in AtWork /\ q.phase \in InRunner \ {"save"}
    BY <1>17 DEF Answer, At, OnStep, AtWork, Phases, InRunner
  <2>2. PICK plan, e :
           /\ plan = "unknown" => e # "none"
           /\ Become(w, [q EXCEPT !.phase = "settle", !.plan = plan, !.err = e])
    BY <1>17 DEF Answer
  <2> DEFINE r == [q EXCEPT !.phase = "settle", !.plan = plan, !.err = e]
  <2>3. /\ r.phase = "settle" /\ r.auth = q.auth /\ r.active = q.active /\ r.cur = q.cur
        /\ r.step = q.step /\ r.plan = plan /\ r.err = e
    BY <1>a DEF Process
  <2>4. proc'[w] = r
    BY <1>d, <2>2
  <2> HIDE DEF r
  <2>5. Sound(r, attempt', operation', checkpoints')
    BY <1>c, <2>1, <2>2, <2>3 DEF Sound, Own, OnStep, InRunner
  <2> QED
    BY <2>4, <2>5
<1>18. CASE Settle(w)
  <2>1. /\ q.phase = "settle" /\ q.phase \in OnStep /\ q.phase \in AtWork
        /\ q.phase \in InRunner \ {"save"} /\ {"call", "save"} \subseteq OnStep
    BY <1>18 DEF Settle, At, OnStep, AtWork, Phases, InRunner
  <2>2. q.step = "compile" /\ (q.plan = "unknown" => q.err # "none")
    BY <1>c, <2>1 DEF Sound
  <2>3. CASE q.err # "none"
    BY <1>18, <1>g, <2>1, <2>3 DEF Settle, Settled
  <2>4. CASE q.err = "none" /\ q.plan = "failed"
    <3>1. Sound([q EXCEPT !.plan = "none", !.op = Nobody, !.phase = "call"], attempt', operation', checkpoints')
      BY <1>a, <1>c, <2>1, <2>2, SoundGoes
    <3> QED
      BY <1>18, <1>d, <2>4, <3>1 DEF Settle, Settled
  <2>5. CASE q.err = "none" /\ q.plan # "failed"
    <3>1. q.plan = "succeeded" /\ q.op \in Operations
      BY <1>a, <2>1, <2>2, <2>5, WorkingProcess DEF Process, OnOperation
    <3>2. FinishOperation(q.op, "succeeded", q.auth)
      BY <1>18, <3>1 DEF Settle
    <3>3. PaidFor(q.auth.job, operation')
      <4>1. operation[q.op].job = q.auth.job
        BY <3>2 DEF FinishOperation, OwnsOperation, ExecutionAuthority, JobAuthority
      <4>2. operation \in [Operations -> OperationRow]
        BY DEF TypeOK, TablesOK
      <4>3. operation'[q.op].job = operation[q.op].job /\ operation'[q.op].state = "succeeded"
        BY <3>1, <3>2, <4>2 DEF FinishOperation, OperationRow
      <4> QED
        BY <3>1, <4>1, <4>3 DEF PaidFor
    <3>4. Sound([q EXCEPT !.plan = "none", !.op = Nobody, !.phase = "save"], attempt', operation', checkpoints')
      BY <1>a, <1>c, <2>1, <2>2, <3>3, SoundGoes
    <3> QED
      BY <1>18, <1>d, <2>5, <3>4 DEF Settle, Settled
  <2> QED
    BY <2>3, <2>4, <2>5
<1>19. CASE Publish(w)
  BY <1>19, <1>f DEF Publish, At, AtWork, Phases, OutsideRunner
<1>20. CASE PublishRolledBack(w)
  <2>1. q.phase \in AtWork
    BY <1>20 DEF PublishRolledBack, At, AtWork, Phases, OutsideRunner
  <2> QED
    BY <1>20, <1>f, <1>h, <2>1 DEF PublishRolledBack
<1>21. CASE FailRead(w)
  <2>1. q.phase \in AtWork
    BY <1>21 DEF FailRead, At, AtWork, Phases
  <2>2. CASE Become(w, [q EXCEPT !.phase = "fail_write", !.cur = FailureTarget(w)])
    <3> DEFINE r == [q EXCEPT !.phase = "fail_write", !.cur = FailureTarget(w)]
    <3>1. r.phase = "fail_write" /\ r.auth = q.auth /\ r.active = q.active
      BY <1>a DEF Process
    <3>2. proc'[w] = r
      BY <1>d, <2>2
    <3> HIDE DEF r
    <3> QED
      BY <1>c, <2>1, <3>1, <3>2, SoundLeaves
  <2> QED
    BY <1>21, <1>f, <2>1, <2>2 DEF FailRead
<1>22. CASE FailWrite(w)
  BY <1>22, <1>f DEF FailWrite, At, AtWork, Phases
<1>23. CASE StepFails(w)
  <2>1. q.phase \in AtWork
    BY <1>23 DEF StepFails, At, AtWork, Phases, InRunner, OutsideRunner
  <2> QED
    BY <1>23, <1>f, <1>g, <2>1 DEF StepFails
<1>24. CASE Crash(w)
  BY <1>24, <1>h DEF Crash
<1> QED
  BY <1>1, <1>2, <1>3, <1>4, <1>5, <1>6, <1>7, <1>8, <1>9, <1>10, <1>11, <1>12, <1>13, <1>14,
     <1>15, <1>16, <1>17, <1>18, <1>19, <1>20, <1>21, <1>22, <1>23, <1>24
     DEF ExecStep

\* Every step of the system keeps processes and records in order.
OrderInv == RecordsSound /\ ProcessesSound

\* Every step keeps the order of execution.
LEMMA OrderStep ==
    ASSUME TypeOK, ProcessesOK, SubmissionInv, OrderInv, [ExecNext]_execVars
    PROVE  OrderInv'
<1>1. RowsKept /\ RecordsSound'
  BY RowsStep, RecordsStep DEF OrderInv
<1>2. ASSUME NEW w \in Owners PROVE Sound(proc'[w], attempt', operation', checkpoints')
  <2>1. CASE proc'[w] = proc[w]
    <3>1. /\ proc[w] \in Process /\ (proc[w].phase \in AtWork => proc[w].auth \in Authority)
          /\ proc[w].phase \in OnAttempt => proc[w].cur \in Attempts
      BY DEF ProcessesOK, Remembers, TypeOK, TablesOK
    <3> QED
      BY <1>1, <2>1, <3>1, SoundKept DEF OrderInv, ProcessesSound
  <2>2. CASE proc'[w] # proc[w]
    BY <1>1, <2>2, OneProcessMoves, SoundMoves DEF OrderInv
  <2> QED
    BY <2>1, <2>2
<1> QED
  BY <1>1, <1>2 DEF OrderInv, ProcessesSound

\* The order of execution is invariant.
LEMMA OrderInvHolds == ExecSpec => [](TypeOK /\ ProcessesOK /\ SubmissionInv /\ OrderInv)
<1>1. ExecInit => OrderInv
  BY DEF ExecInit, Init, OrderInv, RecordsSound, ProcessesSound, CompileSaved, Sound, Idle, AtWork
<1>2. TypeOK /\ ProcessesOK /\ SubmissionInv /\ OrderInv /\ [ExecNext]_execVars => OrderInv'
  BY OrderStep
<1>3. ExecSpec => [](TypeOK /\ SubmissionInv)
  BY ExecutionsImplementStore, TypeCorrect, SubmissionInvHolds, PTL DEF ImplementsJobStore
<1> QED
  BY <1>1, <1>2, <1>3, ProcessesRemember, PTL DEF ExecSpec

\* The types of the tables, of what processes remember and of what is on disk.
THEOREM ExecutionsAreTyped == ExecSpec => []ExecTypeOK
<1>1. ExecInit => published \subseteq Jobs
  BY DEF ExecInit
<1>2. TypeOK /\ ProcessesOK /\ published \subseteq Jobs /\ [ExecNext]_execVars => (published \subseteq Jobs)'
  <2> SUFFICES ASSUME TypeOK, ProcessesOK, published \subseteq Jobs, [ExecNext]_execVars
               PROVE  published' \subseteq Jobs
    OBVIOUS
  <2>1. ASSUME NEW w \in Owners, Publish(w) \/ PublishRolledBack(w) PROVE JobOf(w) \in Jobs
    <3>1. proc[w].phase \in AtWork
      BY <2>1 DEF Publish, PublishRolledBack, At, AtWork, Phases, OutsideRunner
    <3> QED
      BY <3>1, WorkingProcess DEF TypeOK, TablesOK, Authority, JobOf
  <2>2. published' = published
        \/ \E w \in Owners : /\ Publish(w) \/ PublishRolledBack(w)
                             /\ published' = published \cup {JobOf(w)}
    BY DEF ExecNext, ExecStep, Disturb, User, execVars, Claim, TakeOver, Reconcile, Pause, Release,
       ReuseCheckpoint, ResumeAttempt, BeginAttempt, Start, SaveCheckpoint, Succeed, Converge,
       ConvergeFenced, Prepare, RecoverResult, PrepareMeetsUnknown, Call, Answer, Settle,
       ObserveCancellation, Publish, PublishRolledBack, FailRead, FailWrite, StepFails, Crash,
       Heartbeat
  <2> QED
    BY <2>1, <2>2
<1>3. TypeOK /\ ProcessesOK /\ published \subseteq Jobs /\ OrderInv => ExecTypeOK
  BY DEF ExecTypeOK, OrderInv, RecordsSound
<1> QED
  BY <1>1, <1>2, <1>3, OrderInvHolds, PTL DEF ExecSpec

\* A Job that succeeded went through its steps in order: its bundle is in the workspace,
\* its compile step is checkpointed, and since the step has one request, paid for once, no
\* call of the Job is started or unknown.
THEOREM SucceededJobsAreComplete == ExecSpec => []SucceededJobsComplete
<1>1. TypeOK /\ OneOpenOperation /\ OrderInv => SucceededJobsComplete
  <2> SUFFICES ASSUME TypeOK, OneOpenOperation, OrderInv, NEW j \in Jobs, job[j].state = "succeeded"
               PROVE  /\ j \in published /\ Checkpointed(j, "compile")
                      /\ \A o \in OperationsOf(j) : operation[o].state \notin {"started", "unknown"}
    BY DEF SucceededJobsComplete
  <2>1. j \in published /\ CompileSaved(j, checkpoints, attempt) /\ PaidFor(j, operation)
    BY DEF OrderInv, RecordsSound
  <2>2. PICK p \in Operations : operation[p].job = j /\ operation[p].state = "succeeded"
    BY <2>1 DEF PaidFor
  <2>3. ASSUME NEW o \in OperationsOf(j), operation[o].state \in {"started", "unknown"}
        PROVE  FALSE
    <3>1. /\ o \in Operations /\ operation[o].job = j
          /\ operation[o].step = "compile" /\ operation[p].step = "compile"
      BY <2>2, <2>3 DEF OperationsOf, OrderInv, RecordsSound
    <3>2. operation[o].request = operation[p].request
      BY <2>2, <2>3, <3>1, ExecutionAssumption DEF OrderInv, RecordsSound
    <3> QED
      BY <2>2, <2>3, <3>1, <3>2 DEF OneOpenOperation
  <2> QED
    BY <2>1, <2>3 DEF CompileSaved, Checkpointed
<1> QED
  BY <1>1, OrderInvHolds, ExecutionsAreSafe, PTL

-----------------------------------------------------------------------------
(* Checkpointed steps.                                                     *)

\* An authority does not become the newest one again.
LEMMA NewestWasNewest ==
    ASSUME TypeOK, FencingInv, [Next]_vars, NEW x \in authorities,
           claim'[x.job].generation = x.generation
    PROVE  claim[x.job].generation = x.generation
<1>1. x.job \in Jobs /\ x.generation \in Nat /\ x.generation > 0
      /\ claim[x.job].generation \in Nat /\ x.generation =< claim[x.job].generation
  BY JobStoreAssumption
     DEF TypeOK, TablesOK, Authority, Generations, ClaimRow, FencingInv, FencingTokensUnique
<1>2. ASSUME NEW j \in Jobs, NEW o \in Owners, NEW g \in Generations, ClaimJob(j, o, g)
      PROVE  claim[x.job].generation = x.generation
  <2>1. CASE j # x.job
    BY <1>1, <1>2, <2>1 DEF ClaimJob, TypeOK, TablesOK
  <2>2. CASE j = x.job
    <3>1. claim'[j].generation = g
      BY <1>2 DEF ClaimJob, TypeOK, TablesOK, ClaimRow
    <3>2. g = x.generation
      BY <2>2, <3>1
    <3>3. claim[j].status # "absent"
      BY <1>1, <2>2 DEF FencingInv
    <3> QED
      BY <1>1, <1>2, <2>2, <3>2, <3>3 DEF ClaimJob, ClaimGrants
  <2> QED
    BY <2>1, <2>2
<1> QED
  BY <1>1, <1>2, LeaseKept

\* The inductive invariant: while the generation of a process is its Job's newest one,
\* nobody else can checkpoint the compile step it works on.
WorksOnCompile(p) == p.phase \in InRunner \cup {"start"} /\ p.step = "compile"

CompileInv ==
    \A w \in Owners :
        WorksOnCompile(proc[w]) /\ claim[JobOf(w)].generation = proc[w].auth.generation =>
            ~Checkpointed(JobOf(w), "compile")

\* A process starts to work on the compile step only if it is not checkpointed.
LEMMA TurnToCompile ==
    ASSUME ProcessesOK, [ExecNext]_execVars, NEW w \in Owners, proc'[w] # proc[w],
           WorksOnCompile(proc'[w])
    PROVE  /\ proc'[w].auth = proc[w].auth
           /\ checkpoints' = checkpoints
           /\ \/ WorksOnCompile(proc[w])
              \/ proc[w].phase = "enter" /\ ~Checkpointed(JobOf(w), "compile")
<1> DEFINE q == proc[w]
           Goal == /\ proc'[w].auth = q.auth /\ checkpoints' = checkpoints
                   /\ \/ WorksOnCompile(q)
                      \/ q.phase = "enter" /\ ~Checkpointed(JobOf(w), "compile")
<1>a. q \in Process
  BY DEF ProcessesOK
<1>b. ASSUME NEW p, Become(w, p) PROVE proc'[w] = p
  BY <1>b DEF Become, ProcessesOK
<1>c. ASSUME NEW p, Become(w, p), p.phase \notin InRunner \cup {"start"} PROVE FALSE
  BY <1>b, <1>c DEF WorksOnCompile
<1>d. ASSUME ToRelease(w) \/ ToFailJob(w) PROVE FALSE
  <2> DEFINE r == [Idle EXCEPT !.phase = "release", !.auth = proc[w].auth]
             f == [Idle EXCEPT !.phase = "fail_read", !.auth = proc[w].auth, !.active = proc[w].active]
  <2>1. r.phase \notin InRunner \cup {"start"} /\ f.phase \notin InRunner \cup {"start"}
    BY DEF Idle, InRunner
  <2> HIDE DEF r, f
  <2> QED
    BY <1>c, <1>d, <2>1 DEF ToRelease, ToFailJob, r, f
<1>e. ASSUME NEW e, Become(w, Throw(w, e)) PROVE FALSE
  <2>1. Throw(w, e).phase = "converge"
    BY <1>a DEF Throw, Process
  <2> QED
    BY <1>c, <1>e, <2>1 DEF InRunner
<1>f. ASSUME NEW step, Become(w, EnterStep(w, step)) PROVE FALSE
  <2>1. EnterStep(w, step).phase = "enter"
    BY <1>a DEF EnterStep, Process
  <2> QED
    BY <1>c, <1>f, <2>1 DEF InRunner
<1>g. ASSUME NEW p \in Process, NEW a, Become(w, Resume(p, a)) PROVE FALSE
  <2>1. Resume(p, a).phase \in {"publish", "enter"}
    BY DEF Resume, Process
  <2> QED
    BY <1>c, <1>g, <2>1 DEF InRunner
<1>h. ASSUME NEW phase, Go(w, phase)
      PROVE  proc'[w].phase = phase /\ proc'[w].auth = q.auth /\ proc'[w].step = q.step
  BY <1>a, <1>h DEF Go, ProcessesOK, Process
<1>1. ASSUME NEW j \in Jobs, Claim(w, j) PROVE FALSE
  <2>1. PICK g \in Generations :
           LET p == [Idle EXCEPT !.auth = [job |-> j, owner |-> w, generation |-> g]] IN
           \/ Become(w, [p EXCEPT !.phase = "release"])
           \/ \E a \in NewestUnsettled(j) \cup {Nobody} :
                 \/ Become(w, Resume(p, a))
                 \/ Become(w, [p EXCEPT !.phase = "recover", !.cur = a])
    BY <1>1 DEF Claim
  <2> DEFINE auth == [job |-> j, owner |-> w, generation |-> g]
             p == [Idle EXCEPT !.auth = auth]
  <2>2. auth \in Authority
    BY DEF Authority
  <2> HIDE DEF auth
  <2>3. p \in Process
    BY <2>2, IdleType DEF Process
  <2> HIDE DEF p
  <2>4. ASSUME NEW a
        PROVE  /\ [p EXCEPT !.phase = "release"].phase \notin InRunner \cup {"start"}
               /\ [p EXCEPT !.phase = "recover", !.cur = a].phase \notin InRunner \cup {"start"}
    BY <2>3 DEF Process, InRunner
  <2>5. ~Become(w, [p EXCEPT !.phase = "release"])
    BY <1>c, <2>4
  <2>6. ASSUME NEW a, Become(w, [p EXCEPT !.phase = "recover", !.cur = a]) PROVE FALSE
    BY <1>c, <2>4, <2>6
  <2>7. ASSUME NEW a, Become(w, Resume(p, a)) PROVE FALSE
    BY <1>g, <2>3, <2>7
  <2> QED
    BY <2>1, <2>5, <2>6, <2>7 DEF p, auth
<1>2. CASE TakeOver(w)
  <2>1. ASSUME NEW b PROVE [q EXCEPT !.phase = "reconcile", !.active = b, !.cur = b].phase = "reconcile"
    BY <1>a DEF Process
  <2>2. ASSUME NEW b, Become(w, [q EXCEPT !.phase = "reconcile", !.active = b, !.cur = b]) PROVE FALSE
    BY <1>c, <2>1, <2>2 DEF InRunner
  <2> QED
    BY <1>2, <1>d, <2>2 DEF TakeOver
<1>3. CASE Reconcile(w)
  BY <1>3, <1>a, <1>g, <1>h DEF Reconcile, WorksOnCompile, InRunner
<1>4. CASE \/ Pause(w) \/ Converge(w) \/ ConvergeFenced(w) \/ Publish(w) \/ FailWrite(w)
  BY <1>4, <1>d DEF Pause, Converge, ConvergeFenced, AfterConverge, Publish, FailWrite
<1>5. CASE Release(w) \/ Crash(w)
  <2>1. Idle.phase = "idle" /\ [Idle EXCEPT !.phase = "dead"].phase = "dead"
    BY DEF Idle
  <2> QED
    BY <1>5, <1>c, <2>1 DEF Release, Crash, InRunner
<1>6. CASE PublishRolledBack(w)
  <2>1. [Idle EXCEPT !.phase = "dead"].phase = "dead"
    BY DEF Idle
  <2> QED
    BY <1>6, <1>c, <1>d, <2>1 DEF PublishRolledBack, InRunner
<1>7. CASE ReuseCheckpoint(w) \/ Succeed(w)
  BY <1>7, <1>f DEF ReuseCheckpoint, Succeed
<1>8. CASE ResumeAttempt(w)
  <2> DEFINE r == [q EXCEPT !.phase = Work(q.step), !.cur = q.active]
  <2>1. r.step = q.step /\ r.auth = q.auth
    BY <1>a DEF Process
  <2>2. proc'[w] = r
    BY <1>8, <1>b DEF ResumeAttempt
  <2> HIDE DEF r
  <2> QED
    BY <1>8, <2>1, <2>2 DEF ResumeAttempt, MustRun, WorksOnCompile, At
<1>9. CASE BeginAttempt(w)
  <2>1. PICK a \in Attempts : Become(w, [q EXCEPT !.phase = "start", !.cur = a])
    BY <1>9 DEF BeginAttempt
  <2> DEFINE r == [q EXCEPT !.phase = "start", !.cur = a]
  <2>2. r.step = q.step /\ r.auth = q.auth
    BY <1>a DEF Process
  <2>3. proc'[w] = r
    BY <1>b, <2>1
  <2> HIDE DEF r
  <2> QED
    BY <1>9, <2>2, <2>3 DEF BeginAttempt, MustRun, WorksOnCompile, At
<1>10. CASE Start(w)
  BY <1>10, <1>h DEF Start, At, WorksOnCompile
<1>11. CASE SaveCheckpoint(w)
  BY <1>11, <1>h DEF SaveCheckpoint, WorksOnCompile, InRunner
<1>12. CASE Prepare(w)
  <2>1. PICK o \in Operations : Become(w, [q EXCEPT !.phase = "begin", !.op = o])
    BY <1>12 DEF Prepare
  <2> DEFINE r == [q EXCEPT !.phase = "begin", !.op = o]
  <2>2. r.step = q.step /\ r.auth = q.auth
    BY <1>a DEF Process
  <2>3. proc'[w] = r
    BY <1>b, <2>1
  <2> HIDE DEF r
  <2> QED
    BY <1>12, <2>2, <2>3 DEF Prepare, At, WorksOnCompile, InRunner
<1>13. CASE RecoverResult(w)
  BY <1>13, <1>e, <1>h DEF RecoverResult, At, WorksOnCompile, InRunner
<1>14. CASE PrepareMeetsUnknown(w) \/ ObserveCancellation(w)
  BY <1>14, <1>e DEF PrepareMeetsUnknown, ObserveCancellation
<1>15. CASE Call(w)
  BY <1>15, <1>h DEF Call, At, WorksOnCompile, InRunner
<1>16. CASE Answer(w)
  <2>1. PICK plan, e : Become(w, [q EXCEPT !.phase = "settle", !.plan = plan, !.err = e])
    BY <1>16 DEF Answer
  <2> DEFINE r == [q EXCEPT !.phase = "settle", !.plan = plan, !.err = e]
  <2>2. r.step = q.step /\ r.auth = q.auth
    BY <1>a DEF Process
  <2>3. proc'[w] = r
    BY <1>b, <2>1
  <2> HIDE DEF r
  <2> QED
    BY <1>16, <2>2, <2>3 DEF Answer, At, WorksOnCompile, InRunner
<1>17. CASE Settle(w)
  <2>1. CASE q.err # "none"
    BY <1>17, <1>e, <2>1 DEF Settle, Settled
  <2>2. CASE q.err = "none"
    <3>1. Settled(w).step = q.step /\ Settled(w).auth = q.auth
      BY <1>a, <2>2 DEF Settled, Process
    <3>2. proc'[w] = Settled(w)
      BY <1>17, <1>b DEF Settle
    <3> QED
      BY <1>17, <3>1, <3>2 DEF Settle, At, WorksOnCompile, InRunner
  <2> QED
    BY <2>1, <2>2
<1>18. CASE FailRead(w)
  <2>1. [q EXCEPT !.phase = "fail_write", !.cur = FailureTarget(w)].phase = "fail_write"
    BY <1>a DEF Process
  <2>2. ~Become(w, [q EXCEPT !.phase = "fail_write", !.cur = FailureTarget(w)])
    BY <1>c, <2>1 DEF InRunner
  <2> QED
    BY <1>18, <1>d, <2>2 DEF FailRead
<1>19. CASE StepFails(w)
  BY <1>19, <1>d, <1>e DEF StepFails
<1> QED
  BY OneProcessMoves, <1>1, <1>2, <1>3, <1>4, <1>5, <1>6, <1>7, <1>8, <1>9, <1>10, <1>11, <1>12,
     <1>13, <1>14, <1>15, <1>16, <1>17, <1>18, <1>19
     DEF ExecStep

\* A checkpoint appears only under the newest authority, and there is one such authority.
LEMMA CompileStep ==
    ASSUME TypeOK, ProcessesOK, FencingInv, OrderInv, CompileInv, [ExecNext]_execVars
    PROVE  CompileInv'
<1> SUFFICES ASSUME NEW w \in Owners, WorksOnCompile(proc'[w]),
                    claim'[proc'[w].auth.job].generation = proc'[w].auth.generation,
                    Checkpointed(JobOf(w), "compile")'
             PROVE  FALSE
  BY DEF CompileInv, JobOf
<1>1. /\ proc'[w].auth = proc[w].auth
      /\ \/ WorksOnCompile(proc[w])
         \/ proc[w].phase = "enter" /\ ~Checkpointed(JobOf(w), "compile")
      /\ checkpoints' = checkpoints \/ proc'[w] = proc[w]
  BY TurnToCompile
<1>2. proc[w].phase \in AtWork
  BY <1>1 DEF WorksOnCompile, AtWork, Phases, InRunner, OutsideRunner
<1>3. proc[w].auth \in authorities /\ proc[w].auth.owner = w /\ JobOf(w) \in Jobs
  BY <1>2, WorkingProcess DEF TypeOK, TablesOK, Authority, JobOf
<1>4. claim[JobOf(w)].generation = proc[w].auth.generation
  BY <1>1, <1>3, StoreStep, NewestWasNewest DEF JobOf
<1>5. ~Checkpointed(JobOf(w), "compile")
  BY <1>1, <1>4 DEF CompileInv
<1>6. PICK a \in checkpoints' : attempt'[a].job = JobOf(w) /\ attempt'[a].step = "compile"
  BY <1>1 DEF Checkpointed, JobOf
<1>7. CASE a \in checkpoints
  <2>1. attempt[a].job = JobOf(w) /\ attempt[a].step = "compile"
    BY <1>6, <1>7, RowsStep DEF OrderInv, RowsKept, RecordsSound
  <2> QED
    BY <1>5, <1>7, <2>1 DEF Checkpointed
<1>8. CASE a \notin checkpoints
  <2>1. PICK v \in Owners : SaveCheckpoint(v)
    BY <1>6, <1>8, FilesStep
  <2>2. a = proc[v].cur /\ attempt' = attempt /\ ExecutionAuthority(a, proc[v].auth)
    BY <1>6, <1>8, <2>1 DEF SaveCheckpoint, vars
  <2>3. proc[v].auth.job = JobOf(w) /\ claim[JobOf(w)].generation = proc[v].auth.generation
    BY <1>6, <2>2 DEF ExecutionAuthority, JobAuthority
  <2>4. proc[v].auth \in authorities /\ proc[v].auth.owner = v
    BY <2>1, WorkingProcess DEF SaveCheckpoint, At, AtWork, Phases, InRunner
  <2>5. proc[v].auth = proc[w].auth
    BY <1>3, <1>4, <2>3, <2>4 DEF FencingInv, FencingTokensUnique, JobOf
  <2>6. v = w
    BY <1>3, <2>4, <2>5
  <2>7. proc'[w].phase = "done"
    BY <2>1, <2>6 DEF SaveCheckpoint, Go, ProcessesOK, Process
  <2> QED
    BY <2>7 DEF WorksOnCompile, InRunner
<1> QED
  BY <1>7, <1>8

\* Once the checkpoint of the compile step is recorded, no process that owns the Job works
\* on the step or pays for it again, whoever recorded it and whoever was lost.
THEOREM CheckpointedStepsAreNotRepeated == ExecSpec => []CheckpointedStepsNotRepeated
<1>1. ExecInit => CompileInv
  BY DEF ExecInit, CompileInv, Checkpointed
<1>2. TypeOK /\ ProcessesOK /\ FencingInv /\ OrderInv /\ CompileInv /\ [ExecNext]_execVars => CompileInv'
  BY CompileStep
<1>3. ExecSpec => []FencingInv
  BY ExecutionsImplementStore, FencingInvHolds, PTL DEF ImplementsJobStore
<1>4. CompileInv => CheckpointedStepsNotRepeated
  BY DEF CompileInv, CheckpointedStepsNotRepeated, WorksOnCompile, JobAuthority, InRunner
<1> QED
  BY <1>1, <1>2, <1>3, <1>4, OrderInvHolds, PTL DEF ExecSpec

=============================================================================
