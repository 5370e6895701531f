---------------------------- MODULE JobStoreProofs ----------------------------
(***************************************************************************)
(* Theorems about JobStore: they hold for any number of Jobs, Attempts,    *)
(* operations and processes, and for any bounds.  First its types; then    *)
(* what a fenced process can no longer do, that two calls of one request   *)
(* are never open at once, and how Jobs end; last what every repository    *)
(* call may do to a row of each table, and what follows for the rows       *)
(* together: whose claim an Attempt runs under, what the user is asked,    *)
(* how often a request is paid for, what a submission names, and what can  *)
(* no longer happen once a Job is cancelled or has ended.                  *)
(***************************************************************************)
EXTENDS JobStore, FiniteSetTheorems, TLAPS

-----------------------------------------------------------------------------
(* Constants.                                                              *)

\* A generation claim_job can grant fits every fencing_token column.
LEMMA GenerationsType ==
    Generations \subseteq 0..MaxGeneration /\ 0 \in 0..MaxGeneration
BY JobStoreAssumption DEF Generations

\* The fields of an authority a process may present.
LEMMA AuthorityType ==
    ASSUME TablesOK, NEW auth \in authorities
    PROVE  /\ auth.job \in Jobs
           /\ auth.owner \in Owners
           /\ auth.generation \in 0..MaxGeneration
BY GenerationsType DEF TablesOK, Authority

-----------------------------------------------------------------------------
(* What the shared updates return.                                         *)

\* _settle_cancelled_job_if_idle writes a legal jobs row or none.
LEMMA SettledIfIdleType ==
    ASSUME NEW jobs \in [Jobs -> JobRow], NEW j, NEW attempts
    PROVE  SettledIfIdle(jobs, j, attempts) \in [Jobs -> JobRow]
BY DEF SettledIfIdle, JobRow, JobStates, JobTerminal

\* _transition_attempts_to_cancelled keeps the attempts table well typed.
LEMMA AttemptsCancelledType ==
    ASSUME TablesOK, NEW j, NEW states
    PROVE  AttemptsCancelled(j, states) \in [Attempts -> AttemptRow]
BY DEF TablesOK, AttemptsCancelled, AttemptRow, AttemptStates, AttemptTerminal

\* The bulk UPDATEs to `unknown' keep external_operations well typed.
LEMMA StartedBecomeUnknownType ==
    ASSUME TablesOK, NEW lost
    PROVE  StartedBecomeUnknown(lost) \in [Operations -> OperationRow]
BY DEF TablesOK, StartedBecomeUnknown, OperationRow, OperationStates

\* The bulk UPDATE of cancel_job keeps the challenges table well typed.
LEMMA PendingChallengesCancelledType ==
    ASSUME TablesOK, NEW j
    PROVE  PendingChallengesCancelled(j) \in [Challenges -> ChallengeRow]
BY DEF TablesOK, PendingChallengesCancelled, ChallengeRow, ChallengeStates

\* _settle_claimed_cancellation keeps all three tables it writes well typed.
LEMMA SettleClaimedCancellationType ==
    ASSUME TablesOK, NEW j, SettleClaimedCancellation(j)
    PROVE  /\ job' \in [Jobs -> JobRow]
           /\ attempt' \in [Attempts -> AttemptRow]
           /\ operation' \in [Operations -> OperationRow]
BY SettledIfIdleType, AttemptsCancelledType, StartedBecomeUnknownType
   DEF SettleClaimedCancellation, TablesOK

\* Tables stay well typed when one row changes its state.
LEMMA StateTypes ==
    ASSUME TablesOK
    PROVE  /\ \A a, state : state \in AttemptTerminal =>
                 [attempt EXCEPT ![a].state = state] \in [Attempts -> AttemptRow]
           /\ \A j, state : state \in JobTerminal =>
                 [job EXCEPT ![j].state = state] \in [Jobs -> JobRow]
<1>1. ASSUME NEW a, NEW state \in AttemptTerminal
      PROVE  [attempt EXCEPT ![a].state = state] \in [Attempts -> AttemptRow]
  BY DEF TablesOK, AttemptRow, AttemptStates, AttemptTerminal
<1>2. ASSUME NEW j, NEW state \in JobTerminal
      PROVE  [job EXCEPT ![j].state = state] \in [Jobs -> JobRow]
  BY DEF TablesOK, JobRow, JobStates, JobTerminal
<1> QED
  BY <1>1, <1>2

\* A new Challenge, the waiting Job and the reset launch count are well typed.
LEMMA OpenChallengeType ==
    ASSUME TablesOK, NEW c \in Challenges, NEW j \in Jobs, NEW a \in Attempts,
           OpenChallenge(c, j, a)
    PROVE  /\ job' \in [Jobs -> JobRow]
           /\ claim' \in [Jobs -> ClaimRow]
           /\ challenge' \in [Challenges -> ChallengeRow]
<1>1. job' \in [Jobs -> JobRow]
  BY DEF OpenChallenge, TablesOK, JobRow, JobStates
<1>2. claim' \in [Jobs -> ClaimRow]
  BY JobStoreAssumption DEF OpenChallenge, TablesOK, ClaimRow
<1>3. challenge' \in [Challenges -> ChallengeRow]
  BY DEF OpenChallenge, TablesOK, ChallengeRow, ChallengeStates
<1> QED
  BY <1>1, <1>2, <1>3

-----------------------------------------------------------------------------
(* Type correctness.                                                       *)

\* Every repository call keeps the tables well typed.
LEMMA TablesStep == TypeOK /\ [Next]_vars => TablesOK'
<1> SUFFICES ASSUME TypeOK, Next PROVE TablesOK'
  BY DEF vars, TypeOK, TablesOK
<1> TablesOK
  BY DEF TypeOK
<1>1. ASSUME NEW j \in Jobs, NEW c \in ClientIds \cup {Nobody}, CreateJob(j, c)
      PROVE  TablesOK'
  BY <1>1 DEF CreateJob, NewJob, TablesOK, JobRow, JobStates
<1>2. ASSUME NEW original \in Jobs, NEW j \in Jobs, NEW c \in ClientIds,
             NEW confirmed, CreateRetryJob(original, j, c, confirmed)
      PROVE  TablesOK'
  BY <1>2 DEF CreateRetryJob, NewJob, TablesOK, JobRow, JobStates
<1>3. ASSUME NEW j \in Jobs, CancelJob(j)
      PROVE  TablesOK'
  <2>1. CASE CancelActiveJob(j)
    <3>1. [job EXCEPT ![j].cancel = TRUE] \in [Jobs -> JobRow]
      BY DEF TablesOK, JobRow
    <3>2. job' \in [Jobs -> JobRow]
      BY <2>1, <3>1, SettledIfIdleType DEF CancelActiveJob
    <3> QED
      BY <2>1, <3>2, AttemptsCancelledType, PendingChallengesCancelledType
      DEF CancelActiveJob, TablesOK
  <2>2. CASE CancelCancelledJob(j)
    BY <2>2, PendingChallengesCancelledType DEF CancelCancelledJob, TablesOK
  <2> QED
    BY <1>3, <2>1, <2>2 DEF CancelJob
<1>4. ASSUME NEW c \in Challenges, NEW b \in Attempts, RespondChallenge(c, b)
      PROVE  TablesOK'
  <2>1. NewAttempt(challenge[c].job, attempt[challenge[c].attempt].step) \in AttemptRow
    <3>1. challenge[c].job \in Jobs /\ challenge[c].attempt \in Attempts
      BY <1>4 DEF RespondChallenge, TypeOK, ForeignKeys, AttemptExists
    <3>2. attempt[challenge[c].attempt].step \in Steps \cup {Nobody}
      BY <3>1 DEF TablesOK, AttemptRow
    <3>3. "pending" \in AttemptStates /\ 0 \in 0..MaxGeneration
      BY GenerationsType DEF AttemptStates
    <3> QED
      BY <3>1, <3>2, <3>3 DEF NewAttempt, AttemptRow
  <2>2. attempt' \in [Attempts -> AttemptRow]
    BY <1>4, <2>1 DEF RespondChallenge, TablesOK
  <2>3. challenge' \in [Challenges -> ChallengeRow]
    <3>1. challenge' = [challenge EXCEPT ![c] =
                          [challenge[c] EXCEPT !.state = "consumed", !.response = b]]
      BY <1>4 DEF RespondChallenge
    <3>2. [challenge[c] EXCEPT !.state = "consumed", !.response = b] \in ChallengeRow
      <4>1. challenge[c] \in ChallengeRow /\ "consumed" \in ChallengeStates
        BY DEF TablesOK, ChallengeStates
      <4> QED
        BY <4>1 DEF ChallengeRow
    <3> QED
      BY <3>1, <3>2 DEF TablesOK
  <2>4. job' \in [Jobs -> JobRow]
    BY <1>4 DEF RespondChallenge, TablesOK, JobRow, JobStates
  <2> QED
    BY <1>4, <2>2, <2>3, <2>4 DEF RespondChallenge, TablesOK
<1>5. ASSUME NEW auth \in authorities \cup {Nobody}, NEW j \in Jobs, NEW s \in Steps,
             NEW a \in Attempts, CreateAttempt(j, s, a, auth)
      PROVE  TablesOK'
  BY <1>5, GenerationsType DEF CreateAttempt, NewAttempt, TablesOK, AttemptRow, AttemptStates
<1>6. ASSUME NEW auth \in authorities \cup {Nobody}, NEW a \in Attempts,
             NEW state \in AttemptTerminal, TransitionAttempt(a, state, auth)
      PROVE  TablesOK'
  <2>1. attempt' \in [Attempts -> AttemptRow]
    BY <1>6 DEF TransitionAttempt, TablesOK, AttemptRow, AttemptStates
  <2>2. job' \in [Jobs -> JobRow]
    BY <1>6, SettledIfIdleType DEF TransitionAttempt, TablesOK
  <2> QED
    BY <1>6, <2>1, <2>2 DEF TransitionAttempt, TablesOK
<1>7. ASSUME NEW auth \in authorities \cup {Nobody}, NEW j \in Jobs, FailJob(j, auth)
      PROVE  TablesOK'
  BY <1>7, SettleClaimedCancellationType
  DEF FailJob, TablesOK, JobRow, JobStates, JobTerminal
<1>8. ASSUME NEW auth \in authorities \cup {Nobody}, NEW j \in Jobs,
             NEW state \in JobStates, TransitionJob(j, state, auth)
      PROVE  TablesOK'
  <2>1. job' = [job EXCEPT ![j].state = state]
    BY <1>8 DEF TransitionJob
  <2>2. job' \in [Jobs -> JobRow]
    BY <2>1 DEF TablesOK, JobRow
  <2> QED
    BY <1>8, <2>2 DEF TransitionJob, TablesOK
<1>9. ASSUME NEW j \in Jobs, NEW o \in Owners, NEW g \in Generations,
             ClaimJob(j, o, g)
      PROVE  TablesOK'
  <2>1. claim' \in [Jobs -> ClaimRow] /\ authorities' \subseteq Authority
    <3>1. claim' \in [Jobs -> ClaimRow]
      <4>1. [claim[j] EXCEPT !.owner = o, !.generation = g, !.status = "live"] \in ClaimRow
        BY GenerationsType DEF TablesOK, ClaimRow, ClaimStates
      <4> QED
        BY <1>9, <4>1 DEF ClaimJob, TablesOK
    <3>2. authorities' \subseteq Authority
      BY <1>9 DEF ClaimJob, TablesOK, Authority
    <3> QED
      BY <3>1, <3>2
  <2>2. CASE ClaimRunnable(j, g)
    <3>1. attempt' \in [Attempts -> AttemptRow]
      BY <2>2, GenerationsType DEF ClaimRunnable, NewestStarted, TablesOK, AttemptRow,
         AttemptStates
    <3> QED
      BY <1>9, <2>1, <2>2, <3>1
      DEF ClaimRunnable, ClaimJob, TablesOK, JobRow, JobStates
  <2>3. CASE ClaimCancelled(j)
    BY <1>9, <2>1, <2>3, SettleClaimedCancellationType
    DEF ClaimCancelled, ClaimJob, TablesOK
  <2> QED
    BY <1>9, <2>2, <2>3 DEF ClaimJob
<1>10. ASSUME NEW j \in Jobs, ExpireClaim(j)
       PROVE  TablesOK'
  BY <1>10 DEF ExpireClaim, TablesOK, ClaimRow, ClaimStates
<1>11. ASSUME NEW auth \in authorities,
              \/ HeartbeatJobClaim(auth) \/ ReleaseJobClaim(auth)
              \/ RecordWorkerLaunch(auth) \/ ClearWorkerLaunches(auth)
       PROVE  TablesOK'
  <2>1. CASE HeartbeatJobClaim(auth)
    BY <2>1, AuthorityType DEF HeartbeatJobClaim, TablesOK, ClaimRow, ClaimStates, Authority
  <2>2. CASE ReleaseJobClaim(auth)
    BY <2>2, AuthorityType DEF ReleaseJobClaim, TablesOK, ClaimRow, ClaimStates, Authority
  <2>3. CASE RecordWorkerLaunch(auth)
    BY <2>3, AuthorityType, JobStoreAssumption DEF RecordWorkerLaunch, TablesOK, ClaimRow, Authority
  <2>4. CASE ClearWorkerLaunches(auth)
    BY <2>4, AuthorityType, JobStoreAssumption DEF ClearWorkerLaunches, TablesOK, ClaimRow, Authority
  <2> QED
    BY <1>11, <2>1, <2>2, <2>3, <2>4
<1>12. ASSUME NEW auth \in authorities, AttemptStep(auth)
       PROVE  TablesOK'
  <2>1. ASSUME NEW a \in Attempts, StartAttempt(a, auth)
        PROVE  TablesOK'
    BY <2>1, AuthorityType DEF StartAttempt, TablesOK, AttemptRow, AttemptStates
  <2>2. ASSUME NEW a \in Attempts, NEW b \in Attempts, TakeOverAttempt(a, b, auth)
        PROVE  TablesOK'
    <3>1. CASE SettleClaimedCancellation(attempt[a].job)
      BY <2>2, <3>1, SettleClaimedCancellationType DEF TakeOverAttempt, TablesOK
    <3>2. CASE ~SettleClaimedCancellation(attempt[a].job)
      <4>1. [NewAttempt(attempt[a].job, attempt[a].step) EXCEPT
                !.state = "running", !.token = auth.generation] \in AttemptRow
        BY AuthorityType DEF NewAttempt, TablesOK, AttemptRow, AttemptStates
      <4>2. [attempt EXCEPT ![a].state = "interrupted"] \in [Attempts -> AttemptRow]
        BY DEF TablesOK, AttemptRow, AttemptStates, AttemptTerminal
      <4>3. attempt' \in [Attempts -> AttemptRow]
        BY <2>2, <3>2, <4>1, <4>2 DEF TakeOverAttempt
      <4> QED
        BY <2>2, <3>2, <4>3 DEF TakeOverAttempt, TablesOK
    <3> QED
      BY <3>1, <3>2
  <2>3. ASSUME NEW a \in Attempts, NEW c \in Challenges,
               PauseForExternalOutcome(a, c, auth)
        PROVE  TablesOK'
    <3>1. CASE SettleClaimedCancellation(attempt[a].job)
                 /\ UNCHANGED <<claim, challenge>>
      BY <2>3, <3>1, SettleClaimedCancellationType
      DEF PauseForExternalOutcome, TablesOK
    <3>2. CASE ~(SettleClaimedCancellation(attempt[a].job)
                   /\ UNCHANGED <<claim, challenge>>)
      <4>1. attempt[a].job \in Jobs
        BY <2>3 DEF PauseForExternalOutcome, ExecutionAuthority, TypeOK, ForeignKeys
      <4>2. OpenChallenge(c, attempt[a].job, a)
        BY <2>3, <3>2 DEF PauseForExternalOutcome
      <4>3. attempt' \in [Attempts -> AttemptRow]
        BY <2>3, <3>2 DEF PauseForExternalOutcome, TablesOK, AttemptRow,
           AttemptStates, AttemptTerminal
      <4> QED
        BY <2>3, <3>2, <4>1, <4>2, <4>3, OpenChallengeType
        DEF PauseForExternalOutcome, TablesOK
    <3> QED
      BY <3>1, <3>2
  <2>4. ASSUME NEW a \in Attempts, NEW c \in Challenges,
               CreateChallenge(auth.job, a, c)
        PROVE  TablesOK'
    BY <2>4, AuthorityType, OpenChallengeType DEF CreateChallenge, TablesOK
  <2> QED
    BY <1>5, <1>6, <1>12, <2>1, <2>2, <2>3, <2>4, AuthorityType DEF AttemptStep
<1>13. ASSUME NEW auth \in authorities, OperationStep(auth)
       PROVE  TablesOK'
  <2>1. ASSUME NEW o \in Operations, NEW a \in Attempts, NEW r \in Requests,
               PrepareOperation(o, a, r, auth)
        PROVE  TablesOK'
    BY <2>1 DEF PrepareOperation, TablesOK, AttemptRow, OperationRow, OperationStates
  <2>2. ASSUME NEW o \in Operations,
               \/ StartOperation(o, auth)
               \/ \E outcome \in {"succeeded", "failed"} : FinishOperation(o, outcome, auth)
               \/ MarkOperationUnknown(o, auth)
        PROVE  TablesOK'
    BY <2>2 DEF StartOperation, FinishOperation, MarkOperationUnknown, TablesOK,
       OperationRow, OperationStates
  <2>3. CASE ReconcileOperations(auth)
    BY <2>3, StartedBecomeUnknownType DEF ReconcileOperations, TablesOK
  <2> QED
    BY <1>13, <2>1, <2>2, <2>3 DEF OperationStep
<1>e. {"succeeded", "failed"} \subseteq AttemptTerminal
      /\ {"succeeded", "failed"} \subseteq JobTerminal
  BY DEF AttemptTerminal, JobTerminal
<1>14. ASSUME NEW auth \in authorities, EndStep(auth)
       PROVE  TablesOK'
  <2>1. ASSUME NEW a \in Attempts, CommitResult(a, auth)
        PROVE  TablesOK'
    <3>1. attempt' \in [Attempts -> AttemptRow]
      BY <2>1, <1>e, StateTypes DEF CommitResult
    <3>2. job' \in [Jobs -> JobRow]
      BY <2>1, <1>e, StateTypes DEF CommitResult
    <3> QED
      BY <2>1, <3>1, <3>2 DEF CommitResult, TablesOK
  <2>2. ASSUME NEW a \in Attempts, FailJobWithAttempt(a, auth)
        PROVE  TablesOK'
    <3> DEFINE j == attempt[a].job
    <3>1. CASE SettleClaimedCancellation(j)
      BY <2>2, <3>1, SettleClaimedCancellationType DEF FailJobWithAttempt, TablesOK
    <3>2. CASE ~SettleClaimedCancellation(j)
      BY <2>2, <3>2, <1>e, StateTypes DEF FailJobWithAttempt, TablesOK
    <3> QED
      BY <3>1, <3>2
  <2> QED
    BY <1>7, <1>8, <1>14, <2>1, <2>2 DEF EndStep, TablesOK, Authority
<1> QED
  BY <1>1, <1>2, <1>3, <1>4, <1>5, <1>6, <1>7, <1>8, <1>9, <1>10, <1>11, <1>12,
     <1>13, <1>14 DEF Next, UserStep, UnclaimedStep, ClaimStep

\* A row never changes the Job and step it belongs to, and a new one has both.
AttemptKeysKept ==
    \A a \in Attempts :
        /\ attempt[a].state # "absent" =>
              /\ attempt'[a].state # "absent"
              /\ attempt'[a].job = attempt[a].job
              /\ attempt'[a].step = attempt[a].step
        /\ attempt'[a].state # "absent" =>
              attempt'[a].job \in Jobs /\ attempt'[a].step \in Steps

\* _transition_attempts_to_cancelled neither makes nor moves a row.
LEMMA AttemptsCancelledKeys ==
    ASSUME TypeOK, NEW j, NEW states, "absent" \notin states,
           attempt' = AttemptsCancelled(j, states)
    PROVE  AttemptKeysKept
<1> SUFFICES ASSUME NEW a \in Attempts
             PROVE  /\ \/ attempt'[a].state = attempt[a].state
                       \/ attempt'[a].state = "cancelled" /\ attempt[a].state # "absent"
                    /\ attempt'[a].job = attempt[a].job
                    /\ attempt'[a].step = attempt[a].step
  BY DEF AttemptKeysKept, TypeOK, ForeignKeys
<1>1. attempt[a] \in AttemptRow
  BY DEF TypeOK, TablesOK
<1>2. attempt'[a] = IF attempt[a].job = j /\ attempt[a].state \in states
                    THEN [attempt[a] EXCEPT !.state = "cancelled"]
                    ELSE attempt[a]
  BY DEF AttemptsCancelled
<1>3. attempt[a].state \in states => attempt[a].state # "absent"
  BY Zenon
<1> QED
  BY <1>1, <1>2, <1>3 DEF AttemptRow

\* No repository call moves an Attempt to another Job or step.
LEMMA AttemptKeysStep == TypeOK /\ [Next]_vars => AttemptKeysKept
<1> SUFFICES ASSUME TypeOK, [Next]_vars PROVE AttemptKeysKept
  OBVIOUS
<1>0. ASSUME UNCHANGED attempt
      PROVE  AttemptKeysKept
  BY <1>0 DEF AttemptKeysKept, TypeOK, ForeignKeys
<1>1. ASSUME NEW j, SettleClaimedCancellation(j)
      PROVE  AttemptKeysKept
  BY <1>1, AttemptsCancelledKeys DEF SettleClaimedCancellation, Unsettled
<1>2. ASSUME NEW a \in Attempts, NEW state \in AttemptStates \ {"absent"},
             attempt[a].state # "absent",
             attempt' = [attempt EXCEPT ![a].state = state]
      PROVE  AttemptKeysKept
  BY <1>2 DEF AttemptKeysKept, TypeOK, TablesOK, AttemptRow, ForeignKeys
<1>3. ASSUME NEW a \in Attempts, NEW j \in Jobs, NEW s \in Steps,
             attempt[a].state = "absent",
             attempt' = [attempt EXCEPT ![a] = NewAttempt(j, s)]
      PROVE  AttemptKeysKept
  BY <1>3 DEF AttemptKeysKept, NewAttempt, TypeOK, TablesOK, AttemptRow, ForeignKeys
<1>4. ASSUME NEW j \in Jobs, CancelJob(j)
      PROVE  AttemptKeysKept
  BY <1>0, <1>4, AttemptsCancelledKeys DEF CancelJob, CancelActiveJob, CancelCancelledJob
<1>5. ASSUME NEW c \in Challenges, NEW b \in Attempts, RespondChallenge(c, b)
      PROVE  AttemptKeysKept
  <2>1. /\ challenge[c].job \in Jobs
        /\ attempt[challenge[c].attempt].step \in Steps
        /\ attempt[b].state = "absent"
    BY <1>5 DEF RespondChallenge, NextAttempt, TypeOK, ForeignKeys, AttemptExists
  <2> QED
    BY <1>3, <1>5, <2>1 DEF RespondChallenge
<1>6. ASSUME NEW auth, NEW j \in Jobs, NEW s \in Steps, NEW a \in Attempts,
             CreateAttempt(j, s, a, auth)
      PROVE  AttemptKeysKept
  BY <1>3, <1>6 DEF CreateAttempt, NextAttempt
<1>7. ASSUME NEW auth, NEW a \in Attempts, NEW state \in AttemptTerminal,
             TransitionAttempt(a, state, auth)
      PROVE  AttemptKeysKept
  <2>1. attempt[a].state # "absent" /\ state \in AttemptStates \ {"absent"}
    BY <1>7 DEF TransitionAttempt, LegalAttemptTransitions, AttemptStates, AttemptTerminal
  <2> QED
    BY <1>2, <1>7, <2>1 DEF TransitionAttempt
<1>8. ASSUME NEW auth, NEW j, FailJob(j, auth)
      PROVE  AttemptKeysKept
  BY <1>0, <1>1, <1>8 DEF FailJob
<1>9. ASSUME NEW j \in Jobs, NEW o, NEW g, ClaimJob(j, o, g)
      PROVE  AttemptKeysKept
  <2>1. CASE ClaimRunnable(j, g)
    BY <2>1 DEF ClaimRunnable, NewestStarted, AttemptKeysKept, TypeOK, TablesOK,
       AttemptRow, ForeignKeys
  <2> QED
    BY <1>1, <1>9, <2>1 DEF ClaimJob, ClaimCancelled
<1>10. ASSUME NEW auth \in authorities, AttemptStep(auth)
       PROVE  AttemptKeysKept
  <2>1. ASSUME NEW a \in Attempts, StartAttempt(a, auth)
        PROVE  AttemptKeysKept
    BY <2>1 DEF StartAttempt, AttemptKeysKept, TypeOK, TablesOK, AttemptRow, ForeignKeys
  <2>2. ASSUME NEW a \in Attempts, NEW b \in Attempts, TakeOverAttempt(a, b, auth)
        PROVE  AttemptKeysKept
    <3>1. CASE SettleClaimedCancellation(attempt[a].job)
      BY <1>1, <3>1
    <3>2. CASE ~SettleClaimedCancellation(attempt[a].job)
      <4>1. /\ attempt' =
                 [attempt EXCEPT ![a].state = "interrupted",
                                 ![b] = [NewAttempt(attempt[a].job, attempt[a].step) EXCEPT
                                            !.state = "running",
                                            !.token = auth.generation]]
            /\ attempt[a].state = "running"
            /\ attempt[b].state = "absent"
        BY <2>2, <3>2 DEF TakeOverAttempt, NextAttempt
      <4>2. attempt[a].job \in Jobs /\ attempt[a].step \in Steps
        BY <4>1 DEF TypeOK, ForeignKeys
      <4> QED
        BY <4>1, <4>2
        DEF AttemptKeysKept, NewAttempt, TypeOK, TablesOK, AttemptRow, ForeignKeys
    <3> QED
      BY <3>1, <3>2
  <2>3. ASSUME NEW a \in Attempts, NEW c, PauseForExternalOutcome(a, c, auth)
        PROVE  AttemptKeysKept
    BY <1>1, <1>2, <2>3
    DEF PauseForExternalOutcome, ExecutionAuthority, AttemptStates, AttemptTerminal
  <2> QED
    BY <1>0, <1>6, <1>7, <1>10, <2>1, <2>2, <2>3, AuthorityType
    DEF AttemptStep, CreateChallenge, TypeOK
<1>11. ASSUME NEW auth \in authorities, EndStep(auth)
       PROVE  AttemptKeysKept
  BY <1>0, <1>1, <1>2, <1>8, <1>11
  DEF EndStep, CommitResult, CommitGuard, FailJobWithAttempt, ExecutionAuthority,
      TransitionJob, AttemptStates, AttemptTerminal
<1>12. ASSUME NEW auth, OperationStep(auth)
       PROVE  AttemptKeysKept
  BY <1>0, <1>12 DEF OperationStep, PrepareOperation, StartOperation, FinishOperation,
     MarkOperationUnknown, ReconcileOperations
<1>13. CASE UserStep
  BY <1>0, <1>4, <1>5, <1>13 DEF UserStep, CreateJob, CreateRetryJob
<1>14. CASE UnclaimedStep
  BY <1>0, <1>6, <1>7, <1>8, <1>14 DEF UnclaimedStep, TransitionJob
<1>15. CASE ClaimStep
  BY <1>0, <1>9, <1>15 DEF ClaimStep, ExpireClaim, HeartbeatJobClaim, ReleaseJobClaim,
     RecordWorkerLaunch, ClearWorkerLaunches
<1> QED
  BY <1>0, <1>10, <1>11, <1>12, <1>13, <1>14, <1>15 DEF Next, vars

\* Every operation written refers to a Job and an Attempt that exist.
LEMMA OperationKeysStep ==
    ASSUME TypeOK, [Next]_vars, NEW o \in Operations, operation'[o].state # "absent"
    PROVE  operation'[o].job \in Jobs /\ AttemptExists(operation'[o].attempt)
<1> DEFINE Goal == operation'[o].job \in Jobs /\ AttemptExists(operation'[o].attempt)
<1>0. ASSUME UNCHANGED operation
      PROVE  Goal
  BY <1>0 DEF TypeOK, ForeignKeys
<1>1. ASSUME NEW lost, operation' = StartedBecomeUnknown(lost)
      PROVE  Goal
  BY <1>1 DEF StartedBecomeUnknown, TypeOK, TablesOK, OperationRow, ForeignKeys
<1>2. ASSUME NEW j, SettleClaimedCancellation(j)
      PROVE  Goal
  BY <1>1, <1>2 DEF SettleClaimedCancellation
<1>3. CASE UserStep
  BY <1>0, <1>3 DEF UserStep, CreateJob, CreateRetryJob, CancelJob, CancelActiveJob,
     CancelCancelledJob, RespondChallenge
<1>4. ASSUME NEW auth, NEW j, FailJob(j, auth)
      PROVE  Goal
  BY <1>0, <1>2, <1>4 DEF FailJob
<1>5. CASE UnclaimedStep
  BY <1>0, <1>4, <1>5 DEF UnclaimedStep, CreateAttempt, TransitionAttempt, TransitionJob
<1>6. CASE ClaimStep
  BY <1>0, <1>2, <1>6 DEF ClaimStep, ClaimJob, ClaimRunnable, ClaimCancelled, ExpireClaim,
     HeartbeatJobClaim, ReleaseJobClaim, RecordWorkerLaunch, ClearWorkerLaunches
<1>7. ASSUME NEW auth \in authorities, AttemptStep(auth)
      PROVE  Goal
  BY <1>0, <1>2, <1>7 DEF AttemptStep, CreateAttempt, StartAttempt, TakeOverAttempt,
     TransitionAttempt, PauseForExternalOutcome, CreateChallenge
<1>8. ASSUME NEW auth \in authorities, OperationStep(auth)
      PROVE  Goal
  <2>1. ASSUME NEW p \in Operations, NEW a \in Attempts, NEW r \in Requests,
               PrepareOperation(p, a, r, auth)
        PROVE  Goal
    <3>1. attempt[a].state = "running" /\ attempt[a].job \in Jobs
      BY <2>1 DEF PrepareOperation, MayPrepare, ExecutionAuthority, TypeOK, ForeignKeys
    <3>2. CASE operation' = [operation EXCEPT ![p] =
                  [job |-> attempt[a].job, step |-> attempt[a].step, request |-> r,
                   attempt |-> a, state |-> "prepared"]]
      BY <3>1, <3>2 DEF AttemptExists, TypeOK, TablesOK, OperationRow, ForeignKeys
    <3>3. CASE operation' = [operation EXCEPT ![p].attempt = a]
      BY <3>1, <3>3 DEF AttemptExists, TypeOK, TablesOK, OperationRow, ForeignKeys
    <3> QED
      BY <2>1, <3>2, <3>3 DEF PrepareOperation
  <2>2. ASSUME NEW p \in Operations, operation[p].state # "absent", NEW state,
               operation' = [operation EXCEPT ![p].state = state]
        PROVE  Goal
    BY <2>2 DEF TypeOK, TablesOK, OperationRow, ForeignKeys
  <2>3. ASSUME NEW p \in Operations, StartOperation(p, auth)
        PROVE  Goal
    BY <2>2, <2>3 DEF StartOperation
  <2>4. ASSUME NEW p \in Operations, NEW outcome, FinishOperation(p, outcome, auth)
        PROVE  Goal
    BY <2>2, <2>4 DEF FinishOperation
  <2>5. ASSUME NEW p \in Operations, MarkOperationUnknown(p, auth)
        PROVE  Goal
    BY <2>2, <2>5 DEF MarkOperationUnknown
  <2>6. CASE ReconcileOperations(auth)
    BY <1>1, <2>6 DEF ReconcileOperations
  <2> QED
    BY <1>8, <2>1, <2>3, <2>4, <2>5, <2>6 DEF OperationStep
<1>9. ASSUME NEW auth \in authorities, EndStep(auth)
      PROVE  Goal
  BY <1>0, <1>2, <1>4, <1>9 DEF EndStep, CommitResult, FailJobWithAttempt, TransitionJob
<1> QED
  BY <1>0, <1>3, <1>5, <1>6, <1>7, <1>8, <1>9 DEF Next, vars

\* Every Challenge written refers to a Job and an Attempt that exist.
LEMMA ChallengeKeysStep ==
    ASSUME TypeOK, [Next]_vars, NEW c \in Challenges, challenge'[c].state # "absent"
    PROVE  challenge'[c].job \in Jobs /\ AttemptExists(challenge'[c].attempt)
<1> DEFINE Goal == challenge'[c].job \in Jobs /\ AttemptExists(challenge'[c].attempt)
<1>0. ASSUME UNCHANGED challenge
      PROVE  Goal
  BY <1>0 DEF TypeOK, ForeignKeys
<1>1. ASSUME NEW d \in Challenges, NEW j \in Jobs, NEW a \in Attempts,
             attempt[a].state # "absent", OpenChallenge(d, j, a)
      PROVE  Goal
  BY <1>1 DEF OpenChallenge, AttemptExists, TypeOK, TablesOK, ChallengeRow, ForeignKeys
<1>2. ASSUME NEW j, CancelJob(j)
      PROVE  Goal
  BY <1>2 DEF CancelJob, CancelActiveJob, CancelCancelledJob, PendingChallengesCancelled,
     TypeOK, TablesOK, ChallengeRow, ForeignKeys
<1>3. ASSUME NEW d \in Challenges, NEW b \in Attempts, RespondChallenge(d, b)
      PROVE  Goal
  <2>1. /\ challenge[d].state # "absent"
        /\ challenge' = [challenge EXCEPT ![d].state = "consumed", ![d].response = b]
    BY <1>3 DEF RespondChallenge
  <2> QED
    BY <2>1 DEF TypeOK, TablesOK, ChallengeRow, ForeignKeys
<1>4. CASE UserStep
  BY <1>0, <1>2, <1>3, <1>4 DEF UserStep, CreateJob, CreateRetryJob
<1>5. CASE UnclaimedStep
  BY <1>0, <1>5 DEF UnclaimedStep, CreateAttempt, TransitionAttempt, FailJob, TransitionJob
<1>6. CASE ClaimStep
  BY <1>0, <1>6 DEF ClaimStep, ClaimJob, ExpireClaim, HeartbeatJobClaim, ReleaseJobClaim,
     RecordWorkerLaunch, ClearWorkerLaunches
<1>7. ASSUME NEW auth \in authorities, AttemptStep(auth)
      PROVE  Goal
  <2>1. ASSUME NEW a \in Attempts, NEW d \in Challenges,
               PauseForExternalOutcome(a, d, auth)
        PROVE  Goal
    <3>1. attempt[a].state # "absent" /\ attempt[a].job \in Jobs
      BY <2>1 DEF PauseForExternalOutcome, ExecutionAuthority, TypeOK, ForeignKeys
    <3> QED
      BY <1>0, <1>1, <2>1, <3>1 DEF PauseForExternalOutcome
  <2>2. ASSUME NEW a \in Attempts, NEW d \in Challenges,
               CreateChallenge(auth.job, a, d)
        PROVE  Goal
    BY <1>1, <2>2, AuthorityType DEF CreateChallenge, TypeOK
  <2> QED
    BY <1>0, <1>7, <2>1, <2>2 DEF AttemptStep, CreateAttempt, StartAttempt,
       TakeOverAttempt, TransitionAttempt
<1>8. ASSUME NEW auth \in authorities, OperationStep(auth)
      PROVE  Goal
  BY <1>0, <1>8 DEF OperationStep, PrepareOperation, StartOperation, FinishOperation,
     MarkOperationUnknown, ReconcileOperations
<1>9. ASSUME NEW auth \in authorities, EndStep(auth)
      PROVE  Goal
  BY <1>0, <1>9 DEF EndStep, CommitResult, FailJobWithAttempt, FailJob, TransitionJob
<1> QED
  BY <1>0, <1>4, <1>5, <1>6, <1>7, <1>8, <1>9 DEF Next, vars

\* Every repository call keeps the tables well typed and their keys valid.
LEMMA TypeStep == TypeOK /\ [Next]_vars => TypeOK'
<1> SUFFICES ASSUME TypeOK, [Next]_vars PROVE TypeOK'
  OBVIOUS
<1>1. AttemptKeysKept
  BY AttemptKeysStep
<1>2. ASSUME NEW a, AttemptExists(a)
      PROVE  AttemptExists(a)'
  BY <1>1, <1>2 DEF AttemptKeysKept, AttemptExists
<1>3. ForeignKeys'
  BY <1>1, <1>2, OperationKeysStep, ChallengeKeysStep DEF AttemptKeysKept, ForeignKeys
<1> QED
  BY <1>3, TablesStep DEF TypeOK

\* The tables only ever hold rows that their columns, CHECK constraints and
\* REFERENCES clauses allow: no call of sqlite_repository.py can make an Attempt,
\* operation or Challenge that belongs to nothing.
THEOREM TypeCorrect == Spec => []TypeOK
<1>1. Init => TypeOK
  BY JobStoreAssumption
  DEF Init, TypeOK, TablesOK, ForeignKeys, JobRow, JobStates, ClaimRow, ClaimStates,
      AttemptRow, AttemptStates, OperationRow, OperationStates, ChallengeRow,
      ChallengeStates
<1> QED
  BY <1>1, TypeStep, PTL DEF Spec

-----------------------------------------------------------------------------
(* Fencing tokens.                                                         *)

\* The inductive invariant: a row of job_execution_leases names the owner of its
\* generation, and no generation exists before the row does.
FencingInv ==
    /\ FencingTokensUnique
    /\ \A x \in authorities :
          x.generation = claim[x.job].generation => x.owner = claim[x.job].owner
    /\ \A j \in Jobs : claim[j].status = "absent" => claim[j].generation = 0

\* Only claim_job writes the owner and generation of a lease.
LEMMA LeaseKept ==
    ASSUME TypeOK, [Next]_vars,
           ~(\E j \in Jobs, o \in Owners, g \in Generations : ClaimJob(j, o, g))
    PROVE  /\ authorities' = authorities
           /\ \A j \in Jobs :
                 /\ claim'[j].owner = claim[j].owner
                 /\ claim'[j].generation = claim[j].generation
                 /\ claim'[j].status = "absent" => claim[j].status = "absent"
<1> DEFINE Goal ==
        /\ authorities' = authorities
        /\ \A j \in Jobs :
              /\ claim'[j].owner = claim[j].owner
              /\ claim'[j].generation = claim[j].generation
              /\ claim'[j].status = "absent" => claim[j].status = "absent"
<1>0. ASSUME UNCHANGED <<claim, authorities>>
      PROVE  Goal
  BY <1>0
<1>1. ASSUME NEW j \in Jobs, NEW n,
             claim' = [claim EXCEPT ![j].launches = n], UNCHANGED authorities
      PROVE  Goal
  BY <1>1 DEF TypeOK, TablesOK, ClaimRow
<1>2. ASSUME NEW j \in Jobs, NEW status \in ClaimStates \ {"absent"},
             claim' = [claim EXCEPT ![j].status = status], UNCHANGED authorities
      PROVE  Goal
  BY <1>2 DEF TypeOK, TablesOK, ClaimRow
<1>3. CASE UserStep
  BY <1>0, <1>3 DEF UserStep, CreateJob, CreateRetryJob, CancelJob, CancelActiveJob,
     CancelCancelledJob, RespondChallenge
<1>4. CASE UnclaimedStep
  BY <1>0, <1>4 DEF UnclaimedStep, CreateAttempt, TransitionAttempt, FailJob, TransitionJob
<1>5. ASSUME NEW j \in Jobs, ExpireClaim(j)
      PROVE  Goal
  BY <1>2, <1>5 DEF ExpireClaim, ClaimStates
<1>6. ASSUME NEW auth \in authorities,
             \/ HeartbeatJobClaim(auth) \/ ReleaseJobClaim(auth)
             \/ RecordWorkerLaunch(auth) \/ ClearWorkerLaunches(auth)
      PROVE  Goal
  <2>1. auth.job \in Jobs
    BY AuthorityType DEF TypeOK
  <2> QED
    BY <1>1, <1>2, <1>6, <2>1 DEF HeartbeatJobClaim, ReleaseJobClaim, RecordWorkerLaunch,
       ClearWorkerLaunches, ClaimStates
<1>7. ASSUME NEW auth \in authorities, AttemptStep(auth)
      PROVE  Goal
  <2>1. ASSUME NEW a \in Attempts, NEW c \in Challenges,
               PauseForExternalOutcome(a, c, auth)
        PROVE  Goal
    <3>1. attempt[a].job \in Jobs
      BY <2>1 DEF PauseForExternalOutcome, ExecutionAuthority, TypeOK, ForeignKeys
    <3> QED
      BY <1>0, <1>1, <2>1, <3>1 DEF PauseForExternalOutcome, OpenChallenge
  <2>2. ASSUME NEW a \in Attempts, NEW c \in Challenges,
               CreateChallenge(auth.job, a, c)
        PROVE  Goal
    <3>1. auth.job \in Jobs
      BY AuthorityType DEF TypeOK
    <3> QED
      BY <1>1, <2>2, <3>1 DEF CreateChallenge, OpenChallenge
  <2> QED
    BY <1>0, <1>7, <2>1, <2>2 DEF AttemptStep, CreateAttempt, StartAttempt,
       TakeOverAttempt, TransitionAttempt
<1>8. ASSUME NEW auth \in authorities, OperationStep(auth)
      PROVE  Goal
  BY <1>0, <1>8 DEF OperationStep, PrepareOperation, StartOperation, FinishOperation,
     MarkOperationUnknown, ReconcileOperations
<1>9. ASSUME NEW auth \in authorities, EndStep(auth)
      PROVE  Goal
  BY <1>0, <1>9 DEF EndStep, CommitResult, FailJobWithAttempt, FailJob, TransitionJob
<1>10. CASE UNCHANGED vars
  BY <1>0, <1>10 DEF vars
<1> QED
  BY <1>3, <1>4, <1>5, <1>6, <1>7, <1>8, <1>9, <1>10 DEF Next, ClaimStep

\* What claim_job grants extends the order of generations of its Job by at most
\* one, and never shares one between two owners.
LEMMA FencingStep == TypeOK /\ FencingInv /\ [Next]_vars => FencingInv'
<1> SUFFICES ASSUME TypeOK, FencingInv, [Next]_vars PROVE FencingInv'
  OBVIOUS
<1>1. CASE \E j \in Jobs, o \in Owners, g \in Generations : ClaimJob(j, o, g)
  <2> PICK j \in Jobs, o \in Owners, g \in Generations : ClaimJob(j, o, g)
    BY <1>1
  <2> DEFINE new == [job |-> j, owner |-> o, generation |-> g]
  <2>1. /\ authorities' = authorities \cup {new}
        /\ claim'[j].owner = o /\ claim'[j].generation = g /\ claim'[j].status = "live"
        /\ \A i \in Jobs \ {j} : claim'[i] = claim[i]
    BY DEF ClaimJob, TypeOK, TablesOK, ClaimRow
  <2>2. g \in Nat /\ g > 0 /\ claim[j].generation \in Nat
    BY JobStoreAssumption DEF Generations, TypeOK, TablesOK, ClaimRow
  <2>3. ASSUME NEW x \in authorities
        PROVE  x.job \in Jobs /\ x.generation \in Nat /\ x.generation > 0
               /\ x = [job |-> x.job, owner |-> x.owner, generation |-> x.generation]
    BY JobStoreAssumption DEF TypeOK, TablesOK, Authority, Generations
  <2>4. ASSUME NEW x \in authorities, x.job = j
        PROVE  x.generation =< g /\ (x.generation = g => x.owner = o)
    <3>1. x.generation =< claim[j].generation
      BY <2>4 DEF FencingInv, FencingTokensUnique
    <3>2. CASE claim[j].status = "absent"
      BY <2>3, <3>1, <3>2 DEF FencingInv
    <3>3. CASE claim[j].owner = o /\ g = claim[j].generation
      BY <2>4, <3>1, <3>3 DEF FencingInv
    <3>4. CASE g = claim[j].generation + 1
      BY <2>2, <2>3, <3>1, <3>4
    <3> QED
      BY <3>2, <3>3, <3>4 DEF ClaimJob, ClaimGrants
  <2>5. FencingTokensUnique'
    <3>1. ASSUME NEW x \in authorities', NEW y \in authorities',
                 x.job = y.job, x.generation = y.generation
          PROVE  x = y
      <4>1. CASE x \in authorities /\ y \in authorities
        BY <3>1, <4>1 DEF FencingInv, FencingTokensUnique
      <4>2. CASE x = new /\ y = new
        BY <4>2
      <4>3. CASE x = new /\ y \in authorities
        BY <2>3, <2>4, <3>1, <4>3
      <4>4. CASE x \in authorities /\ y = new
        BY <2>3, <2>4, <3>1, <4>4
      <4> QED
        BY <2>1, <4>1, <4>2, <4>3, <4>4
    <3>2. ASSUME NEW x \in authorities'
          PROVE  x.generation =< claim'[x.job].generation
      <4>1. CASE x = new
        BY <2>1, <2>2, <4>1
      <4>2. CASE x \in authorities
        BY <2>1, <2>3, <2>4, <4>2 DEF FencingInv, FencingTokensUnique
      <4> QED
        BY <2>1, <4>1, <4>2
    <3> QED
      BY <3>1, <3>2 DEF FencingTokensUnique
  <2>6. ASSUME NEW x \in authorities', x.generation = claim'[x.job].generation
        PROVE  x.owner = claim'[x.job].owner
    <3>1. CASE x = new
      BY <2>1, <3>1
    <3>2. CASE x \in authorities
      BY <2>1, <2>3, <2>4, <2>6, <3>2 DEF FencingInv
    <3> QED
      BY <2>1, <3>1, <3>2
  <2>7. ASSUME NEW i \in Jobs, claim'[i].status = "absent"
        PROVE  claim'[i].generation = 0
    BY <2>1, <2>7 DEF FencingInv
  <2> QED
    BY <2>5, <2>6, <2>7 DEF FencingInv
<1>2. CASE ~(\E j \in Jobs, o \in Owners, g \in Generations : ClaimJob(j, o, g))
  <2>1. \A x \in authorities : x.job \in Jobs
    BY AuthorityType DEF TypeOK
  <2> QED
    BY <1>2, <2>1, LeaseKept DEF FencingInv, FencingTokensUnique
<1> QED
  BY <1>1, <1>2

\* The strengthened form of the uniqueness of fencing tokens is invariant.
LEMMA FencingInvHolds == Spec => []FencingInv
<1>1. Init => FencingInv
  BY DEF Init, FencingInv, FencingTokensUnique
<1> QED
  BY <1>1, FencingStep, TypeCorrect, PTL DEF Spec

\* However many processes claim a Job, lose it, come back and claim it again, one
\* generation belongs to one of them: claim_job hands out fencing tokens.
THEOREM FencingTokensAreUnique == Spec => []FencingTokensUnique
<1>1. FencingInv => FencingTokensUnique
  BY DEF FencingInv
<1> QED
  BY <1>1, FencingInvHolds, PTL

-----------------------------------------------------------------------------
(* A fenced process.                                                       *)

\* _assert_execution_authority passes only for the newest generation.
LEMMA AuthorityIsNotFenced ==
    ASSUME TypeOK, NEW auth \in authorities, NEW a \in Attempts,
           ExecutionAuthority(a, auth)
    PROVE  ~Fenced(a)
<1>1. attempt[a].token = claim[attempt[a].job].generation /\ attempt[a].job \in Jobs
  BY DEF ExecutionAuthority, JobAuthority, TypeOK, ForeignKeys
<1>2. attempt[a].token \in Int
  BY JobStoreAssumption DEF TypeOK, TablesOK, AttemptRow
<1> QED
  BY <1>1, <1>2 DEF Fenced

\* A running Attempt whose row a call changes was either acted upon by the owner
\* of the newest generation, or interrupted or cancelled.
LEMMA FencedAttemptStep ==
    ASSUME TypeOK, [Next]_vars, NEW a \in Attempts,
           attempt[a].state = "running", Fenced(a)
    PROVE  attempt'[a].state \in {"running", "interrupted", "cancelled"}
<1> DEFINE Goal == attempt'[a].state \in {"running", "interrupted", "cancelled"}
<1>0. ASSUME attempt'[a] = attempt[a]
      PROVE  Goal
  BY <1>0
<1>1. ASSUME NEW j, NEW states, attempt' = AttemptsCancelled(j, states)
      PROVE  Goal
  <2>1. attempt[a] \in AttemptRow
    BY DEF TypeOK, TablesOK
  <2>2. attempt'[a] = IF attempt[a].job = j /\ attempt[a].state \in states
                      THEN [attempt[a] EXCEPT !.state = "cancelled"]
                      ELSE attempt[a]
    BY <1>1 DEF AttemptsCancelled
  <2> QED
    BY <2>1, <2>2 DEF AttemptRow
<1>2. ASSUME NEW j, SettleClaimedCancellation(j)
      PROVE  Goal
  BY <1>1, <1>2 DEF SettleClaimedCancellation
<1>3. ASSUME NEW b \in Attempts, NEW row, b # a, attempt' = [attempt EXCEPT ![b] = row]
      PROVE  Goal
  BY <1>0, <1>3 DEF TypeOK, TablesOK
<1>4. ASSUME NEW b \in Attempts, NEW state, NEW auth \in authorities \cup {Nobody},
             attempt[b].state = "running" => auth \in authorities /\ ExecutionAuthority(b, auth),
             attempt' = [attempt EXCEPT ![b].state = state]
      PROVE  Goal
  <2>1. b # a
    BY <1>4, AuthorityIsNotFenced
  <2> QED
    BY <1>0, <1>4, <2>1 DEF TypeOK, TablesOK
<1>5. ASSUME NEW j, CancelJob(j)
      PROVE  Goal
  BY <1>0, <1>1, <1>5 DEF CancelJob, CancelActiveJob, CancelCancelledJob
<1>6. ASSUME NEW c, NEW b \in Attempts, RespondChallenge(c, b)
      PROVE  Goal
  BY <1>3, <1>6 DEF RespondChallenge, NextAttempt
<1>7. ASSUME NEW auth, NEW j, NEW s, NEW b \in Attempts, CreateAttempt(j, s, b, auth)
      PROVE  Goal
  BY <1>3, <1>7 DEF CreateAttempt, NextAttempt
<1>8. ASSUME NEW auth \in authorities \cup {Nobody}, NEW b \in Attempts, NEW state,
             TransitionAttempt(b, state, auth)
      PROVE  Goal
  <2>1. Nobody \notin authorities
    BY JobStoreAssumption DEF TypeOK, TablesOK
  <2>2. attempt[b].state = "running" => auth \in authorities /\ ExecutionAuthority(b, auth)
    BY <1>8 DEF TransitionAttempt, ExecutionAuthority, JobAuthority
  <2> QED
    BY <1>4, <1>8, <2>2 DEF TransitionAttempt
<1>9. ASSUME NEW auth, NEW j, FailJob(j, auth)
      PROVE  Goal
  BY <1>0, <1>2, <1>9 DEF FailJob
<1>10. ASSUME NEW j, NEW o, NEW g, ClaimJob(j, o, g)
       PROVE  Goal
  BY <1>0, <1>2, <1>10 DEF ClaimJob, ClaimRunnable, ClaimCancelled, NewestStarted
<1>11. ASSUME NEW auth \in authorities, AttemptStep(auth)
       PROVE  Goal
  <2>1. ASSUME NEW b \in Attempts, StartAttempt(b, auth)
        PROVE  Goal
    <3>1. b # a
      BY <2>1 DEF StartAttempt
    <3> QED
      BY <1>0, <2>1, <3>1 DEF StartAttempt, TypeOK, TablesOK
  <2>2. ASSUME NEW b \in Attempts, NEW c \in Attempts, TakeOverAttempt(b, c, auth)
        PROVE  Goal
    <3>1. CASE SettleClaimedCancellation(attempt[b].job)
      BY <1>2, <3>1
    <3>2. CASE ~SettleClaimedCancellation(attempt[b].job)
      <4>1. c # a
        BY <2>2, <3>2 DEF TakeOverAttempt, NextAttempt
      <4> QED
        BY <2>2, <3>2, <4>1 DEF TakeOverAttempt, TypeOK, TablesOK, AttemptRow
    <3> QED
      BY <3>1, <3>2
  <2>3. ASSUME NEW b \in Attempts, NEW c, PauseForExternalOutcome(b, c, auth)
        PROVE  Goal
    BY <1>2, <1>4, <2>3 DEF PauseForExternalOutcome
  <2> QED
    BY <1>0, <1>7, <1>8, <1>11, <2>1, <2>2, <2>3 DEF AttemptStep, CreateChallenge
<1>12. ASSUME NEW auth, OperationStep(auth)
       PROVE  Goal
  BY <1>0, <1>12 DEF OperationStep, PrepareOperation, StartOperation, FinishOperation,
     MarkOperationUnknown, ReconcileOperations
<1>13. ASSUME NEW auth \in authorities, EndStep(auth)
       PROVE  Goal
  BY <1>0, <1>2, <1>4, <1>9, <1>13 DEF EndStep, CommitResult, CommitGuard,
     FailJobWithAttempt, TransitionJob
<1>14. CASE UserStep
  BY <1>0, <1>5, <1>6, <1>14 DEF UserStep, CreateJob, CreateRetryJob
<1>15. CASE UnclaimedStep
  BY <1>0, <1>7, <1>8, <1>9, <1>15 DEF UnclaimedStep, TransitionJob
<1>16. CASE ClaimStep
  BY <1>0, <1>10, <1>16 DEF ClaimStep, ExpireClaim, HeartbeatJobClaim, ReleaseJobClaim,
     RecordWorkerLaunch, ClearWorkerLaunches
<1> QED
  BY <1>0, <1>11, <1>12, <1>13, <1>14, <1>15, <1>16 DEF Next, vars

\* Whatever an overtaken process still calls, in whatever order, its Attempt can
\* only be interrupted by the takeover or cancelled: the store is fenced.
THEOREM FencedAttemptsStayIncomplete == Spec => FencedAttemptNeverCompletes
<1>1. TypeOK /\ [Next]_vars =>
        [\A a \in Attempts :
            attempt[a].state = "running" /\ Fenced(a) =>
                attempt'[a].state \in {"running", "interrupted", "cancelled"}]_vars
  BY FencedAttemptStep
<1> QED
  BY <1>1, TypeCorrect, PTL DEF Spec, FencedAttemptNeverCompletes

-----------------------------------------------------------------------------
(* Paid calls.                                                             *)

Open(o) == operation[o].state \notin {"absent", "failed"}

\* Two operations of one request stay one when a call opens none of them.
LEMMA NoNewOpenOperation ==
    ASSUME OneOpenOperation,
           \A o \in Operations : Open(o)' =>
              /\ Open(o)
              /\ operation'[o].job = operation[o].job
              /\ operation'[o].step = operation[o].step
              /\ operation'[o].request = operation[o].request
    PROVE  OneOpenOperation'
BY DEF OneOpenOperation, Open

\* prepare_external_operation is the only call that opens an operation, and it
\* opens one only if its request has none.
LEMMA OneOpenOperationStep ==
    TypeOK /\ OneOpenOperation /\ [Next]_vars => OneOpenOperation'
<1> SUFFICES ASSUME TypeOK, OneOpenOperation, [Next]_vars PROVE OneOpenOperation'
  OBVIOUS
<1>0. ASSUME UNCHANGED operation
      PROVE  OneOpenOperation'
  BY <1>0 DEF OneOpenOperation
<1>1. ASSUME NEW lost, operation' = StartedBecomeUnknown(lost)
      PROVE  OneOpenOperation'
  BY <1>1, NoNewOpenOperation DEF StartedBecomeUnknown, Open, TypeOK, TablesOK, OperationRow
<1>2. ASSUME NEW j, SettleClaimedCancellation(j)
      PROVE  OneOpenOperation'
  BY <1>1, <1>2 DEF SettleClaimedCancellation
<1>3. ASSUME NEW p \in Operations, NEW state, Open(p),
             operation' = [operation EXCEPT ![p].state = state]
      PROVE  OneOpenOperation'
  BY <1>3, NoNewOpenOperation DEF Open, TypeOK, TablesOK, OperationRow
<1>4. ASSUME NEW p \in Operations, NEW a \in Attempts, NEW r \in Requests,
             NEW auth, PrepareOperation(p, a, r, auth)
      PROVE  OneOpenOperation'
  <2> DEFINE j == attempt[a].job
             s == attempt[a].step
  <2>1. CASE /\ SiblingsIn(j, s, r, {"prepared"}) = {}
             /\ operation[p].state = "absent"
             /\ operation' = [operation EXCEPT ![p] =
                   [job |-> j, step |-> s, request |-> r, attempt |-> a,
                    state |-> "prepared"]]
    <3>1. SiblingsIn(j, s, r, {"unknown", "started", "succeeded"}) = {}
      BY <1>4 DEF PrepareOperation, MayPrepare
    <3>2. ASSUME NEW o \in Operations, o # p, Open(o)',
                 operation'[o].job = j, operation'[o].step = s, operation'[o].request = r
          PROVE  FALSE
      <4>1. operation'[o] = operation[o] /\ operation[o] \in OperationRow
        BY <2>1, <3>2 DEF TypeOK, TablesOK
      <4>2. operation[o].state \in {"prepared", "unknown", "started", "succeeded"}
        BY <3>2, <4>1 DEF Open, OperationRow, OperationStates
      <4> QED
        BY <2>1, <3>1, <3>2, <4>1, <4>2 DEF SiblingsIn, OperationsOf
    <3>3. /\ operation'[p].job = j /\ operation'[p].step = s /\ operation'[p].request = r
          /\ \A o \in Operations \ {p} : operation'[o] = operation[o]
      BY <2>1 DEF TypeOK, TablesOK
    <3> HIDE DEF j, s
    <3> QED
      BY <3>2, <3>3 DEF OneOpenOperation, Open
  <2>2. CASE operation' = [operation EXCEPT ![p].attempt = a]
    BY <2>2, NoNewOpenOperation DEF Open, TypeOK, TablesOK, OperationRow
  <2> QED
    BY <1>4, <2>1, <2>2 DEF PrepareOperation
<1>5. ASSUME NEW auth, OperationStep(auth)
      PROVE  OneOpenOperation'
  <2>1. ASSUME NEW p \in Operations,
               \/ StartOperation(p, auth)
               \/ \E outcome \in {"succeeded", "failed"} : FinishOperation(p, outcome, auth)
               \/ MarkOperationUnknown(p, auth)
        PROVE  OneOpenOperation'
    BY <1>3, <2>1 DEF StartOperation, FinishOperation, MarkOperationUnknown, Open
  <2>2. CASE ReconcileOperations(auth)
    BY <1>1, <2>2 DEF ReconcileOperations
  <2> QED
    BY <1>4, <1>5, <2>1, <2>2 DEF OperationStep
<1>6. ASSUME NEW auth, NEW j, FailJob(j, auth)
      PROVE  OneOpenOperation'
  BY <1>0, <1>2, <1>6 DEF FailJob
<1>7. CASE UserStep
  BY <1>0, <1>7 DEF UserStep, CreateJob, CreateRetryJob, CancelJob, CancelActiveJob,
     CancelCancelledJob, RespondChallenge
<1>8. CASE UnclaimedStep
  BY <1>0, <1>6, <1>8 DEF UnclaimedStep, CreateAttempt, TransitionAttempt, TransitionJob
<1>9. CASE ClaimStep
  BY <1>0, <1>2, <1>9 DEF ClaimStep, ClaimJob, ClaimRunnable, ClaimCancelled, ExpireClaim,
     HeartbeatJobClaim, ReleaseJobClaim, RecordWorkerLaunch, ClearWorkerLaunches
<1>10. ASSUME NEW auth, AttemptStep(auth)
       PROVE  OneOpenOperation'
  BY <1>0, <1>2, <1>10 DEF AttemptStep, CreateAttempt, StartAttempt, TakeOverAttempt,
     TransitionAttempt, PauseForExternalOutcome, CreateChallenge
<1>11. ASSUME NEW auth, EndStep(auth)
       PROVE  OneOpenOperation'
  BY <1>0, <1>2, <1>6, <1>11 DEF EndStep, CommitResult, FailJobWithAttempt, TransitionJob
<1> QED
  BY <1>0, <1>5, <1>7, <1>8, <1>9, <1>10, <1>11 DEF Next, vars

\* For any number of processes, retries and takeovers: one request of one step
\* has at most one operation that is under way, paid for or of unknown outcome.
THEOREM RequestsAreNotDoubled == Spec => []OneOpenOperation
<1>1. Init => OneOpenOperation
  BY DEF Init, OneOpenOperation
<1> QED
  BY <1>1, OneOpenOperationStep, TypeCorrect, PTL DEF Spec

-----------------------------------------------------------------------------
(* The end of a Job.                                                       *)

\* TerminalJobsSettled, Attempt by Attempt.
SettledAttempt(a) ==
    /\ attempt[a].state = "running" => job[attempt[a].job].state \notin JobTerminal
    /\ attempt[a].state = "pending" =>
          job[attempt[a].job].state \notin {"succeeded", "failed"}

\* _settle_cancelled_job_if_idle changes a Job to `cancelled' and only when no
\* Attempt of it runs.
LEMMA SettledIfIdleEffect ==
    ASSUME NEW jobs \in [Jobs -> JobRow], NEW j, NEW attempts, NEW i \in Jobs
    PROVE  LET after == SettledIfIdle(jobs, j, attempts) IN
           \/ after[i].state = jobs[i].state
           \/ /\ i = j /\ after[i].state = "cancelled"
              /\ \A a \in Attempts : attempts[a].job = i => attempts[a].state # "running"
BY DEF SettledIfIdle, JobRow

\* What _settle_claimed_cancellation leaves of the Attempts of its Job.
LEMMA SettleClaimedCancellationEffect ==
    ASSUME TypeOK, TerminalJobsSettled, NEW j, SettleClaimedCancellation(j)
    PROVE  TerminalJobsSettled'
<1> SUFFICES ASSUME NEW a \in Attempts PROVE SettledAttempt(a)'
  BY DEF TerminalJobsSettled, SettledAttempt
<1>1. attempt[a] \in AttemptRow /\ job \in [Jobs -> JobRow]
  BY DEF TypeOK, TablesOK
<1>2. attempt'[a] = IF attempt[a].job = j /\ attempt[a].state \in Unsettled
                    THEN [attempt[a] EXCEPT !.state = "cancelled"]
                    ELSE attempt[a]
  BY DEF SettleClaimedCancellation, AttemptsCancelled
<1>3. CASE attempt[a].state \in Unsettled /\ attempt[a].job # j
  <2>1. attempt'[a] = attempt[a] /\ attempt[a].job \in Jobs
    BY <1>2, <1>3 DEF Unsettled, TypeOK, ForeignKeys
  <2>2. job'[attempt[a].job].state = job[attempt[a].job].state
    BY <1>1, <1>3, <2>1, SettledIfIdleEffect DEF SettleClaimedCancellation
  <2> QED
    BY <2>1, <2>2 DEF TerminalJobsSettled, SettledAttempt
<1>4. CASE attempt[a].state \notin Unsettled \/ attempt[a].job = j
  BY <1>1, <1>2, <1>4 DEF SettledAttempt, Unsettled, AttemptRow
<1> QED
  BY <1>3, <1>4

\* Ending a Job, and starting an Attempt, exclude each other.
LEMMA TerminalJobsSettledStep ==
    TypeOK /\ TerminalJobsSettled /\ [Next]_vars => TerminalJobsSettled'
<1> SUFFICES ASSUME TypeOK, TerminalJobsSettled, [Next]_vars PROVE TerminalJobsSettled'
  OBVIOUS
<1>a. ASSUME NEW a \in Attempts
      PROVE  /\ attempt[a] \in AttemptRow /\ SettledAttempt(a)
             /\ attempt[a].state # "absent" => attempt[a].job \in Jobs
  BY DEF TypeOK, TablesOK, ForeignKeys, TerminalJobsSettled, SettledAttempt
<1>b. job \in [Jobs -> JobRow] /\ attempt \in [Attempts -> AttemptRow]
  BY DEF TypeOK, TablesOK
<1>0. ASSUME UNCHANGED <<job, attempt>>
      PROVE  TerminalJobsSettled'
  BY <1>0 DEF TerminalJobsSettled
<1>1. ASSUME NEW j, SettleClaimedCancellation(j)
      PROVE  TerminalJobsSettled'
  BY <1>1, SettleClaimedCancellationEffect
<1>2. ASSUME NEW j \in Jobs, NEW row, row.state \notin JobTerminal,
             job' = [job EXCEPT ![j] = row], UNCHANGED attempt
      PROVE  TerminalJobsSettled'
  BY <1>2, <1>a, <1>b DEF TerminalJobsSettled, SettledAttempt, JobTerminal
<1>3. ASSUME NEW j \in Jobs, NEW state, job' = [job EXCEPT ![j].state = state],
             state \in JobTerminal => AttemptsSettled(j), UNCHANGED attempt
      PROVE  TerminalJobsSettled'
  <2> SUFFICES ASSUME NEW a \in Attempts, attempt[a].state \in Unsettled
               PROVE  SettledAttempt(a)'
    BY <1>3 DEF TerminalJobsSettled, SettledAttempt, Unsettled
  <2>1. attempt[a].job \in Jobs
    BY <1>a DEF Unsettled
  <2>2. CASE attempt[a].job = j
    <3>1. state \notin JobTerminal
      BY <1>3, <2>2 DEF AttemptsSettled, AttemptsOf
    <3>2. job'[j].state = state
      BY <1>3, <1>b DEF JobRow
    <3> QED
      BY <1>3, <2>2, <3>1, <3>2 DEF SettledAttempt, JobTerminal
  <2>3. CASE attempt[a].job # j
    BY <1>3, <1>a, <1>b, <2>1, <2>3 DEF SettledAttempt
  <2> QED
    BY <2>2, <2>3
<1>4. ASSUME NEW jobs \in [Jobs -> JobRow], NEW j, job' = SettledIfIdle(jobs, j, attempt'),
             \A i \in Jobs : jobs[i].state = job[i].state,
             \A a \in Attempts : attempt'[a].job = attempt[a].job
                                   /\ (attempt'[a].state = attempt[a].state
                                         \/ attempt'[a].state \in AttemptTerminal)
      PROVE  TerminalJobsSettled'
  <2> SUFFICES ASSUME NEW a \in Attempts, attempt'[a].state \in Unsettled
               PROVE  SettledAttempt(a)'
    BY DEF TerminalJobsSettled, SettledAttempt, Unsettled
  <2>1. attempt'[a].state = attempt[a].state /\ attempt'[a].job = attempt[a].job
    BY <1>4 DEF Unsettled, AttemptTerminal
  <2>2. attempt[a].job \in Jobs
    BY <1>a, <2>1 DEF Unsettled
  <2>3. \/ job'[attempt[a].job].state = job[attempt[a].job].state
        \/ /\ job'[attempt[a].job].state = "cancelled"
           /\ attempt'[a].state # "running"
    BY <1>4, <2>1, <2>2, SettledIfIdleEffect
  <2> QED
    BY <1>a, <2>1, <2>3 DEF SettledAttempt
<1>5. ASSUME NEW j \in Jobs, CancelJob(j)
      PROVE  TerminalJobsSettled'
  <2>1. CASE CancelActiveJob(j)
    <3>1. ASSUME NEW a \in Attempts
          PROVE  attempt'[a].job = attempt[a].job
                   /\ (attempt'[a].state = attempt[a].state
                         \/ attempt'[a].state \in AttemptTerminal)
      BY <1>a, <2>1 DEF CancelActiveJob, AttemptsCancelled, AttemptRow, AttemptTerminal
    <3>2. /\ [job EXCEPT ![j].cancel = TRUE] \in [Jobs -> JobRow]
          /\ \A i \in Jobs : [job EXCEPT ![j].cancel = TRUE][i].state = job[i].state
      BY <1>b DEF JobRow
    <3> QED
      BY <1>4, <2>1, <3>1, <3>2 DEF CancelActiveJob
  <2> QED
    BY <1>0, <1>5, <2>1 DEF CancelJob, CancelCancelledJob
<1>6. ASSUME NEW j \in Jobs, NEW c, NEW k, NewJob(j, c, k), UNCHANGED attempt
      PROVE  TerminalJobsSettled'
  BY <1>2, <1>6 DEF NewJob, JobTerminal
<1>7. ASSUME NEW c \in Challenges, NEW b \in Attempts, RespondChallenge(c, b)
      PROVE  TerminalJobsSettled'
  <2> DEFINE j == challenge[c].job
             row == NewAttempt(j, attempt[challenge[c].attempt].step)
  <2>1. j \in Jobs
    BY <1>7 DEF RespondChallenge, TypeOK, ForeignKeys
  <2>2. job' = [job EXCEPT ![j].state = "queued"] /\ attempt' = [attempt EXCEPT ![b] = row]
    BY <1>7 DEF RespondChallenge
  <2>3. row.job = j /\ row.state = "pending"
    BY DEF NewAttempt
  <2> HIDE DEF j, row
  <2>4. job'[j].state = "queued" /\ \A i \in Jobs \ {j} : job'[i] = job[i]
    BY <1>b, <2>1, <2>2 DEF JobRow
  <2>5. attempt'[b] = row /\ \A a \in Attempts \ {b} : attempt'[a] = attempt[a]
    BY <1>b, <2>2
  <2> SUFFICES ASSUME NEW a \in Attempts PROVE SettledAttempt(a)'
    BY DEF TerminalJobsSettled, SettledAttempt
  <2>6. CASE a = b
    BY <2>3, <2>4, <2>5, <2>6 DEF SettledAttempt
  <2>7. CASE a # b
    BY <1>a, <2>4, <2>5, <2>7 DEF SettledAttempt, JobTerminal
  <2> QED
    BY <2>6, <2>7
<1>8. ASSUME NEW auth, NEW j \in Jobs, NEW s, NEW a \in Attempts, CreateAttempt(j, s, a, auth)
      PROVE  TerminalJobsSettled'
  BY <1>8, <1>a, <1>b DEF CreateAttempt, NewAttempt, TerminalJobsSettled, SettledAttempt,
     JobTerminal
<1>9. ASSUME NEW a \in Attempts, NEW state \in AttemptTerminal,
             attempt' = [attempt EXCEPT ![a].state = state]
      PROVE  \A b \in Attempts : attempt'[b].job = attempt[b].job
                                   /\ (attempt'[b].state = attempt[b].state
                                         \/ attempt'[b].state \in AttemptTerminal)
  BY <1>9, <1>b DEF AttemptRow
<1>10. ASSUME NEW auth, NEW a \in Attempts, NEW state \in AttemptTerminal,
              TransitionAttempt(a, state, auth)
       PROVE  TerminalJobsSettled'
  BY <1>4, <1>9, <1>10, <1>b DEF TransitionAttempt
<1>11. ASSUME NEW auth, NEW j \in Jobs, FailJob(j, auth)
       PROVE  TerminalJobsSettled'
  BY <1>1, <1>3, <1>11 DEF FailJob
<1>12. ASSUME NEW auth, NEW j \in Jobs, NEW state, TransitionJob(j, state, auth)
       PROVE  TerminalJobsSettled'
  BY <1>3, <1>12 DEF TransitionJob
<1>13. ASSUME NEW j \in Jobs, NEW o, NEW g, ClaimJob(j, o, g)
       PROVE  TerminalJobsSettled'
  <2>1. CASE ClaimRunnable(j, g)
    <3>1. job' = [job EXCEPT ![j].state = "running"] /\ attempt' = NewestStarted(j, g)
      BY <2>1 DEF ClaimRunnable
    <3>2. job'[j].state = "running" /\ \A i \in Jobs \ {j} : job'[i] = job[i]
      BY <1>b, <3>1 DEF JobRow
    <3> SUFFICES ASSUME NEW a \in Attempts PROVE SettledAttempt(a)'
      BY DEF TerminalJobsSettled, SettledAttempt
    <3>3. CASE attempt[a].job = j
      <4>1. attempt'[a].job = j
        BY <1>a, <3>1, <3>3 DEF NewestStarted, AttemptRow
      <4> QED
        BY <3>2, <4>1 DEF SettledAttempt, JobTerminal
    <3>4. CASE attempt[a].job # j
      <4>1. attempt'[a] = attempt[a]
        BY <3>1, <3>4 DEF NewestStarted, NewestUnsettled, AttemptsOf
      <4> QED
        BY <1>a, <3>2, <3>4, <4>1 DEF SettledAttempt
    <3> QED
      BY <3>3, <3>4
  <2> QED
    BY <1>1, <1>13, <2>1 DEF ClaimJob, ClaimCancelled
<1>14. ASSUME NEW auth \in authorities, AttemptStep(auth)
       PROVE  TerminalJobsSettled'
  <2>1. ASSUME NEW a \in Attempts, StartAttempt(a, auth)
        PROVE  TerminalJobsSettled'
    BY <2>1, <1>a, <1>b DEF StartAttempt, TerminalJobsSettled, SettledAttempt, JobTerminal,
       AttemptRow
  <2>2. ASSUME NEW a \in Attempts, NEW b \in Attempts, TakeOverAttempt(a, b, auth)
        PROVE  TerminalJobsSettled'
    <3>1. CASE ~SettleClaimedCancellation(attempt[a].job)
      <4> DEFINE row == [NewAttempt(attempt[a].job, attempt[a].step) EXCEPT
                            !.state = "running", !.token = auth.generation]
      <4>1. /\ attempt' = [attempt EXCEPT ![a].state = "interrupted", ![b] = row]
            /\ UNCHANGED job
            /\ attempt[b].state = "absent" /\ attempt[a].state = "running"
        BY <2>2, <3>1 DEF TakeOverAttempt, NextAttempt
      <4>2. row.job = attempt[a].job
        BY DEF NewAttempt
      <4> HIDE DEF row
      <4> QED
        BY <1>a, <1>b, <4>1, <4>2 DEF TerminalJobsSettled, SettledAttempt, JobTerminal,
           AttemptRow
    <3> QED
      BY <1>1, <3>1
  <2>3. ASSUME NEW a \in Attempts, NEW c \in Challenges, PauseForExternalOutcome(a, c, auth)
        PROVE  TerminalJobsSettled'
    <3>1. CASE ~SettleClaimedCancellation(attempt[a].job)
      <4>1. attempt' = [attempt EXCEPT ![a].state = "needs_input"]
            /\ job' = [job EXCEPT ![attempt[a].job].state = "waiting_for_input"]
        BY <2>3, <3>1 DEF PauseForExternalOutcome, OpenChallenge
      <4> QED
        BY <1>a, <1>b, <4>1 DEF TerminalJobsSettled, SettledAttempt, JobTerminal,
           AttemptRow, JobRow
    <3> QED
      BY <1>1, <2>3, <3>1 DEF PauseForExternalOutcome
  <2>4. ASSUME NEW a \in Attempts, NEW c \in Challenges, CreateChallenge(auth.job, a, c)
        PROVE  TerminalJobsSettled'
    <3>1. auth.job \in Jobs
      BY AuthorityType DEF TypeOK
    <3>2. /\ job' = [job EXCEPT ![auth.job].state = "waiting_for_input"]
          /\ UNCHANGED attempt
      BY <2>4 DEF CreateChallenge, OpenChallenge
    <3>3. "waiting_for_input" \notin JobTerminal
      BY DEF JobTerminal
    <3> QED
      BY <1>3, <3>1, <3>2, <3>3
  <2> QED
    BY <1>8, <1>10, <1>14, <2>1, <2>2, <2>3, <2>4, AuthorityType DEF AttemptStep, TypeOK
<1>15. ASSUME NEW auth, OperationStep(auth)
       PROVE  TerminalJobsSettled'
  BY <1>0, <1>15 DEF OperationStep, PrepareOperation, StartOperation, FinishOperation,
     MarkOperationUnknown, ReconcileOperations
<1>16. ASSUME NEW auth \in authorities, EndStep(auth)
       PROVE  TerminalJobsSettled'
  <2>1. ASSUME NEW a \in Attempts, NEW state \in {"succeeded", "failed"},
               attempt[a].state = "running",
               \A b \in AttemptsOf(attempt[a].job) \ {a} : attempt[b].state \notin Unsettled,
               attempt' = [attempt EXCEPT ![a].state = state],
               job' = [job EXCEPT ![attempt[a].job].state = state]
        PROVE  TerminalJobsSettled'
    BY <2>1, <1>a, <1>b DEF TerminalJobsSettled, SettledAttempt, AttemptsOf, Unsettled,
       AttemptRow, JobRow
  <2>2. ASSUME NEW a \in Attempts, CommitResult(a, auth)
        PROVE  TerminalJobsSettled'
    BY <2>1, <2>2 DEF CommitResult, CommitGuard, ExecutionAuthority
  <2>3. ASSUME NEW a \in Attempts, FailJobWithAttempt(a, auth)
        PROVE  TerminalJobsSettled'
    BY <1>1, <2>1, <2>3 DEF FailJobWithAttempt, ExecutionAuthority
  <2> QED
    BY <1>11, <1>12, <1>16, <2>2, <2>3, AuthorityType DEF EndStep, TypeOK
<1>17. CASE UserStep
  BY <1>5, <1>6, <1>7, <1>17 DEF UserStep, CreateJob, CreateRetryJob
<1>18. CASE UnclaimedStep
  BY <1>8, <1>10, <1>11, <1>12, <1>18 DEF UnclaimedStep
<1>19. CASE ClaimStep
  BY <1>0, <1>13, <1>19 DEF ClaimStep, ExpireClaim, HeartbeatJobClaim, ReleaseJobClaim,
     RecordWorkerLaunch, ClearWorkerLaunches
<1> QED
  BY <1>0, <1>14, <1>15, <1>16, <1>17, <1>18, <1>19 DEF Next, vars

\* commit, failure, cancellation and transition_job may race with any call of any
\* process: none of them ends a Job over the head of an Attempt that runs.
THEOREM JobsEndSettled == Spec => []TerminalJobsSettled
<1>1. Init => TerminalJobsSettled
  BY DEF Init, TerminalJobsSettled
<1> QED
  BY <1>1, TerminalJobsSettledStep, TypeCorrect, PTL DEF Spec

-----------------------------------------------------------------------------
(* What a call may do to the row of an Attempt.                            *)

\* The generation an Attempt runs under was granted to a process.
Granted(a) == \E x \in authorities : x.job = attempt[a].job /\ x.generation = attempt[a].token

\* An Attempt that ended keeps its row; one that starts to run gets the generation
\* of an authority that was granted for its Job, and its Job is neither cancelled nor
\* ended; one that waits to run is only skipped or cancelled otherwise; a Job that
\* ended gets no new one.
StartsToRun(a) ==
    /\ Granted(a)'
    /\ ~job[attempt'[a].job].cancel
    /\ job[attempt'[a].job].state \in {"queued", "running"}

AttemptRowKept(a) ==
    /\ attempt[a].state \in AttemptTerminal => attempt'[a] = attempt[a]
    /\ attempt'[a].state = "running" =>
          \/ /\ attempt[a].state = "running"
             /\ attempt'[a].token = attempt[a].token /\ attempt'[a].job = attempt[a].job
          \/ StartsToRun(a)
    /\ attempt[a].state = "pending" =>
          attempt'[a].state \in {"pending", "running", "skipped", "cancelled"}
    /\ attempt[a].state = "absent" /\ attempt'[a] # attempt[a] =>
          job[attempt'[a].job].state \notin JobTerminal

\* _transition_attempts_to_cancelled leaves Attempts that ended alone and starts none.
LEMMA AttemptsCancelledRows ==
    ASSUME TypeOK, NEW j, NEW states, states \subseteq Unsettled,
           attempt' = AttemptsCancelled(j, states), NEW a \in Attempts
    PROVE  AttemptRowKept(a)
<1>1. attempt[a] \in AttemptRow
  BY DEF TypeOK, TablesOK
<1>2. attempt'[a] = IF attempt[a].job = j /\ attempt[a].state \in states
                    THEN [attempt[a] EXCEPT !.state = "cancelled"]
                    ELSE attempt[a]
  BY DEF AttemptsCancelled
<1>3. CASE attempt'[a] = attempt[a]
  BY <1>3 DEF AttemptRowKept
<1>4. CASE attempt'[a] = [attempt[a] EXCEPT !.state = "cancelled"] /\ attempt[a].state \in Unsettled
  BY <1>1, <1>4 DEF AttemptRowKept, AttemptRow, Unsettled, AttemptTerminal
<1> QED
  BY <1>2, <1>3, <1>4

\* start_attempt, claim_job and takeover are the only calls that start an Attempt.
LEMMA AttemptRowStep ==
    ASSUME TypeOK, [Next]_vars, NEW a \in Attempts
    PROVE  AttemptRowKept(a)
<1> DEFINE Goal == AttemptRowKept(a)
<1>0. ASSUME attempt'[a] = attempt[a]
      PROVE  Goal
  BY <1>0 DEF AttemptRowKept
<1>1. ASSUME NEW j, SettleClaimedCancellation(j)
      PROVE  Goal
  BY <1>1, AttemptsCancelledRows DEF SettleClaimedCancellation
<1>2. ASSUME NEW b \in Attempts, NEW row, attempt[b].state = "absent",
             row.state = "pending", job[row.job].state \notin JobTerminal,
             attempt' = [attempt EXCEPT ![b] = row]
      PROVE  Goal
  <2>1. CASE a = b
    BY <1>2, <2>1 DEF AttemptRowKept, AttemptTerminal, TypeOK, TablesOK
  <2> QED
    BY <1>0, <1>2, <2>1 DEF TypeOK, TablesOK
<1>3. ASSUME NEW b \in Attempts, NEW state \in AttemptTerminal, attempt[b].state \in Unsettled,
             attempt[b].state = "pending" => state \in {"skipped", "cancelled"},
             attempt' = [attempt EXCEPT ![b].state = state]
      PROVE  Goal
  <2>1. CASE a = b
    BY <1>3, <2>1 DEF AttemptRowKept, AttemptTerminal, Unsettled, TypeOK, TablesOK, AttemptRow
  <2> QED
    BY <1>0, <1>3, <2>1 DEF TypeOK, TablesOK
<1>4. ASSUME NEW j, CancelJob(j)
      PROVE  Goal
  BY <1>0, <1>4, AttemptsCancelledRows DEF CancelJob, CancelActiveJob, CancelCancelledJob, Unsettled
<1>5. ASSUME NEW c, NEW b \in Attempts, RespondChallenge(c, b)
      PROVE  Goal
  <2> DEFINE row == NewAttempt(challenge[c].job, attempt[challenge[c].attempt].step)
  <2>1. /\ attempt' = [attempt EXCEPT ![b] = row] /\ attempt[b].state = "absent"
        /\ job[challenge[c].job].state \notin JobTerminal
    BY <1>5 DEF RespondChallenge, NextAttempt, JobTerminal
  <2>2. row.state = "pending" /\ row.job = challenge[c].job
    BY DEF NewAttempt
  <2> QED
    BY <1>2, <2>1, <2>2
<1>6. ASSUME NEW auth, NEW j, NEW s, NEW b \in Attempts, CreateAttempt(j, s, b, auth)
      PROVE  Goal
  <2>1. NewAttempt(j, s).job = j /\ NewAttempt(j, s).state = "pending"
    BY DEF NewAttempt
  <2> QED
    BY <1>2, <1>6, <2>1 DEF CreateAttempt, NextAttempt
<1>7. ASSUME NEW auth, NEW b \in Attempts, NEW state \in AttemptTerminal,
             TransitionAttempt(b, state, auth)
      PROVE  Goal
  <2>1. /\ attempt[b].state \in Unsettled
        /\ attempt[b].state = "pending" => state \in {"skipped", "cancelled"}
    BY <1>7 DEF TransitionAttempt, LegalAttemptTransitions, Unsettled
  <2> QED
    BY <1>3, <1>7, <2>1 DEF TransitionAttempt
<1>8. ASSUME NEW auth, NEW j, FailJob(j, auth)
      PROVE  Goal
  BY <1>0, <1>1, <1>8 DEF FailJob
<1>9. ASSUME NEW j \in Jobs, NEW o, NEW g, ClaimJob(j, o, g)
      PROVE  Goal
  <2>1. CASE ClaimRunnable(j, g)
    <3>1. attempt'[a] = IF a \in NewestUnsettled(j) /\ attempt[a].state = "pending"
                        THEN [attempt[a] EXCEPT !.state = "running", !.token = g]
                        ELSE attempt[a]
      BY <2>1 DEF ClaimRunnable, NewestStarted
    <3>2. CASE a \in NewestUnsettled(j) /\ attempt[a].state = "pending"
      <4>1. /\ attempt'[a].job = j /\ attempt'[a].token = g /\ attempt'[a].state = "running"
            /\ attempt[a].state \notin AttemptTerminal
        BY <3>1, <3>2 DEF NewestUnsettled, AttemptsOf, AttemptTerminal, TypeOK, TablesOK, AttemptRow
      <4>2. [job |-> j, owner |-> o, generation |-> g] \in authorities'
        BY <1>9 DEF ClaimJob
      <4>3. ~job[j].cancel /\ job[j].state \in {"queued", "running"}
        BY <1>9, <2>1 DEF ClaimJob, ClaimRunnable
      <4> QED
        BY <3>2, <4>1, <4>2, <4>3 DEF AttemptRowKept, StartsToRun, Granted
    <3> QED
      BY <1>0, <3>1, <3>2
  <2> QED
    BY <1>1, <1>9, <2>1 DEF ClaimJob, ClaimCancelled
<1>10. ASSUME NEW auth \in authorities, AttemptStep(auth)
       PROVE  Goal
  <2>1. ASSUME NEW b \in Attempts, StartAttempt(b, auth)
        PROVE  Goal
    <3>1. CASE a = b
      <4>1. /\ attempt'[a].job = auth.job /\ attempt'[a].token = auth.generation
            /\ attempt[a].state = "pending" /\ attempt'[a].state = "running"
            /\ auth \in authorities'
        BY <2>1, <3>1 DEF StartAttempt, JobAuthority, TypeOK, TablesOK, AttemptRow
      <4>2. ~job[auth.job].cancel /\ job[auth.job].state = "running"
        BY <2>1, <3>1 DEF StartAttempt, JobAuthority
      <4> QED
        BY <4>1, <4>2 DEF AttemptRowKept, StartsToRun, Granted, AttemptTerminal
    <3> QED
      BY <1>0, <2>1, <3>1 DEF StartAttempt, TypeOK, TablesOK
  <2>2. ASSUME NEW b \in Attempts, NEW c \in Attempts, TakeOverAttempt(b, c, auth)
        PROVE  Goal
    <3>1. CASE ~SettleClaimedCancellation(attempt[b].job)
      <4> DEFINE row == [NewAttempt(attempt[b].job, attempt[b].step) EXCEPT
                            !.state = "running", !.token = auth.generation]
      <4>1. /\ attempt' = [attempt EXCEPT ![b].state = "interrupted", ![c] = row]
            /\ attempt[c].state = "absent" /\ attempt[b].state = "running"
            /\ auth.job = attempt[b].job /\ auth \in authorities'
            /\ ~job[auth.job].cancel /\ job[auth.job].state = "running"
        BY <2>2, <3>1 DEF TakeOverAttempt, NextAttempt, JobAuthority
      <4>2. row.job = auth.job /\ row.token = auth.generation
        BY <4>1 DEF NewAttempt
      <4> HIDE DEF row
      <4>3. CASE a = c
        BY <4>1, <4>2, <4>3 DEF AttemptRowKept, StartsToRun, Granted, AttemptTerminal, JobTerminal,
           TypeOK, TablesOK
      <4>4. CASE a = b /\ a # c
        BY <4>1, <4>4 DEF AttemptRowKept, AttemptTerminal, TypeOK, TablesOK, AttemptRow
      <4> QED
        BY <1>0, <4>1, <4>3, <4>4 DEF TypeOK, TablesOK
    <3> QED
      BY <1>1, <3>1
  <2>3. ASSUME NEW b \in Attempts, NEW c, PauseForExternalOutcome(b, c, auth)
        PROVE  Goal
    <3>1. /\ attempt[b].state \in Unsettled /\ attempt[b].state # "pending"
          /\ "needs_input" \in AttemptTerminal
      BY <2>3 DEF PauseForExternalOutcome, ExecutionAuthority, Unsettled, AttemptTerminal
    <3> QED
      BY <1>1, <1>3, <2>3, <3>1 DEF PauseForExternalOutcome
  <2> QED
    BY <1>0, <1>6, <1>7, <1>10, <2>1, <2>2, <2>3 DEF AttemptStep, CreateChallenge
<1>11. ASSUME NEW auth, OperationStep(auth)
       PROVE  Goal
  BY <1>0, <1>11 DEF OperationStep, PrepareOperation, StartOperation, FinishOperation,
     MarkOperationUnknown, ReconcileOperations
<1>12. ASSUME NEW auth, EndStep(auth)
       PROVE  Goal
  <2>1. ASSUME NEW b \in Attempts, NEW state \in {"succeeded", "failed"},
               attempt[b].state = "running",
               attempt' = [attempt EXCEPT ![b].state = state]
        PROVE  Goal
    BY <1>3, <2>1 DEF Unsettled, AttemptTerminal
  <2> QED
    BY <1>0, <1>1, <1>8, <1>12, <2>1 DEF EndStep, CommitResult, CommitGuard,
       ExecutionAuthority, FailJobWithAttempt, TransitionJob
<1>13. CASE UserStep
  BY <1>0, <1>4, <1>5, <1>13 DEF UserStep, CreateJob, CreateRetryJob
<1>14. CASE UnclaimedStep
  BY <1>0, <1>6, <1>7, <1>8, <1>14 DEF UnclaimedStep, TransitionJob
<1>15. CASE ClaimStep
  BY <1>0, <1>9, <1>15 DEF ClaimStep, ExpireClaim, HeartbeatJobClaim, ReleaseJobClaim,
     RecordWorkerLaunch, ClearWorkerLaunches
<1> QED
  BY <1>0, <1>10, <1>11, <1>12, <1>13, <1>14, <1>15 DEF Next, vars

\* claim_job and takeover never forget whom they granted a generation.
LEMMA AuthoritiesGrow == [Next]_vars => authorities \subseteq authorities'
<1> SUFFICES ASSUME [Next]_vars PROVE authorities \subseteq authorities'
  OBVIOUS
<1>1. CASE UserStep \/ UnclaimedStep
  BY <1>1 DEF UserStep, CreateJob, CreateRetryJob, CancelJob, CancelActiveJob,
     CancelCancelledJob, RespondChallenge, UnclaimedStep, CreateAttempt, TransitionAttempt,
     FailJob, TransitionJob
<1>2. CASE ClaimStep
  BY <1>2 DEF ClaimStep, ClaimJob, ExpireClaim, HeartbeatJobClaim, ReleaseJobClaim,
     RecordWorkerLaunch, ClearWorkerLaunches
<1>3. CASE \E auth \in authorities : AttemptStep(auth)
  BY <1>3 DEF AttemptStep, CreateAttempt, StartAttempt, TakeOverAttempt, TransitionAttempt,
     PauseForExternalOutcome, CreateChallenge, OpenChallenge
<1>4. CASE \E auth \in authorities : OperationStep(auth)
  BY <1>4 DEF OperationStep, PrepareOperation, StartOperation, FinishOperation,
     MarkOperationUnknown, ReconcileOperations
<1>5. CASE \E auth \in authorities : EndStep(auth)
  BY <1>5 DEF EndStep, CommitResult, FailJobWithAttempt, FailJob, TransitionJob
<1> QED
  BY <1>1, <1>2, <1>3, <1>4, <1>5 DEF Next, vars

\* Whatever is lost and taken over, the generation an Attempt runs under is one that
\* claim_job handed out for its Job: the next claim can tell that it is newer.
THEOREM RunningAttemptsAreClaimed == Spec => []RunningAttemptsClaimed
<1>1. Init => RunningAttemptsClaimed
  BY DEF Init, RunningAttemptsClaimed
<1>2. TypeOK /\ RunningAttemptsClaimed /\ [Next]_vars => RunningAttemptsClaimed'
  BY AttemptRowStep, AuthoritiesGrow DEF RunningAttemptsClaimed, AttemptRowKept, StartsToRun,
     Granted
<1> QED
  BY <1>1, <1>2, TypeCorrect, PTL DEF Spec

-----------------------------------------------------------------------------
(* Challenges.                                                             *)

\* The rows of challenges are an inductive invariant together: an answer is an
\* Attempt that exists, so no later answer can be given the same id.
AnswersExist ==
    \A c \in Challenges : challenge[c].state = "consumed" => AttemptExists(challenge[c].response)

ChallengeInv == ChallengesCoherent /\ AnswersExist

\* What a call may do to the challenges table: a pending Challenge is closed, a
\* Challenge is answered by a new Attempt of its step, or a Job that has none pending
\* gets one about an Attempt that stopped to ask.
ChallengeClosed(c) ==
    /\ challenge[c].state = "pending"
    /\ challenge'[c] = [challenge[c] EXCEPT !.state = "cancelled"]

ChallengesClosed ==
    \A c \in Challenges : challenge'[c] = challenge[c] \/ ChallengeClosed(c)

ChallengeAnswered(c, b) ==
    /\ challenge[c].state \in {"pending", "cancelled"}
    /\ challenge' = [challenge EXCEPT ![c].state = "consumed", ![c].response = b]
    /\ attempt[b].state = "absent" /\ attempt'[b].state # "absent"
    /\ attempt'[b].job = challenge[c].job
    /\ attempt'[b].step = attempt[challenge[c].attempt].step

ChallengeOpened(c, j, a) ==
    /\ challenge[c].state = "absent" /\ NoPendingChallenge(j)
    /\ challenge' = [challenge EXCEPT ![c] = [job |-> j, attempt |-> a,
                         state |-> "pending", response |-> Nobody]]
    /\ attempt'[a].state = "needs_input" /\ attempt'[a].job = j

\* create_challenge, pause_for_external_outcome_atomic, respond_challenge_atomic and
\* cancel_job are the only calls that write challenges.
LEMMA ChallengeTableStep ==
    TypeOK /\ [Next]_vars =>
        \/ ChallengesClosed
        \/ \E c \in Challenges, b \in Attempts : ChallengeAnswered(c, b)
        \/ \E c \in Challenges, j \in Jobs, a \in Attempts : ChallengeOpened(c, j, a)
<1> DEFINE Goal == \/ ChallengesClosed
                   \/ \E c \in Challenges, b \in Attempts : ChallengeAnswered(c, b)
                   \/ \E c \in Challenges, j \in Jobs, a \in Attempts : ChallengeOpened(c, j, a)
<1> SUFFICES ASSUME TypeOK, [Next]_vars PROVE Goal
  OBVIOUS
<1>0. ASSUME UNCHANGED challenge
      PROVE  Goal
  BY <1>0 DEF ChallengesClosed
<1>1. ASSUME NEW j, CancelJob(j)
      PROVE  Goal
  <2>1. CASE challenge' = PendingChallengesCancelled(j)
    <3>1. ASSUME NEW c \in Challenges
          PROVE  challenge'[c] = challenge[c] \/ ChallengeClosed(c)
      BY <2>1 DEF PendingChallengesCancelled, ChallengeClosed
    <3> QED
      BY <3>1 DEF ChallengesClosed
  <2> QED
    BY <1>1, <2>1 DEF CancelJob, CancelActiveJob, CancelCancelledJob
<1>2. ASSUME NEW c \in Challenges, NEW b \in Attempts, RespondChallenge(c, b)
      PROVE  Goal
  <2> DEFINE row == NewAttempt(challenge[c].job, attempt[challenge[c].attempt].step)
  <2>1. /\ challenge' = [challenge EXCEPT ![c].state = "consumed", ![c].response = b]
        /\ attempt' = [attempt EXCEPT ![b] = row]
        /\ challenge[c].state \in {"pending", "cancelled"} /\ attempt[b].state = "absent"
    BY <1>2 DEF RespondChallenge, NextAttempt
  <2>2. /\ row.state = "pending" /\ row.job = challenge[c].job
        /\ row.step = attempt[challenge[c].attempt].step
    BY DEF NewAttempt
  <2> HIDE DEF row
  <2>3. attempt'[b] = row
    BY <2>1 DEF TypeOK, TablesOK
  <2>4. ChallengeAnswered(c, b)
    BY <2>1, <2>2, <2>3 DEF ChallengeAnswered
  <2> QED
    BY <2>4
<1>3. CASE UserStep
  BY <1>0, <1>1, <1>2, <1>3 DEF UserStep, CreateJob, CreateRetryJob
<1>4. CASE UnclaimedStep
  BY <1>0, <1>4 DEF UnclaimedStep, CreateAttempt, TransitionAttempt, FailJob, TransitionJob
<1>5. CASE ClaimStep
  BY <1>0, <1>5 DEF ClaimStep, ClaimJob, ExpireClaim, HeartbeatJobClaim, ReleaseJobClaim,
     RecordWorkerLaunch, ClearWorkerLaunches
<1>6. ASSUME NEW auth \in authorities, AttemptStep(auth)
      PROVE  Goal
  <2>1. ASSUME NEW a \in Attempts, NEW c \in Challenges, PauseForExternalOutcome(a, c, auth)
        PROVE  Goal
    <3>1. CASE UNCHANGED challenge
      BY <1>0, <3>1
    <3>2. CASE /\ attempt' = [attempt EXCEPT ![a].state = "needs_input"]
               /\ OpenChallenge(c, attempt[a].job, a)
      <4>1. attempt[a].job \in Jobs
        BY <2>1 DEF PauseForExternalOutcome, ExecutionAuthority, TypeOK, ForeignKeys
      <4>2. attempt'[a].state = "needs_input" /\ attempt'[a].job = attempt[a].job
        BY <3>2 DEF TypeOK, TablesOK, AttemptRow
      <4>3. ChallengeOpened(c, attempt[a].job, a)
        BY <3>2, <4>2 DEF ChallengeOpened, OpenChallenge
      <4> QED
        BY <4>1, <4>3
    <3> QED
      BY <2>1, <3>1, <3>2 DEF PauseForExternalOutcome
  <2>2. ASSUME NEW a \in Attempts, NEW c \in Challenges, CreateChallenge(auth.job, a, c)
        PROVE  Goal
    <3>1. ChallengeOpened(c, auth.job, a)
      BY <2>2 DEF CreateChallenge, ChallengeOpened, OpenChallenge
    <3> QED
      BY <3>1, AuthorityType DEF TypeOK
  <2> QED
    BY <1>0, <1>6, <2>1, <2>2 DEF AttemptStep, CreateAttempt, StartAttempt,
       TakeOverAttempt, TransitionAttempt
<1>7. ASSUME NEW auth \in authorities, OperationStep(auth)
      PROVE  Goal
  BY <1>0, <1>7 DEF OperationStep, PrepareOperation, StartOperation, FinishOperation,
     MarkOperationUnknown, ReconcileOperations
<1>8. ASSUME NEW auth \in authorities, EndStep(auth)
      PROVE  Goal
  BY <1>0, <1>8 DEF EndStep, CommitResult, FailJobWithAttempt, FailJob, TransitionJob
<1> QED
  BY <1>0, <1>3, <1>4, <1>5, <1>6, <1>7, <1>8 DEF Next, vars

\* The parts of ChallengeInv about one Challenge.
CarriedByItsAttempt(c) ==
    /\ challenge[c].state # "absent" =>
          /\ attempt[challenge[c].attempt].state = "needs_input"
          /\ attempt[challenge[c].attempt].job = challenge[c].job
    /\ challenge[c].state = "consumed" =>
          /\ AttemptExists(challenge[c].response)
          /\ attempt[challenge[c].response].job = challenge[c].job
          /\ attempt[challenge[c].response].step = attempt[challenge[c].attempt].step

\* A Challenge whose row is kept, or closed, stays coherent whatever happens to the
\* Attempts: those it names exist, and the one that asked has ended.
LEMMA CarriedChallengesKept ==
    ASSUME TypeOK, [Next]_vars, NEW c \in Challenges, CarriedByItsAttempt(c),
           challenge'[c] = challenge[c] \/ ChallengeClosed(c)
    PROVE  CarriedByItsAttempt(c)'
<1>1. challenge[c] \in ChallengeRow
  BY DEF TypeOK, TablesOK
<1>2. CASE challenge'[c].state = "absent"
  BY <1>2 DEF CarriedByItsAttempt
<1>3. CASE challenge'[c].state # "absent"
  <2>1. /\ challenge[c].state # "absent"
        /\ challenge'[c].job = challenge[c].job
        /\ challenge'[c].attempt = challenge[c].attempt
        /\ challenge'[c].response = challenge[c].response
        /\ challenge'[c].state = "consumed" => challenge[c].state = "consumed"
    BY <1>1, <1>3 DEF ChallengeClosed, ChallengeRow
  <2>2. AttemptExists(challenge[c].attempt)
    BY <2>1 DEF TypeOK, ForeignKeys
  <2>3. attempt'[challenge[c].attempt] = attempt[challenge[c].attempt]
    BY <2>1, <2>2, AttemptRowStep DEF CarriedByItsAttempt, AttemptRowKept, AttemptTerminal,
       AttemptExists
  <2>4. AttemptKeysKept
    BY AttemptKeysStep
  <2> QED
    BY <2>1, <2>2, <2>3, <2>4 DEF CarriedByItsAttempt, AttemptExists, AttemptKeysKept
<1> QED
  BY <1>2, <1>3

\* Pending Challenges stay one per Job, and answers one per Attempt.
LEMMA ChallengeStep == TypeOK /\ ChallengeInv /\ [Next]_vars => ChallengeInv'
<1> SUFFICES ASSUME TypeOK, ChallengeInv, [Next]_vars PROVE ChallengeInv'
  OBVIOUS
<1>a. challenge \in [Challenges -> ChallengeRow]
  BY DEF TypeOK, TablesOK
<1>b. \A c \in Challenges : CarriedByItsAttempt(c)
  BY DEF ChallengeInv, ChallengesCoherent, AnswersExist, CarriedByItsAttempt
<1> DEFINE OnePending == \A c, d \in Challenges :
              /\ challenge[c].state = "pending" /\ challenge[d].state = "pending"
              /\ challenge[c].job = challenge[d].job
              => c = d
           OneAnswer == \A c, d \in Challenges :
              /\ challenge[c].state = "consumed" /\ challenge[d].state = "consumed"
              /\ challenge[c].response = challenge[d].response
              => c = d
<1>c. OnePending /\ OneAnswer
  BY DEF ChallengeInv, ChallengesCoherent
<1>0. SUFFICES OnePending' /\ OneAnswer' /\ \A c \in Challenges : CarriedByItsAttempt(c)'
  BY DEF ChallengeInv, ChallengesCoherent, AnswersExist, CarriedByItsAttempt
<1>1. CASE ChallengesClosed
  <2>1. \A c \in Challenges : CarriedByItsAttempt(c)'
    BY <1>1, <1>b, CarriedChallengesKept DEF ChallengesClosed
  <2>2. ASSUME NEW c \in Challenges
        PROVE  /\ challenge'[c].job = challenge[c].job
               /\ challenge'[c].response = challenge[c].response
               /\ challenge'[c].state = challenge[c].state \/ challenge'[c].state = "cancelled"
    <3>1. challenge[c] \in ChallengeRow
      BY <1>a
    <3>2. challenge'[c] = challenge[c] \/ ChallengeClosed(c)
      BY <1>1 DEF ChallengesClosed
    <3> QED
      BY <3>1, <3>2 DEF ChallengeClosed, ChallengeRow
  <2> QED
    BY <1>c, <2>1, <2>2
<1>2. ASSUME NEW c \in Challenges, NEW b \in Attempts, ChallengeAnswered(c, b)
      PROVE  OnePending' /\ OneAnswer' /\ \A d \in Challenges : CarriedByItsAttempt(d)'
  <2>1. /\ challenge'[c].state = "consumed" /\ challenge'[c].response = b
        /\ challenge'[c].job = challenge[c].job /\ challenge'[c].attempt = challenge[c].attempt
        /\ \A d \in Challenges \ {c} : challenge'[d] = challenge[d]
    BY <1>2, <1>a DEF ChallengeAnswered, ChallengeRow
  <2>2. \A d \in Challenges : challenge[d].state = "consumed" => challenge[d].response # b
    BY <1>2, <1>b DEF CarriedByItsAttempt, AttemptExists, ChallengeAnswered
  <2>3. CarriedByItsAttempt(c)'
    <3>1. challenge[c].state # "absent" /\ AttemptExists(challenge[c].attempt)
      BY <1>2 DEF ChallengeAnswered, TypeOK, ForeignKeys
    <3>2. attempt'[challenge[c].attempt] = attempt[challenge[c].attempt]
      BY <3>1, <1>b, AttemptRowStep DEF CarriedByItsAttempt, AttemptRowKept, AttemptTerminal,
         AttemptExists
    <3> QED
      BY <1>2, <1>b, <2>1, <3>1, <3>2 DEF CarriedByItsAttempt, ChallengeAnswered, AttemptExists
  <2>4. \A d \in Challenges : CarriedByItsAttempt(d)'
    BY <1>b, <2>1, <2>3, CarriedChallengesKept
  <2> QED
    BY <1>c, <2>1, <2>2, <2>4
<1>3. ASSUME NEW c \in Challenges, NEW j \in Jobs, NEW a \in Attempts, ChallengeOpened(c, j, a)
      PROVE  OnePending' /\ OneAnswer' /\ \A d \in Challenges : CarriedByItsAttempt(d)'
  <2>1. /\ challenge'[c].state = "pending" /\ challenge'[c].attempt = a
        /\ challenge'[c].job = j
        /\ \A d \in Challenges \ {c} : challenge'[d] = challenge[d]
    BY <1>3, <1>a DEF ChallengeOpened
  <2>2. \A d \in Challenges \ {c} : CarriedByItsAttempt(d)'
    BY <1>b, <2>1, CarriedChallengesKept
  <2>3. CarriedByItsAttempt(c)'
    BY <1>3, <2>1 DEF ChallengeOpened, CarriedByItsAttempt
  <2> QED
    BY <1>3, <1>c, <2>1, <2>2, <2>3 DEF ChallengeOpened, NoPendingChallenge
<1> QED
  BY <1>1, <1>2, <1>3, ChallengeTableStep

\* Whichever processes pause a Job and however answers race with cancellation, the
\* user is asked one thing at a time and each answer is worth one Attempt.
THEOREM ChallengesStayCoherent == Spec => []ChallengesCoherent
<1>1. Init => ChallengeInv
  BY DEF Init, ChallengeInv, ChallengesCoherent, AnswersExist
<1>2. ChallengeInv => ChallengesCoherent
  BY DEF ChallengeInv
<1> QED
  BY <1>1, <1>2, ChallengeStep, TypeCorrect, PTL DEF Spec

-----------------------------------------------------------------------------
(* The budget of paid calls.                                               *)

\* Every call of one request, in whatever state.
CallsOf(j, s, r) == SiblingsIn(j, s, r, OperationStates)

\* The inductive invariant counts the calls of every request there can be, and says
\* that an id no row uses yet belongs to no Job.
BudgetInv ==
    /\ \A o \in Operations : operation[o].state = "absent" => operation[o].job = Nobody
    /\ \A j \in Jobs, s \in Steps \cup {Nobody}, r \in Requests \cup {Nobody} :
          IsFiniteSet(CallsOf(j, s, r)) /\ Cardinality(CallsOf(j, s, r)) =< CallBudget

\* A call that makes no row leaves the calls of every request what they were.
LEMMA CallsKept ==
    ASSUME BudgetInv,
           \A o \in Operations :
              /\ operation'[o].job = operation[o].job
              /\ operation'[o].step = operation[o].step
              /\ operation'[o].request = operation[o].request
              /\ operation[o].state \in OperationStates /\ operation'[o].state \in OperationStates
              /\ operation'[o].state = "absent" => operation[o].state = "absent"
    PROVE  BudgetInv'
<1>1. ASSUME NEW j, NEW s, NEW r
      PROVE  CallsOf(j, s, r)' = CallsOf(j, s, r)
  BY DEF CallsOf, SiblingsIn, OperationsOf
<1> QED
  BY <1>1 DEF BudgetInv

\* prepare_external_operation counts the failed calls of the request before it makes
\* another, and refuses over any call that did not fail.
LEMMA BudgetStep == TypeOK /\ BudgetInv /\ [Next]_vars => BudgetInv'
<1> SUFFICES ASSUME TypeOK, BudgetInv, [Next]_vars PROVE BudgetInv'
  OBVIOUS
<1>a. operation \in [Operations -> OperationRow]
  BY DEF TypeOK, TablesOK
<1>0. ASSUME UNCHANGED operation
      PROVE  BudgetInv'
  BY <1>0, <1>a, CallsKept DEF OperationRow
<1>1. ASSUME NEW lost, operation' = StartedBecomeUnknown(lost)
      PROVE  BudgetInv'
  <2>1. ASSUME NEW o \in Operations
        PROVE  /\ operation'[o].job = operation[o].job
               /\ operation'[o].step = operation[o].step
               /\ operation'[o].request = operation[o].request
               /\ operation[o].state \in OperationStates
               /\ operation'[o].state \in OperationStates
               /\ operation'[o].state = "absent" => operation[o].state = "absent"
    <3>1. operation[o] \in OperationRow
      BY <1>a
    <3>2. operation'[o] = IF o \in lost /\ operation[o].state = "started"
                          THEN [operation[o] EXCEPT !.state = "unknown"]
                          ELSE operation[o]
      BY <1>1 DEF StartedBecomeUnknown
    <3> QED
      BY <3>1, <3>2 DEF OperationRow, OperationStates
  <2> QED
    BY <2>1, CallsKept
<1>2. ASSUME NEW j, SettleClaimedCancellation(j)
      PROVE  BudgetInv'
  BY <1>1, <1>2 DEF SettleClaimedCancellation
<1>3. ASSUME NEW p \in Operations, NEW state \in OperationStates \ {"absent"},
             operation' = [operation EXCEPT ![p].state = state]
      PROVE  BudgetInv'
  BY <1>3, <1>a, CallsKept DEF OperationRow
<1>4. ASSUME NEW p \in Operations, NEW a \in Attempts, NEW r \in Requests,
             NEW auth, PrepareOperation(p, a, r, auth)
      PROVE  BudgetInv'
  <2> DEFINE j == attempt[a].job
             s == attempt[a].step
             row == [job |-> j, step |-> s, request |-> r, attempt |-> a, state |-> "prepared"]
  <2>a. j \in Jobs /\ s \in Steps
    BY <1>4 DEF PrepareOperation, MayPrepare, ExecutionAuthority, TypeOK, ForeignKeys
  <2>1. CASE /\ SiblingsIn(j, s, r, {"prepared"}) = {}
             /\ operation[p].state = "absent"
             /\ operation' = [operation EXCEPT ![p] = row]
    <3>1. /\ SiblingsIn(j, s, r, {"unknown", "started", "succeeded"}) = {}
          /\ Cardinality(SiblingsIn(j, s, r, {"failed"})) < CallBudget
      BY <1>4 DEF PrepareOperation, MayPrepare
    <3>2. row.job = j /\ row.step = s /\ row.request = r /\ row.state = "prepared"
      OBVIOUS
    <3>3. /\ operation'[p] = row
          /\ \A o \in Operations \ {p} : operation'[o] = operation[o]
      BY <2>1, <1>a
    <3> HIDE DEF row
    <3>4. p \notin CallsOf(j, s, r) /\ operation[p].job = Nobody
      BY <2>1, <2>a, JobStoreAssumption DEF BudgetInv, CallsOf, SiblingsIn, OperationsOf
    <3>5. CallsOf(j, s, r) = SiblingsIn(j, s, r, {"failed"})
      <4>1. ASSUME NEW o \in CallsOf(j, s, r)
            PROVE  operation[o].state = "failed"
        <5>1. o \in Operations /\ operation[o].job = j /\ operation[o].state \in OperationStates
          BY DEF CallsOf, SiblingsIn, OperationsOf
        <5>2. operation[o].state # "absent"
          BY <5>1, <2>a, JobStoreAssumption DEF BudgetInv
        <5>3. operation[o].state \notin {"prepared", "unknown", "started", "succeeded"}
          BY <2>1, <3>1, <5>1 DEF CallsOf, SiblingsIn, OperationsOf
        <5> QED
          BY <5>1, <5>2, <5>3 DEF OperationStates
      <4>2. "failed" \in OperationStates
        BY DEF OperationStates
      <4> HIDE DEF j, s
      <4> QED
        BY <4>1, <4>2 DEF CallsOf, SiblingsIn
    <3>6. CallsOf(j, s, r)' = CallsOf(j, s, r) \cup {p}
      <4>0. attempt' = attempt
        BY <1>4 DEF PrepareOperation
      <4>1. ASSUME NEW o
            PROVE  o \in CallsOf(j, s, r)' <=> o \in CallsOf(j, s, r) \cup {p}
        BY <3>2, <3>3, <4>0 DEF CallsOf, SiblingsIn, OperationsOf, OperationStates
      <4> QED
        BY <4>1
    <3>7. ASSUME NEW k \in Jobs, NEW t, NEW q, <<k, t, q>> # <<j, s, r>>
          PROVE  CallsOf(k, t, q)' = CallsOf(k, t, q)
      <4>1. ASSUME NEW o \in Operations
            PROVE  o \in CallsOf(k, t, q)' <=> o \in CallsOf(k, t, q)
        <5>1. CASE o = p
          BY <5>1, <3>2, <3>3, <3>4, <3>7, JobStoreAssumption DEF CallsOf, SiblingsIn, OperationsOf
        <5>2. CASE o # p
          BY <5>2, <3>3 DEF CallsOf, SiblingsIn, OperationsOf
        <5> QED
          BY <5>1, <5>2
      <4> QED
        BY <4>1 DEF CallsOf, SiblingsIn, OperationsOf
    <3>8. attempt' = attempt
      BY <1>4 DEF PrepareOperation
    <3>9. IsFiniteSet(CallsOf(j, s, r))
      BY <2>a DEF BudgetInv
    <3>10. /\ IsFiniteSet(CallsOf(j, s, r)')
           /\ Cardinality(CallsOf(j, s, r)') = Cardinality(CallsOf(j, s, r)) + 1
      BY <3>4, <3>6, <3>9, FS_AddElement
    <3>11. Cardinality(CallsOf(j, s, r)') =< CallBudget
      BY <3>1, <3>5, <3>9, <3>10, FS_CardinalityType, JobStoreAssumption
    <3>12. \A o \in Operations : operation'[o].state = "absent" => operation'[o].job = Nobody
      BY <3>2, <3>3 DEF BudgetInv
    <3>13. ASSUME NEW k \in Jobs, NEW t \in Steps \cup {Nobody}, NEW q \in Requests \cup {Nobody}
           PROVE  IsFiniteSet(CallsOf(k, t, q)') /\ Cardinality(CallsOf(k, t, q)') =< CallBudget
      <4>1. CASE k = j /\ t = s /\ q = r
        BY <3>8, <3>10, <3>11, <4>1
      <4>2. CASE <<k, t, q>> # <<j, s, r>>
        BY <3>7, <4>2 DEF BudgetInv
      <4> QED
        BY <4>1, <4>2
    <3> QED
      BY <3>12, <3>13 DEF BudgetInv
  <2>2. CASE operation' = [operation EXCEPT ![p].attempt = a]
    BY <2>2, <1>a, CallsKept DEF OperationRow
  <2> QED
    BY <1>4, <2>1, <2>2 DEF PrepareOperation
<1>5. ASSUME NEW auth, OperationStep(auth)
      PROVE  BudgetInv'
  <2>1. ASSUME NEW p \in Operations,
               \/ StartOperation(p, auth)
               \/ \E outcome \in {"succeeded", "failed"} : FinishOperation(p, outcome, auth)
               \/ MarkOperationUnknown(p, auth)
        PROVE  BudgetInv'
    BY <1>3, <2>1 DEF StartOperation, FinishOperation, MarkOperationUnknown, OperationStates
  <2>2. CASE ReconcileOperations(auth)
    BY <1>1, <2>2 DEF ReconcileOperations
  <2> QED
    BY <1>4, <1>5, <2>1, <2>2 DEF OperationStep
<1>6. ASSUME NEW auth, NEW j, FailJob(j, auth)
      PROVE  BudgetInv'
  BY <1>0, <1>2, <1>6 DEF FailJob
<1>7. CASE UserStep
  BY <1>0, <1>7 DEF UserStep, CreateJob, CreateRetryJob, CancelJob, CancelActiveJob,
     CancelCancelledJob, RespondChallenge
<1>8. CASE UnclaimedStep
  BY <1>0, <1>6, <1>8 DEF UnclaimedStep, CreateAttempt, TransitionAttempt, TransitionJob
<1>9. CASE ClaimStep
  BY <1>0, <1>2, <1>9 DEF ClaimStep, ClaimJob, ClaimRunnable, ClaimCancelled, ExpireClaim,
     HeartbeatJobClaim, ReleaseJobClaim, RecordWorkerLaunch, ClearWorkerLaunches
<1>10. ASSUME NEW auth, AttemptStep(auth)
       PROVE  BudgetInv'
  BY <1>0, <1>2, <1>10 DEF AttemptStep, CreateAttempt, StartAttempt, TakeOverAttempt,
     TransitionAttempt, PauseForExternalOutcome, CreateChallenge
<1>11. ASSUME NEW auth, EndStep(auth)
       PROVE  BudgetInv'
  BY <1>0, <1>2, <1>6, <1>11 DEF EndStep, CommitResult, FailJobWithAttempt, TransitionJob
<1> QED
  BY <1>0, <1>5, <1>7, <1>8, <1>9, <1>10, <1>11 DEF Next, vars

\* Retries, takeovers and restarts share one budget: no request is paid for more
\* than max_attempts times, whoever makes the calls.
THEOREM CallsStayWithinBudget == Spec => []CallsWithinBudget
<1>1. Init => BudgetInv
  <2> SUFFICES ASSUME Init PROVE BudgetInv
    OBVIOUS
  <2>1. \A o \in Operations : operation[o].job = Nobody
    BY DEF Init
  <2>2. ASSUME NEW j \in Jobs, NEW s, NEW r
        PROVE  CallsOf(j, s, r) = {}
    BY <2>1, JobStoreAssumption DEF CallsOf, SiblingsIn, OperationsOf
  <2> QED
    BY <2>1, <2>2, FS_EmptySet, JobStoreAssumption DEF BudgetInv
<1>2. TypeOK /\ BudgetInv => CallsWithinBudget
  BY DEF BudgetInv, CallsOf, CallsWithinBudget, TypeOK, TablesOK, ForeignKeys, OperationRow
<1> QED
  BY <1>1, <1>2, BudgetStep, TypeCorrect, PTL DEF Spec

-----------------------------------------------------------------------------
(* Submissions.                                                            *)

\* What a call that submits no Job may do to the row of one: its client_request_id
\* and the Job it retries stay, a terminal state stays, a cancellation is not taken
\* back and excludes success.
JobRowKept(j) ==
    /\ job'[j].client = job[j].client /\ job'[j].retryOf = job[j].retryOf
    /\ job[j].state \in JobTerminal \cup {"absent"} => job'[j] = job[j]
    /\ job'[j].state = "absent" => job[j].state = "absent"
    /\ job[j].cancel =>
          /\ job'[j].cancel
          /\ job'[j].state = "succeeded" => job[j].state = "succeeded"

Submitted(j, c, original) ==
    /\ job[j].state = "absent"
    /\ ClientIdUnused(c)
    /\ NewJob(j, c, original)
    /\ \/ original = Nobody
       \/ original \in Jobs /\ job[original].state \in JobTerminal /\ c # Nobody

\* _settle_cancelled_job_if_idle changes no Job that ended and only the state of others.
LEMMA SettledIfIdleKeepsRow ==
    ASSUME NEW jobs \in [Jobs -> JobRow], NEW j, NEW attempts, NEW i \in Jobs
    PROVE  LET after == SettledIfIdle(jobs, j, attempts) IN
           \/ after[i] = jobs[i]
           \/ /\ i = j /\ jobs[i].cancel /\ jobs[i].state \notin JobTerminal
              /\ after[i] = [jobs[i] EXCEPT !.state = "cancelled"]
BY DEF SettledIfIdle, JobRow

\* create_job and create_retry_job_atomic are the only calls that make a Job; the
\* others keep its row as JobRowKept says.
LEMMA JobTableStep ==
    ASSUME TypeOK, [Next]_vars,
           \A j \in Jobs : job[j].state = "absent" => ~job[j].cancel
    PROVE  \/ \A j \in Jobs : JobRowKept(j)
           \/ \E j \in Jobs, c \in ClientIds \cup {Nobody}, k \in Jobs \cup {Nobody} :
                 Submitted(j, c, k)
<1> DEFINE Kept == \A j \in Jobs : JobRowKept(j)
           Made == \E j \in Jobs, c \in ClientIds \cup {Nobody}, k \in Jobs \cup {Nobody} :
                      Submitted(j, c, k)
<1> SUFFICES Kept \/ Made
  OBVIOUS
<1>a. job \in [Jobs -> JobRow] /\ \A a \in Attempts : attempt[a].state # "absent" => attempt[a].job \in Jobs
  BY DEF TypeOK, TablesOK, ForeignKeys
<1>0. ASSUME UNCHANGED job
      PROVE  Kept
  BY <1>0 DEF JobRowKept
<1>1. ASSUME NEW j \in Jobs, NEW state, job[j].state \notin JobTerminal \cup {"absent"},
             job[j].cancel => state # "succeeded", state # "absent",
             job' = [job EXCEPT ![j].state = state]
      PROVE  Kept
  <2> SUFFICES ASSUME NEW i \in Jobs PROVE JobRowKept(i)
    OBVIOUS
  <2>1. CASE i = j
    BY <1>1, <1>a, <2>1 DEF JobRowKept, JobRow
  <2>2. CASE i # j
    BY <1>1, <1>a, <2>2 DEF JobRowKept, JobRow
  <2> QED
    BY <2>1, <2>2
<1>2. ASSUME NEW j, NEW attempts, job' = SettledIfIdle(job, j, attempts)
      PROVE  Kept
  <2> SUFFICES ASSUME NEW i \in Jobs PROVE JobRowKept(i)
    OBVIOUS
  <2>1. CASE job'[i] = job[i]
    BY <2>1 DEF JobRowKept
  <2>2. CASE job'[i] # job[i]
    <3>1. /\ job[i].cancel /\ job[i].state \notin JobTerminal
          /\ job'[i] = [job[i] EXCEPT !.state = "cancelled"]
      BY <1>2, <1>a, <2>2, SettledIfIdleKeepsRow
    <3> QED
      BY <3>1, <1>a DEF JobRowKept, JobRow
  <2> QED
    BY <2>1, <2>2
<1>3. ASSUME NEW j, SettleClaimedCancellation(j)
      PROVE  Kept
  BY <1>2, <1>3 DEF SettleClaimedCancellation
<1>4. ASSUME NEW j \in Jobs, CancelJob(j)
      PROVE  Kept
  <2>1. CASE CancelActiveJob(j)
    <3> DEFINE flagged == [job EXCEPT ![j].cancel = TRUE]
    <3>1. flagged \in [Jobs -> JobRow] /\ job' = SettledIfIdle(flagged, j, attempt')
      BY <2>1, <1>a DEF CancelActiveJob, JobRow
    <3> SUFFICES ASSUME NEW i \in Jobs PROVE JobRowKept(i)
      OBVIOUS
    <3>2. /\ i # j => flagged[i] = job[i]
          /\ i = j => flagged[i] = [job[i] EXCEPT !.cancel = TRUE]
      BY <1>a
    <3> HIDE DEF flagged
    <3>3. \/ job'[i] = flagged[i]
          \/ i = j /\ job'[i] = [flagged[i] EXCEPT !.state = "cancelled"]
      BY <3>1, SettledIfIdleKeepsRow
    <3>4. job[j].state \notin JobTerminal \cup {"absent"}
      BY <2>1 DEF CancelActiveJob
    <3> QED
      BY <3>2, <3>3, <3>4, <1>a DEF JobRowKept, JobRow
  <2> QED
    BY <1>0, <1>4, <2>1 DEF CancelJob, CancelCancelledJob
<1>5. ASSUME NEW c \in Challenges, NEW b, RespondChallenge(c, b)
      PROVE  Kept
  <2>1. challenge[c].job \in Jobs
    BY <1>5 DEF RespondChallenge, TypeOK, ForeignKeys
  <2>2. /\ job[challenge[c].job].state \notin JobTerminal \cup {"absent"}
        /\ job' = [job EXCEPT ![challenge[c].job].state = "queued"]
    BY <1>5 DEF RespondChallenge, JobTerminal
  <2> QED
    BY <1>1, <2>1, <2>2
<1>6. ASSUME NEW auth, NEW b \in Attempts, NEW state, TransitionAttempt(b, state, auth)
      PROVE  Kept
  BY <1>2, <1>6 DEF TransitionAttempt
<1>7. ASSUME NEW auth, NEW j \in Jobs, FailJob(j, auth)
      PROVE  Kept
  BY <1>1, <1>3, <1>7 DEF FailJob, JobTerminal
<1>8. ASSUME NEW auth, NEW j \in Jobs, NEW state, TransitionJob(j, state, auth)
      PROVE  Kept
  <2>1. /\ job[j].state \notin JobTerminal \cup {"absent"}
        /\ state # "succeeded" /\ state # "absent"
    BY <1>8 DEF TransitionJob, LegalJobTransitions, JobTerminal
  <2> QED
    BY <1>1, <1>8, <2>1 DEF TransitionJob
<1>9. ASSUME NEW j \in Jobs, NEW o, NEW g, ClaimJob(j, o, g)
      PROVE  Kept
  BY <1>1, <1>3, <1>9 DEF ClaimJob, ClaimRunnable, ClaimCancelled, JobTerminal
<1>10. ASSUME NEW j \in Jobs, NEW c, NEW a, OpenChallenge(c, j, a), job[j].state = "running"
       PROVE  Kept
  BY <1>1, <1>10 DEF OpenChallenge, JobTerminal
<1>11. ASSUME NEW auth \in authorities, AttemptStep(auth)
       PROVE  Kept
  <2>1. ASSUME NEW b \in Attempts, NEW c, PauseForExternalOutcome(b, c, auth)
        PROVE  Kept
    <3>1. attempt[b].job \in Jobs
      BY <2>1, <1>a DEF PauseForExternalOutcome, ExecutionAuthority
    <3> QED
      BY <1>3, <1>10, <2>1, <3>1 DEF PauseForExternalOutcome
  <2> QED
    BY <1>0, <1>3, <1>6, <1>10, <1>11, <2>1, AuthorityType DEF AttemptStep, CreateAttempt,
       StartAttempt, TakeOverAttempt, CreateChallenge, TypeOK
<1>12. ASSUME NEW auth, OperationStep(auth)
       PROVE  Kept
  BY <1>0, <1>12 DEF OperationStep, PrepareOperation, StartOperation, FinishOperation,
     MarkOperationUnknown, ReconcileOperations
<1>13. ASSUME NEW auth \in authorities, EndStep(auth)
       PROVE  Kept
  <2>1. ASSUME NEW b \in Attempts, CommitResult(b, auth)
        PROVE  Kept
    <3>1. attempt[b].job \in Jobs
      BY <2>1, <1>a DEF CommitResult, CommitGuard, ExecutionAuthority
    <3> QED
      BY <1>1, <2>1, <3>1 DEF CommitResult, CommitGuard, JobTerminal
  <2>2. ASSUME NEW b \in Attempts, FailJobWithAttempt(b, auth)
        PROVE  Kept
    <3>1. attempt[b].job \in Jobs
      BY <2>2, AuthorityType DEF FailJobWithAttempt, JobAuthority, TypeOK
    <3> QED
      BY <1>1, <1>3, <2>2, <3>1 DEF FailJobWithAttempt, JobTerminal
  <2> QED
    BY <1>7, <1>8, <1>13, <2>1, <2>2, AuthorityType DEF EndStep, TypeOK
<1>14. CASE UserStep
  <2>1. ASSUME NEW j \in Jobs, NEW c \in ClientIds \cup {Nobody}, CreateJob(j, c)
        PROVE  Made
    BY <2>1 DEF CreateJob, Submitted
  <2>2. ASSUME NEW original \in Jobs, NEW j \in Jobs, NEW c \in ClientIds, NEW confirmed,
               CreateRetryJob(original, j, c, confirmed)
        PROVE  Made
    BY <2>2 DEF CreateRetryJob, Submitted
  <2> QED
    BY <1>4, <1>5, <1>14, <2>1, <2>2 DEF UserStep
<1>15. CASE UnclaimedStep
  BY <1>0, <1>6, <1>7, <1>8, <1>15 DEF UnclaimedStep, CreateAttempt
<1>16. CASE ClaimStep
  BY <1>0, <1>9, <1>16 DEF ClaimStep, ExpireClaim, HeartbeatJobClaim, ReleaseJobClaim,
     RecordWorkerLaunch, ClearWorkerLaunches
<1> QED
  BY <1>0, <1>11, <1>12, <1>13, <1>14, <1>15, <1>16 DEF Next, vars

\* The inductive invariant: an id that names no Job yet carries no cancellation.
SubmissionInv ==
    /\ SubmissionsIdempotent
    /\ \A j \in Jobs : job[j].state = "absent" => ~job[j].cancel

\* A new Job takes an unused client_request_id, and retries one that has ended.
LEMMA SubmissionStep == TypeOK /\ SubmissionInv /\ [Next]_vars => SubmissionInv'
<1> SUFFICES ASSUME TypeOK, SubmissionInv, [Next]_vars PROVE SubmissionInv'
  OBVIOUS
<1>a. job \in [Jobs -> JobRow] /\ Nobody \notin Jobs
  BY JobStoreAssumption DEF TypeOK, TablesOK
<1>b. \A j \in Jobs : job[j].retryOf # Nobody => job[j].retryOf \in Jobs
  BY <1>a DEF JobRow
<1>1. CASE \A j \in Jobs : JobRowKept(j)
  <2>1. \A j \in Jobs : job'[j].client = job[j].client /\ job'[j].retryOf = job[j].retryOf
    BY <1>1 DEF JobRowKept
  <2>2. \A j \in Jobs : job[j].state \in JobTerminal => job'[j].state = job[j].state
    BY <1>1 DEF JobRowKept
  <2>3. ASSUME NEW j \in Jobs, job'[j].state = "absent"
        PROVE  ~job'[j].cancel
    <3>1. CASE job[j].state = "absent"
      BY <1>1, <3>1 DEF JobRowKept, SubmissionInv
    <3>2. CASE job[j].state # "absent"
      BY <1>1, <2>3, <3>2 DEF JobRowKept
    <3> QED
      BY <3>1, <3>2
  <2> QED
    BY <1>b, <2>1, <2>2, <2>3 DEF SubmissionInv, SubmissionsIdempotent
<1>2. ASSUME NEW j \in Jobs, NEW c, NEW k, Submitted(j, c, k)
      PROVE  SubmissionInv'
  <2>1. /\ job'[j].state = "queued" /\ ~job'[j].cancel
        /\ job'[j].client = c /\ job'[j].retryOf = k
        /\ \A i \in Jobs \ {j} : job'[i] = job[i]
    BY <1>2, <1>a DEF Submitted, NewJob
  <2>2. job[j].state \notin JobTerminal
    BY <1>2 DEF Submitted, JobTerminal
  <2>3. \A i \in Jobs : job[i].client # Nobody => job[i].client # c
    BY <1>2 DEF Submitted, ClientIdUnused
  <2>4. (\A i, l \in Jobs :
            job[i].client = job[l].client /\ job[i].client # Nobody => i = l)'
    BY <2>1, <2>3 DEF SubmissionInv, SubmissionsIdempotent
  <2>5. (\A i \in Jobs : job[i].retryOf # Nobody =>
            job[job[i].retryOf].state \in JobTerminal /\ job[i].client # Nobody)'
    BY <1>2, <1>b, <2>1, <2>2 DEF Submitted, SubmissionInv, SubmissionsIdempotent
  <2> QED
    BY <2>1, <2>4, <2>5 DEF SubmissionInv, SubmissionsIdempotent
<1> QED
  BY <1>1, <1>2, JobTableStep DEF SubmissionInv

\* No call breaks it.
LEMMA SubmissionInvHolds == Spec => []SubmissionInv
<1>1. Init => SubmissionInv
  BY DEF Init, SubmissionInv, SubmissionsIdempotent
<1> QED
  BY <1>1, SubmissionStep, TypeCorrect, PTL DEF Spec

\* However often a client repeats a submission or a retry, its client_request_id names
\* one Job, and what that Job retries has ended for good.
THEOREM SubmissionsStayIdempotent == Spec => []SubmissionsIdempotent
<1>1. SubmissionInv => SubmissionsIdempotent
  BY DEF SubmissionInv
<1> QED
  BY <1>1, SubmissionInvHolds, PTL

-----------------------------------------------------------------------------
(* What a call may do to the row of an operation, and the action           *)
(* properties that follow.                                                 *)

Moves(o, from, to) ==
    operation[o].state = from /\ operation'[o] = [operation[o] EXCEPT !.state = to]

Owned(o) == \E auth \in authorities : OwnsOperation(o, auth)

\* A paid call becomes unknown, or is moved by the process that owns it: started and
\* recorded as successful only while its Job is not cancelled; a row is made or handed
\* over, unstarted, only while its Job runs.
OperationRowKept(o) ==
    \/ operation'[o] = operation[o]
    \/ Moves(o, "started", "unknown")
    \/ /\ Owned(o)
       /\ \/ Moves(o, "started", "failed")
          \/ /\ ~job[operation[o].job].cancel
             /\ Moves(o, "prepared", "started") \/ Moves(o, "started", "succeeded")
    \/ /\ operation[o].state \in {"absent", "prepared"} /\ operation'[o].state = "prepared"
       /\ operation'[o].job \in Jobs /\ job[operation'[o].job].state = "running"
       /\ operation[o].state = "prepared" => operation'[o].job = operation[o].job

\* No repository call writes an operation in any other way.
LEMMA OperationRowStep ==
    ASSUME TypeOK, [Next]_vars, NEW o \in Operations
    PROVE  OperationRowKept(o)
<1> DEFINE Goal == OperationRowKept(o)
<1>a. operation \in [Operations -> OperationRow]
  BY DEF TypeOK, TablesOK
<1>0. ASSUME operation'[o] = operation[o]
      PROVE  Goal
  BY <1>0 DEF OperationRowKept
<1>1. ASSUME NEW lost, operation' = StartedBecomeUnknown(lost)
      PROVE  Goal
  BY <1>1 DEF StartedBecomeUnknown, OperationRowKept, Moves
<1>2. ASSUME NEW j, SettleClaimedCancellation(j)
      PROVE  Goal
  BY <1>1, <1>2 DEF SettleClaimedCancellation
<1>3. ASSUME NEW p \in Operations, NEW from, NEW to, operation[p].state = from,
             operation' = [operation EXCEPT ![p].state = to]
      PROVE  operation'[o] = operation[o] \/ (o = p /\ Moves(o, from, to))
  <2>1. CASE o = p
    <3>1. operation'[p] = [operation[p] EXCEPT !.state = to]
      BY <1>3, <1>a, Zenon
    <3> QED
      BY <1>3, <2>1, <3>1 DEF Moves
  <2>2. CASE o # p
    BY <1>3, <1>a, <2>2
  <2> QED
    BY <2>1, <2>2
<1>4. ASSUME NEW p \in Operations, NEW a \in Attempts, NEW r \in Requests,
             NEW auth, PrepareOperation(p, a, r, auth)
      PROVE  Goal
  <2>1. attempt[a].job \in Jobs /\ job[attempt[a].job].state = "running"
    BY <1>4 DEF PrepareOperation, MayPrepare, ExecutionAuthority, TypeOK, ForeignKeys
  <2>2. CASE /\ operation[p].state = "absent"
             /\ operation' = [operation EXCEPT ![p] =
                   [job |-> attempt[a].job, step |-> attempt[a].step, request |-> r,
                    attempt |-> a, state |-> "prepared"]]
    BY <1>0, <1>a, <2>1, <2>2 DEF OperationRowKept
  <2>3. CASE /\ p \in SiblingsIn(attempt[a].job, attempt[a].step, r, {"prepared"})
             /\ operation' = [operation EXCEPT ![p].attempt = a]
    BY <1>0, <1>a, <2>1, <2>3 DEF OperationRowKept, SiblingsIn, OperationsOf, OperationRow
  <2> QED
    BY <1>4, <2>2, <2>3 DEF PrepareOperation
<1>5. ASSUME NEW auth \in authorities, OperationStep(auth)
      PROVE  Goal
  <2>1. ASSUME NEW p \in Operations, StartOperation(p, auth)
        PROVE  Goal
    BY <1>0, <1>3, <2>1 DEF StartOperation, OperationRowKept, Owned
  <2>2. ASSUME NEW p \in Operations, NEW outcome, FinishOperation(p, outcome, auth)
        PROVE  Goal
    <3>1. operation'[o] = operation[o] \/ (o = p /\ Moves(o, "started", outcome))
      BY <1>3, <2>2 DEF FinishOperation
    <3> QED
      BY <1>0, <2>2, <3>1 DEF FinishOperation, OperationRowKept, Owned
  <2>3. ASSUME NEW p \in Operations, MarkOperationUnknown(p, auth)
        PROVE  Goal
    BY <1>0, <1>3, <2>3 DEF MarkOperationUnknown, OperationRowKept
  <2>4. CASE ReconcileOperations(auth)
    BY <1>1, <2>4 DEF ReconcileOperations
  <2> QED
    BY <1>4, <1>5, <2>1, <2>2, <2>3, <2>4 DEF OperationStep
<1>6. ASSUME NEW auth, NEW j, FailJob(j, auth)
      PROVE  Goal
  BY <1>0, <1>2, <1>6 DEF FailJob
<1>7. CASE UserStep
  BY <1>0, <1>7 DEF UserStep, CreateJob, CreateRetryJob, CancelJob, CancelActiveJob,
     CancelCancelledJob, RespondChallenge
<1>8. CASE UnclaimedStep
  BY <1>0, <1>6, <1>8 DEF UnclaimedStep, CreateAttempt, TransitionAttempt, TransitionJob
<1>9. CASE ClaimStep
  BY <1>0, <1>2, <1>9 DEF ClaimStep, ClaimJob, ClaimRunnable, ClaimCancelled, ExpireClaim,
     HeartbeatJobClaim, ReleaseJobClaim, RecordWorkerLaunch, ClearWorkerLaunches
<1>10. ASSUME NEW auth, AttemptStep(auth)
       PROVE  Goal
  BY <1>0, <1>2, <1>10 DEF AttemptStep, CreateAttempt, StartAttempt, TakeOverAttempt,
     TransitionAttempt, PauseForExternalOutcome, CreateChallenge
<1>11. ASSUME NEW auth, EndStep(auth)
       PROVE  Goal
  BY <1>0, <1>2, <1>6, <1>11 DEF EndStep, CommitResult, FailJobWithAttempt, TransitionJob
<1> QED
  BY <1>0, <1>5, <1>7, <1>8, <1>9, <1>10, <1>11 DEF Next, vars

\* A cancellation is never taken back, and no call of any process that learns of it
\* late can start an Attempt or a paid call, record a success or end the Job in one.
THEOREM CancelledJobsStopWork == Spec => CancellationStopsWork
<1>1. TypeOK /\ SubmissionInv /\ [Next]_vars =>
        [\A j \in Jobs : job[j].cancel =>
            /\ job'[j].cancel
            /\ job[j].state # "succeeded" => job'[j].state # "succeeded"
            /\ \A a \in Attempts :
                  attempt'[a].job = j /\ attempt'[a].state = "running" =>
                      attempt[a].state = "running"
            /\ \A o \in Operations : operation[o].job = j =>
                  /\ operation'[o].state = "started" => operation[o].state = "started"
                  /\ operation'[o].state = "succeeded" => operation[o].state = "succeeded"]_vars
  <2> SUFFICES ASSUME TypeOK, SubmissionInv, [Next]_vars, NEW j \in Jobs, job[j].cancel
               PROVE  /\ job'[j].cancel
                      /\ job[j].state # "succeeded" => job'[j].state # "succeeded"
                      /\ \A a \in Attempts :
                            attempt'[a].job = j /\ attempt'[a].state = "running" =>
                                attempt[a].state = "running"
                      /\ \A o \in Operations : operation[o].job = j =>
                            /\ operation'[o].state = "started" => operation[o].state = "started"
                            /\ operation'[o].state = "succeeded" =>
                                  operation[o].state = "succeeded"
    OBVIOUS
  <2>1. job'[j].cancel /\ (job[j].state # "succeeded" => job'[j].state # "succeeded")
    <3>1. CASE \A i \in Jobs : JobRowKept(i)
      BY <3>1 DEF JobRowKept
    <3>2. ASSUME NEW i \in Jobs, NEW c, NEW k, Submitted(i, c, k)
          PROVE  job'[j] = job[j]
      <4>1. i # j
        BY <3>2 DEF Submitted, SubmissionInv
      <4> QED
        BY <3>2, <4>1 DEF Submitted, NewJob, TypeOK, TablesOK
    <3> QED
      BY <3>1, <3>2, JobTableStep DEF SubmissionInv
  <2>2. ASSUME NEW a \in Attempts, attempt'[a].job = j, attempt'[a].state = "running"
        PROVE  attempt[a].state = "running"
    BY <2>2, AttemptRowStep DEF AttemptRowKept, StartsToRun
  <2>3. ASSUME NEW o \in Operations, operation[o].job = j
        PROVE  /\ operation'[o].state = "started" => operation[o].state = "started"
               /\ operation'[o].state = "succeeded" => operation[o].state = "succeeded"
    <3>1. operation[o] \in OperationRow /\ OperationRowKept(o)
      BY OperationRowStep DEF TypeOK, TablesOK
    <3> QED
      BY <2>3, <3>1 DEF OperationRowKept, Moves, OperationRow
  <2> QED
    BY <2>1, <2>2, <2>3
<1> QED
  BY <1>1, SubmissionInvHolds, TypeCorrect, PTL DEF Spec, CancellationStopsWork

\* The paid call of a process that was overtaken can only become unknown: it cannot
\* settle it, whenever the provider's answer arrives.
THEOREM FencedOperationsOnlyBecomeUnknown == Spec => FencedOperationOnlyUnknown
<1>1. TypeOK /\ [Next]_vars =>
        [\A o \in Operations :
            operation[o].state = "started" /\ Fenced(operation[o].attempt) =>
                operation'[o].state \in {"started", "unknown"}]_vars
  <2> SUFFICES ASSUME TypeOK, [Next]_vars, NEW o \in Operations,
                      operation[o].state = "started", Fenced(operation[o].attempt)
               PROVE  operation'[o].state \in {"started", "unknown"}
    OBVIOUS
  <2>1. operation[o].attempt \in Attempts /\ operation[o] \in OperationRow
    BY DEF TypeOK, TablesOK, ForeignKeys, AttemptExists
  <2>2. ~Owned(o)
    BY <2>1, AuthorityIsNotFenced DEF Owned, OwnsOperation
  <2> QED
    BY <2>1, <2>2, OperationRowStep DEF OperationRowKept, Moves, OperationRow
<1> QED
  BY <1>1, TypeCorrect, PTL DEF Spec, FencedOperationOnlyUnknown

\* Whatever processes still call for it, a Job that ended gets no new Attempt and no
\* new or settled paid call.
THEOREM EndedJobsAreFrozen == Spec => TerminalJobsFrozen
<1>1. TypeOK /\ SubmissionInv /\ TerminalJobsSettled /\ [Next]_vars =>
        [\A j \in Jobs : job[j].state \in JobTerminal =>
            /\ job'[j] = job[j]
            /\ \A a \in Attempts : attempt'[a].job = j =>
                  /\ attempt[a].job = j
                  /\ attempt'[a].state # attempt[a].state =>
                        attempt'[a].state \in {"cancelled", "skipped"}
            /\ \A o \in Operations : operation'[o].job = j =>
                  /\ operation[o].job = j
                  /\ operation'[o].state # operation[o].state =>
                        operation'[o].state = "unknown"]_vars
  <2> SUFFICES ASSUME TypeOK, SubmissionInv, TerminalJobsSettled, [Next]_vars,
                      NEW j \in Jobs, job[j].state \in JobTerminal
               PROVE  /\ job'[j] = job[j]
                      /\ \A a \in Attempts : attempt'[a].job = j =>
                            /\ attempt[a].job = j
                            /\ attempt'[a].state # attempt[a].state =>
                                  attempt'[a].state \in {"cancelled", "skipped"}
                      /\ \A o \in Operations : operation'[o].job = j =>
                            /\ operation[o].job = j
                            /\ operation'[o].state # operation[o].state =>
                                  operation'[o].state = "unknown"
    OBVIOUS
  <2>1. job'[j] = job[j]
    <3>1. CASE \A i \in Jobs : JobRowKept(i)
      BY <3>1 DEF JobRowKept
    <3>2. ASSUME NEW i \in Jobs, NEW c, NEW k, Submitted(i, c, k)
          PROVE  job'[j] = job[j]
      <4>1. i # j
        BY <3>2 DEF Submitted, JobTerminal
      <4> QED
        BY <3>2, <4>1 DEF Submitted, NewJob, TypeOK, TablesOK
    <3> QED
      BY <3>1, <3>2, JobTableStep DEF SubmissionInv
  <2>2. ASSUME NEW a \in Attempts, attempt'[a].job = j
        PROVE  /\ attempt[a].job = j
               /\ attempt'[a].state # attempt[a].state =>
                     attempt'[a].state \in {"cancelled", "skipped"}
    <3>1. AttemptRowKept(a)
      BY AttemptRowStep
    <3>2. CASE attempt[a].state = "absent"
      <4>1. attempt'[a] = attempt[a]
        BY <2>2, <3>1, <3>2 DEF AttemptRowKept
      <4> QED
        BY <2>2, <4>1
    <3>3. CASE attempt[a].state # "absent"
      <4>1. attempt[a].job = j
        BY <2>2, <3>3, AttemptKeysStep DEF AttemptKeysKept
      <4>2. attempt[a].state \in {"pending"} \cup AttemptTerminal
        <5>1. attempt[a].state # "running"
          BY <4>1 DEF TerminalJobsSettled
        <5> QED
          BY <3>3, <5>1 DEF TypeOK, TablesOK, AttemptRow, AttemptStates
      <4>3. attempt'[a].state # "running" \/ attempt[a].state = "running"
        BY <2>2, <3>1 DEF AttemptRowKept, StartsToRun, JobTerminal
      <4> QED
        BY <3>1, <4>1, <4>2, <4>3 DEF AttemptRowKept, AttemptTerminal
    <3> QED
      BY <3>2, <3>3
  <2>3. ASSUME NEW o \in Operations, operation'[o].job = j
        PROVE  /\ operation[o].job = j
               /\ operation'[o].state # operation[o].state => operation'[o].state = "unknown"
    <3>1. operation[o] \in OperationRow /\ OperationRowKept(o)
      BY OperationRowStep DEF TypeOK, TablesOK
    <3>2. operation[o].state # "absent" /\ operation[o].job = j => ~Owned(o)
      BY DEF Owned, OwnsOperation, ExecutionAuthority, TerminalJobsSettled, TypeOK,
         ForeignKeys, AttemptExists
    <3> QED
      BY <2>3, <3>1, <3>2 DEF OperationRowKept, Moves, OperationRow, JobTerminal
  <2> QED
    BY <2>1, <2>2, <2>3
<1> QED
  BY <1>1, SubmissionInvHolds, JobsEndSettled, TypeCorrect, PTL DEF Spec, TerminalJobsFrozen

==============================================================================
