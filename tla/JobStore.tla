------------------------------- MODULE JobStore -------------------------------
(***************************************************************************)
(* The durable Job store of AllToNote: adapters/jobs/sqlite_repository.py  *)
(* and the state machines of core/jobs/.                                   *)
(*                                                                         *)
(* Every mutator of the repository runs in one BEGIN IMMEDIATE SQLite      *)
(* transaction, so it is one action.  A process that wants to work on a    *)
(* Job claims it: the store hands it a JobExecutionAuthority (owner,       *)
(* generation) and every later call presents that authority.  A process    *)
(* may be suspended for any time between two calls, so any authority ever  *)
(* handed out may be presented at any moment: `authorities' keeps them.    *)
(*                                                                         *)
(* Calls that raise change nothing and are the steps a guard disables.     *)
(***************************************************************************)
EXTENDS Integers, FiniteSets

CONSTANTS Jobs, Steps, Requests, Owners, ClientIds,
          Attempts,        \* Attempt ids: numbers, in order of creation
          Operations,      \* external (paid) operation ids
          Challenges,      \* Challenge ids
          Nobody,          \* the absent id, owner or authority (NULL/None)
          MaxGeneration,   \* bound on fencing generations
          MaxLaunches,     \* bound on recorded worker launches
          CallBudget       \* max_attempts the model coordinator passes (2)

VARIABLES
    job,          \* table jobs
    claim,        \* table job_execution_leases (one row per Job at most)
    attempt,      \* table attempts
    operation,    \* table external_operations
    challenge,    \* table challenges
    authorities   \* authorities claim_job has returned to some process

vars == <<job, claim, attempt, operation, challenge, authorities>>

-----------------------------------------------------------------------------
(* Values.  "absent" marks an id no row uses yet.                          *)

JobTerminal == {"succeeded", "failed", "cancelled"}
JobStates == {"absent", "queued", "running", "waiting_for_input"} \cup JobTerminal

AttemptTerminal ==
    {"succeeded", "failed", "cancelled", "interrupted", "needs_input", "skipped"}
AttemptStates == {"absent", "pending", "running"} \cup AttemptTerminal
Unsettled == {"pending", "running"}

OperationStates ==
    {"absent", "prepared", "started", "succeeded", "failed", "unknown"}
ChallengeStates == {"absent", "pending", "consumed", "cancelled"}
ClaimStates == {"absent", "live", "expired", "released"}

LegalJobTransitions ==
    {<<"queued", "running">>, <<"queued", "cancelled">>,
     <<"running", "waiting_for_input">>, <<"running", "succeeded">>,
     <<"running", "failed">>, <<"running", "cancelled">>,
     <<"waiting_for_input", "queued">>, <<"waiting_for_input", "failed">>,
     <<"waiting_for_input", "cancelled">>}

LegalAttemptTransitions ==
    {<<"pending", "running">>, <<"pending", "skipped">>, <<"pending", "cancelled">>}
      \cup ({"running"} \X (AttemptTerminal \ {"skipped"}))

Generations == 1..MaxGeneration
Authority == [job : Jobs, owner : Owners, generation : Generations]

ASSUME JobStoreAssumption ==
    /\ Attempts \subseteq Nat
    /\ MaxGeneration \in Nat /\ MaxLaunches \in Nat /\ CallBudget \in Nat \ {0}
    /\ Nobody \notin Jobs /\ Nobody \notin Attempts /\ Nobody \notin ClientIds
    /\ Nobody \notin Authority

JobRow == [state : JobStates, cancel : BOOLEAN,
           client : ClientIds \cup {Nobody}, retryOf : Jobs \cup {Nobody}]
ClaimRow == [owner : Owners \cup {Nobody}, generation : 0..MaxGeneration,
             status : ClaimStates, launches : 0..MaxLaunches]
AttemptRow == [job : Jobs \cup {Nobody}, step : Steps \cup {Nobody},
               state : AttemptStates, token : 0..MaxGeneration]
OperationRow == [job : Jobs \cup {Nobody}, step : Steps \cup {Nobody},
                 request : Requests \cup {Nobody},
                 attempt : Attempts \cup {Nobody}, state : OperationStates]
ChallengeRow == [job : Jobs \cup {Nobody}, attempt : Attempts \cup {Nobody},
                 state : ChallengeStates, response : Attempts \cup {Nobody}]

TablesOK ==
    /\ job \in [Jobs -> JobRow]
    /\ claim \in [Jobs -> ClaimRow]
    /\ attempt \in [Attempts -> AttemptRow]
    /\ operation \in [Operations -> OperationRow]
    /\ challenge \in [Challenges -> ChallengeRow]
    /\ authorities \subseteq Authority

AttemptExists(a) == a \in Attempts /\ attempt[a].state # "absent"

\* The REFERENCES clauses of the schema.
ForeignKeys ==
    /\ \A a \in Attempts : attempt[a].state # "absent" =>
          attempt[a].job \in Jobs /\ attempt[a].step \in Steps
    /\ \A o \in Operations : operation[o].state # "absent" =>
          operation[o].job \in Jobs /\ AttemptExists(operation[o].attempt)
    /\ \A c \in Challenges : challenge[c].state # "absent" =>
          challenge[c].job \in Jobs /\ AttemptExists(challenge[c].attempt)

TypeOK == TablesOK /\ ForeignKeys

Init ==
    /\ job = [j \in Jobs |-> [state |-> "absent", cancel |-> FALSE,
                              client |-> Nobody, retryOf |-> Nobody]]
    /\ claim = [j \in Jobs |-> [owner |-> Nobody, generation |-> 0,
                                status |-> "absent", launches |-> 0]]
    /\ attempt = [a \in Attempts |-> [job |-> Nobody, step |-> Nobody,
                                      state |-> "absent", token |-> 0]]
    /\ operation = [o \in Operations |-> [job |-> Nobody, step |-> Nobody,
                       request |-> Nobody, attempt |-> Nobody, state |-> "absent"]]
    /\ challenge = [c \in Challenges |-> [job |-> Nobody, attempt |-> Nobody,
                       state |-> "absent", response |-> Nobody]]
    /\ authorities = {}

-----------------------------------------------------------------------------
(* Guards and updates shared by the mutators.                              *)

\* _assert_job_authority: owner, generation and an unexpired row.
JobAuthority(j, auth) ==
    /\ auth # Nobody
    /\ auth.job = j
    /\ claim[j].status = "live"
    /\ claim[j].owner = auth.owner
    /\ claim[j].generation = auth.generation

\* _assert_no_bound_job_claim, the check of the calls made without authority.
NoBoundClaim(j) == claim[j].status = "absent"

JobAuthorityOrUnclaimed(j, auth) ==
    IF auth = Nobody THEN NoBoundClaim(j) ELSE JobAuthority(j, auth)

\* Mutant: the Attempt's own fencing token is not compared.
ExecutionAuthorityAnyToken(a, auth) ==
    attempt[a].state = "running" /\ JobAuthority(attempt[a].job, auth)

\* _assert_execution_authority: the Attempt runs under this very generation.
ExecutionAuthority(a, auth) ==
    /\ attempt[a].state = "running"
    /\ JobAuthority(attempt[a].job, auth)
    /\ attempt[a].token = auth.generation

AttemptsOf(j) == {a \in Attempts : attempt[a].job = j}
AttemptsSettled(j) == \A a \in AttemptsOf(j) : attempt[a].state \notin Unsettled
NextAttempt(a) == /\ attempt[a].state = "absent"
                  /\ \A b \in Attempts : b < a => attempt[b].state # "absent"

\* Mutant: the fencing_token column left NULL instead of 0.
NewAttemptWithoutToken(j, s) ==
    [job |-> j, step |-> s, state |-> "pending", token |-> Nobody]

NewAttempt(j, s) == [job |-> j, step |-> s, state |-> "pending", token |-> 0]

\* _transition_attempts_to_cancelled
AttemptsCancelled(j, states) ==
    [a \in Attempts |-> IF attempt[a].job = j /\ attempt[a].state \in states
                        THEN [attempt[a] EXCEPT !.state = "cancelled"]
                        ELSE attempt[a]]

PendingChallengesCancelled(j) ==
    [c \in Challenges |-> IF challenge[c].job = j /\ challenge[c].state = "pending"
                          THEN [challenge[c] EXCEPT !.state = "cancelled"]
                          ELSE challenge[c]]

StartedBecomeUnknown(lost) ==
    [o \in Operations |-> IF o \in lost /\ operation[o].state = "started"
                          THEN [operation[o] EXCEPT !.state = "unknown"]
                          ELSE operation[o]]

OperationsOf(j) == {o \in Operations : operation[o].job = j}

\* Mutant: does not look for a running Attempt.
SettledAtOnce(jobs, j, attempts) ==
    IF jobs[j].cancel /\ jobs[j].state \notin JobTerminal
    THEN [jobs EXCEPT ![j].state = "cancelled"]
    ELSE jobs

\* _settle_cancelled_job_if_idle: a Job whose cancellation was requested ends
\* as soon as no Attempt of it runs.  Reads the tables as already updated.
SettledIfIdle(jobs, j, attempts) ==
    IF /\ jobs[j].cancel
       /\ jobs[j].state \notin JobTerminal
       /\ \A a \in Attempts : attempts[a].job = j => attempts[a].state # "running"
    THEN [jobs EXCEPT ![j].state = "cancelled"]
    ELSE jobs

\* _settle_claimed_cancellation: what any authorised call does instead of its
\* own work when it finds the cancellation flag set.
SettleClaimedCancellation(j) ==
    /\ operation' = StartedBecomeUnknown(OperationsOf(j))
    /\ attempt' = AttemptsCancelled(j, Unsettled)
    /\ job' = SettledIfIdle(job, j, attempt')

-----------------------------------------------------------------------------
(* Submission, retry and cancellation: the user's calls.                   *)

\* Mutant: no lookup of the client_request_id.
ClientIdUnchecked(c) == c = Nobody \/ c \in ClientIds

ClientIdUnused(c) == c = Nobody \/ \A j \in Jobs : job[j].client # c

NewJob(j, c, original) ==
    job' = [job EXCEPT ![j] = [state |-> "queued", cancel |-> FALSE,
                               client |-> c, retryOf |-> original]]

\* create_job.  A client_request_id that is already bound returns the Job it is
\* bound to, or raises idempotency_conflict: either way nothing changes.
CreateJob(j, c) ==
    /\ job[j].state = "absent"
    /\ ClientIdUnused(c)
    /\ NewJob(j, c, Nobody)
    /\ UNCHANGED <<claim, attempt, operation, challenge, authorities>>

UnknownOperations(j) == {o \in OperationsOf(j) : operation[o].state = "unknown"}

\* create_retry_job_atomic: the user confirms every operation whose outcome
\* (and so whose bill) is unknown, no more and no less.
CreateRetryJob(original, j, c, confirmed) ==
    /\ job[original].state \in JobTerminal
    /\ c # Nobody /\ c # job[original].client
    /\ confirmed = UnknownOperations(original)
    /\ job[j].state = "absent"
    /\ ClientIdUnused(c)
    /\ NewJob(j, c, original)
    /\ UNCHANGED <<claim, attempt, operation, challenge, authorities>>

\* Mutant: the flag is not set, the Challenges are cancelled.
CancelWithoutFlag(j) ==
    /\ job[j].state \notin JobTerminal \cup {"absent"}
    /\ attempt' = AttemptsCancelled(j, {"pending"})
    /\ challenge' = PendingChallengesCancelled(j)
    /\ job' = SettledIfIdle(job, j, attempt')
    /\ UNCHANGED <<claim, operation, authorities>>

CancelActiveJob(j) ==
    /\ job[j].state \notin JobTerminal \cup {"absent"}
    /\ attempt' = AttemptsCancelled(j, {"pending"})
    /\ challenge' = PendingChallengesCancelled(j)
    /\ job' = SettledIfIdle([job EXCEPT ![j].cancel = TRUE], j, attempt')
    /\ UNCHANGED <<claim, operation, authorities>>

CancelCancelledJob(j) ==
    /\ job[j].state = "cancelled"
    /\ challenge' = PendingChallengesCancelled(j)
    /\ UNCHANGED <<job, claim, attempt, operation, authorities>>

\* cancel_job
CancelJob(j) == CancelActiveJob(j) \/ CancelCancelledJob(j)

-----------------------------------------------------------------------------
(* Claims: the execution lease of a Job and its fencing generation.        *)

HighestToken(j, g) ==
    /\ \A a \in AttemptsOf(j) : attempt[a].token =< g
    /\ g = 0 \/ \E a \in AttemptsOf(j) : attempt[a].token = g

\* Mutant: an expired lease is handed over under the same generation.
ClaimGrantsSameGeneration(j, o, g) ==
    \/ claim[j].status = "absent" /\ HighestToken(j, g - 1)
    \/ claim[j].status = "live" /\ claim[j].owner = o /\ g = claim[j].generation
    \/ claim[j].status \in {"expired", "released"} /\ g = claim[j].generation

\* Mutant: a lease that ran out is left to the owner that is gone.
ClaimGrantsReleased(j, o, g) ==
    \/ claim[j].status = "absent" /\ HighestToken(j, g - 1)
    \/ claim[j].status \in {"live", "expired"} /\ claim[j].owner = o /\ g = claim[j].generation
    \/ claim[j].status = "released" /\ g = claim[j].generation + 1

\* The generation claim_job hands to `o'.  Its clock is read before the
\* transaction opens, so an owner whose lease has just run out may still renew.
ClaimGrants(j, o, g) ==
    \/ /\ claim[j].status = "absent"
       /\ HighestToken(j, g - 1)
    \/ /\ claim[j].status \in {"live", "expired"}
       /\ claim[j].owner = o
       /\ g = claim[j].generation
    \/ /\ claim[j].status \in {"expired", "released"}
       /\ g = claim[j].generation + 1

\* The newest unsettled Attempt is the one the claim resumes.
NewestUnsettled(j) ==
    {a \in AttemptsOf(j) :
        /\ attempt[a].state \in Unsettled
        /\ \A b \in AttemptsOf(j) : attempt[b].state \in Unsettled => b =< a}

\* Mutant: the resumed Attempt keeps the token it was created with.
NewestStartedUnfenced(j, g) ==
    [a \in Attempts |->
        IF a \in NewestUnsettled(j) /\ attempt[a].state = "pending"
        THEN [attempt[a] EXCEPT !.state = "running"]
        ELSE attempt[a]]

NewestStarted(j, g) ==
    [a \in Attempts |->
        IF a \in NewestUnsettled(j) /\ attempt[a].state = "pending"
        THEN [attempt[a] EXCEPT !.state = "running", !.token = g]
        ELSE attempt[a]]

\* Mutant: claim_job ignores the cancellation flag.
ClaimRunnableCancelled(j, g) ==
    /\ job' = [job EXCEPT ![j].state = "running"]
    /\ attempt' = NewestStarted(j, g)
    /\ UNCHANGED operation

ClaimRunnable(j, g) ==
    /\ ~job[j].cancel
    /\ job' = [job EXCEPT ![j].state = "running"]
    /\ attempt' = NewestStarted(j, g)
    /\ UNCHANGED operation

ClaimCancelled(j) == job[j].cancel /\ SettleClaimedCancellation(j)

\* claim_job
ClaimJob(j, o, g) ==
    /\ job[j].state \in {"queued", "running"}
    /\ ClaimGrants(j, o, g)
    /\ claim' = [claim EXCEPT ![j].owner = o, ![j].generation = g,
                              ![j].status = "live"]
    /\ authorities' =
          authorities \cup {[job |-> j, owner |-> o, generation |-> g]}
    /\ ClaimRunnable(j, g) \/ ClaimCancelled(j)
    /\ UNCHANGED challenge

\* The lease time-to-live runs out before the owner heartbeats.
ExpireClaim(j) ==
    /\ claim[j].status = "live"
    /\ claim' = [claim EXCEPT ![j].status = "expired"]
    /\ UNCHANGED <<job, attempt, operation, challenge, authorities>>

ClaimRowMatches(auth) ==
    /\ claim[auth.job].owner = auth.owner
    /\ claim[auth.job].generation = auth.generation

\* heartbeat_job_claim: like claim_job it reads the clock before it holds the
\* write lock, so it can revive a lease that expired in between.
HeartbeatJobClaim(auth) ==
    /\ ClaimRowMatches(auth)
    /\ claim[auth.job].status \in {"live", "expired"}
    /\ claim' = [claim EXCEPT ![auth.job].status = "live"]
    /\ UNCHANGED <<job, attempt, operation, challenge, authorities>>

\* release_job_claim sets expires_at to 0, which no clock reading precedes.
ReleaseJobClaim(auth) ==
    /\ ClaimRowMatches(auth)
    /\ claim' = [claim EXCEPT ![auth.job].status = "released"]
    /\ UNCHANGED <<job, attempt, operation, challenge, authorities>>

\* record_engine_worker_launch
RecordWorkerLaunch(auth) ==
    /\ JobAuthority(auth.job, auth)
    /\ job[auth.job].state = "running"
    /\ claim[auth.job].launches < MaxLaunches
    /\ claim' = [claim EXCEPT ![auth.job].launches = @ + 1]
    /\ UNCHANGED <<job, attempt, operation, challenge, authorities>>

\* clear_engine_worker_launches: needs the row, not an unexpired one.
ClearWorkerLaunches(auth) ==
    /\ ClaimRowMatches(auth)
    /\ claim' = [claim EXCEPT ![auth.job].launches = 0]
    /\ UNCHANGED <<job, attempt, operation, challenge, authorities>>

-----------------------------------------------------------------------------
(* Attempts: one try at one step of the Job.                               *)

\* create_attempt
CreateAttempt(j, s, a, auth) ==
    /\ JobAuthorityOrUnclaimed(j, auth)
    /\ job[j].state \notin JobTerminal \cup {"absent"}
    /\ ~job[j].cancel
    /\ NextAttempt(a)
    /\ attempt' = [attempt EXCEPT ![a] = NewAttempt(j, s)]
    /\ UNCHANGED <<job, claim, operation, challenge, authorities>>

\* start_attempt
StartAttempt(a, auth) ==
    LET j == attempt[a].job IN
    /\ attempt[a].state = "pending"
    /\ job[j].state = "running"
    /\ ~job[j].cancel
    /\ JobAuthority(j, auth)
    /\ attempt' = [attempt EXCEPT ![a].state = "running",
                                  ![a].token = auth.generation]
    /\ UNCHANGED <<job, claim, operation, challenge, authorities>>

\* take_over_running_attempt: a newer generation interrupts the Attempt a lost
\* process left running and starts a replacement of the same step.
TakeOverAttempt(a, b, auth) ==
    LET j == attempt[a].job IN
    /\ attempt[a].state = "running"
    /\ JobAuthority(j, auth)
    /\ job[j].state = "running"
    /\ attempt[a].token < auth.generation
    /\ UNCHANGED <<claim, challenge, authorities>>
    /\ \/ /\ job[j].cancel
          /\ SettleClaimedCancellation(j)
       \/ /\ ~job[j].cancel
          /\ NextAttempt(b)
          /\ attempt' =
                [attempt EXCEPT ![a].state = "interrupted",
                                ![b] = [NewAttempt(j, attempt[a].step) EXCEPT
                                           !.state = "running",
                                           !.token = auth.generation]]
          /\ UNCHANGED <<job, operation>>

\* transition_attempt
TransitionAttempt(a, state, auth) ==
    LET j == attempt[a].job IN
    /\ state # "running"
    /\ <<attempt[a].state, state>> \in LegalAttemptTransitions
    /\ IF attempt[a].state = "running"
       THEN ExecutionAuthority(a, auth)
       ELSE JobAuthorityOrUnclaimed(j, auth)
    /\ attempt' = [attempt EXCEPT ![a].state = state]
    /\ job' = SettledIfIdle(job, j, attempt')
    /\ UNCHANGED <<claim, operation, challenge, authorities>>

-----------------------------------------------------------------------------
(* Challenges: the Job waits for the user.                                 *)

NoPendingChallenge(j) ==
    \A c \in Challenges : challenge[c].job = j => challenge[c].state # "pending"

OpenChallenge(c, j, a) ==
    /\ challenge[c].state = "absent"
    /\ NoPendingChallenge(j)
    /\ challenge' = [challenge EXCEPT ![c] = [job |-> j, attempt |-> a,
                         state |-> "pending", response |-> Nobody]]
    /\ job' = [job EXCEPT ![j].state = "waiting_for_input"]
    /\ claim' = [claim EXCEPT ![j].launches = 0]

\* Mutant: any Attempt of the Job may carry a Challenge.
CreateChallengeOfAnyAttempt(j, a, c) ==
    /\ job[j].state = "running"
    /\ attempt[a].job = j
    /\ OpenChallenge(c, j, a)
    /\ UNCHANGED <<attempt, operation, authorities>>

\* create_challenge
CreateChallenge(j, a, c) ==
    /\ job[j].state = "running"
    /\ attempt[a].job = j
    /\ attempt[a].state = "needs_input"
    /\ OpenChallenge(c, j, a)
    /\ UNCHANGED <<attempt, operation, authorities>>

\* pause_for_external_outcome_atomic: the step met an operation whose outcome
\* nobody knows; only the user may decide to pay again.
PauseForExternalOutcome(a, c, auth) ==
    LET j == attempt[a].job IN
    /\ ExecutionAuthority(a, auth)
    /\ job[j].state = "running"
    /\ \/ /\ job[j].cancel
          /\ SettleClaimedCancellation(j)
          /\ UNCHANGED <<claim, challenge>>
       \/ /\ ~job[j].cancel
          /\ \E o \in UnknownOperations(j) : operation[o].step = attempt[a].step
          /\ attempt' = [attempt EXCEPT ![a].state = "needs_input"]
          /\ OpenChallenge(c, j, a)
          /\ UNCHANGED operation
    /\ UNCHANGED authorities

\* respond_challenge_atomic.  An answer to a consumed Challenge is returned
\* again or refused; neither changes anything.
RespondChallenge(c, b) ==
    LET j == challenge[c].job IN
    /\ challenge[c].state \in {"pending", "cancelled"}
    /\ job[j].state = "waiting_for_input"
    /\ NextAttempt(b)
    /\ attempt' = [attempt EXCEPT ![b] = NewAttempt(j, attempt[challenge[c].attempt].step)]
    /\ challenge' = [challenge EXCEPT ![c].state = "consumed", ![c].response = b]
    /\ job' = [job EXCEPT ![j].state = "queued"]
    /\ UNCHANGED <<claim, operation, authorities>>

-----------------------------------------------------------------------------
(* External operations: calls to a paid model provider.                    *)

\* The rows one (job, step, provider, request_hash) has in `states'.
SiblingsIn(j, s, r, states) ==
    {o \in OperationsOf(j) : /\ operation[o].step = s
                             /\ operation[o].request = r
                             /\ operation[o].state \in states}

\* Mutant: rows whose outcome is unknown do not block a new call.
MayPrepareOverUnknown(a, r, auth) ==
    LET j == attempt[a].job
        s == attempt[a].step IN
    /\ ExecutionAuthority(a, auth)
    /\ job[j].state = "running" /\ ~job[j].cancel
    /\ SiblingsIn(j, s, r, {"started", "succeeded"}) = {}
    /\ Cardinality(SiblingsIn(j, s, r, {"failed"})) < CallBudget

\* Mutant: off by one on the budget.
MayPrepareOneMore(a, r, auth) ==
    LET j == attempt[a].job
        s == attempt[a].step IN
    /\ ExecutionAuthority(a, auth)
    /\ job[j].state = "running" /\ ~job[j].cancel
    /\ SiblingsIn(j, s, r, {"unknown", "started", "succeeded"}) = {}
    /\ Cardinality(SiblingsIn(j, s, r, {"failed"})) =< CallBudget

MayPrepare(a, r, auth) ==
    LET j == attempt[a].job
        s == attempt[a].step IN
    /\ ExecutionAuthority(a, auth)
    /\ job[j].state = "running"
    /\ ~job[j].cancel
    /\ SiblingsIn(j, s, r, {"unknown", "started", "succeeded"}) = {}
    /\ Cardinality(SiblingsIn(j, s, r, {"failed"})) < CallBudget

\* prepare_external_operation: a new row, or the prepared row of an Attempt of
\* an older generation moved to this Attempt.
PrepareOperation(o, a, r, auth) ==
    LET j == attempt[a].job
        s == attempt[a].step IN
    /\ MayPrepare(a, r, auth)
    /\ \/ /\ SiblingsIn(j, s, r, {"prepared"}) = {}
          /\ operation[o].state = "absent"
          /\ operation' = [operation EXCEPT ![o] =
                [job |-> j, step |-> s, request |-> r, attempt |-> a,
                 state |-> "prepared"]]
       \/ /\ o \in SiblingsIn(j, s, r, {"prepared"})
          /\ attempt[operation[o].attempt].token < auth.generation
          /\ operation' = [operation EXCEPT ![o].attempt = a]
    /\ UNCHANGED <<job, claim, attempt, challenge, authorities>>

OwnsOperation(o, auth) ==
    LET a == operation[o].attempt IN
    /\ ExecutionAuthority(a, auth)
    /\ attempt[a].job = operation[o].job
    /\ attempt[a].step = operation[o].step

\* start_external_operation: the durable mark set before the provider is called.
StartOperation(o, auth) ==
    LET j == operation[o].job IN
    /\ operation[o].state = "prepared"
    /\ SiblingsIn(j, operation[o].step, operation[o].request, {"unknown"}) = {}
    /\ ~job[j].cancel
    /\ OwnsOperation(o, auth)
    /\ operation' = [operation EXCEPT ![o].state = "started"]
    /\ UNCHANGED <<job, claim, attempt, challenge, authorities>>

\* finish_external_operation
FinishOperation(o, outcome, auth) ==
    /\ outcome \in {"succeeded", "failed"}
    /\ operation[o].state = "started"
    /\ outcome = "succeeded" => ~job[operation[o].job].cancel
    /\ OwnsOperation(o, auth)
    /\ operation' = [operation EXCEPT ![o].state = outcome]
    /\ UNCHANGED <<job, claim, attempt, challenge, authorities>>

\* mark_external_operation_unknown
MarkOperationUnknown(o, auth) ==
    /\ operation[o].state = "started"
    /\ OwnsOperation(o, auth)
    /\ operation' = [operation EXCEPT ![o].state = "unknown"]
    /\ UNCHANGED <<job, claim, attempt, challenge, authorities>>

\* Operations an Attempt of an older generation started and never settled.
LostOperations(j, g) ==
    {o \in OperationsOf(j) : /\ operation[o].state = "started"
                             /\ attempt[operation[o].attempt].token < g}

\* reconcile_external_operations_after_process_loss
ReconcileOperations(auth) ==
    /\ JobAuthority(auth.job, auth)
    /\ LostOperations(auth.job, auth.generation) # {}
    /\ operation' =
          StartedBecomeUnknown(LostOperations(auth.job, auth.generation))
    /\ UNCHANGED <<job, claim, attempt, challenge, authorities>>

-----------------------------------------------------------------------------
(* The end of a Job.                                                       *)

\* commit_guard, commit_video_result_atomic and commit_recipe_result_atomic:
\* Attempt and Job succeed in the transaction that holds the portable commit.
CommitGuard(a, auth) ==
    LET j == attempt[a].job IN
    /\ ExecutionAuthority(a, auth)
    /\ job[j].state = "running"
    /\ ~job[j].cancel
    /\ \A b \in AttemptsOf(j) \ {a} : attempt[b].state \notin Unsettled

CommitResult(a, auth) ==
    /\ CommitGuard(a, auth)
    /\ attempt' = [attempt EXCEPT ![a].state = "succeeded"]
    /\ job' = [job EXCEPT ![attempt[a].job].state = "succeeded"]
    /\ UNCHANGED <<claim, operation, challenge, authorities>>

\* fail_job_atomic with an Attempt: Attempt and Job fail together.
FailJobWithAttempt(a, auth) ==
    LET j == attempt[a].job IN
    /\ JobAuthority(j, auth)
    /\ job[j].state = "running"
    /\ \/ /\ job[j].cancel
          /\ SettleClaimedCancellation(j)
       \/ /\ ~job[j].cancel
          /\ ExecutionAuthority(a, auth)
          /\ \A b \in AttemptsOf(j) \ {a} : attempt[b].state \notin Unsettled
          /\ attempt' = [attempt EXCEPT ![a].state = "failed"]
          /\ job' = [job EXCEPT ![j].state = "failed"]
          /\ UNCHANGED operation
    /\ UNCHANGED <<claim, challenge, authorities>>

\* fail_job_atomic without an Attempt
FailJob(j, auth) ==
    /\ JobAuthorityOrUnclaimed(j, auth)
    /\ job[j].state = "running"
    /\ \/ /\ job[j].cancel
          /\ SettleClaimedCancellation(j)
       \/ /\ ~job[j].cancel
          /\ AttemptsSettled(j)
          /\ job' = [job EXCEPT ![j].state = "failed"]
          /\ UNCHANGED <<attempt, operation>>
    /\ UNCHANGED <<claim, challenge, authorities>>

\* transition_job: the unguarded transitions only.
TransitionJob(j, state, auth) ==
    /\ JobAuthorityOrUnclaimed(j, auth)
    /\ state \notin {"succeeded", "cancelled"}
    /\ <<job[j].state, state>> \in LegalJobTransitions
    /\ state \in JobTerminal => AttemptsSettled(j)
    /\ job' = [job EXCEPT ![j].state = state]
    /\ UNCHANGED <<claim, attempt, operation, challenge, authorities>>

-----------------------------------------------------------------------------

UserStep ==
    \/ \E j \in Jobs, c \in ClientIds \cup {Nobody} : CreateJob(j, c)
    \/ \E original, j \in Jobs, c \in ClientIds, confirmed \in SUBSET Operations :
          CreateRetryJob(original, j, c, confirmed)
    \/ \E j \in Jobs : CancelJob(j)
    \/ \E c \in Challenges, b \in Attempts : RespondChallenge(c, b)

\* A running Job without any claim is reachable only through transition_job.
UnclaimedStep ==
    \/ \E j \in Jobs, s \in Steps, a \in Attempts : CreateAttempt(j, s, a, Nobody)
    \/ \E a \in Attempts, state \in AttemptTerminal : TransitionAttempt(a, state, Nobody)
    \/ \E j \in Jobs : FailJob(j, Nobody)
    \/ \E j \in Jobs, state \in JobStates : TransitionJob(j, state, Nobody)

ClaimStep ==
    \/ \E j \in Jobs, o \in Owners, g \in Generations : ClaimJob(j, o, g)
    \/ \E j \in Jobs : ExpireClaim(j)
    \/ \E auth \in authorities : HeartbeatJobClaim(auth) \/ ReleaseJobClaim(auth)
    \/ \E auth \in authorities : RecordWorkerLaunch(auth) \/ ClearWorkerLaunches(auth)

AttemptStep(auth) ==
    \/ \E s \in Steps, a \in Attempts : CreateAttempt(auth.job, s, a, auth)
    \/ \E a \in Attempts : StartAttempt(a, auth)
    \/ \E a, b \in Attempts : TakeOverAttempt(a, b, auth)
    \/ \E a \in Attempts, state \in AttemptTerminal : TransitionAttempt(a, state, auth)
    \/ \E a \in Attempts, c \in Challenges : PauseForExternalOutcome(a, c, auth)
    \/ \E a \in Attempts, c \in Challenges : CreateChallenge(auth.job, a, c)

OperationStep(auth) ==
    \/ \E o \in Operations, a \in Attempts, r \in Requests : PrepareOperation(o, a, r, auth)
    \/ \E o \in Operations : StartOperation(o, auth)
    \/ \E o \in Operations, outcome \in {"succeeded", "failed"} : FinishOperation(o, outcome, auth)
    \/ \E o \in Operations : MarkOperationUnknown(o, auth)
    \/ ReconcileOperations(auth)

EndStep(auth) ==
    \/ \E a \in Attempts : CommitResult(a, auth)
    \/ \E a \in Attempts : FailJobWithAttempt(a, auth)
    \/ FailJob(auth.job, auth)
    \/ \E state \in JobStates : TransitionJob(auth.job, state, auth)

Next ==
    \/ UserStep
    \/ UnclaimedStep
    \/ ClaimStep
    \/ \E auth \in authorities : AttemptStep(auth) \/ OperationStep(auth) \/ EndStep(auth)

Spec == Init /\ [][Next]_vars

-----------------------------------------------------------------------------
(* Safety invariants, for any order of calls by any number of processes.   *)

\* No two processes ever hold the same generation of a Job, and no authority
\* is newer than the row in job_execution_leases: the generation claim_job
\* returns is a fencing token.
FencingTokensUnique ==
    /\ \A x, y \in authorities :
          x.job = y.job /\ x.generation = y.generation => x = y
    /\ \A x \in authorities : x.generation =< claim[x.job].generation

\* Every running Attempt carries the generation of a claim that was granted for
\* its Job, so that a later claim_job can tell it is newer and take it over.
RunningAttemptsClaimed ==
    \A a \in Attempts :
        attempt[a].state = "running" =>
            \E x \in authorities : /\ x.job = attempt[a].job
                                   /\ x.generation = attempt[a].token

\* A Job never ends under an Attempt that still runs; a Job that succeeded or
\* failed has no Attempt left to run either (_ensure_attempts_settled).
TerminalJobsSettled ==
    \A a \in Attempts :
        /\ attempt[a].state = "running" => job[attempt[a].job].state \notin JobTerminal
        /\ attempt[a].state = "pending" =>
              job[attempt[a].job].state \notin {"succeeded", "failed"}

\* However processes interleave, crash and take over, one request of one step
\* never has two operations that may be billed: every row but the failed ones
\* is the only one (prepare_external_operation).
OneOpenOperation ==
    \A o, p \in Operations :
        /\ operation[o].state \notin {"absent", "failed"}
        /\ operation[p].state \notin {"absent", "failed"}
        /\ operation[o].job = operation[p].job
        /\ operation[o].step = operation[p].step
        /\ operation[o].request = operation[p].request
        => o = p

\* However often a request is retried and its step taken over, it is paid for at
\* most max_attempts times.
CallsWithinBudget ==
    \A o \in Operations : operation[o].state # "absent" =>
        Cardinality(SiblingsIn(operation[o].job, operation[o].step,
                               operation[o].request, OperationStates)) =< CallBudget

\* The user is asked one thing at a time, about an Attempt that stopped to ask,
\* and an answer is worth one Attempt of the same Job and step
\* (create_challenge, pause_for_external_outcome_atomic, respond_challenge_atomic).
ChallengesCoherent ==
    /\ \A c, d \in Challenges :
          /\ challenge[c].state = "pending" /\ challenge[d].state = "pending"
          /\ challenge[c].job = challenge[d].job
          => c = d
    /\ \A c \in Challenges : challenge[c].state # "absent" =>
          /\ attempt[challenge[c].attempt].state = "needs_input"
          /\ attempt[challenge[c].attempt].job = challenge[c].job
    /\ \A c, d \in Challenges :
          /\ challenge[c].state = "consumed" /\ challenge[d].state = "consumed"
          /\ challenge[c].response = challenge[d].response
          => c = d
    /\ \A c \in Challenges : challenge[c].state = "consumed" =>
          /\ attempt[challenge[c].response].job = challenge[c].job
          /\ attempt[challenge[c].response].step
                = attempt[challenge[c].attempt].step

\* A client_request_id names one Job for ever, and a retry refers to a Job that
\* has ended and stays so (create_job, create_retry_job_atomic).
SubmissionsIdempotent ==
    /\ \A i, j \in Jobs :
          job[i].client = job[j].client /\ job[i].client # Nobody => i = j
    /\ \A j \in Jobs : job[j].retryOf # Nobody =>
          job[job[j].retryOf].state \in JobTerminal /\ job[j].client # Nobody

-----------------------------------------------------------------------------
(* Action properties.                                                      *)

Fenced(a) == attempt[a].token < claim[attempt[a].job].generation

\* Once a newer generation exists, an Attempt of an older one can no longer
\* succeed, fail or pause: it is interrupted by the takeover or cancelled.
FencedAttemptNeverCompletes ==
    [][\A a \in Attempts :
          attempt[a].state = "running" /\ Fenced(a) =>
              attempt'[a].state \in {"running", "interrupted", "cancelled"}]_vars

\* Nor can the process behind it settle the paid call it started: the outcome
\* of that call becomes unknown and nothing else.
FencedOperationOnlyUnknown ==
    [][\A o \in Operations :
          operation[o].state = "started" /\ Fenced(operation[o].attempt) =>
              operation'[o].state \in {"started", "unknown"}]_vars

\* From the moment the cancellation flag is set no Attempt starts to run, no
\* paid call starts or is recorded as successful, and the Job cannot succeed.
CancellationStopsWork ==
    [][\A j \in Jobs : job[j].cancel =>
          /\ job'[j].cancel
          /\ job[j].state # "succeeded" => job'[j].state # "succeeded"
          /\ \A a \in Attempts :
                attempt'[a].job = j /\ attempt'[a].state = "running" =>
                    attempt[a].state = "running"
          /\ \A o \in Operations : operation[o].job = j =>
                /\ operation'[o].state = "started" => operation[o].state = "started"
                /\ operation'[o].state = "succeeded" => operation[o].state = "succeeded"
      ]_vars

\* A terminal Job stays as it ended: no new Attempt, no new or newly settled
\* paid call; the only thing a late reconciliation may add is `unknown'.
TerminalJobsFrozen ==
    [][\A j \in Jobs : job[j].state \in JobTerminal =>
          /\ job'[j] = job[j]
          /\ \A a \in Attempts : attempt'[a].job = j =>
                /\ attempt[a].job = j
                /\ attempt'[a].state # attempt[a].state =>
                      attempt'[a].state \in {"cancelled", "skipped"}
          /\ \A o \in Operations : operation'[o].job = j =>
                /\ operation[o].job = j
                /\ operation'[o].state # operation[o].state =>
                      operation'[o].state = "unknown"
      ]_vars

\* The raw UPDATE statements of claim, takeover, pause, commit and settlement
\* stay within the transition tables of state_machine.py.
LegalTransitionsOnly ==
    [][/\ \A j \in Jobs : job'[j].state # job[j].state =>
             \/ job[j].state = "absent" /\ job'[j].state = "queued"
             \/ <<job[j].state, job'[j].state>> \in LegalJobTransitions
       /\ \A a \in Attempts : attempt'[a].state # attempt[a].state =>
             \/ attempt[a].state = "absent" /\ attempt'[a].state \in Unsettled
             \/ <<attempt[a].state, attempt'[a].state>> \in LegalAttemptTransitions
      ]_vars

=============================================================================
