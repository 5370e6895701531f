-------------------------- MODULE EngineDispatcher --------------------------
(***************************************************************************)
(* backend/app/engine/job_dispatcher.py: the bounded wake queue of the     *)
(* engine process over the durable Jobs of every registered Workspace.     *)
(* One dispatcher thread scans the stores, admits a Job and starts a       *)
(* supervisor thread for its worker; connection threads notify new Jobs;   *)
(* the host thread scans before it stops for idleness or drains on a       *)
(* request.  What survives the engine is the Jobs, their launch counts and *)
(* the workers a killed engine left behind (orphans).                      *)
(*                                                                         *)
(* Jobs are numbered in the order list_engine_execution_candidates uses    *)
(* (created_at, job_id); 0 is "no Job", the start of a scan.               *)
(***************************************************************************)
EXTENDS Naturals, Sequences, FiniteSets, SequencesExt

CONSTANTS
    Jobs,           \* a set of positive numbers, in creation order
    Instances,      \* the registered Workspace instances, a sequence
    Home,           \* the instance of a Job
    MaxPending,     \* maximum_pending_jobs
    MaxActive,      \* maximum_active_workers, as many machine slots
    PageSize,       \* DISCOVERY_PAGE_SIZE
    MaxLaunches,    \* MAXIMUM_AUTOMATIC_WORKER_LAUNCHES
    MaxFaults,      \* bound on failing store calls
    MaxTakes,       \* bound on slots taken by processes other than the engine
    MaxResponses,   \* bound on answers to waiting Jobs
    MaxCrashes,     \* bound on kills of the engine process
    MaxLost         \* bound on clients that die before they notify

DispatcherAssumption ==
    /\ Jobs \subseteq Nat \ {0} /\ IsFiniteSet(Jobs)
    /\ Instances \in Seq(Range(Instances)) /\ Home \in [Jobs -> Range(Instances)]
    /\ MaxActive \in Nat \ {0} /\ MaxPending \in Nat /\ MaxPending >= MaxActive
    /\ PageSize \in Nat \ {0} /\ MaxLaunches \in Nat \ {0}
    /\ {MaxFaults, MaxTakes, MaxResponses, MaxCrashes, MaxLost} \subseteq Nat

VARIABLES
    job,        \* durable: the state of each Job
    launches,   \* durable: worker_launch_count
    cancelling, \* durable: Jobs with cancellation_requested
    orphans,    \* Jobs claimed by a worker whose engine was killed
    others,     \* machine slots held by other processes
    pending, known, active, requested, failed, draining, stopped,
    cursor,     \* _scan_cursors
    resumeAt,   \* _next_instance_id
    scan,       \* the locals of the reconcile that runs
    due,        \* the reconcile interval has passed
    loop,       \* where the dispatcher thread is, and its reference
    worker,     \* the supervisor thread of a Job
    notifying,  \* Jobs whose notify has read the store and not enqueued yet
    unnotified, \* Jobs whose client has not called notify yet
    host,       \* what the host thread does
    budget      \* what is left of the bounds on the environment

durable == <<job, launches, cancelling>>
queue == <<pending, known, active, requested, failed>>
scanning == <<cursor, resumeAt, scan>>
outside == <<orphans, others, unnotified, budget>>
vars == <<durable, queue, scanning, outside, draining, stopped, due, loop,
          worker, notifying, host>>

\* Only the distinctions the dispatcher draws: "ready" is QUEUED or RUNNING.
JobStates == {"absent", "ready", "waiting", "ended", "exhausted"}
NoInstance == "none"
Idle == [by |-> "none", todo |-> <<>>, after |-> 0, page |-> <<>>,
         opened |-> FALSE, whole |-> FALSE, error |-> FALSE]
NoWorker == [phase |-> "none", count |-> 0, done |-> FALSE,
             controlled |-> FALSE, clean |-> FALSE]

Ready(j) == job[j] = "ready"
Running == host \notin {"down", "closed"}

Init ==
    /\ job = [j \in Jobs |-> "absent"] /\ launches = [j \in Jobs |-> 0]
    /\ cancelling = {} /\ orphans = {} /\ others = 0 /\ unnotified = {}
    /\ budget = [faults |-> MaxFaults, takes |-> MaxTakes, responses |-> MaxResponses,
                 crashes |-> MaxCrashes, lost |-> MaxLost]
    /\ pending = <<>> /\ known = {} /\ active = {} /\ notifying = {}
    /\ requested = FALSE /\ failed = FALSE /\ draining = FALSE /\ stopped = FALSE
    /\ cursor = [i \in Range(Instances) |-> 0] /\ resumeAt = NoInstance
    /\ scan = Idle /\ due = TRUE
    /\ loop = [at |-> "top", ref |-> 0]
    /\ worker = [j \in Jobs |-> NoWorker]
    /\ host = "serving"

\* The memory of a process that was killed is that of one that starts.
Forget(h) ==
    /\ pending' = <<>> /\ known' = {} /\ active' = {} /\ notifying' = {}
    /\ requested' = FALSE /\ failed' = FALSE /\ draining' = FALSE /\ stopped' = FALSE
    /\ cursor' = [i \in Range(Instances) |-> 0] /\ resumeAt' = NoInstance
    /\ scan' = Idle /\ due' = TRUE
    /\ loop' = [at |-> "top", ref |-> 0]
    /\ worker' = [j \in Jobs |-> NoWorker]
    /\ host' = h

Spend(what) == /\ budget[what] > 0
               /\ budget' = [budget EXCEPT ![what] = @ - 1]

-----------------------------------------------------------------------------
(* The users of the store and of the machine.                              *)

\* A Job becomes durable before its client notifies the engine.
Submit(j) ==
    /\ job[j] = "absent"
    /\ job' = [job EXCEPT ![j] = "ready"]
    /\ unnotified' = unnotified \cup {j}
    /\ UNCHANGED <<launches, cancelling, queue, scanning, orphans, others, budget,
                   draining, stopped, due, loop, worker, notifying, host>>

\* job respond: the answer queues the Job again, then its client notifies.
Respond(j) ==
    /\ job[j] = "waiting"
    /\ Spend("responses")
    /\ job' = [job EXCEPT ![j] = "ready"]
    /\ unnotified' = unnotified \cup {j}
    /\ UNCHANGED <<launches, cancelling, queue, scanning, orphans, others, draining,
                   stopped, due, loop, worker, notifying, host>>

\* A Job without a claim ends at once, one that runs is asked to stop.
Cancel(j) ==
    /\ job[j] \in {"ready", "waiting"}
    /\ IF Ready(j) /\ (worker[j] # NoWorker \/ j \in orphans)
       THEN cancelling' = cancelling \cup {j} /\ UNCHANGED job
       ELSE job' = [job EXCEPT ![j] = "ended"] /\ UNCHANGED cancelling
    /\ UNCHANGED <<launches, queue, scanning, outside, draining, stopped, due, loop,
                   worker, notifying, host>>

\* The client dies before it notifies.
ClientLost(j) ==
    /\ j \in unnotified
    /\ Spend("lost")
    /\ unnotified' = unnotified \ {j}
    /\ UNCHANGED <<durable, queue, scanning, orphans, others, draining,
                   stopped, due, loop, worker, notifying, host>>

Leased == {j \in Jobs : worker[j] # NoWorker} \cup orphans
          \cup (IF loop.at = "claim" THEN {loop.ref} ELSE {})

OthersTake ==
    /\ Cardinality(Leased) + others < MaxActive
    /\ Spend("takes")
    /\ others' = others + 1
    /\ UNCHANGED <<durable, queue, scanning, orphans, unnotified, draining, stopped,
                   due, loop, worker, notifying, host>>

OthersFree ==
    /\ others > 0
    /\ others' = others - 1
    /\ UNCHANGED <<durable, queue, scanning, orphans, unnotified, budget, draining,
                   stopped, due, loop, worker, notifying, host>>

\* The worker of a killed engine finishes, or its claim expires.
OrphanEnds(j) ==
    /\ j \in orphans
    /\ orphans' = orphans \ {j}
    /\ \/ ~Ready(j) /\ UNCHANGED <<job, launches>>
       \/ Ready(j) /\ j \notin cancelling /\ UNCHANGED <<job, launches>>
       \/ Ready(j) /\ job' = [job EXCEPT ![j] = "ended"] /\ UNCHANGED launches
       \/ /\ Ready(j) /\ j \notin cancelling
          /\ job' = [job EXCEPT ![j] = "waiting"]
          /\ launches' = [launches EXCEPT ![j] = 0]
    /\ UNCHANGED <<cancelling, queue, scanning, others, unnotified, budget, draining,
                   stopped, due, loop, worker, notifying, host>>

-----------------------------------------------------------------------------
(* notify, on a connection thread.                                         *)

\* A client holds the launch lock; the host holds it while it decides to stop.
Notify(j) ==
    /\ host \in {"serving", "draining"} /\ ~draining
    /\ j \in unnotified
    /\ IF Ready(j) THEN notifying' = notifying \cup {j} /\ UNCHANGED unnotified
                   ELSE unnotified' = unnotified \ {j} /\ UNCHANGED notifying
    /\ UNCHANGED <<durable, queue, scanning, orphans, others, budget, draining,
                   stopped, due, loop, worker, host>>

\* _enqueue under the condition: accept or refuse.
Accepts(j) == j \notin known /\ Cardinality(known) < MaxPending
Enqueue(j) ==
    /\ known' = known \cup {j}
    /\ pending' = Append(pending, j)

NotifyEnqueue(j) ==
    /\ j \in notifying
    /\ notifying' = notifying \ {j} /\ unnotified' = unnotified \ {j}
    /\ IF ~draining /\ Accepts(j) THEN Enqueue(j) ELSE UNCHANGED <<known, pending>>
    /\ UNCHANGED <<durable, active, requested, failed, scanning, orphans, others, budget,
                   draining, stopped, due, loop, worker, host>>

-----------------------------------------------------------------------------
(* reconcile, on the dispatcher thread ("loop") or the host's ("host").    *)

\* _ordered_instances
Ordered ==
    IF resumeAt = NoInstance THEN Instances
    ELSE LET k == CHOOSE n \in 1..Len(Instances) : Instances[n] = resumeAt
         IN SubSeq(Instances, k, Len(Instances)) \o SubSeq(Instances, 1, k - 1)

\* The thread that scanned goes on: `raised' when reconcile raised.
Resume(raised) ==
    /\ scan' = Idle
    /\ IF scan.by = "loop"
       THEN /\ loop' = [loop EXCEPT !.at = "next"] /\ due' = FALSE
            /\ UNCHANGED host
       ELSE /\ host' = IF raised THEN "serving" ELSE "deciding"
            /\ UNCHANGED <<loop, due>>

BeginReconcile(by) ==
    /\ scan = Idle
    /\ by = "loop" => loop.at = "reconcile"
    /\ by = "host" => host = "reconciling"
    /\ IF draining
       THEN /\ UNCHANGED <<failed, scan>>
            /\ IF by = "loop" THEN loop' = [loop EXCEPT !.at = "next"] /\ UNCHANGED host
                              ELSE host' = "deciding" /\ UNCHANGED loop
       ELSE /\ failed' = TRUE
            /\ scan' = [Idle EXCEPT !.by = by, !.todo = Ordered,
                                    !.after = IF Ordered = <<>> THEN 0 ELSE cursor[Head(Ordered)]]
            /\ UNCHANGED <<host, loop>>
    /\ due' = IF draining /\ by = "loop" THEN FALSE ELSE due
    /\ UNCHANGED <<durable, pending, known, active, requested, cursor, resumeAt, outside,
                   draining, stopped, worker, notifying>>

\* The scan of the next instance starts where an earlier pass stopped.
NextInstance(error) ==
    LET rest == Tail(scan.todo) IN
    scan' = [scan EXCEPT !.todo = rest, !.page = <<>>, !.opened = FALSE, !.whole = FALSE,
                         !.error = error,
                         !.after = IF rest = <<>> THEN 0 ELSE cursor[Head(rest)]]

\* list_engine_execution_candidates: ready, without a live claim, after the cursor.
Candidates(i, after) ==
    SetToSortSeq({j \in Jobs : Home[j] = i /\ Ready(j) /\ j \notin orphans /\ j > after},
                 LAMBDA a, b : a < b)

ReadPage ==
    /\ scan.todo # <<>> /\ scan.page = <<>>
    /\ LET i == Head(scan.todo)
           found == Candidates(i, scan.after)
       IN IF found = <<>>
          THEN cursor' = [cursor EXCEPT ![i] = 0] /\ NextInstance(scan.error)
          ELSE /\ scan' = [scan EXCEPT
                             !.page = SubSeq(found, 1, IF Len(found) < PageSize
                                                       THEN Len(found) ELSE PageSize),
                             !.opened = TRUE, !.whole = Len(found) < PageSize]
               /\ UNCHANGED cursor
    /\ UNCHANGED <<durable, queue, resumeAt, outside, draining, stopped, due, loop,
                   worker, notifying, host>>

\* A store that does not open is passed over, and its error raised at the end.
OpenFails ==
    /\ scan.todo # <<>> /\ ~scan.opened
    /\ Spend("faults")
    /\ NextInstance(TRUE)
    /\ UNCHANGED <<durable, queue, cursor, resumeAt, orphans, others, unnotified, draining,
                   stopped, due, loop, worker, notifying, host>>

\* A failing query ends the pass.
ReadFails ==
    /\ scan.todo # <<>> /\ scan.page = <<>>
    /\ Spend("faults")
    /\ Resume(TRUE)
    /\ UNCHANGED <<durable, queue, cursor, resumeAt, orphans, others, unnotified, draining,
                   stopped, worker, notifying>>

\* A Job of the page was handled; the end of a short page ends its instance.
Advance(j) ==
    LET i == Head(scan.todo) rest == Tail(scan.page) IN
    IF rest = <<>> /\ scan.whole
    THEN cursor' = [cursor EXCEPT ![i] = 0] /\ NextInstance(scan.error)
    ELSE /\ cursor' = IF rest = <<>> THEN [cursor EXCEPT ![i] = j] ELSE cursor
         /\ scan' = [scan EXCEPT !.page = rest, !.after = j]

ScanKnown ==
    /\ scan.page # <<>> /\ ~draining
    /\ Head(scan.page) \in known
    /\ Advance(Head(scan.page))
    /\ UNCHANGED <<durable, queue, resumeAt, outside, draining, stopped, due, loop,
                   worker, notifying, host>>

ScanEnqueue ==
    /\ scan.page # <<>> /\ ~draining
    /\ Accepts(Head(scan.page))
    /\ Enqueue(Head(scan.page))
    /\ Advance(Head(scan.page))
    /\ UNCHANGED <<durable, active, requested, failed, resumeAt, outside, draining,
                   stopped, due, loop, worker, notifying, host>>

\* The queue is full: the next pass resumes at this Job, and is still owed.
ScanBackpressure ==
    /\ scan.page # <<>> /\ ~draining
    /\ Head(scan.page) \notin known /\ ~Accepts(Head(scan.page))
    /\ cursor' = [cursor EXCEPT ![Head(scan.todo)] = scan.after]
    /\ resumeAt' = Head(scan.todo)
    /\ Resume(FALSE)
    /\ UNCHANGED <<durable, queue, outside, draining, stopped, worker, notifying>>

ScanDraining ==
    /\ scan.page # <<>> /\ draining
    /\ Resume(TRUE)
    /\ UNCHANGED <<durable, queue, cursor, resumeAt, outside, draining, stopped,
                   worker, notifying>>

EndReconcile ==
    /\ scan.by # "none" /\ scan.todo = <<>>
    /\ IF scan.error THEN UNCHANGED <<resumeAt, failed>>
                     ELSE resumeAt' = NoInstance /\ failed' = FALSE
    /\ Resume(scan.error)
    /\ UNCHANGED <<durable, pending, known, active, requested, cursor, outside,
                   draining, stopped, worker, notifying>>

-----------------------------------------------------------------------------
(* _run, the dispatcher thread.                                            *)

TimerExpires ==
    /\ loop.at \in {"top", "next"} /\ ~due /\ ~stopped
    /\ due' = TRUE
    /\ UNCHANGED <<durable, queue, scanning, outside, draining, stopped, loop, worker,
                   notifying, host>>

Top ==
    /\ loop.at = "top" /\ host # "down"
    /\ requested' = IF stopped THEN requested ELSE FALSE
    /\ loop' = [loop EXCEPT !.at = CASE stopped -> "joining"
                                     [] ~stopped /\ (requested \/ due) -> "reconcile"
                                     [] OTHER -> "next"]
    /\ UNCHANGED <<durable, pending, known, active, failed, scanning, outside, draining,
                   stopped, due, worker, notifying, host>>

\* _next_reference: a request, then a free worker, then the timer.
TakeReference ==
    /\ loop.at = "next" /\ ~stopped /\ ~requested
    /\ pending # <<>> /\ Cardinality(active) < MaxActive
    /\ pending' = Tail(pending)
    /\ active' = active \cup {Head(pending)}
    /\ loop' = [at |-> "admit", ref |-> Head(pending)]
    /\ UNCHANGED <<durable, known, requested, failed, scanning, outside, draining,
                   stopped, due, worker, notifying, host>>

NextReferenceReturns ==
    /\ loop.at = "next"
    /\ stopped \/ requested \/ (due /\ (pending = <<>> \/ Cardinality(active) >= MaxActive))
    /\ loop' = [loop EXCEPT !.at = "top"]
    /\ UNCHANGED <<durable, queue, scanning, outside, draining, stopped, due, worker,
                   notifying, host>>

\* Mutant: the reference stays known.
FinishStillKnown(j, reconcile) ==
    /\ active' = active \ {j} /\ known' = known
    /\ requested' = (requested \/ reconcile)
\* _finish_reference
Finish(j, reconcile) ==
    /\ active' = active \ {j} /\ known' = known \ {j}
    /\ requested' = (requested \/ reconcile)

\* The dispatcher thread drops its reference.
Drop(reconcile) ==
    /\ Finish(loop.ref, reconcile)
    /\ loop' = [at |-> "top", ref |-> 0]

\* _settle_exhausted_worker_failure of a ready Job: a pending cancellation wins,
\* an unknown external outcome pauses the Job and frees its budget.
SettleExhausted(j) ==
    \/ /\ job' = [job EXCEPT ![j] = IF j \in cancelling THEN "ended" ELSE "exhausted"]
       /\ UNCHANGED launches
    \/ /\ job' = [job EXCEPT ![j] = "waiting"]
       /\ launches' = [launches EXCEPT ![j] = 0]

\* Mutant: one launch too many.
SpentLate(j) == launches[j] > MaxLaunches

\* The durable count is at MAXIMUM_AUTOMATIC_WORKER_LAUNCHES.
Spent(j) == launches[j] >= MaxLaunches

\* _admit_worker up to the slot.
AdmitEnded ==
    /\ loop.at = "admit" /\ ~Ready(loop.ref)
    /\ Drop(TRUE)
    /\ UNCHANGED <<durable, pending, failed, scanning, outside, draining, stopped, due,
                   worker, notifying, host>>

AdmitSpent ==
    /\ loop.at = "admit" /\ Ready(loop.ref) /\ Spent(loop.ref)
    /\ IF loop.ref \in orphans
       THEN Drop(FALSE) /\ UNCHANGED <<job, launches>>
       ELSE Drop(TRUE) /\ SettleExhausted(loop.ref)
    /\ UNCHANGED <<cancelling, pending, failed, scanning, outside, draining, stopped,
                   due, worker, notifying, host>>

SlotFree == Cardinality(Leased) + others < MaxActive

AdmitBusy ==
    /\ loop.at = "admit" /\ Ready(loop.ref) /\ ~Spent(loop.ref)
    /\ ~SlotFree
    /\ Drop(FALSE)
    /\ UNCHANGED <<durable, pending, failed, scanning, outside, draining, stopped, due,
                   worker, notifying, host>>

\* acquire, then handoff to a fresh worker identity.
AdmitSlot ==
    /\ loop.at = "admit" /\ Ready(loop.ref) /\ ~Spent(loop.ref)
    /\ SlotFree
    /\ loop' = [loop EXCEPT !.at = "claim"]
    /\ UNCHANGED <<durable, queue, scanning, outside, draining, stopped, due, worker,
                   notifying, host>>

AdmitFails ==
    /\ loop.at \in {"admit", "claim"}
    /\ Spend("faults")
    /\ Drop(FALSE)
    /\ UNCHANGED <<durable, pending, failed, scanning, orphans, others, unnotified,
                   draining, stopped, due, worker, notifying, host>>

\* claim_job for the worker, then _start_worker.
AdmitClaim ==
    /\ loop.at = "claim"
    /\ IF loop.ref \in orphans \/ ~Ready(loop.ref)
       THEN Drop(~Ready(loop.ref)) /\ UNCHANGED worker
       ELSE /\ worker' = [worker EXCEPT ![loop.ref].phase = "launch"]
            /\ loop' = [at |-> "top", ref |-> 0]
            /\ UNCHANGED <<active, known, requested>>
    /\ UNCHANGED <<durable, pending, failed, scanning, outside, draining, stopped, due,
                   notifying, host>>

\* _join_worker_threads
Joined ==
    /\ loop.at = "joining" /\ \A j \in Jobs : worker[j] = NoWorker
    /\ loop' = [loop EXCEPT !.at = "dead"]
    /\ UNCHANGED <<durable, queue, scanning, outside, draining, stopped, due, worker,
                   notifying, host>>

-----------------------------------------------------------------------------
(* _supervise_worker, one thread for each admitted Job.                    *)

RecordLaunch(j) ==
    /\ worker[j].phase = "launch"
    /\ \/ /\ Ready(j)
          /\ launches' = [launches EXCEPT ![j] = @ + 1]
          /\ worker' = [worker EXCEPT ![j].phase = "run", ![j].count = launches[j] + 1]
          /\ UNCHANGED budget
       \/ /\ IF Ready(j) THEN Spend("faults") ELSE UNCHANGED budget
          /\ worker' = [worker EXCEPT ![j].phase = "settle"]
          /\ UNCHANGED launches
    /\ UNCHANGED <<job, cancelling, queue, scanning, orphans, others, unnotified,
                   draining, stopped, due, loop, notifying, host>>

\* The worker process brings its Job to an end or to a question.
WorkerWorks(j) ==
    /\ worker[j].phase = "run" /\ ~worker[j].done /\ Ready(j)
    /\ \/ job' = [job EXCEPT ![j] = "ended"] /\ UNCHANGED launches
       \/ /\ j \notin cancelling
          /\ job' = [job EXCEPT ![j] = "waiting"]
          /\ launches' = [launches EXCEPT ![j] = 0]
    /\ worker' = [worker EXCEPT ![j].done = TRUE]
    /\ UNCHANGED <<cancelling, queue, scanning, outside, draining, stopped, due, loop,
                   notifying, host>>

\* It exits: with 0 only after it saw its Job settled, or it dies, or times out.
WorkerExits(j) ==
    /\ worker[j].phase = "run"
    /\ \E clean \in {FALSE, worker[j].done \/ ~Ready(j)} :
          worker' = [worker EXCEPT ![j].phase = "settle", ![j].clean = clean]
    /\ UNCHANGED <<durable, queue, scanning, outside, draining, stopped, due, loop,
                   notifying, host>>

\* check_running raises: the engine stops, or a cancellation is overdue.
WorkerStopped(j) ==
    /\ worker[j].phase = "run" /\ (stopped \/ j \in cancelling)
    /\ worker' = [worker EXCEPT ![j].phase = "settle", ![j].controlled = TRUE]
    /\ UNCHANGED <<durable, queue, scanning, outside, draining, stopped, due, loop,
                   notifying, host>>

\* The count the supervisor compares is the one it read when it launched.
Poisoned(j) == ~worker[j].controlled /\ worker[j].count >= MaxLaunches

Settle(j) ==
    /\ worker[j].phase = "settle"
    /\ worker' = [worker EXCEPT ![j].phase = "finish"]
    /\ \/ \* settle_cancellation claims the Job, which ends it
          /\ Ready(j) /\ j \in cancelling
          /\ job' = [job EXCEPT ![j] = "ended"]
          /\ launches' = [launches EXCEPT ![j] = 0]
          /\ UNCHANGED <<failed, budget>>
       \/ /\ ~Ready(j)
          /\ launches' = [launches EXCEPT ![j] = 0]
          /\ UNCHANGED <<job, failed, budget>>
       \/ /\ Ready(j) /\ j \notin cancelling /\ Poisoned(j)
          /\ SettleExhausted(j)
          /\ UNCHANGED <<failed, budget>>
       \/ /\ Ready(j) /\ j \notin cancelling /\ ~Poisoned(j)
          /\ UNCHANGED <<job, launches, failed, budget>>
       \/ /\ Spend("faults") /\ failed' = TRUE /\ UNCHANGED <<job, launches>>
    /\ UNCHANGED <<cancelling, pending, known, active, requested, scanning, orphans, others,
                   unnotified, draining, stopped, due, loop, notifying, host>>

\* Both leases are released, then the reference.
FinishWorker(j) ==
    /\ worker[j].phase = "finish"
    /\ worker' = [worker EXCEPT ![j] = NoWorker]
    /\ Finish(j, worker[j].clean)
    /\ UNCHANGED <<durable, pending, failed, scanning, outside, draining, stopped, due,
                   loop, notifying, host>>

-----------------------------------------------------------------------------
(* What the host thread asks of the dispatcher.                            *)

HasWork == pending # <<>> \/ active # {} \/ scan.by # "none" \/ failed

\* No request is served, the idle time has passed and the launch lock is free.
HostIdle ==
    /\ host = "serving" /\ ~HasWork /\ notifying = {}
    /\ host' = "reconciling"
    /\ UNCHANGED <<durable, queue, scanning, outside, draining, stopped, due, loop,
                   worker, notifying>>

\* try_begin_draining; otherwise the launch lock is given back.
HostDecides ==
    /\ host = "deciding"
    /\ draining' = (draining \/ ~HasWork)
    /\ host' = IF HasWork THEN "serving" ELSE "stopping"
    /\ UNCHANGED <<durable, queue, scanning, outside, stopped, due, loop, worker, notifying>>

\* begin_graceful_shutdown, on a connection thread.
GracefulShutdown ==
    /\ host = "serving"
    /\ host' = "draining" /\ draining' = TRUE
    /\ pending' = <<>> /\ known' = known \ Range(pending)
    /\ UNCHANGED <<durable, active, requested, failed, scanning, outside, stopped, due, loop,
                   worker, notifying>>

ReadyToClose == draining /\ pending = <<>> /\ active = {} /\ scan.by = "none"

\* ready_to_close was true, or try_begin_draining was; then close() follows.
HostReady ==
    /\ host = "draining" /\ ReadyToClose
    /\ host' = "stopping"
    /\ UNCHANGED <<durable, queue, scanning, outside, draining, stopped, due, loop,
                   worker, notifying>>

HostCloses ==
    /\ host = "stopping"
    /\ stopped' = TRUE
    /\ host' = "closing"
    /\ UNCHANGED <<durable, queue, scanning, outside, draining, due, loop, worker,
                   notifying>>

HostGone ==
    /\ host = "closing" /\ loop.at = "dead"
    /\ host' = "closed"
    /\ notifying' = {}
    /\ UNCHANGED <<durable, queue, scanning, outside, draining, stopped, due, loop, worker>>

\* The process is killed: its workers live on until they end, and what it had
\* claimed stays claimed until it expires.
Crash ==
    /\ Running
    /\ Spend("crashes")
    /\ orphans' = Leased
    /\ Forget("down")
    /\ UNCHANGED <<durable, others, unnotified>>

EngineStarts ==
    /\ ~Running
    /\ Forget("serving")
    /\ UNCHANGED <<durable, outside>>

-----------------------------------------------------------------------------

ScanStep == \/ ReadPage \/ OpenFails \/ ReadFails \/ ScanKnown \/ ScanEnqueue
            \/ ScanBackpressure \/ ScanDraining \/ EndReconcile

LoopStep == \/ Top \/ BeginReconcile("loop") \/ TakeReference \/ NextReferenceReturns
            \/ AdmitEnded \/ AdmitSpent \/ AdmitBusy \/ AdmitSlot \/ AdmitFails
            \/ AdmitClaim \/ Joined

SuperviseStep(j) == \/ RecordLaunch(j) \/ WorkerExits(j) \/ WorkerStopped(j)
                    \/ Settle(j) \/ FinishWorker(j)

HostStep == \/ BeginReconcile("host") \/ HostDecides \/ HostReady \/ HostCloses \/ HostGone

Environment ==
    \/ \E j \in Jobs : Submit(j) \/ Respond(j) \/ Cancel(j) \/ ClientLost(j) \/ OrphanEnds(j)
    \/ \E j \in Jobs : WorkerWorks(j)
    \/ OthersTake \/ OthersFree \/ Crash \/ EngineStarts

Next ==
    \/ ScanStep \/ LoopStep \/ TimerExpires \/ HostStep \/ HostIdle \/ GracefulShutdown
    \/ \E j \in Jobs : Notify(j) \/ NotifyEnqueue(j) \/ SuperviseStep(j)
    \/ Environment

Spec == Init /\ [][Next]_vars

\* Threads are scheduled, the timer runs, a worker is killed after its timeout,
\* a claim expires, another process gives its slot back.
FairSpec ==
    /\ Spec
    /\ WF_vars(ScanStep) /\ WF_vars(LoopStep) /\ WF_vars(TimerExpires) /\ WF_vars(HostStep)
    /\ WF_vars(OthersFree)
    /\ \A j \in Jobs : /\ WF_vars(NotifyEnqueue(j)) /\ WF_vars(OrphanEnds(j))
                       /\ WF_vars(SuperviseStep(j))

-----------------------------------------------------------------------------
(* Properties.                                                             *)

\* _known is what waits and what is active, within its limit, and every active
\* reference has the dispatcher thread or one supervisor thread behind it: a
\* reference that leaks would block its Job and a worker slot for ever.
TypeOK ==
    /\ job \in [Jobs -> JobStates] /\ launches \in [Jobs -> Nat]
    /\ cancelling \subseteq Jobs /\ orphans \subseteq Jobs /\ unnotified \subseteq Jobs
    /\ known = Range(pending) \cup active
    /\ Cardinality(known) = Len(pending) + Cardinality(active)
    /\ Cardinality(known) <= MaxPending /\ Cardinality(active) <= MaxActive
    /\ active = {j \in Jobs : worker[j] # NoWorker}
                \cup (IF loop.ref = 0 THEN {} ELSE {loop.ref})
    /\ loop.ref # 0 => worker[loop.ref] = NoWorker
    /\ cursor \in [Range(Instances) -> Jobs \cup {0}]

\* Engines, their orphans and other processes never hold more than the machine's slots.
SlotsNotOversubscribed == Cardinality(Leased) + others <= MaxActive

\* A Job that neither ended nor asked is launched at most MaxLaunches times,
\* whatever happens to the engines that launch it.
LaunchBudgetHolds == \A j \in Jobs : launches[j] <= MaxLaunches

\* A pass that ended without error and without a full queue leaves every cursor at
\* the start: only then may the host take "no work" for "every Job was looked at".
CleanPassLeavesNoCursor ==
    scan.by = "none" /\ ~failed =>
        resumeAt = NoInstance /\ \A i \in Range(Instances) : cursor[i] = 0

\* close() after ready_to_close or try_begin_draining never finds the dispatcher busy
\* (it would raise engine_dispatcher_busy and leave the host's locks behind).
CloseNeverBusy ==
    host \in {"stopping", "closing"} =>
        pending = <<>> /\ active = {} /\ scan.by = "none"

\* Once an engine drains it accepts no Job and starts no other worker.
DrainingTakesNothing ==
    [][draining /\ draining' => known' \subseteq known]_vars

\* A ready Job does not stay in the store untouched while an engine serves: whether
\* its notification was lost, refused or dropped as a duplicate, a worker is
\* launched for it or it is no longer ready.
ReadyJobsProceed ==
    \A j \in Jobs : Ready(j) ~> \/ ~Ready(j) \/ worker[j].phase = "run"
                                \/ draining \/ ~Running

\* An engine that stops because it is idle leaves no ready Job behind, unless the
\* client of the Job is still to come.
IdleStopLeavesNoWork ==
    [][host = "deciding" /\ host' = "stopping" =>
          \A j \in Jobs \ orphans : Ready(j) => j \in unnotified]_vars

\* engine_worker_retry_exhausted is only for a Job that used up its launches since
\* it last waited or was answered.
ExhaustedAfterItsLaunches ==
    [][\A j \in Jobs : Ready(j) /\ job'[j] = "exhausted" => launches[j] >= MaxLaunches]_vars

=============================================================================
