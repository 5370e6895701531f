----------------------------- MODULE EngineHost -----------------------------
(***************************************************************************)
(* backend/app/engine/host.py and client.py: the life of the engine        *)
(* process.  A host owns the lifetime lock while it lives and publishes a  *)
(* descriptor by which clients find it.  Clients ensure, notify and stop   *)
(* it, one at a time under the launch lock; the host takes the launch lock *)
(* itself before it stops for idleness.  Processes are killed at any time, *)
(* which frees their locks and leaves the descriptor behind; a request may *)
(* be handled after its client gave up.                                    *)
(*                                                                         *)
(* The dispatcher is abstracted to the Jobs it knows (accepted): its own   *)
(* threads are module EngineDispatcher.                                    *)
(***************************************************************************)
EXTENDS Naturals, FiniteSets

CONSTANTS
    Hosts,          \* engine processes; an identity is used again once forgotten
    Clients,        \* processes that use LocalEngineClient
    Jobs,           \* durable engine-owned Jobs
    None,           \* no process, no Job
    MaxKills,       \* bound on killed hosts
    MaxInterrupts,  \* bound on clients interrupted while they wait for a launch
    MaxFaults       \* bound on idle scans that fail

HostAssumption ==
    /\ None \notin Hosts \cup Clients \cup Jobs
    /\ Hosts \cap Clients = {}
    /\ {MaxKills, MaxInterrupts, MaxFaults} \subseteq Nat

VARIABLES
    launch,      \* holder of the launch lock
    lifetime,    \* holder of the lifetime lock: a host, or a client that probes it
    descriptor,  \* the host the descriptor file names
    host,        \* the state of each host process
    accepted,    \* Jobs its dispatcher knows
    quiet,       \* hosts whose idle time since the last hello has passed
    draining,    \* hosts whose dispatcher drains
    asked,       \* hosts that were asked to shut down
    requests,    \* requests sent to a host and not answered
    client,      \* where each client is
    queued,      \* durable: Jobs that wait for an engine
    budget

locks == <<launch, lifetime>>
hosts == <<host, accepted, quiet, draining, asked>>
vars == <<locks, descriptor, hosts, requests, client, queued, budget>>

\* "serving", "idle" and "checking" answer requests; a host that is "leaving" has closed
\* its listener; "absent" hosts can be launched.
HostStates == {"absent", "starting", "owning", "serving", "idle", "checking", "leaving",
               "unpublished", "unlocked", "exited"}
Live(h) == host[h] \notin {"absent", "exited"}
Answers(h) == host[h] \in {"serving", "idle", "checking"}

\* A request whose client gave up is from None.
Request == [from : Clients \cup {None}, to : Hosts, method : {"hello", "job.notify", "shutdown"},
            job : Jobs \cup {None}, active : BOOLEAN]
AtRest == [at |-> "rest", op |-> "none", job |-> None, engine |-> None]

Init ==
    /\ launch = None /\ lifetime = None /\ descriptor = None
    /\ host = [h \in Hosts |-> "absent"] /\ accepted = [h \in Hosts |-> {}]
    /\ quiet = {} /\ draining = {} /\ asked = {} /\ requests = {}
    /\ client = [c \in Clients |-> AtRest]
    /\ queued = {}
    /\ budget = [kills |-> MaxKills, interrupts |-> MaxInterrupts,
                 faults |-> MaxFaults]

Spend(what) == /\ budget[what] > 0
               /\ budget' = [budget EXCEPT ![what] = @ - 1]

Goto(c, at) == client' = [client EXCEPT ![c].at = at]

\* The launch lock is released on every way out of an operation.
Leave(c) == client' = [client EXCEPT ![c] = AtRest] /\ launch' = None

-----------------------------------------------------------------------------
(* LocalEngineClient.                                                      *)

\* ensure, notify_job of a Job that is durable, stop.
Acquire(c) ==
    /\ client[c] = AtRest /\ launch = None
    /\ launch' = c
    /\ \/ \E op \in {"ensure", "stop"} :
             /\ client' = [client EXCEPT ![c] = [AtRest EXCEPT !.at = "status", !.op = op]]
             /\ UNCHANGED queued
       \/ \E j \in Jobs :
             /\ queued' = queued \cup {j}
             /\ client' = [client EXCEPT ![c] =
                              [at |-> "status", op |-> "notify", job |-> j, engine |-> None]]
    /\ UNCHANGED <<lifetime, descriptor, hosts, requests, budget>>

Found == descriptor # None /\ Live(descriptor) /\ Answers(descriptor)

\* status: the descriptor names a live process that answers a health request.
StatusRunning(c) ==
    /\ client[c].at = "status" /\ Found
    /\ client' = [client EXCEPT ![c].engine = descriptor,
                                ![c].at = IF client[c].op = "stop" THEN "shutdown" ELSE "hello"]
    /\ UNCHANGED <<locks, descriptor, hosts, requests, queued, budget>>

\* The health request may also fail, or take longer than ipc_timeout_seconds, while the
\* engine serves.  stop refuses while the process of the descriptor lives.
StatusNotRunning(c) ==
    /\ client[c].at = "status"
    /\ IF client[c].op = "stop" /\ descriptor # None /\ Live(descriptor)
       THEN Leave(c)
       ELSE Goto(c, "probe") /\ UNCHANGED launch
    /\ UNCHANGED <<lifetime, descriptor, hosts, requests, queued, budget>>

\* Mutant: an engine that does not answer is taken for dead.
ProbeSkipped(c) ==
    /\ client[c].at = "probe"
    /\ Goto(c, "remove")
    /\ UNCHANGED <<locks, descriptor, hosts, requests, queued, budget>>

\* _lifetime_lock_is_free takes the lock for a moment.
Probe(c) ==
    /\ client[c].at = "probe"
    /\ IF lifetime = None
       THEN lifetime' = c /\ Goto(c, "probed") /\ UNCHANGED launch
       ELSE Leave(c) /\ UNCHANGED lifetime
    /\ UNCHANGED <<descriptor, hosts, requests, queued, budget>>

ProbeEnds(c) ==
    /\ client[c].at = "probed"
    /\ lifetime' = None
    /\ Goto(c, "remove")
    /\ UNCHANGED <<launch, descriptor, hosts, requests, queued, budget>>

\* _remove_stale_descriptor
RemoveStale(c) ==
    /\ client[c].at = "remove"
    /\ descriptor' = None
    /\ IF client[c].op = "stop" THEN Goto(c, "stopped") ELSE Goto(c, "launch")
    /\ UNCHANGED <<locks, hosts, requests, queued, budget>>

LaunchFails(c) ==
    /\ client[c].at = "launch"
    /\ Leave(c)
    /\ UNCHANGED <<lifetime, descriptor, hosts, requests, queued, budget>>

Launch(c, h) ==
    /\ client[c].at = "launch" /\ host[h] = "absent"
    /\ host' = [host EXCEPT ![h] = "starting"]
    /\ client' = [client EXCEPT ![c].at = "await", ![c].engine = h]
    /\ UNCHANGED <<locks, descriptor, accepted, quiet, draining, asked, requests, queued, budget>>

\* A started engine needs no hello; ensure is done, notify_job goes on.
AwaitRunning(c) ==
    /\ client[c].at = "await" /\ Found
    /\ client' = [client EXCEPT ![c].engine = descriptor,
                                ![c].at = IF client[c].op = "notify" THEN "notify" ELSE "done"]
    /\ UNCHANGED <<locks, descriptor, hosts, requests, queued, budget>>

\* Killed by its client: the operating system frees its locks.
Exit(h) ==
    /\ host' = [host EXCEPT ![h] = "exited"]
    /\ accepted' = [accepted EXCEPT ![h] = {}]
    /\ quiet' = quiet \ {h} /\ draining' = draining \ {h} /\ asked' = asked \ {h}
    /\ requests' = {q \in requests : q.to # h}

\* The child is gone, or the deadline passed and it is terminated, ready or not.
AwaitFails(c) ==
    /\ client[c].at = "await"
    /\ Exit(client[c].engine)
    /\ lifetime' = IF lifetime = client[c].engine THEN None ELSE lifetime
    /\ Leave(c)
    /\ UNCHANGED <<descriptor, queued, budget>>

\* Ctrl-C while the client waits releases its lock and leaves the child alone.
AwaitInterrupted(c) ==
    /\ client[c].at = "await"
    /\ Spend("interrupts")
    /\ Leave(c)
    /\ UNCHANGED <<lifetime, descriptor, hosts, requests, queued>>

MethodAt == [hello |-> "hello", notify |-> "job.notify", shutdown |-> "shutdown"]

Send(c) ==
    /\ client[c].at \in DOMAIN MethodAt
    /\ IF Answers(client[c].engine)
       THEN /\ requests' = requests \cup {[from |-> c, to |-> client[c].engine,
                                           method |-> MethodAt[client[c].at],
                                           job |-> client[c].job, active |-> FALSE]}
            /\ Goto(c, "asked") /\ UNCHANGED launch
       ELSE Leave(c) /\ UNCHANGED requests
    /\ UNCHANGED <<lifetime, descriptor, hosts, queued, budget>>

\* The connection breaks, or the answer takes longer than ipc_timeout_seconds.  What a
\* thread of the host has in hand is still handled.
GiveUp(c) ==
    /\ client[c].at = "asked"
    /\ Leave(c)
    /\ requests' = {q \in requests : q.from # c} \cup
                   {[q EXCEPT !.from = None] : q \in {r \in requests : r.from = c /\ r.active}}
    /\ UNCHANGED <<lifetime, descriptor, hosts, queued, budget>>

\* stop polls until the process is gone and its lock free, or its deadline passes.
StopSeesEnd(c) ==
    /\ client[c].at = "stopping" /\ ~Live(client[c].engine) /\ lifetime = None
    /\ Goto(c, "remove")
    /\ UNCHANGED <<locks, descriptor, hosts, requests, queued, budget>>

StopTimesOut(c) ==
    /\ client[c].at = "stopping"
    /\ Leave(c)
    /\ UNCHANGED <<lifetime, descriptor, hosts, requests, queued, budget>>

Return(c) ==
    /\ client[c].at \in {"done", "stopped"}
    /\ Leave(c)
    /\ UNCHANGED <<lifetime, descriptor, hosts, requests, queued, budget>>

-----------------------------------------------------------------------------
(* run_engine_host.                                                        *)

\* The lifetime lock is tried once.
Start(h) ==
    /\ host[h] = "starting"
    /\ IF lifetime = None
       THEN lifetime' = h /\ host' = [host EXCEPT ![h] = "owning"]
       ELSE host' = [host EXCEPT ![h] = "exited"] /\ UNCHANGED lifetime
    /\ UNCHANGED <<launch, descriptor, accepted, quiet, draining, asked, requests, client, queued,
                   budget>>

\* publish_descriptor replaces the file; the dispatcher starts.
Publish(h) ==
    /\ host[h] = "owning"
    /\ descriptor' = h
    /\ host' = [host EXCEPT ![h] = "serving"]
    /\ UNCHANGED <<locks, accepted, quiet, draining, asked, requests, client, queued, budget>>

\* The listener starts a thread for a connection, which counts as active.
Accept(q) ==
    /\ Answers(q.to) /\ ~q.active
    /\ requests' = (requests \ {q}) \cup {[q EXCEPT !.active = TRUE]}
    /\ UNCHANGED <<locks, descriptor, hosts, client, queued, budget>>

\* The client that still waits for the answer goes on: after hello comes the
\* notification, after shutdown the wait for the end.
Reply(q, ok) ==
    LET c == q.from
    IN IF c = None THEN UNCHANGED <<client, launch>>
       ELSE IF ~ok THEN Leave(c)
       ELSE /\ Goto(c, IF q.method = "shutdown" THEN "stopping"
                       ELSE IF q.method = "hello" /\ client[c].op = "notify" THEN "notify"
                       ELSE "done")
            /\ UNCHANGED launch

\* serve_connection
Handle(q) ==
    LET h == q.to IN
    /\ q.active /\ Live(h)
    /\ requests' = requests \ {q}
    /\ \/ /\ q.method = "hello"
          /\ quiet' = quiet \ {h}
          /\ Reply(q, TRUE)
          /\ UNCHANGED <<accepted, draining, asked>>
       \/ /\ q.method = "job.notify"
          /\ accepted' = IF h \in draining THEN accepted
                         ELSE [accepted EXCEPT ![h] = @ \cup ({q.job} \cap queued)]
          /\ Reply(q, h \notin draining)
          /\ UNCHANGED <<quiet, draining, asked>>
       \/ \* begin_graceful_shutdown: what no worker runs yet is let go
          /\ q.method = "shutdown"
          /\ draining' = draining \cup {h} /\ asked' = asked \cup {h}
          /\ \E active \in SUBSET accepted[h] : accepted' = [accepted EXCEPT ![h] = active]
          /\ Reply(q, TRUE)
          /\ UNCHANGED quiet
    /\ UNCHANGED <<lifetime, descriptor, host, queued, budget>>

Active(h) == \E q \in requests : q.to = h /\ q.active

\* A worker brings a Job to its end; without an engine the Job waits.
Work(h, j) ==
    /\ Live(h) /\ j \in accepted[h]
    /\ accepted' = [accepted EXCEPT ![h] = @ \ {j}]
    /\ queued' = queued \ {j}
    /\ UNCHANGED <<locks, descriptor, host, quiet, draining, asked, requests, client, budget>>

Reconcile(h) ==
    /\ host[h] \in {"serving", "idle"} /\ h \notin draining
    /\ accepted[h] # queued
    /\ accepted' = [accepted EXCEPT ![h] = queued]
    /\ UNCHANGED <<locks, descriptor, host, quiet, draining, asked, requests, client, queued, budget>>

IdleTimePasses(h) ==
    /\ host[h] = "serving" /\ h \notin quiet
    /\ quiet' = quiet \cup {h}
    /\ UNCHANGED <<locks, descriptor, host, accepted, draining, asked, requests, client, queued,
                   budget>>

\* The idle time passed, with no connection and no work.
IdleSees(h) ==
    /\ host[h] = "serving" /\ h \notin draining
    /\ ~Active(h) /\ h \in quiet /\ accepted[h] = {}
    /\ host' = [host EXCEPT ![h] = "idle"]
    /\ UNCHANGED <<locks, descriptor, accepted, quiet, draining, asked, requests, client, queued,
                   budget>>

\* The launch lock is tried once; clients may have had it in between.
IdleLock(h) ==
    /\ host[h] = "idle"
    /\ IF launch = None
       THEN launch' = h /\ host' = [host EXCEPT ![h] = "checking"]
       ELSE host' = [host EXCEPT ![h] = "serving"] /\ UNCHANGED launch
    /\ UNCHANGED <<lifetime, descriptor, accepted, quiet, draining, asked, requests, client, queued,
                   budget>>

\* The conditions are read again under the lock.
StillIdle(h) == ~Active(h) /\ h \in quiet /\ accepted[h] = {}

\* Mutant: what was notified since is not looked at.
IdleDecidesBlind(h) ==
    /\ host[h] = "checking"
    /\ draining' = draining \cup {h}
    /\ host' = [host EXCEPT ![h] = "leaving"]
    /\ UNCHANGED <<locks, descriptor, accepted, quiet, asked, requests, client, queued, budget>>

\* Mutant: an engine that is not idle any more keeps the launch lock until it is.
IdleDecidesInsists(h) ==
    /\ host[h] = "checking"
    /\ IF StillIdle(h) /\ queued = {}
       THEN draining' = draining \cup {h} /\ host' = [host EXCEPT ![h] = "leaving"]
       ELSE UNCHANGED <<draining, host>>
    /\ UNCHANGED <<locks, descriptor, accepted, quiet, asked, requests, client, queued, budget>>

\* reconcile, which a draining dispatcher skips, then try_begin_draining; otherwise the
\* launch lock is given back.
IdleDecides(h) ==
    /\ host[h] = "checking"
    /\ IF StillIdle(h) /\ (queued = {} \/ h \in draining)
       THEN /\ draining' = draining \cup {h}
            /\ host' = [host EXCEPT ![h] = "leaving"]
            /\ UNCHANGED <<launch, accepted>>
       ELSE /\ launch' = None
            /\ host' = [host EXCEPT ![h] = "serving"]
            /\ accepted' = IF StillIdle(h) THEN [accepted EXCEPT ![h] = queued] ELSE accepted
            /\ UNCHANGED draining
    /\ UNCHANGED <<lifetime, descriptor, quiet, asked, requests, client, queued, budget>>

\* The reconcile raises.
IdleReconcileFails(h) ==
    /\ host[h] = "checking"
    /\ Spend("faults")
    /\ launch' = None
    /\ host' = [host EXCEPT ![h] = "serving"]
    /\ UNCHANGED <<lifetime, descriptor, accepted, quiet, draining, asked, requests, client, queued>>

\* shutdown was requested and the dispatcher is ready to close.
GracefulEnd(h) ==
    /\ host[h] = "serving" /\ h \in draining /\ accepted[h] = {}
    /\ host' = [host EXCEPT ![h] = "leaving"]
    /\ UNCHANGED <<locks, descriptor, accepted, quiet, draining, asked, requests, client, queued,
                   budget>>

\* engine_id and nonce are compared before the file is removed.
OwnDescriptor(h) == descriptor = h

\* remove_owned_descriptor, after the connections were joined or given up.
Unpublish(h) ==
    /\ host[h] = "leaving"
    /\ descriptor' = IF OwnDescriptor(h) THEN None ELSE descriptor
    /\ requests' = {q \in requests : q.to # h}
    /\ host' = [host EXCEPT ![h] = "unpublished"]
    /\ UNCHANGED <<locks, accepted, quiet, draining, asked, client, queued, budget>>

UnlockLifetime(h) ==
    /\ host[h] = "unpublished"
    /\ lifetime' = None
    /\ host' = [host EXCEPT ![h] = "unlocked"]
    /\ UNCHANGED <<launch, descriptor, accepted, quiet, draining, asked, requests, client, queued,
                   budget>>

\* Only an idle stop holds the launch lock.
UnlockLaunch(h) ==
    /\ host[h] = "unlocked"
    /\ Exit(h)
    /\ launch' = IF launch = h THEN None ELSE launch
    /\ UNCHANGED <<lifetime, descriptor, client, queued, budget>>

Kill(h) ==
    /\ Live(h)
    /\ Spend("kills")
    /\ Exit(h)
    /\ launch' = IF launch = h THEN None ELSE launch
    /\ lifetime' = IF lifetime = h THEN None ELSE lifetime
    /\ UNCHANGED <<descriptor, client, queued>>

\* The identity of a process nobody refers to may stand for another one.
Forget(h) ==
    /\ host[h] = "exited" /\ descriptor # h
    /\ \A c \in Clients : client[c].engine # h
    /\ host' = [host EXCEPT ![h] = "absent"]
    /\ UNCHANGED <<locks, descriptor, accepted, quiet, draining, asked, requests, client, queued,
                   budget>>

-----------------------------------------------------------------------------

ClientStep(c) ==
    \/ StatusRunning(c) \/ StatusNotRunning(c) \/ Probe(c) \/ ProbeEnds(c) \/ RemoveStale(c)
    \/ LaunchFails(c) \/ \E h \in Hosts : Launch(c, h)
    \/ AwaitRunning(c) \/ AwaitFails(c) \/ AwaitInterrupted(c)
    \/ Send(c) \/ GiveUp(c) \/ StopSeesEnd(c) \/ StopTimesOut(c) \/ Return(c)

HostStep(h) ==
    \/ Start(h) \/ Publish(h) \/ Reconcile(h) \/ IdleSees(h) \/ IdleLock(h) \/ IdleDecides(h) \/ IdleReconcileFails(h)
    \/ GracefulEnd(h)
    \/ Unpublish(h) \/ UnlockLifetime(h) \/ UnlockLaunch(h)
    \/ \E j \in Jobs : Work(h, j)

Next ==
    \/ \E c \in Clients : Acquire(c) \/ ClientStep(c)
    \/ \E h \in Hosts : HostStep(h) \/ IdleTimePasses(h) \/ Kill(h) \/ Forget(h)
    \/ \E q \in requests : Accept(q) \/ Handle(q)

Spec == Init /\ [][Next]_vars

\* Processes are scheduled, waits have deadlines and the idle time passes.
FairSpec == /\ Spec
            /\ \A c \in Clients : WF_vars(ClientStep(c))
            /\ \A h \in Hosts : /\ WF_vars(HostStep(h)) /\ WF_vars(IdleTimePasses(h)) /\ WF_vars(Forget(h))
            /\ WF_vars(\E q \in requests : Accept(q) \/ Handle(q))

-----------------------------------------------------------------------------
(* Properties.                                                             *)

\* A host lives by its lifetime lock; the launch lock belongs to one operation.
TypeOK ==
    /\ host \in [Hosts -> HostStates] /\ accepted \in [Hosts -> SUBSET Jobs]
    /\ requests \subseteq Request /\ queued \subseteq Jobs
    /\ \A h \in Hosts : host[h] \in {"owning", "serving", "idle", "checking", "leaving", "unpublished"}
                        <=> lifetime = h
    /\ \A c \in Clients : client[c] # AtRest <=> launch = c
    /\ \A c \in Clients : lifetime = c <=> client[c].at = "probed"

\* Clients that find no engine can launch one: unless a client was interrupted while it
\* waited for a launch, an engine that serves is the one the descriptor names.
ServingEngineIsFound ==
    budget.interrupts = MaxInterrupts => \A h \in Hosts : Answers(h) => descriptor = h

\* stop reports success only when no engine is left and no descriptor names one.
StoppedMeansGone ==
    \A c \in Clients : client[c].at = "stopped" => lifetime = None /\ descriptor = None

\* A Job an engine accepted is done before the engine leaves by itself: only a stop
\* request or a kill lets go of it.
AcceptedJobsAreKept ==
    [][\A h \in Hosts : \A j \in accepted[h] \ accepted'[h] :
          \/ j \notin queued'
          \/ h \in asked'
          \/ host'[h] = "exited" /\ host[h] # "unlocked"]_vars

\* An engine leaves for idleness only with no connection in progress, after a whole
\* idle time since the last hello, and without a queued Job unless
\* it was told to stop.
IdleStopIsIdle ==
    [][\A h \in Hosts : host[h] = "checking" /\ host'[h] = "leaving" =>
          ~Active(h) /\ h \in quiet /\ accepted[h] = {}
          /\ (queued = {} \/ h \in asked)]_vars

\* The launch lock always comes back: neither the client that stops an engine nor
\* the engine that stops by itself waits for the other for ever.
LaunchLockReturns == []<>(launch = None)

\* An engine that serves with nothing to do, undisturbed, ends: without requests and
\* without queued Jobs it stops.
IdleEngineLeaves ==
    \A h \in Hosts : []<>(\/ ~Answers(h) \/ queued # {} \/ requests # {}
                          \/ \E c \in Clients : client[c] # AtRest)

=============================================================================
