--------------------------- MODULE TranscribeWorker ---------------------------
(***************************************************************************)
(* The one transcription worker that a runtime keeps warm                  *)
(* (PersistentTranscribeProcess,                                           *)
(* adapters/video_packs/persistent_transcribe_process.py).  Calls take     *)
(* turns under a lock; each writes one line to the worker and reads one    *)
(* line back.  A call that fails stops the worker, and so does a timer     *)
(* when nothing was asked for idle_seconds.                                *)
(*                                                                         *)
(* A call is named by its number.  The line a worker answers is the number *)
(* of the call it read, with the identity (command, directory,             *)
(* environment, model, threads) it was started for.                        *)
(***************************************************************************)
EXTENDS Naturals, Sequences, FiniteSets

CONSTANTS
    Callers,    \* threads that transcribe
    Identities, \* what a call may ask for
    MaxCalls,   \* bound on calls
    MaxDeaths,  \* bound on workers that exit on their own
    MaxTimers,  \* bound on timers that fired and wait for the lock
    Nobody

WorkerAssumption ==
    /\ {MaxCalls, MaxDeaths, MaxTimers} \subseteq Nat /\ Nobody \notin Callers

VARIABLES
    lock,    \* holder of _lock
    call,    \* each caller: phase, number, identity, answer
    worker,  \* _process and _identity, and whether stdin holds unsent bytes
    live,    \* processes that run: id -> identity, as a set of pairs
    asked,   \* lines the worker has not read
    told,    \* lines it wrote that nobody read
    armed,   \* a timer is set
    late,    \* timers that fired and wait for the lock
    aged,    \* idle_seconds have passed since _last_used
    begun,   \* number of calls
    deaths

vars == <<lock, call, worker, live, asked, told, armed, late, aged, begun, deaths>>

NoCall == [phase |-> "idle", number |-> 0, identity |-> Nobody, answer |-> <<>>]
NoWorker == [id |-> 0, identity |-> Nobody, dirty |-> FALSE]

Init ==
    /\ lock = Nobody /\ call = [c \in Callers |-> NoCall]
    /\ worker = NoWorker /\ live = {} /\ asked = <<>> /\ told = <<>>
    /\ armed = FALSE /\ late = 0 /\ aged = FALSE /\ begun = 0 /\ deaths = 0

Alive == \E p \in live : p.id = worker.id
Goto(c, p) == call' = [call EXCEPT ![c].phase = p]
Pipes == <<asked, told>>
Timers == <<armed, late, aged>>

\* _stop, on pipes that close: nothing is left of the worker.
Stopped ==
    /\ live' = {p \in live : p.id # worker.id} /\ worker' = NoWorker
    /\ asked' = <<>> /\ told' = <<>>

\* _stop when stdin still holds bytes: the process ends, and closing the pipe raises
\* before the fields are cleared.
StopRaises ==
    /\ live' = {p \in live : p.id # worker.id} /\ worker' = [worker EXCEPT !.dirty = FALSE]
    /\ asked' = <<>> /\ told' = <<>>

\* The finally clause: the timer is set again if there is a process, and the lock freed.
Release(c, outcome) ==
    /\ Goto(c, outcome) /\ lock' = Nobody
    /\ armed' = (worker'.id # 0) /\ aged' = (worker'.id = 0 /\ aged)
    /\ UNCHANGED late

-----------------------------------------------------------------------------
(* A call.                                                                 *)

Begin(c) ==
    /\ call[c].phase = "idle" /\ begun < MaxCalls /\ begun' = begun + 1
    /\ \E i \in Identities :
          call' = [call EXCEPT ![c] = [NoCall EXCEPT
                      !.phase = "waiting", !.number = begun + 1, !.identity = i]]
    /\ UNCHANGED <<lock, worker, live, Pipes, Timers, deaths>>

\* A waiter that is cancelled or out of time leaves without the lock.
GiveUpWaiting(c) ==
    /\ call[c].phase = "waiting" /\ Goto(c, "domain_error")
    /\ UNCHANGED <<lock, worker, live, Pipes, Timers, begun, deaths>>

\* The lock is taken and the timer cancelled; one that fired already stays.
Acquire(c) ==
    /\ call[c].phase = "waiting" /\ lock = Nobody /\ lock' = c
    /\ Goto(c, "admitted") /\ armed' = FALSE
    /\ UNCHANGED <<worker, live, Pipes, late, aged, begun, deaths>>

Warm(c) == worker.identity = call[c].identity /\ Alive

UseWarm(c) ==
    /\ call[c].phase = "admitted" /\ Warm(c) /\ Goto(c, "ready")
    /\ UNCHANGED <<lock, worker, live, Pipes, Timers, begun, deaths>>

\* The old worker is stopped and a new one started.
Start(c) ==
    LET fresh == [id |-> call[c].number, identity |-> call[c].identity]
    IN /\ call[c].phase = "admitted" /\ ~Warm(c) /\ Goto(c, "ready")
       /\ live' = {p \in live : p.id # worker.id} \cup {fresh}
       /\ worker' = [id |-> fresh.id, identity |-> fresh.identity, dirty |-> FALSE]
       /\ asked' = <<>> /\ told' = <<>>
       /\ UNCHANGED <<lock, Timers, begun, deaths>>

\* pack_worker_unavailable
StartFails(c) ==
    /\ call[c].phase = "admitted" /\ ~Warm(c) /\ Stopped /\ Release(c, "domain_error")
    /\ UNCHANGED <<begun, deaths>>

\* The exchange thread writes the request.
Write(c) ==
    /\ call[c].phase = "ready" /\ Alive /\ Goto(c, "written")
    /\ asked' = Append(asked, call[c].number)
    /\ UNCHANGED <<lock, worker, live, told, Timers, begun, deaths>>

\* The worker is gone: flush raises and the bytes stay in the buffer.
WriteBreaks(c) ==
    /\ call[c].phase = "ready" /\ ~Alive /\ Goto(c, "failing")
    /\ worker' = [worker EXCEPT !.dirty = TRUE]
    /\ UNCHANGED <<lock, live, Pipes, Timers, begun, deaths>>

\* The worker reads a line and answers it.
Serve ==
    /\ Alive /\ asked # <<>> /\ asked' = Tail(asked)
    /\ told' = Append(told, <<Head(asked), worker.identity>>)
    /\ UNCHANGED <<lock, call, worker, live, Timers, begun, deaths>>

Answered(c) ==
    /\ call[c].phase = "written" /\ told # <<>> /\ told' = Tail(told)
    /\ call' = [call EXCEPT ![c] = [@ EXCEPT !.phase = "answered", !.answer = Head(told)]]
    /\ lock' = Nobody /\ armed' = TRUE /\ aged' = FALSE
    /\ UNCHANGED <<worker, live, asked, late, begun, deaths>>

\* End of file: the worker exited without a result.
EndOfFile(c) ==
    /\ call[c].phase = "written" /\ ~Alive /\ told = <<>> /\ Goto(c, "failing")
    /\ UNCHANGED <<lock, worker, live, Pipes, Timers, begun, deaths>>

\* Mutant: a call that gives up leaves the worker to the next one.
GiveUpKeepingWorker(c) ==
    /\ call[c].phase = "written"
    /\ UNCHANGED <<worker, live, Pipes, begun, deaths>> /\ Release(c, "domain_error")

\* Cancelled or out of time with the lock; the request may be on its way into a full pipe.
GiveUp(c) ==
    /\ call[c].phase \in {"admitted", "ready", "written"} /\ Goto(c, "failing")
    /\ \E unsent \in BOOLEAN :
          /\ unsent => call[c].phase = "ready"
          /\ worker' = [worker EXCEPT !.dirty = unsent]
    /\ UNCHANGED <<lock, live, Pipes, Timers, begun, deaths>>

\* except BaseException: the worker is stopped and the error goes on.
Fail(c) ==
    /\ call[c].phase = "failing" /\ ~worker.dirty /\ Stopped /\ Release(c, "domain_error")
    /\ UNCHANGED <<begun, deaths>>

\* _stop itself raises, and its error takes the place of the first one.
FailRaising(c) ==
    /\ call[c].phase = "failing" /\ worker.dirty /\ StopRaises /\ Release(c, "pipe_error")
    /\ UNCHANGED <<begun, deaths>>

Leave(c) ==
    /\ call[c].phase \in {"answered", "domain_error", "pipe_error"}
    /\ call' = [call EXCEPT ![c] = NoCall]
    /\ UNCHANGED <<lock, worker, live, Pipes, Timers, begun, deaths>>

-----------------------------------------------------------------------------
(* The worker's end and the idle timer.                                    *)

WorkerDies ==
    /\ deaths < MaxDeaths /\ deaths' = deaths + 1 /\ Alive
    /\ live' = {p \in live : p.id # worker.id} /\ asked' = <<>>
    /\ UNCHANGED <<lock, call, worker, told, Timers, begun>>

IdlePasses ==
    /\ armed /\ ~aged /\ aged' = TRUE
    /\ UNCHANGED <<lock, call, worker, live, Pipes, armed, late, begun, deaths>>

\* The timer fires; _expire waits for the lock.
Fire ==
    /\ armed /\ aged /\ late < MaxTimers /\ armed' = FALSE /\ late' = late + 1
    /\ UNCHANGED <<lock, call, worker, live, Pipes, aged, begun, deaths>>

\* _expire: only when nothing was asked since.
Expire ==
    /\ late > 0 /\ lock = Nobody /\ late' = late - 1
    /\ IF aged THEN Stopped /\ armed' = FALSE
       ELSE UNCHANGED <<worker, live, Pipes, armed>>
    /\ UNCHANGED <<lock, call, aged, begun, deaths>>

Clock == IdlePasses \/ Fire \/ Expire

Run(c) ==
    \/ Acquire(c) \/ UseWarm(c) \/ Start(c) \/ StartFails(c) \/ Write(c) \/ WriteBreaks(c)
    \/ Answered(c) \/ EndOfFile(c) \/ Fail(c) \/ FailRaising(c) \/ Leave(c)

Deadline(c) == GiveUpWaiting(c) \/ GiveUp(c)

Next ==
    \/ \E c \in Callers : Begin(c) \/ Run(c) \/ Deadline(c)
    \/ Serve \/ WorkerDies \/ Clock

Spec == Init /\ [][Next]_vars

\* A call goes on, its deadline passes, and the timer thread runs.  Nothing is assumed
\* of the worker.
FairSpec ==
    /\ Spec /\ WF_vars(IdlePasses) /\ WF_vars(Fire) /\ WF_vars(Expire)
    /\ \A c \in Callers :
          WF_vars(Fail(c) \/ FailRaising(c) \/ Leave(c)) /\ WF_vars(Deadline(c))

-----------------------------------------------------------------------------
(* Properties.                                                             *)

Phases == {"idle", "waiting", "admitted", "ready", "written", "failing",
           "answered", "domain_error", "pipe_error"}

\* Types; one call at a time is between the lock and its release.
TypeOK ==
    /\ lock \in Callers \cup {Nobody} /\ begun \in 0 .. MaxCalls /\ deaths \in 0 .. MaxDeaths
    /\ \A c \in Callers :
          /\ call[c].phase \in Phases /\ call[c].identity \in Identities \cup {Nobody}
          /\ lock = c <=> call[c].phase \in {"admitted", "ready", "written", "failing"}
    /\ live \subseteq [id : 1 .. MaxCalls, identity : Identities]
    /\ worker.id \in 0 .. MaxCalls /\ late \in 0 .. MaxTimers
    /\ armed \in BOOLEAN /\ aged \in BOOLEAN

\* A call gets the answer to its own request from a worker of its identity, whatever
\* was cancelled or timed out before it in the middle of an exchange.
AnswerIsOurs ==
    \A c \in Callers :
        call[c].phase = "answered" => call[c].answer = <<call[c].number, call[c].identity>>

\* No process is lost: what runs is the worker that the next call or the timer finds.
OneWorker == \A p \in live : p.id = worker.id /\ p.identity = worker.identity

\* Neither a waiter that is cancelled nor a late timer takes the worker from a call:
\* the process dies during an exchange only on its own or by the call that has it.
WorkerKeptWhileUsed ==
    [][\A c \in Callers :
          call[c].phase \in {"ready", "written"} /\ call'[c].phase = call[c].phase
          => worker'.id = worker.id /\ (live' = live \/ deaths' = deaths + 1)]_vars

\* An idle worker is reaped.
IdleWorkerReaped ==
    (live # {} /\ lock = Nobody) ~> (live = {} \/ lock # Nobody)

\* Every call ends, also when the worker never answers.
EveryCallEnds ==
    \A c \in Callers : call[c].phase # "idle" ~> call[c].phase = "idle"

\* A call that fails is reported with an error of the domain.
FailureIsReported == \A c \in Callers : call[c].phase # "pipe_error"
=============================================================================
