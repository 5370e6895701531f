------------------------------ MODULE CodexPool ------------------------------
(***************************************************************************)
(* Model calls over pooled app-server processes (CodexAppServerClient,     *)
(* gpt/codex_app_server_client.py) under the machine-wide admission of     *)
(* gpt/model_slots.py.  A caller queues for one of the pool_size leases of *)
(* its client, then for one of the machine's slots, then talks to one      *)
(* server process: it opens a thread, starts a turn, reads notifications   *)
(* until the turn is over, and leaves the thread so that the process can   *)
(* be lent again.  close() may stop everything meanwhile.                  *)
(*                                                                         *)
(* A call is named by its number, which also names its thread and, if it   *)
(* started one, its server process.                                        *)
(***************************************************************************)
EXTENDS Naturals, Sequences, FiniteSets, SequencesExt

CONSTANTS
    Clients,   \* CodexAppServerClient objects on the machine
    Callers,   \* threads that call run_markdown_turn
    Home,      \* the client each thread uses
    PoolSize,  \* pool_size
    Capacity,  \* MODEL_CALL_CAPACITY
    MaxCalls,  \* bound on calls
    MaxDeaths  \* bound on servers that exit on their own

PoolAssumption ==
    /\ Home \in [Callers -> Clients]
    /\ {PoolSize, Capacity} \subseteq Nat \ {0} /\ {MaxCalls, MaxDeaths} \subseteq Nat

VARIABLES
    call,    \* each thread: phase, number, conn, text read, reusable, outcome
    client,  \* each client: stage of close(), waiters, idle, connections, leased
    server,  \* each process: alive, stdin, stdout, turns that run
    slots,   \* threads that hold a machine slot
    taken,   \* turns some server started
    over,    \* turns a server brought to an end
    begun,
    deaths

vars == <<call, client, server, slots, taken, over, begun, deaths>>
Turns == <<taken, over>>
Bounds == <<begun, deaths>>

Numbers == 1..MaxCalls
NoCall == [phase |-> "idle", number |-> 0, conn |-> 0, text |-> {}, reusable |-> FALSE,
           outcome |-> "none"]
NoServer == [alive |-> FALSE, dirty |-> FALSE, sealed |-> FALSE, inbox |-> <<>>,
             out |-> <<>>, running |-> {}]

Init ==
    /\ call = [c \in Callers |-> NoCall]
    /\ client = [x \in Clients |-> [stage |-> "open", waiters |-> <<>>, idle |-> <<>>,
                                    conns |-> {}, leased |-> 0, closing |-> {},
                                    sealing |-> 0]]
    /\ server = [k \in Numbers |-> NoServer]
    /\ slots = {} /\ taken = {} /\ over = {} /\ begun = 0 /\ deaths = 0

Mine(c) == client[Home[c]]
Closed(c) == Mine(c).stage # "open"
Goto(c, p) == call' = [call EXCEPT ![c].phase = p]
End(c, p, o) == call' = [call EXCEPT ![c].phase = p, ![c].outcome = o]
Killed(s) == [s EXCEPT !.alive = FALSE, !.running = {}, !.inbox = <<>>]

-----------------------------------------------------------------------------
(* Admission.                                                              *)

\* The ticket joins the waiters.
Begin(c) ==
    /\ call[c].phase = "idle" /\ begun < MaxCalls /\ begun' = begun + 1
    /\ call' = [call EXCEPT ![c] = [NoCall EXCEPT !.phase = "waiting", !.number = begun + 1]]
    /\ client' = [client EXCEPT ![Home[c]].waiters = Append(@, c)]
    /\ UNCHANGED <<server, slots, Turns, deaths>>

\* A waiter whose client closes, whose deadline passes or that is cancelled.
Abandon(c) ==
    /\ call[c].phase = "waiting"
    /\ \/ Closed(c) /\ End(c, "idle", "known")
       \/ \E o \in {"known", "cancelled"} : End(c, "idle", o)
    /\ client' = [client EXCEPT ![Home[c]].waiters = Remove(@, c)]
    /\ UNCHANGED <<server, slots, Turns, Bounds>>

\* The head of the queue takes a lease, and the connection used last if one is idle.
Reserve(c) ==
    LET m == Mine(c)
        popped == IF m.idle = <<>> THEN 0 ELSE Last(m.idle)
    IN /\ call[c].phase = "waiting" /\ ~Closed(c)
       /\ Head(m.waiters) = c /\ m.leased < PoolSize
       /\ client' = [client EXCEPT ![Home[c]] = [m EXCEPT
              !.waiters = Tail(@), !.leased = @ + 1,
              !.idle = IF @ = <<>> THEN @ ELSE Front(@)]]
       /\ call' = [call EXCEPT ![c].phase = "reserved", ![c].conn = popped]
       /\ UNCHANGED <<server, slots, Turns, Bounds>>

\* resource_slot: one of the lock files of the machine.
Admit(c) ==
    /\ call[c].phase = "reserved" /\ Cardinality(slots) < Capacity
    /\ slots' = slots \cup {c} /\ Goto(c, "admitted")
    /\ UNCHANGED <<client, server, Turns, Bounds>>

\* No slot in time, or cancelled; an idle connection goes back.
NotAdmitted(c) ==
    /\ call[c].phase = "reserved"
    /\ \E o \in {"known", "cancelled"} : End(c, "returning", o)
    /\ UNCHANGED <<client, server, slots, Turns, Bounds>>

-----------------------------------------------------------------------------
(* The connection.                                                         *)

Reuse(c) ==
    /\ call[c].phase = "admitted" /\ call[c].conn # 0 /\ server[call[c].conn].alive
    /\ Goto(c, "connected")
    /\ UNCHANGED <<client, server, slots, Turns, Bounds>>

\* A dead connection, or one for another directory, is closed; a new process is started.
Start(c) ==
    LET old == call[c].conn
        new == call[c].number
    IN /\ call[c].phase = "admitted"
       /\ server' = [k \in Numbers |->
              IF k = new THEN [NoServer EXCEPT !.alive = TRUE]
              ELSE IF k = old THEN NoServer ELSE server[k]]
       /\ client' = [client EXCEPT ![Home[c]].conns = (@ \ {old}) \cup {new}]
       /\ call' = [call EXCEPT ![c].phase = "connected", ![c].conn = new]
       /\ UNCHANGED <<slots, Turns, Bounds>>

\* assert_ready or Popen raises; the old connection is closed already.
StartFails(c) ==
    LET old == call[c].conn
    IN /\ call[c].phase = "admitted"
       /\ server' = [k \in Numbers |-> IF k = old THEN NoServer ELSE server[k]]
       /\ client' = [client EXCEPT ![Home[c]].conns = @ \ {old}]
       /\ \E o \in {"known", "unknown"} :
             call' = [call EXCEPT ![c].phase = "leaving_gate", ![c].conn = 0, ![c].outcome = o]
       /\ UNCHANGED <<slots, Turns, Bounds>>

\* The second look at _closed.
Enter(c) ==
    /\ call[c].phase = "connected"
    /\ \/ ~Closed(c) /\ Goto(c, "entered")
       \/ Closed(c) /\ End(c, "retiring", "known")
    /\ UNCHANGED <<client, server, slots, Turns, Bounds>>

-----------------------------------------------------------------------------
(* The protocol.  A request leads to the phase that waits for its reply.   *)

Protocol == [entered |-> "opening", opened |-> "turning", completed |-> "leaving"]
Waiting == {"opening", "turning", "leaving"}

\* _send_request
Request(c) ==
    LET k == call[c].conn
    IN /\ call[c].phase \in DOMAIN Protocol /\ server[k].alive
       /\ Goto(c, Protocol[call[c].phase])
       /\ server' = [server EXCEPT ![k].inbox =
                         Append(@, <<Protocol[call[c].phase], call[c].number>>)]
       /\ UNCHANGED <<client, slots, Turns, Bounds>>

\* The process is gone.  A broken pipe leaves the request in the buffer of stdin; a stdin
\* that close() closed raises ValueError.  Only the first is caught after a completed turn.
RequestBreaks(c) ==
    LET k == call[c].conn
        s == server[k]
        caught == call[c].phase = "completed" /\ ~s.sealed
    IN /\ call[c].phase \in DOMAIN Protocol /\ ~s.alive
       /\ End(c, "retiring", IF caught THEN "answer" ELSE "unknown")
       /\ server' = [server EXCEPT ![k].dirty = ~s.sealed]
       /\ UNCHANGED <<client, slots, Turns, Bounds>>

\* A reply that fails the turn, and the reply to thread/unsubscribe.
Failing(r) == [r EXCEPT !.phase = "retiring", !.outcome = "known"]
Left(r, again) == [r EXCEPT !.phase = "retiring", !.outcome = "answer", !.reusable = again]

\* Mutant: filter_thread is off.
HandleUnfiltered(r, m) ==
    LET reply == m[2] = r.phase /\ m[3] = r.number
    IN CASE r.phase = "leaving" ->
                IF ~reply THEN r
                ELSE Left(r, m[1] = "reply")
         [] m[1] = "reply" /\ reply /\ r.phase = "opening" -> [r EXCEPT !.phase = "opened"]
         [] m[1] = "refusal" /\ reply -> Failing(r)
         [] m[1] = "delta" -> [r EXCEPT !.text = @ \cup {m[3]}]
         [] m[1] = "done" /\ r.text # {} -> [r EXCEPT !.phase = "completed"]
         [] m[1] = "done" /\ r.text = {} -> Failing(r)
         [] m[1] = "failed" -> Failing(r)
         [] OTHER -> r

\* _wait_for_response, handle_notification and the loop on state.done: a reply to another
\* request is skipped, and so is a notification about another thread.
Handle(r, m) ==
    LET own == m[3] = r.number
        reply == m[2] = r.phase /\ own
    IN CASE r.phase = "leaving" ->
                IF ~reply THEN r
                ELSE Left(r, m[1] = "reply")
         [] m[1] = "reply" /\ reply /\ r.phase = "opening" -> [r EXCEPT !.phase = "opened"]
         [] m[1] = "refusal" /\ reply -> Failing(r)
         [] m[1] = "delta" /\ own -> [r EXCEPT !.text = @ \cup {m[3]}]
         [] m[1] = "done" /\ own /\ r.text # {} -> [r EXCEPT !.phase = "completed"]
         [] m[1] = "done" /\ own /\ r.text = {} -> Failing(r)
         [] m[1] = "failed" /\ own -> Failing(r)
         [] OTHER -> r

Read(c) ==
    LET k == call[c].conn
    IN /\ call[c].phase \in Waiting /\ server[k].out # <<>>
       /\ call' = [call EXCEPT ![c] = Handle(@, Head(server[k].out))]
       /\ server' = [server EXCEPT ![k].out = Tail(@)]
       /\ UNCHANGED <<client, slots, Turns, Bounds>>

\* The outcome of a protocol error: after a completed turn the answer stays valid.
Broken(c) == IF call[c].phase = "leaving" THEN "answer" ELSE "unknown"

EndOfOutput(c) ==
    /\ call[c].phase \in Waiting
    /\ server[call[c].conn].out = <<>> /\ ~server[call[c].conn].alive
    /\ End(c, "retiring", Broken(c))
    /\ UNCHANGED <<client, server, slots, Turns, Bounds>>

\* Mutant: the reply to thread/unsubscribe is waited for without a deadline.
TimeOutEarly(c) ==
    /\ call[c].phase \in {"opening", "turning"}
    /\ End(c, "retiring", Broken(c))
    /\ UNCHANGED <<client, server, slots, Turns, Bounds>>

TimeOut(c) ==
    /\ call[c].phase \in Waiting /\ End(c, "retiring", Broken(c))
    /\ UNCHANGED <<client, server, slots, Turns, Bounds>>

Cancel(c) ==
    /\ call[c].phase \in Waiting /\ End(c, "retiring", "cancelled")
    /\ UNCHANGED <<client, server, slots, Turns, Bounds>>

-----------------------------------------------------------------------------
(* The way out.                                                            *)

\* The connection is closed unless it can be lent again.  Closing a stdin that holds bytes
\* flushes them into the broken pipe, and that error takes the place of the outcome.
Retire(c) ==
    LET k == call[c].conn
        closes == ~call[c].reusable /\ k \in Mine(c).conns
    IN /\ call[c].phase = "retiring"
       /\ IF closes
          THEN /\ client' = [client EXCEPT ![Home[c]].conns = @ \ {k}]
               /\ server' = [server EXCEPT ![k] = NoServer]
          ELSE UNCHANGED <<client, server>>
       /\ IF closes /\ server[k].dirty
          THEN End(c, "leaving_gate", "unknown") ELSE Goto(c, "leaving_gate")
       /\ UNCHANGED <<slots, Turns, Bounds>>

LeaveGate(c) ==
    /\ call[c].phase = "leaving_gate" /\ slots' = slots \ {c} /\ Goto(c, "returning")
    /\ UNCHANGED <<client, server, Turns, Bounds>>

\* The finally clause of _connection.
Return(c) ==
    LET k == call[c].conn
        m == Mine(c)
    IN /\ call[c].phase = "returning"
       /\ call' = [call EXCEPT ![c].phase = "idle", ![c].conn = 0, ![c].reusable = FALSE]
       /\ client' = [client EXCEPT ![Home[c]] = [m EXCEPT
              !.leased = @ - 1,
              !.idle = IF k \in m.conns /\ ~Closed(c) THEN Append(@, k) ELSE @]]
       /\ UNCHANGED <<server, slots, Turns, Bounds>>

-----------------------------------------------------------------------------
(* close(), called by the owner and, when it raised, once more at exit.    *)

CloseBegin(x) ==
    /\ client[x].stage \in {"open", "raised"}
    /\ client' = [client EXCEPT ![x].stage = "closing", ![x].closing = client[x].conns,
                                ![x].idle = <<>>]
    /\ UNCHANGED <<call, server, slots, Turns, Bounds>>

\* _close_connection, on each of the connections there were: the process ends.
CloseOne(x) ==
    /\ client[x].stage = "closing" /\ client[x].sealing = 0
    /\ \E k \in client[x].closing :
          LET owned == k \in client[x].conns
          IN /\ client' = [client EXCEPT ![x].conns = @ \ {k}, ![x].closing = @ \ {k},
                                         ![x].sealing = IF owned THEN k ELSE 0]
             /\ server' = [server EXCEPT ![k] = IF owned THEN Killed(@) ELSE @]
    /\ UNCHANGED <<call, slots, Turns, Bounds>>

\* Its pipes are closed; a stdin that holds bytes raises, and the rest is not closed.
CloseSeal(x) ==
    LET k == client[x].sealing
    IN /\ k # 0 /\ server' = [server EXCEPT ![k].sealed = TRUE]
       /\ client' = [client EXCEPT ![x] = IF server[k].dirty
              THEN [@ EXCEPT !.sealing = 0, !.closing = {}, !.stage = "raised"]
              ELSE [@ EXCEPT !.sealing = 0]]
       /\ UNCHANGED <<call, slots, Turns, Bounds>>

CloseEnd(x) ==
    /\ client[x].stage = "closing" /\ client[x].closing = {} /\ client[x].sealing = 0
    /\ client' = [client EXCEPT ![x].stage = "closed"]
    /\ UNCHANGED <<call, server, slots, Turns, Bounds>>

-----------------------------------------------------------------------------
(* The app-server, as the client uses it.                                  *)

\* A request is accepted; a notification about the thread may come after it was left.
Accept(k) ==
    LET r == Head(server[k].inbox)
        reply == <<"reply", r[1], r[2]>>
        late == <<"delta", "", r[2]>>
    IN /\ server[k].alive /\ server[k].inbox # <<>>
       /\ \E m \in {<<reply>>} \cup (IF r[1] = "leaving" THEN {<<reply, late>>} ELSE {}) :
             server' = [server EXCEPT ![k].inbox = Tail(@), ![k].out = @ \o m,
                 ![k].running = IF r[1] = "turning" THEN @ \cup {r[2]} ELSE @]
       /\ taken' = IF r[1] = "turning" THEN taken \cup {r[2]} ELSE taken
       /\ UNCHANGED <<call, client, slots, over, Bounds>>

Refuse(k) ==
    LET r == Head(server[k].inbox)
    IN /\ server[k].alive /\ server[k].inbox # <<>>
       /\ server' = [server EXCEPT ![k].inbox = Tail(@),
                                   ![k].out = Append(@, <<"refusal", r[1], r[2]>>)]
       /\ UNCHANGED <<call, client, slots, Turns, Bounds>>

\* A turn ends, well or badly, with or without text.
Finish(k) ==
    /\ server[k].alive
    /\ \E t \in server[k].running, text \in {<<>>, <<"delta">>}, end \in {"done", "failed"} :
          /\ server' = [server EXCEPT ![k].running = @ \ {t},
                 ![k].out = @ \o [i \in 1..Len(text) |-> <<text[i], "", t>>]
                              \o <<<<end, "", t>>>>]
          /\ over' = over \cup {t}
    /\ UNCHANGED <<call, client, slots, taken, Bounds>>

Die(k) ==
    /\ server[k].alive /\ deaths < MaxDeaths /\ deaths' = deaths + 1
    /\ server' = [server EXCEPT ![k] = Killed(@)]
    /\ UNCHANGED <<call, client, slots, Turns, begun>>

-----------------------------------------------------------------------------
Run(c) ==
    \/ Reuse(c) \/ Start(c) \/ StartFails(c) \/ Enter(c)
    \/ Request(c) \/ RequestBreaks(c) \/ Read(c) \/ EndOfOutput(c)
    \/ Retire(c) \/ LeaveGate(c) \/ Return(c)

Deadline(c) == Abandon(c) \/ NotAdmitted(c) \/ TimeOut(c)
Close(x) == CloseBegin(x) \/ CloseOne(x) \/ CloseSeal(x) \/ CloseEnd(x)
Serve(k) == Accept(k) \/ Refuse(k) \/ Finish(k) \/ Die(k)

Next ==
    \/ \E c \in Callers : \/ Begin(c) \/ Reserve(c) \/ Admit(c) \/ Cancel(c)
                          \/ Run(c) \/ Deadline(c)
    \/ \E x \in Clients : Close(x)
    \/ \E k \in Numbers : Serve(k)

Spec == Init /\ [][Next]_vars

\* Threads are scheduled and deadlines pass; nothing is assumed of the servers, of the
\* machine's slots or of the queue.
FairSpec ==
    /\ Spec
    /\ \A c \in Callers : WF_vars(Run(c)) /\ WF_vars(Deadline(c))

-----------------------------------------------------------------------------
(* Properties.                                                             *)

Holders(x) == {c \in Callers : Home[c] = x /\ call[c].phase \notin {"idle", "waiting"}}
Lent(c) == call[c].phase \notin {"idle", "waiting"} /\ call[c].conn \in Mine(c).conns
Live(x) == {k \in client[x].conns : server[k].alive}
Running == UNION {server[k].running : k \in Numbers}

\* Type, and the books of the pool: each lease has a holder and each ticket a thread that
\* waits (_leased and _waiters through every error path of _connection).
TypeOK ==
    /\ slots \subseteq Callers /\ Cardinality(slots) <= Capacity
    /\ \A x \in Clients :
          /\ client[x].leased = Cardinality(Holders(x))
          /\ {c \in Callers : call[c].phase = "waiting" /\ Home[c] = x}
                 = {client[x].waiters[i] : i \in 1..Len(client[x].waiters)}
          /\ client[x].conns \subseteq Numbers
    /\ over \subseteq taken /\ taken \subseteq Numbers
    /\ begun \in 0..MaxCalls /\ deaths \in 0..MaxDeaths

\* "The fixed slot namespace prevents workers from independently multiplying provider
\* concurrency": turns that run, those of calls that gave up included, stay within the
\* capacity of the machine.
TurnsWithinCapacity == Cardinality(Running) <= Capacity

\* An answer is made of the text of the call's own thread, whatever a lent connection still
\* carries from an earlier one.
AnswerIsOwn ==
    \A c \in Callers : call[c].outcome = "answer" => call[c].text = {call[c].number}

\* outcome_known: the Job asks for nothing and may send the request again, so the turn was
\* never started or its server brought it to an end.
KnownFailureIsKnown ==
    \A c \in Callers :
       call[c].outcome = "known" /\ call[c].number \in taken => call[c].number \in over

\* One connection, one thread; a client keeps no more processes than leases.
ConnectionsLentOnce ==
    /\ \A c, d \in Callers : c # d /\ Lent(c) /\ Lent(d) => call[c].conn # call[d].conn
    /\ \A c \in Callers : Lent(c) =>
          \A i \in 1..Len(Mine(c).idle) : Mine(c).idle[i] # call[c].conn
    /\ \A x \in Clients : Cardinality(client[x].conns) <= PoolSize

\* "Stop owned transports": once close() returned and the last call is back, no process is
\* left, one started while close() ran included.
ClosedClientIsEmpty ==
    \A x \in Clients :
       client[x].stage = "closed" /\ Holders(x) = {} => client[x].conns = {}

\* Every call ends, whatever the servers, the machine's slots and the other threads do.
EveryCallEnds ==
    \A c \in Callers : call[c].phase # "idle" ~> call[c].phase = "idle"

\* "A completed answer remains valid; discard the transport": a call that read its turn to
\* the end ends with the answer, unless it is cancelled.
CompletedAnswerKept ==
    [][\A c \in Callers :
          /\ call[c].phase \in {"completed", "leaving", "retiring"}
          /\ call[c].phase = "retiring" => call[c].outcome = "answer"
          => call'[c].outcome # "unknown"]_vars
==============================================================================
