--------------------------- MODULE ProductionProofs ---------------------------
(***************************************************************************)
(* Proofs about what produces content: the answers of the transcription    *)
(* worker and of the model (the instances Transcriber and Pool of          *)
(* MCProduction), for every number of threads, of calls, of workers that   *)
(* die and of timers, the texts of a faithful edition (Edition), for every *)
(* request and every number of Jobs that share its reviewed groups, and    *)
(* the ledger and the capacity of a compilation (Article), for every       *)
(* transcript, budget and bound of the contracts.                          *)
(***************************************************************************)
EXTENDS MCProduction, SequenceLemmas, FiniteSetTheorems, TLAPS

-----------------------------------------------------------------------------
(* The transcription worker.                                               *)

IsTranscription(row) ==
    row = [phase |-> row.phase, number |-> row.number, identity |-> row.identity,
           answer |-> row.answer]

WorkerTypes ==
    /\ Nobody \notin Callers
    /\ transcribing = [c \in Callers |-> transcribing[c]]
    /\ \A c \in Callers : IsTranscription(transcribing[c])
    /\ worker = [id |-> worker.id, identity |-> worker.identity, dirty |-> worker.dirty]

\* A call between the lock and its release.
Holds(c) == transcribing[c].phase \in {"admitted", "ready", "written", "failing"}
LockInv == \A c \in Callers : Holds(c) => lock = c

\* The worker of a call that writes or reads was started for what the call asks for.
IdentityInv ==
    \A c \in Callers : transcribing[c].phase \in {"ready", "written"} =>
        worker.identity = transcribing[c].identity

\* Between the calls nothing is in the pipes ...
EmptyPipesInv ==
    (\A c \in Callers : transcribing[c].phase \notin {"written", "failing"}) =>
        asked = <<>> /\ told = <<>>

\* ... and during an exchange its own line, its own answer, or nothing any more.
ExchangeInv ==
    \A c \in Callers : transcribing[c].phase = "written" =>
        \/ asked = <<transcribing[c].number>> /\ told = <<>>
        \/ asked = <<>> /\ told = <<>>
        \/ asked = <<>> /\ told = <<<<transcribing[c].number, transcribing[c].identity>>>>

WorkerInv ==
    /\ WorkerTypes /\ LockInv /\ IdentityInv /\ EmptyPipesInv /\ ExchangeInv
    /\ Transcriber!AnswerIsOurs

\* A call goes on to another phase.
LEMMA TranscriptionMoved ==
    ASSUME WorkerTypes, NEW c \in Callers, NEW p, Transcriber!Goto(c, p)
    PROVE  /\ transcribing' = [d \in Callers |-> transcribing'[d]]
           /\ \A d \in Callers : IsTranscription(transcribing'[d])
           /\ \A d \in Callers : d # c => transcribing'[d] = transcribing[d]
           /\ transcribing'[c].phase = p
           /\ transcribing'[c].number = transcribing[c].number
           /\ transcribing'[c].identity = transcribing[c].identity
           /\ transcribing'[c].answer = transcribing[c].answer
<1>1. [transcribing[c] EXCEPT !.phase = p]
          = [phase |-> p, number |-> transcribing[c].number,
             identity |-> transcribing[c].identity, answer |-> transcribing[c].answer]
  BY DEF WorkerTypes, IsTranscription
<1>2. transcribing' = [transcribing EXCEPT ![c] = [transcribing[c] EXCEPT !.phase = p]]
  BY DEF Transcriber!Goto
<1> HIDE DEF IsTranscription
<1>3. IsTranscription([transcribing[c] EXCEPT !.phase = p])
  BY <1>1 DEF IsTranscription
<1> QED
  BY <1>1, <1>2, <1>3 DEF WorkerTypes

\* A call fills in its row.
LEMMA TranscriptionSet ==
    ASSUME WorkerTypes, NEW c \in Callers, NEW row, IsTranscription(row),
           transcribing' = [transcribing EXCEPT ![c] = row]
    PROVE  /\ transcribing' = [d \in Callers |-> transcribing'[d]]
           /\ \A d \in Callers : IsTranscription(transcribing'[d])
           /\ \A d \in Callers : d # c => transcribing'[d] = transcribing[d]
           /\ transcribing'[c] = row
BY DEF WorkerTypes

\* The row of a call that begins, and of one that was answered.
LEMMA BegunRow ==
    ASSUME NEW n, NEW i
    PROVE  [Transcriber!NoCall EXCEPT !.phase = "waiting", !.number = n, !.identity = i]
               = [phase |-> "waiting", number |-> n, identity |-> i, answer |-> <<>>]
<1>1. PICK one : one = [Transcriber!NoCall EXCEPT !.phase = "waiting"]
  OBVIOUS
<1>2. one = [phase |-> "waiting", number |-> 0, identity |-> Nobody, answer |-> <<>>]
  BY <1>1 DEF Transcriber!NoCall
<1>3. PICK two : two = [one EXCEPT !.number = n]
  OBVIOUS
<1>4. two = [phase |-> "waiting", number |-> n, identity |-> Nobody, answer |-> <<>>]
  BY <1>2, <1>3
<1>5. [two EXCEPT !.identity = i]
          = [phase |-> "waiting", number |-> n, identity |-> i, answer |-> <<>>]
  BY <1>4
<1> QED
  BY <1>1, <1>3, <1>5

\* A call that got its answer.
LEMMA AnsweredRow ==
    ASSUME NEW row, IsTranscription(row), NEW answer
    PROVE  [row EXCEPT !.phase = "answered", !.answer = answer]
               = [phase |-> "answered", number |-> row.number, identity |-> row.identity,
                  answer |-> answer]
<1>1. PICK one : one = [row EXCEPT !.phase = "answered"]
  OBVIOUS
<1>2. one = [phase |-> "answered", number |-> row.number, identity |-> row.identity,
             answer |-> row.answer]
  BY <1>1 DEF IsTranscription
<1>3. [one EXCEPT !.answer = answer]
          = [phase |-> "answered", number |-> row.number, identity |-> row.identity,
             answer |-> answer]
  BY <1>2
<1> QED
  BY <1>1, <1>3

\* What is left when the worker was stopped, or raised while it was.
LEMMA PipesClosed ==
    ASSUME WorkerTypes, Transcriber!Stopped \/ Transcriber!StopRaises
    PROVE  /\ asked' = <<>> /\ told' = <<>>
           /\ worker' = [id |-> worker'.id, identity |-> worker'.identity,
                         dirty |-> worker'.dirty]
<1>1. CASE Transcriber!Stopped
  BY <1>1 DEF Transcriber!Stopped, Transcriber!NoWorker
<1>2. CASE Transcriber!StopRaises
  BY <1>2 DEF Transcriber!StopRaises, WorkerTypes
<1> QED
  BY <1>1, <1>2

\* The steps of a call.
LEMMA CallStepKeeps ==
    ASSUME WorkerInv, NEW c \in Callers,
           Transcriber!Begin(c) \/ Transcriber!Run(c) \/ Transcriber!Deadline(c)
    PROVE  WorkerInv'
<1> USE DEF WorkerInv, LockInv, Holds, IdentityInv, EmptyPipesInv, ExchangeInv,
            Transcriber!AnswerIsOurs, Transcriber!Pipes
<1>0. WorkerTypes /\ Nobody \notin Callers
  BY DEF WorkerTypes
<1>1. CASE Transcriber!Begin(c)
  <2>1. PICK i : transcribing' = [transcribing EXCEPT ![c] =
          [phase |-> "waiting", number |-> lines + 1, identity |-> i, answer |-> <<>>]]
    <3>1. PICK i \in Identities : transcribing' = [transcribing EXCEPT ![c] =
            [Transcriber!NoCall EXCEPT !.phase = "waiting", !.number = lines + 1,
                                       !.identity = i]]
      BY <1>1 DEF Transcriber!Begin
    <3> QED
      BY <3>1, BegunRow, Zenon
  <2>2. IsTranscription([phase |-> "waiting", number |-> lines + 1, identity |-> i,
                         answer |-> <<>>])
    BY DEF IsTranscription
  <2>3. UNCHANGED <<lock, worker, asked, told>> /\ transcribing[c].phase = "idle"
    BY <1>1 DEF Transcriber!Begin
  <2> HIDE DEF IsTranscription
  <2>4. WorkerTypes'
    BY <1>0, <2>1, <2>2, <2>3, TranscriptionSet DEF WorkerTypes
  <2> QED
    BY <1>0, <2>1, <2>2, <2>3, <2>4, TranscriptionSet
<1>2. CASE Transcriber!Answered(c)
  <2>1. transcribing' = [transcribing EXCEPT ![c] =
          [phase |-> "answered", number |-> transcribing[c].number,
           identity |-> transcribing[c].identity, answer |-> Head(told)]]
    <3>1. transcribing' = [transcribing EXCEPT ![c] =
            [transcribing[c] EXCEPT !.phase = "answered", !.answer = Head(told)]]
      BY <1>2 DEF Transcriber!Answered
    <3>2. IsTranscription(transcribing[c])
      BY DEF WorkerTypes
    <3> QED
      BY <3>1, <3>2, AnsweredRow, Zenon
  <2>2. IsTranscription([phase |-> "answered", number |-> transcribing[c].number,
           identity |-> transcribing[c].identity, answer |-> Head(told)])
    BY DEF IsTranscription
  <2>3. /\ UNCHANGED <<worker, asked>> /\ transcribing[c].phase = "written"
        /\ told # <<>> /\ told' = Tail(told)
    BY <1>2 DEF Transcriber!Answered
  <2>4. /\ asked = <<>> /\ told' = <<>>
        /\ Head(told) = <<transcribing[c].number, transcribing[c].identity>>
    BY <2>3
  <2> HIDE DEF IsTranscription
  <2>5. WorkerTypes'
    BY <1>0, <2>1, <2>2, <2>3, TranscriptionSet DEF WorkerTypes
  <2>6. \A d \in Callers : d # c => ~Holds(d)
    BY <1>0, <2>3
  <2> QED
    BY <1>0, <2>1, <2>2, <2>3, <2>4, <2>5, <2>6, TranscriptionSet
<1>3. CASE Transcriber!Leave(c)
  <2>1. IsTranscription(Transcriber!NoCall) /\ Transcriber!NoCall.phase = "idle"
    BY DEF IsTranscription, Transcriber!NoCall
  <2>2. /\ transcribing' = [transcribing EXCEPT ![c] = Transcriber!NoCall]
        /\ UNCHANGED <<lock, worker, asked, told>>
        /\ transcribing[c].phase \in {"answered", "domain_error", "pipe_error"}
    BY <1>3 DEF Transcriber!Leave
  <2> HIDE DEF IsTranscription
  <2>3. WorkerTypes'
    BY <1>0, <2>1, <2>2, TranscriptionSet DEF WorkerTypes
  <2> QED
    BY <1>0, <2>1, <2>2, <2>3, TranscriptionSet
<1>4. CASE Transcriber!GiveUpWaiting(c) \/ Transcriber!Acquire(c)
  <2>1. /\ \E p \in {"domain_error", "admitted"} :
              /\ Transcriber!Goto(c, p)
              /\ IF p = "admitted" THEN lock = Nobody /\ lock' = c ELSE lock' = lock
        /\ UNCHANGED <<worker, asked, told>> /\ transcribing[c].phase = "waiting"
    BY <1>4 DEF Transcriber!GiveUpWaiting, Transcriber!Acquire
  <2> HIDE DEF IsTranscription
  <2>2. WorkerTypes'
    BY <1>0, <2>1, TranscriptionMoved DEF WorkerTypes
  <2> QED
    BY <1>0, <2>1, <2>2, TranscriptionMoved
<1>5. CASE Transcriber!UseWarm(c)
  <2>1. /\ Transcriber!Goto(c, "ready") /\ UNCHANGED <<lock, worker, asked, told>>
        /\ transcribing[c].phase = "admitted" /\ worker.identity = transcribing[c].identity
    BY <1>5 DEF Transcriber!UseWarm, Transcriber!Warm
  <2>2. WorkerTypes'
    BY <1>0, <2>1, TranscriptionMoved DEF WorkerTypes
  <2> QED
    BY <1>0, <2>1, <2>2, TranscriptionMoved
<1>6. CASE Transcriber!Start(c)
  <2>1. /\ Transcriber!Goto(c, "ready") /\ lock' = lock
        /\ worker' = [id |-> transcribing[c].number, identity |-> transcribing[c].identity,
                      dirty |-> FALSE]
        /\ asked' = <<>> /\ told' = <<>> /\ transcribing[c].phase = "admitted"
    BY <1>6 DEF Transcriber!Start
  <2>2. WorkerTypes'
    BY <1>0, <2>1, TranscriptionMoved DEF WorkerTypes
  <2>3. \A d \in Callers : d # c => ~Holds(d)
    BY <1>0, <2>1
  <2> QED
    BY <1>0, <2>1, <2>2, <2>3, TranscriptionMoved
<1>7. CASE Transcriber!StartFails(c) \/ Transcriber!Fail(c) \/ Transcriber!FailRaising(c)
  <2>1. /\ \E p \in {"domain_error", "pipe_error"} : Transcriber!Goto(c, p)
        /\ asked' = <<>> /\ told' = <<>> /\ Holds(c) /\ lock' = Nobody
    BY <1>7, PipesClosed DEF Transcriber!StartFails, Transcriber!Fail, Transcriber!FailRaising,
       Transcriber!Release, Transcriber!Stopped, Transcriber!StopRaises
  <2>2. WorkerTypes'
    BY <1>0, <1>7, <2>1, PipesClosed, TranscriptionMoved
       DEF WorkerTypes, Transcriber!StartFails, Transcriber!Fail, Transcriber!FailRaising
  <2>3. \A d \in Callers : d # c => ~Holds(d)
    BY <1>0, <2>1
  <2> QED
    BY <1>0, <2>1, <2>2, <2>3, TranscriptionMoved
<1>8. CASE Transcriber!Write(c)
  <2>1. /\ Transcriber!Goto(c, "written") /\ UNCHANGED <<lock, worker, told>>
        /\ asked' = Append(asked, transcribing[c].number) /\ transcribing[c].phase = "ready"
    BY <1>8 DEF Transcriber!Write
  <2>2. WorkerTypes'
    BY <1>0, <2>1, TranscriptionMoved DEF WorkerTypes
  <2>3. \A d \in Callers : d # c => ~Holds(d)
    BY <1>0, <2>1
  <2>4. asked = <<>> /\ told = <<>>
    BY <2>1, <2>3
  <2>5. asked' = <<transcribing[c].number>>
    BY <2>1, <2>4
  <2> QED
    BY <1>0, <2>1, <2>2, <2>3, <2>4, <2>5, TranscriptionMoved
<1>9. CASE Transcriber!WriteBreaks(c) \/ Transcriber!GiveUp(c)
  <2>1. /\ Transcriber!Goto(c, "failing") /\ UNCHANGED <<lock, asked, told>> /\ Holds(c)
        /\ \E unsent \in BOOLEAN : worker' = [worker EXCEPT !.dirty = unsent]
    BY <1>9 DEF Transcriber!WriteBreaks, Transcriber!GiveUp
  <2>2. /\ worker' = [id |-> worker'.id, identity |-> worker'.identity, dirty |-> worker'.dirty]
        /\ worker'.identity = worker.identity
    BY <1>0, <2>1 DEF WorkerTypes
  <2>3. WorkerTypes'
    BY <1>0, <2>1, <2>2, TranscriptionMoved DEF WorkerTypes
  <2>4. \A d \in Callers : d # c => ~Holds(d)
    BY <1>0, <2>1
  <2> QED
    BY <1>0, <2>1, <2>2, <2>3, <2>4, TranscriptionMoved
<1>10. CASE Transcriber!EndOfFile(c)
  <2>1. /\ Transcriber!Goto(c, "failing") /\ UNCHANGED <<lock, worker, asked, told>>
        /\ transcribing[c].phase = "written"
    BY <1>10 DEF Transcriber!EndOfFile
  <2>2. WorkerTypes'
    BY <1>0, <2>1, TranscriptionMoved DEF WorkerTypes
  <2> QED
    BY <1>0, <2>1, <2>2, TranscriptionMoved
<1> QED
  BY <1>1, <1>2, <1>3, <1>4, <1>5, <1>6, <1>7, <1>8, <1>9, <1>10
     DEF Transcriber!Run, Transcriber!Deadline

\* The worker answers, or ends.
LEMMA WorkerStepKeeps ==
    ASSUME WorkerInv, Transcriber!Serve \/ Transcriber!WorkerDies
    PROVE  WorkerInv'
<1> USE DEF WorkerInv, LockInv, Holds, IdentityInv, EmptyPipesInv, ExchangeInv,
            Transcriber!AnswerIsOurs, Transcriber!Pipes
<1>1. CASE Transcriber!Serve
  <2>1. /\ UNCHANGED <<lock, transcribing, worker>> /\ asked # <<>> /\ asked' = Tail(asked)
        /\ told' = Append(told, <<Head(asked), worker.identity>>)
    BY <1>1 DEF Transcriber!Serve
  <2>2. WorkerTypes'
    BY <2>1 DEF WorkerTypes
  <2>3. PICK c \in Callers : transcribing[c].phase \in {"written", "failing"}
    BY <2>1
  <2>4. ASSUME NEW d \in Callers, transcribing[d].phase = "written"
        PROVE  /\ asked' = <<>>
               /\ told' = <<<<transcribing[d].number, transcribing[d].identity>>>>
    <3>1. asked = <<transcribing[d].number>> /\ told = <<>>
      BY <2>1, <2>4
    <3> QED
      BY <2>1, <2>4, <3>1
  <2> QED
    BY <2>1, <2>2, <2>3, <2>4
<1>2. CASE Transcriber!WorkerDies
  <2>1. UNCHANGED <<lock, transcribing, worker, told>> /\ asked' = <<>>
    BY <1>2 DEF Transcriber!WorkerDies
  <2>2. WorkerTypes'
    BY <2>1 DEF WorkerTypes
  <2> QED
    BY <2>1, <2>2
<1> QED
  BY <1>1, <1>2

\* Time passes, and the timer stops a worker that no call has.
LEMMA ClockKeeps ==
    ASSUME WorkerInv, Transcriber!Clock
    PROVE  WorkerInv'
<1> USE DEF WorkerInv, LockInv, Holds, IdentityInv, EmptyPipesInv, ExchangeInv,
            Transcriber!AnswerIsOurs, Transcriber!Pipes
<1>1. CASE UNCHANGED <<lock, transcribing, worker, asked, told>>
  BY <1>1 DEF WorkerTypes
<1>2. CASE Transcriber!Expire /\ Transcriber!Stopped
  <2>1. /\ UNCHANGED <<lock, transcribing>> /\ lock = Nobody
        /\ asked' = <<>> /\ told' = <<>>
    BY <1>2, PipesClosed DEF Transcriber!Expire
  <2>2. WorkerTypes'
    BY <1>2, <2>1, PipesClosed DEF WorkerTypes
  <2>3. \A c \in Callers : ~Holds(c)
    BY <2>1 DEF WorkerTypes
  <2> QED
    BY <2>1, <2>2, <2>3
<1> QED
  BY <1>1, <1>2
     DEF Transcriber!Clock, Transcriber!IdlePasses, Transcriber!Fire, Transcriber!Expire

\* The invariant of the warm worker.
THEOREM WorkerInvariant == Transcriber!Spec => []WorkerInv
<1>1. Transcriber!Init => WorkerInv
  BY ProductionAssumption DEF Transcriber!Init, Transcriber!WorkerAssumption, WorkerInv,
     WorkerTypes, LockInv, Holds, IdentityInv, EmptyPipesInv, ExchangeInv, IsTranscription,
     Transcriber!AnswerIsOurs, Transcriber!NoCall, Transcriber!NoWorker
<1>2. WorkerInv /\ [Transcriber!Next]_Transcriber!vars => WorkerInv'
  <2>1. ASSUME WorkerInv, UNCHANGED Transcriber!vars PROVE WorkerInv'
    BY <2>1 DEF Transcriber!vars, WorkerInv, WorkerTypes, LockInv, Holds, IdentityInv,
       EmptyPipesInv, ExchangeInv, Transcriber!AnswerIsOurs
  <2> QED
    BY <2>1, CallStepKeeps, WorkerStepKeeps, ClockKeeps DEF Transcriber!Next
<1> QED
  BY <1>1, <1>2, PTL DEF Transcriber!Spec

-----------------------------------------------------------------------------
(* The model's answers.                                                    *)

IsModelCall(row) ==
    row = [phase |-> row.phase, number |-> row.number, conn |-> row.conn, text |-> row.text,
           reusable |-> row.reusable, outcome |-> row.outcome]

\* What a thread read belongs to its own call, and a turn that was read to its end has text.
ReadsItsOwn(row) ==
    /\ row.text \subseteq {row.number}
    /\ row.phase \in {"completed", "leaving"} \/ row.outcome = "answer" => row.text # {}

GoodCall(row) == IsModelCall(row) /\ ReadsItsOwn(row)

PoolInv ==
    /\ call = [c \in Callers |-> call[c]]
    /\ \A c \in Callers : GoodCall(call[c])

\* A row keeps its text, so it stays good when it claims no end that was not read.
LEMMA RowKept ==
    ASSUME NEW row, GoodCall(row), NEW p, NEW k, NEW again, NEW o,
           p \in {"completed", "leaving"} \/ o = "answer" => row.text # {}
    PROVE  GoodCall([phase |-> p, number |-> row.number, conn |-> k, text |-> row.text,
                     reusable |-> again, outcome |-> o])
BY DEF GoodCall, IsModelCall, ReadsItsOwn

\* A call goes on, has an outcome, a connection, or one that can be lent again.
LEMMA RowPhased ==
    ASSUME NEW row, GoodCall(row), NEW p,
           p \in {"completed", "leaving"} \/ row.outcome = "answer" => row.text # {}
    PROVE  /\ GoodCall([row EXCEPT !.phase = p])
           /\ [row EXCEPT !.phase = p].text = row.text
           /\ [row EXCEPT !.phase = p].phase = p
           /\ [row EXCEPT !.phase = p].outcome = row.outcome
<1>1. [row EXCEPT !.phase = p]
          = [phase |-> p, number |-> row.number, conn |-> row.conn, text |-> row.text,
             reusable |-> row.reusable, outcome |-> row.outcome]
  BY DEF GoodCall, IsModelCall
<1>2. GoodCall([phase |-> p, number |-> row.number, conn |-> row.conn, text |-> row.text,
                reusable |-> row.reusable, outcome |-> row.outcome])
  BY RowKept
<1> HIDE DEF GoodCall
<1> QED
  BY <1>1, <1>2

\* A call with its outcome.
LEMMA RowSettled ==
    ASSUME NEW row, GoodCall(row), NEW o,
           row.phase \in {"completed", "leaving"} \/ o = "answer" => row.text # {}
    PROVE  /\ GoodCall([row EXCEPT !.outcome = o])
           /\ [row EXCEPT !.outcome = o].text = row.text
           /\ [row EXCEPT !.outcome = o].phase = row.phase
           /\ [row EXCEPT !.outcome = o].outcome = o
<1>1. [row EXCEPT !.outcome = o]
          = [phase |-> row.phase, number |-> row.number, conn |-> row.conn, text |-> row.text,
             reusable |-> row.reusable, outcome |-> o]
  BY DEF GoodCall, IsModelCall
<1>2. GoodCall([phase |-> row.phase, number |-> row.number, conn |-> row.conn,
                text |-> row.text, reusable |-> row.reusable, outcome |-> o])
  BY RowKept
<1> QED
  BY <1>1, <1>2

\* A call on another connection.
LEMMA RowConnected ==
    ASSUME NEW row, GoodCall(row), NEW k
    PROVE  /\ GoodCall([row EXCEPT !.conn = k])
           /\ [row EXCEPT !.conn = k].text = row.text
           /\ [row EXCEPT !.conn = k].phase = row.phase
           /\ [row EXCEPT !.conn = k].outcome = row.outcome
<1>0. row.phase \in {"completed", "leaving"} \/ row.outcome = "answer" => row.text # {}
  BY DEF GoodCall, ReadsItsOwn
<1>1. [row EXCEPT !.conn = k]
          = [phase |-> row.phase, number |-> row.number, conn |-> k, text |-> row.text,
             reusable |-> row.reusable, outcome |-> row.outcome]
  BY DEF GoodCall, IsModelCall
<1>2. GoodCall([phase |-> row.phase, number |-> row.number, conn |-> k, text |-> row.text,
                reusable |-> row.reusable, outcome |-> row.outcome])
  BY <1>0, RowKept
<1> QED
  BY <1>1, <1>2

\* A call that says whether its connection may be used again.
LEMMA RowReusable ==
    ASSUME NEW row, GoodCall(row), NEW again
    PROVE  GoodCall([row EXCEPT !.reusable = again])
<1>0. row.phase \in {"completed", "leaving"} \/ row.outcome = "answer" => row.text # {}
  BY DEF GoodCall, ReadsItsOwn
<1>1. [row EXCEPT !.reusable = again]
          = [phase |-> row.phase, number |-> row.number, conn |-> row.conn,
             text |-> row.text, reusable |-> again, outcome |-> row.outcome]
  BY DEF GoodCall, IsModelCall
<1>2. GoodCall([phase |-> row.phase, number |-> row.number, conn |-> row.conn,
                text |-> row.text, reusable |-> again, outcome |-> row.outcome])
  BY <1>0, RowKept
<1> QED
  BY <1>1, <1>2

\* A call that reads text of its own turn.
LEMMA RowReads ==
    ASSUME NEW row, GoodCall(row), NEW n, n = row.number
    PROVE  GoodCall([row EXCEPT !.text = @ \cup {n}])
<1>1. [row EXCEPT !.text = row.text \cup {n}]
          = [phase |-> row.phase, number |-> row.number, conn |-> row.conn,
             text |-> row.text \cup {n}, reusable |-> row.reusable, outcome |-> row.outcome]
  BY DEF GoodCall, IsModelCall
<1>2. GoodCall([phase |-> row.phase, number |-> row.number, conn |-> row.conn,
                text |-> row.text \cup {n}, reusable |-> row.reusable,
                outcome |-> row.outcome])
  BY DEF GoodCall, IsModelCall, ReadsItsOwn
<1> QED
  BY <1>1, <1>2

\* Two changes at once.
LEMMA RowEnded ==
    ASSUME NEW row, GoodCall(row), NEW p, NEW o,
           p \in {"completed", "leaving"} \/ o = "answer" => row.text # {}
    PROVE  /\ GoodCall([row EXCEPT !.phase = p, !.outcome = o])
           /\ [row EXCEPT !.phase = p, !.outcome = o].text = row.text
           /\ [row EXCEPT !.phase = p, !.outcome = o].phase = p
           /\ [row EXCEPT !.phase = p, !.outcome = o].outcome = o
<1>1. PICK one : one = [row EXCEPT !.phase = p]
  OBVIOUS
<1>2. one = [phase |-> p, number |-> row.number, conn |-> row.conn,
             text |-> row.text, reusable |-> row.reusable, outcome |-> row.outcome]
  BY <1>1 DEF GoodCall, IsModelCall
<1>3. [one EXCEPT !.outcome = o]
          = [phase |-> p, number |-> row.number, conn |-> row.conn,
             text |-> row.text, reusable |-> row.reusable, outcome |-> o]
  BY <1>2
<1>4. GoodCall([phase |-> p, number |-> row.number, conn |-> row.conn,
                text |-> row.text, reusable |-> row.reusable, outcome |-> o])
  BY RowKept
<1> QED
  BY <1>1, <1>3, <1>4

\* A call that goes on with a connection.
LEMMA RowLent ==
    ASSUME NEW row, GoodCall(row), NEW p, p \notin {"completed", "leaving"}, NEW k
    PROVE  GoodCall([row EXCEPT !.phase = p, !.conn = k])
<1>0. row.outcome = "answer" => row.text # {}
  BY DEF GoodCall, ReadsItsOwn
<1>1. PICK one : one = [row EXCEPT !.phase = p]
  OBVIOUS
<1>2. GoodCall(one)
  BY <1>0, <1>1, RowPhased
<1>3. GoodCall([one EXCEPT !.conn = k])
  BY <1>2, RowConnected
<1> QED
  BY <1>1, <1>3

\* _wait_for_response and handle_notification, whatever the line is about.
LEMMA HandledRow ==
    ASSUME NEW row, GoodCall(row), NEW m
    PROVE  GoodCall(Pool!Handle(row, m))
<1>1. /\ row.outcome = "answer" => row.text # {}
      /\ row.phase = "leaving" => row.text # {}
  BY DEF GoodCall, ReadsItsOwn
<1>2. GoodCall(Pool!Failing(row))
  BY RowEnded DEF Pool!Failing
<1>3. GoodCall([row EXCEPT !.phase = "opened"])
  BY <1>1, RowPhased
<1>4. row.text # {} => GoodCall([row EXCEPT !.phase = "completed"])
  BY RowPhased
<1>5. m[3] = row.number => GoodCall([row EXCEPT !.text = @ \cup {m[3]}])
  BY RowReads
<1>6. ASSUME row.phase = "leaving", NEW again PROVE GoodCall(Pool!Left(row, again))
  <2>1. PICK one : one = [row EXCEPT !.phase = "retiring", !.outcome = "answer"]
    OBVIOUS
  <2>2. GoodCall(one)
    BY <1>1, <1>6, <2>1, RowEnded
  <2>3. GoodCall([one EXCEPT !.reusable = again])
    BY <2>2, RowReusable
  <2> QED
    BY <2>1, <2>3 DEF Pool!Left
<1> QED
  BY <1>2, <1>3, <1>4, <1>5, <1>6 DEF Pool!Handle

\* A thread's row is replaced by a good one.
LEMMA CallSet ==
    ASSUME PoolInv, NEW c \in Callers, NEW row, GoodCall(row), call' = [call EXCEPT ![c] = row]
    PROVE  PoolInv'
<1> HIDE DEF GoodCall
<1> QED
  BY DEF PoolInv

\* A thread goes on, or ends.
LEMMA CallGoes ==
    ASSUME PoolInv, NEW c \in Callers, NEW p, Pool!Goto(c, p),
           p \in {"completed", "leaving"} => call[c].text # {}
    PROVE  PoolInv'
<1>1. GoodCall(call[c]) /\ (call[c].outcome = "answer" => call[c].text # {})
  BY DEF PoolInv, GoodCall, ReadsItsOwn
<1>2. GoodCall([call[c] EXCEPT !.phase = p])
  BY <1>1, RowPhased
<1>3. call' = [call EXCEPT ![c] = [call[c] EXCEPT !.phase = p]]
  BY DEF Pool!Goto
<1> QED
  BY <1>2, <1>3, CallSet

\* A call ends.
LEMMA CallEnds ==
    ASSUME PoolInv, NEW c \in Callers, NEW p, NEW o, Pool!End(c, p, o),
           p \in {"completed", "leaving"} \/ o = "answer" => call[c].text # {}
    PROVE  PoolInv'
<1>1. GoodCall(call[c])
  BY DEF PoolInv
<1>2. GoodCall([call[c] EXCEPT !.phase = p, !.outcome = o])
  BY <1>1, RowEnded
<1>3. call' = [call EXCEPT ![c] = [call[c] EXCEPT !.phase = p, !.outcome = o]]
  BY DEF Pool!End
<1> QED
  BY <1>2, <1>3, CallSet

\* The steps of a thread.
LEMMA ThreadStepKeeps ==
    ASSUME PoolInv, NEW c \in Callers,
           \/ Pool!Begin(c) \/ Pool!Reserve(c) \/ Pool!Admit(c) \/ Pool!Cancel(c)
           \/ Pool!Run(c) \/ Pool!Deadline(c)
    PROVE  PoolInv'
<1>0. /\ GoodCall(call[c])
      /\ call[c].phase \in {"completed", "leaving"} \/ call[c].outcome = "answer" =>
            call[c].text # {}
  BY DEF PoolInv, GoodCall, ReadsItsOwn
<1>1. CASE Pool!Begin(c)
  <2>1. PICK n : call' = [call EXCEPT ![c] =
                            [Pool!NoCall EXCEPT !.phase = "waiting", !.number = n]]
    BY <1>1, Zenon DEF Pool!Begin
  <2>2. PICK one : one = [Pool!NoCall EXCEPT !.phase = "waiting"]
    OBVIOUS
  <2>3. IsModelCall(one) /\ one.phase = "waiting" /\ one.text = {} /\ one.outcome = "none"
    BY <2>2 DEF Pool!NoCall, IsModelCall
  <2>4. [one EXCEPT !.number = n]
            = [phase |-> one.phase, number |-> n, conn |-> one.conn, text |-> one.text,
               reusable |-> one.reusable, outcome |-> one.outcome]
    BY <2>3 DEF IsModelCall
  <2>5. GoodCall([Pool!NoCall EXCEPT !.phase = "waiting", !.number = n])
    BY <2>2, <2>3, <2>4 DEF GoodCall, IsModelCall, ReadsItsOwn
  <2> QED
    BY <2>1, <2>5, CallSet
<1>2. CASE Pool!Abandon(c) \/ Pool!NotAdmitted(c)
  <2>1. PICK p, o : Pool!End(c, p, o) /\ p \in {"idle", "returning"} /\ o # "answer"
    BY <1>2 DEF Pool!Abandon, Pool!NotAdmitted
  <2> QED
    BY <2>1, CallEnds
<1>3. CASE Pool!Reserve(c)
  <2>1. PICK k : call' = [call EXCEPT ![c] = [call[c] EXCEPT !.phase = "reserved", !.conn = k]]
    BY <1>3, Zenon DEF Pool!Reserve
  <2>2. GoodCall([call[c] EXCEPT !.phase = "reserved", !.conn = k])
    BY <1>0, RowLent
  <2> QED
    BY <2>1, <2>2, CallSet
<1>13. CASE Pool!Start(c)
  <2>1. PICK k : call' = [call EXCEPT ![c] = [call[c] EXCEPT !.phase = "connected", !.conn = k]]
    BY <1>13, Zenon DEF Pool!Start
  <2>2. GoodCall([call[c] EXCEPT !.phase = "connected", !.conn = k])
    BY <1>0, RowLent
  <2> QED
    BY <2>1, <2>2, CallSet
<1>4. CASE Pool!StartFails(c)
  <2>1. PICK o \in {"known", "unknown"} :
          call' = [call EXCEPT ![c] = [call[c] EXCEPT !.phase = "leaving_gate", !.conn = 0,
                                                      !.outcome = o]]
    BY <1>4, Zenon DEF Pool!StartFails
  <2>2. PICK one : one = [call[c] EXCEPT !.phase = "leaving_gate", !.conn = 0]
    OBVIOUS
  <2>3. GoodCall(one)
    BY <1>0, <2>2, RowLent
  <2>4. one.phase = "leaving_gate"
    <3>1. PICK two : two = [call[c] EXCEPT !.phase = "leaving_gate"]
      OBVIOUS
    <3>2. GoodCall(two) /\ two.phase = "leaving_gate"
      BY <1>0, <3>1, RowPhased
    <3>3. [two EXCEPT !.conn = 0].phase = "leaving_gate"
      BY <3>2, RowConnected
    <3> QED
      BY <2>2, <3>1, <3>3
  <2>5. GoodCall([one EXCEPT !.outcome = o])
    BY <2>3, <2>4, RowSettled
  <2> QED
    BY <2>1, <2>2, <2>5, CallSet
<1>5. CASE Pool!Admit(c) \/ Pool!Reuse(c) \/ Pool!LeaveGate(c)
  <2>1. \E p \in {"admitted", "connected", "returning"} : Pool!Goto(c, p)
    BY <1>5 DEF Pool!Admit, Pool!Reuse, Pool!LeaveGate
  <2> QED
    BY <2>1, CallGoes
<1>6. CASE Pool!Enter(c)
  BY <1>6, CallGoes, CallEnds DEF Pool!Enter
<1>7. CASE Pool!Request(c)
  <2>1. /\ Pool!Goto(c, Pool!Protocol[call[c].phase])
        /\ call[c].phase \in {"entered", "opened", "completed"}
    BY <1>7 DEF Pool!Request, Pool!Protocol
  <2>2. Pool!Protocol[call[c].phase] \in {"completed", "leaving"} => call[c].text # {}
    BY <1>0, <2>1 DEF Pool!Protocol
  <2> QED
    BY <2>1, <2>2, CallGoes
<1>8. CASE Pool!RequestBreaks(c)
  <2>1. PICK o : Pool!End(c, "retiring", o) /\ (o = "answer" => call[c].phase = "completed")
    BY <1>8 DEF Pool!RequestBreaks
  <2> QED
    BY <1>0, <2>1, CallEnds
<1>9. CASE Pool!Read(c)
  <2>1. \E m : call' = [call EXCEPT ![c] = Pool!Handle(call[c], m)]
    BY <1>9, Zenon DEF Pool!Read
  <2> QED
    BY <1>0, <2>1, HandledRow, CallSet
<1>10. CASE Pool!EndOfOutput(c) \/ Pool!TimeOut(c) \/ Pool!Cancel(c)
  <2>1. PICK o : Pool!End(c, "retiring", o) /\ (o = "answer" => call[c].phase = "leaving")
    BY <1>10 DEF Pool!EndOfOutput, Pool!TimeOut, Pool!Cancel, Pool!Broken
  <2> QED
    BY <1>0, <2>1, CallEnds
<1>11. CASE Pool!Retire(c)
  <2>1. Pool!End(c, "leaving_gate", "unknown") \/ Pool!Goto(c, "leaving_gate")
    BY <1>11 DEF Pool!Retire
  <2> QED
    BY <2>1, CallEnds, CallGoes
<1>12. CASE Pool!Return(c)
  <2>1. call' = [call EXCEPT ![c] =
                    [call[c] EXCEPT !.phase = "idle", !.conn = 0, !.reusable = FALSE]]
    BY <1>12, Zenon DEF Pool!Return
  <2>2. PICK one : one = [call[c] EXCEPT !.phase = "idle", !.conn = 0]
    OBVIOUS
  <2>3. GoodCall(one)
    BY <1>0, <2>2, RowLent
  <2>4. GoodCall([one EXCEPT !.reusable = FALSE])
    BY <2>3, RowReusable
  <2> QED
    BY <2>1, <2>2, <2>4, CallSet
<1> QED
  BY <1>1, <1>2, <1>3, <1>4, <1>5, <1>6, <1>7, <1>8, <1>9, <1>10, <1>11, <1>12, <1>13
     DEF Pool!Run, Pool!Deadline

\* The invariant of the model's answers.
THEOREM PoolInvariant == Pool!Spec => []PoolInv
<1>1. Pool!Init => PoolInv
  BY DEF Pool!Init, PoolInv, GoodCall, IsModelCall, ReadsItsOwn, Pool!NoCall
<1>2. PoolInv /\ [Pool!Next]_Pool!vars => PoolInv'
  <2> SUFFICES ASSUME PoolInv, [Pool!Next]_Pool!vars PROVE PoolInv'
    OBVIOUS
  <2>1. CASE UNCHANGED call
    BY <2>1 DEF PoolInv
  <2>2. CASE \E x \in Clients : Pool!Close(x)
    BY <2>1, <2>2
       DEF Pool!Close, Pool!CloseBegin, Pool!CloseOne, Pool!CloseSeal, Pool!CloseEnd
  <2>3. CASE \E k \in Pool!Numbers : Pool!Serve(k)
    BY <2>1, <2>3 DEF Pool!Serve, Pool!Accept, Pool!Refuse, Pool!Finish, Pool!Die
  <2>4. CASE UNCHANGED Pool!vars
    BY <2>1, <2>4 DEF Pool!vars
  <2> QED
    BY <2>2, <2>3, <2>4, ThreadStepKeeps DEF Pool!Next
<1> QED
  BY <1>1, <1>2, PTL DEF Pool!Spec

\* An answer of the model is made of the text of its own thread, whatever a lent connection
\* still carries; a transcript is the answer to the call's own request, whatever was
\* cancelled or timed out before it in the middle of an exchange.
THEOREM AnswersAreOwnHolds == Pool!Spec /\ Transcriber!Spec => []AnswersAreOwn
<1>1. PoolInv => Pool!AnswerIsOwn
  BY DEF PoolInv, GoodCall, ReadsItsOwn, Pool!AnswerIsOwn
<1>2. WorkerInv => Transcriber!AnswerIsOurs
  BY DEF WorkerInv
<1>3. PoolInv /\ WorkerInv => AnswersAreOwn
  BY <1>1, <1>2 DEF AnswersAreOwn
<1> QED
  BY <1>3, PoolInvariant, WorkerInvariant, PTL

-----------------------------------------------------------------------------
(* The faithful edition.                                                   *)

\* A text that was written, or taken from the source, as a whole.
Proper(t) ==
    /\ t = [by |-> t.by, check |-> t.check, partial |-> FALSE, from |-> t.from]
    /\ t.by # "none"

WavePhases == {"ground", "edit", "repair", "review", "rewrite", "recheck"}

\* The compiler's waves: what is at work in which, and on what.
WaveInv ==
    /\ request \in Requests
    /\ work = [u \in Edition!Units |-> work[u]]
    /\ todo \subseteq IF phase = "ground" THEN Edition!Batches ELSE Edition!Sections
    /\ phase \notin WavePhases => todo = {}
    /\ \A u \in Edition!Units :
          /\ u \notin todo => work[u] = "idle"
          /\ work[u] \in {"prepare", "check", "reprepare", "recheck"} => phase = "ground"
          /\ work[u] = "facts" => phase = "edit"
          /\ work[u] = "write" => phase \in {"edit", "repair", "rewrite"}
          /\ work[u] = "review" => phase \in {"edit", "review", "recheck"}

Tables ==
    /\ text = [s \in Edition!Sections |-> text[s]]
    /\ early = [s \in Edition!Sections |-> early[s]]
    /\ review = [s \in Edition!Sections |-> review[s]]
    /\ "overall" \in DOMAIN summary

\* The texts, up to the decision which of them fall back.
Judging == {"review", "rewrite", "recheck"}
Whole == {"assess", "gate", "settle"} \cup Judging
Written(s) == s \notin todo \/ work[s] = "done"

TextInv ==
    \A s \in Edition!Sections :
        /\ phase \in {"context", "ground", "edit", "repair"} =>
              text[s] = Edition!NoText \/ Proper(text[s])
        /\ phase = "edit" /\ work[s] = "review" => Proper(text[s])
        /\ phase = "repair" /\ Written(s) => Proper(text[s])
        /\ phase \in Whole => Proper(text[s])

\* A review in force is about the section's text, once the wave that makes it so is over.
ReviewInv ==
    \A s \in Edition!Sections :
        /\ phase \in {"review", "recheck"} /\ Written(s) => review[s].of = text[s]
        /\ phase = "rewrite" /\ s \notin todo => review[s].of = text[s]
        /\ phase = "settle" => review[s].of = text[s]

\* What the property asks of a published text and of its summary, of every text that was
\* settled.
Reviewed(s) ==
    /\ \/ text[s].by = "source"
       \/ /\ review[s].of = [text[s] EXCEPT !.partial = FALSE]
          /\ IF text[s].partial THEN review[s].located ELSE review[s].body
    /\ s \notin excluded /\ ~Edition!Local(text[s]) =>
          review[s].of = text[s] /\ review[s].aux

SettledInv ==
    /\ phase \in {"overview", "returned"} =>
          summary.overall = "fail" \/ \A s \in Edition!Sections : Reviewed(s)
    /\ phase = "published" => \A s \in Edition!Sections : Reviewed(s)

KeptInv ==
    \A g \in cache : g.unit \in Edition!Sections =>
        /\ Edition!Approved(g.review) /\ ~Edition!Local(g.review.of)
        /\ Proper(g.review.of)

EditionInv == WaveInv /\ Tables /\ TextInv /\ ReviewInv /\ SettledInv /\ KeptInv

\* A request has sections and batches, and no number is both.
LEMMA Ordinals ==
    ASSUME request \in Requests
    PROVE  /\ Edition!Units = Edition!Sections \cup Edition!Batches
           /\ Edition!Sections \cap Edition!Batches = {}
BY ProductionAssumption DEF Edition!EditionAssumption, Edition!Units, Edition!Sections,
   Edition!Batches

\* The sections of one request.
LEMMA SameRequest ==
    ASSUME UNCHANGED request
    PROVE  /\ Edition!Sections' = Edition!Sections /\ Edition!Batches' = Edition!Batches
           /\ Edition!Units' = Edition!Units
BY DEF Edition!Units, Edition!Sections, Edition!Batches

\* A wave is handed to the pool, or the compiler goes on without one.
LEMMA WaveSet ==
    ASSUME WaveInv, UNCHANGED request, NEW p, NEW units, Edition!Wave(p, units),
           units \subseteq IF p = "ground" THEN Edition!Batches ELSE Edition!Sections,
           p \notin WavePhases => units = {}
    PROVE  /\ WaveInv' /\ phase' = p /\ todo' = units
           /\ \A u \in Edition!Units : work'[u] = IF u \in units THEN "queued" ELSE "idle"
BY SameRequest DEF Edition!Wave, WaveInv

\* A phase between waves begins, with nobody at work.
LEMMA Left ==
    ASSUME WaveInv, UNCHANGED request, NEW p, p \notin WavePhases, Edition!Leave(p)
    PROVE  /\ WaveInv' /\ phase' = p /\ todo' = {}
           /\ \A u \in Edition!Units : work'[u] = "idle"
BY WaveSet DEF Edition!Leave

\* A step of the worker of one unit of the wave.
LEMMA Stepped ==
    ASSUME WaveInv, UNCHANGED request, NEW u \in Edition!Units, work[u] # "idle", NEW at,
           Edition!Step(u, at),
           at \in {"prepare", "check", "reprepare", "recheck"} => phase = "ground",
           at = "facts" => phase = "edit",
           at = "write" => phase \in {"edit", "repair", "rewrite"},
           at = "review" => phase \in {"edit", "review", "recheck"}
    PROVE  /\ WaveInv' /\ UNCHANGED <<phase, todo>> /\ work'[u] = at /\ u \in todo
           /\ \A v \in Edition!Units : v # u => work'[v] = work[v]
BY SameRequest DEF Edition!Step, WaveInv

\* The worker of a section ends with a result or an error.
LEMMA Finished ==
    ASSUME WaveInv, UNCHANGED request, NEW u \in Edition!Units, work[u] # "idle", NEW at,
           Edition!Step(u, at), at \in {"done", "content", "fatal"}
    PROVE  /\ WaveInv' /\ UNCHANGED <<phase, todo>> /\ work'[u] = at /\ u \in todo
           /\ \A v \in Edition!Units : v # u => work'[v] = work[v]
BY Stepped

\* An error ends the Job, which publishes nothing.
LEMMA BrokenOff ==
    ASSUME EditionInv, UNCHANGED <<request, text, early, review, cache>>,
           NEW e, Edition!Break(e)
    PROVE  EditionInv'
<1>1. WaveInv' /\ phase' = "failed"
  BY Left DEF EditionInv, Edition!Break, WavePhases
<1>2. "overall" \in DOMAIN summary'
  BY Zenon DEF EditionInv, Tables, Edition!Break
<1> QED
  BY <1>1, <1>2, SameRequest DEF EditionInv, Tables, TextInv, Whole, Judging, ReviewInv,
     SettledInv, KeptInv, Edition!Approved, Edition!Local

\* What the property asks of a text only depends on it and on its review.
LEMMA SameReviewed ==
    ASSUME UNCHANGED <<request, text, review, excluded>>
    PROVE  (\A s \in Edition!Sections : Reviewed(s))' <=> \A s \in Edition!Sections : Reviewed(s)
BY SameRequest DEF Reviewed, Edition!Local

\* The groups that are kept are not touched.
LEMMA SameKept ==
    ASSUME KeptInv, UNCHANGED <<request, cache>>
    PROVE  KeptInv'
BY SameRequest DEF KeptInv, Proper, Edition!Approved, Edition!Local

\* A thread of the pool takes a unit.
LEMMA StartKeeps ==
    ASSUME EditionInv, NEW u \in Edition!Units, Edition!Start(u)
    PROVE  EditionInv'
<1>1. /\ UNCHANGED <<request, text, early, review, excluded, summary, cache>>
      /\ work[u] = "queued" /\ Edition!Step(u, Edition!FirstStep)
  BY DEF Edition!Start, Edition!Judgement
<1>2. u \in todo /\ phase \in WavePhases
  BY <1>1 DEF EditionInv, WaveInv
<1>3. /\ phase = "ground" => Edition!FirstStep = "prepare"
      /\ phase = "edit" => Edition!FirstStep = "facts"
      /\ phase \in {"repair", "rewrite"} => Edition!FirstStep = "write"
      /\ phase \in {"review", "recheck"} => Edition!FirstStep = "review"
  BY DEF Edition!FirstStep
<1>4. /\ WaveInv' /\ UNCHANGED <<phase, todo>> /\ work'[u] = Edition!FirstStep
      /\ \A v \in Edition!Units : v # u => work'[v] = work[v]
  BY <1>1, <1>2, <1>3, Stepped DEF EditionInv, WavePhases
<1>5. TextInv' /\ ReviewInv'
  BY <1>1, <1>2, <1>3, <1>4, SameRequest, Ordinals
     DEF EditionInv, WaveInv, TextInv, ReviewInv, Written, WavePhases
<1> QED
  BY <1>1, <1>4, <1>5, SameRequest, SameReviewed, SameKept
     DEF EditionInv, Tables, SettledInv

\* The first result that is an error drops what no thread has taken.
LEMMA AbandonKeeps ==
    ASSUME EditionInv, Edition!Abandon
    PROVE  EditionInv'
<1>1. /\ UNCHANGED <<request, phase, todo, text, early, review, excluded, summary, cache>>
      /\ work' = [u \in Edition!Units |->
                     IF work[u] = "queued" THEN "dropped" ELSE work[u]]
  BY DEF Edition!Abandon, Edition!Judgement
<1>2. WaveInv' /\ \A u \in Edition!Units :
          work'[u] = IF work[u] = "queued" THEN "dropped" ELSE work[u]
  BY <1>1, SameRequest DEF EditionInv, WaveInv
<1>3. TextInv' /\ ReviewInv'
  BY <1>1, <1>2, SameRequest, Ordinals
     DEF EditionInv, WaveInv, TextInv, ReviewInv, Written
<1> QED
  BY <1>1, <1>2, <1>3, SameRequest, SameReviewed, SameKept
     DEF EditionInv, Tables, SettledInv

\* Once the pool is down the error is raised.
LEMMA FailKeeps ==
    ASSUME EditionInv, Edition!Fail
    PROVE  EditionInv'
<1>1. /\ UNCHANGED <<request, text, early, review, cache>>
      /\ \E u \in todo : Edition!Break(work[u])
  BY DEF Edition!Fail, Edition!Judgement
<1> QED
  BY <1>1, BrokenOff

\* The chapter plan, and the corrections of the source.
LEMMA BeforeSectionsKeep ==
    ASSUME EditionInv, Edition!PlanContext \/ Edition!AfterGround
    PROVE  EditionInv'
<1>1. CASE \E e : Edition!Break(e) /\ UNCHANGED <<request, text, early, review, cache>>
  BY <1>1, BrokenOff
<1>2. CASE /\ Edition!Begin \/ Edition!Wave("edit", Edition!Sections)
           /\ phase \in {"context", "ground"} /\ "overall" \in DOMAIN summary'
           /\ UNCHANGED <<request, text, early, review, cache>>
  <2>1. /\ WaveInv' /\ phase' \in {"ground", "edit"}
        /\ \A u \in Edition!Units : work'[u] # "review"
    BY <1>2, WaveSet DEF EditionInv, Edition!Begin, WavePhases
  <2>2. TextInv' /\ ReviewInv' /\ SettledInv'
    BY <1>2, <2>1, SameRequest, Ordinals
       DEF EditionInv, WaveInv, TextInv, ReviewInv, SettledInv, Whole, Judging
  <2> QED
    BY <1>2, <2>1, <2>2, SameRequest, SameKept DEF EditionInv, Tables
<1>3. CASE Edition!PlanContext
  <2>1. UNCHANGED <<request, text, early, review, cache>> /\ phase = "context"
    BY <1>3 DEF Edition!PlanContext, Edition!Judgement
  <2>2. CASE \E e \in Edition!Errors : Edition!Break(e)
    BY <1>1, <2>1, <2>2
  <2>3. CASE Edition!Begin /\ ~\E e \in Edition!Errors : Edition!Break(e)
    <3>1. \/ summary' = summary
          \/ summary' = [summary EXCEPT !.prep = 1, !.ops = 1]
          \/ summary' = [summary EXCEPT !.prep = 1]
      BY <1>3, <2>3, Zenon DEF Edition!PlanContext
    <3>2. "overall" \in DOMAIN summary'
      BY <3>1, Zenon DEF EditionInv, Tables
    <3> QED
      BY <1>2, <2>1, <2>3, <3>2
  <2> QED
    BY <1>3, <2>2, <2>3 DEF Edition!PlanContext
<1>4. CASE Edition!AfterGround
  <2>1. /\ UNCHANGED <<request, text, early, review, cache>> /\ phase = "ground"
        /\ Edition!Wave("edit", Edition!Sections)
    BY <1>4 DEF Edition!AfterGround, Edition!Collected, Edition!Judgement
  <2>2. "overall" \in DOMAIN summary'
    BY <1>4, Zenon DEF Edition!AfterGround, EditionInv, Tables
  <2> QED
    BY <1>2, <2>1, <2>2
<1> QED
  BY <1>3, <1>4

\* The corrections of a batch.
LEMMA BatchKeeps ==
    ASSUME EditionInv, NEW b \in Edition!Batches, Edition!Prepare(b) \/ Edition!Check(b)
    PROVE  EditionInv'
<1> DEFINE steps == {"prepare", "check", "reprepare", "recheck", "done", "content", "fatal"}
<1>1. /\ UNCHANGED <<request, text, early, review, summary>> /\ b \in Edition!Units
      /\ work[b] \in {"prepare", "check", "reprepare", "recheck"}
  BY Ordinals DEF Edition!Prepare, Edition!Check, Edition!Judgement, EditionInv, WaveInv
<1>2. phase = "ground"
  BY <1>1 DEF EditionInv, WaveInv
<1>3. \E at \in steps : Edition!Step(b, at)
  BY DEF Edition!Prepare, Edition!Check, Edition!Again, Edition!GiveUp
<1>4. WaveInv' /\ phase' = "ground"
  BY <1>1, <1>2, <1>3, Stepped DEF EditionInv
<1>5. \A g \in cache' \ cache : g.unit = b
  <2>1. \/ cache' = cache
        \/ cache' = cache \cup {[unit |-> b, basis |-> Edition!BasisOf(b), job |-> job,
                                 calls |-> calls[b] + 1]}
    BY DEF Edition!Prepare, Edition!Check
  <2>2. [unit |-> b, basis |-> Edition!BasisOf(b), job |-> job, calls |-> calls[b] + 1].unit = b
    OBVIOUS
  <2> QED
    BY <2>1, <2>2
<1>6. KeptInv'
  BY <1>1, <1>5, SameRequest, Ordinals
     DEF EditionInv, WaveInv, KeptInv, Proper, Edition!Approved, Edition!Local
<1>7. TextInv' /\ ReviewInv' /\ SettledInv'
  BY <1>1, <1>2, <1>4, SameRequest
     DEF EditionInv, TextInv, ReviewInv, SettledInv, Whole, Judging
<1> QED
  BY <1>1, <1>4, <1>6, <1>7, SameRequest DEF EditionInv, Tables

\* A step of the worker of a section: it writes at most the section's own text and review,
\* and is done with a review of the text as it is.
LEMMA SectionStepKeeps ==
    ASSUME EditionInv, UNCHANGED request, KeptInv', "overall" \in DOMAIN summary',
           NEW s \in Edition!Sections, work[s] \in {"facts", "write", "review"},
           NEW at, Edition!Step(s, at), at \in {"write", "review", "done", "content", "fatal"},
           at \in {"write", "review"} => phase = "edit",
           at = "review" => Proper(text'[s]),
           text' = text \/ \E t : Proper(t) /\ text' = [text EXCEPT ![s] = t],
           early' = early \/ \E r : early' = [early EXCEPT ![s] = r],
           review' = review \/ \E r : review' = [review EXCEPT ![s] = r],
           phase = "repair" /\ at = "done" => Proper(text'[s]),
           phase \in {"review", "recheck"} =>
              text' = text /\ (at = "done" => review'[s].of = text[s])
    PROVE  EditionInv'
<1>1. s \in Edition!Units /\ phase \in {"edit", "repair", "review", "rewrite", "recheck"}
  BY Ordinals DEF EditionInv, WaveInv
<1>2. /\ WaveInv' /\ UNCHANGED <<phase, todo>> /\ work'[s] = at /\ s \in todo
      /\ \A v \in Edition!Units : v # s => work'[v] = work[v]
  BY <1>1, Stepped DEF EditionInv
<1>3. /\ text' = [x \in Edition!Sections |-> text'[x]]
      /\ early' = [x \in Edition!Sections |-> early'[x]]
      /\ review' = [x \in Edition!Sections |-> review'[x]]
      /\ \A x \in Edition!Sections : x # s => text'[x] = text[x] /\ review'[x] = review[x]
      /\ text'[s] = text[s] \/ Proper(text'[s])
  <2> HIDE DEF Proper
  <2> QED
    BY DEF EditionInv, Tables
<1>4. TextInv'
  <2>1. \A x \in Edition!Sections : Proper(text[x]) => Proper(text'[x])
    <3> HIDE DEF Proper
    <3> QED
      BY <1>3
  <2>2. \A x \in Edition!Sections : Proper(text'[x]) <=> Proper(text[x])'
    BY DEF Proper
  <2>3. Edition!NoText' = Edition!NoText
    BY DEF Edition!NoText
  <2> HIDE DEF Proper
  <2> QED
    BY <1>1, <1>2, <1>3, <2>1, <2>2, <2>3, SameRequest, Ordinals
       DEF EditionInv, WaveInv, TextInv, Whole, Judging, Written
<1>5. ReviewInv' /\ SettledInv'
  BY <1>1, <1>2, <1>3, SameRequest, Ordinals
     DEF EditionInv, WaveInv, ReviewInv, SettledInv, Written
<1> QED
  BY <1>2, <1>3, <1>4, <1>5, SameRequest DEF EditionInv, Tables

\* What the compiler writes is whole, and so is the wording of the source.
LEMMA TextsAreProper ==
    /\ \A by \in {"source", "edit", "repair", "rewrite"} :
          \A check : Proper(Edition!Text(by, check))
    /\ Proper(Edition!Source) /\ Edition!Source.by = "source"
BY DEF Proper, Edition!Text, Edition!Source

\* The summary of the whole is among the summaries.
LEMMA SummaryCounted ==
    ASSUME EditionInv, NEW n, Edition!Count(n)
    PROVE  "overall" \in DOMAIN summary'
BY Zenon DEF EditionInv, Tables, Edition!Count

\* A kept group of the section is taken, or its facts are extracted.
LEMMA FactsKeep ==
    ASSUME EditionInv, NEW s \in Edition!Sections, Edition!Facts(s)
    PROVE  EditionInv'
<1>1. /\ UNCHANGED <<request, review, cache>> /\ work[s] = "facts" /\ s \in Edition!Units
  BY Ordinals DEF Edition!Facts, EditionInv, WaveInv
<1>2. phase = "edit" /\ KeptInv'
  BY <1>1, SameKept DEF EditionInv, WaveInv
<1>3. CASE \E g \in Edition!Cached(s) :
             /\ Edition!Step(s, "done") /\ Edition!Count(3)
             /\ text' = [text EXCEPT ![s] = g.review.of]
             /\ early' = [early EXCEPT ![s] = g.review]
  <2>1. PICK g \in Edition!Cached(s) :
             /\ Edition!Step(s, "done") /\ Edition!Count(3)
             /\ text' = [text EXCEPT ![s] = g.review.of]
             /\ early' = [early EXCEPT ![s] = g.review]
    BY <1>3
  <2>2. Proper(g.review.of)
    BY DEF EditionInv, KeptInv, Edition!Cached
  <2> HIDE DEF Proper
  <2> QED
    BY <1>1, <1>2, <2>1, <2>2, SummaryCounted, SectionStepKeeps
<1>4. CASE /\ UNCHANGED <<early, summary>>
           /\ \/ Edition!Step(s, "write") /\ UNCHANGED text
              \/ Edition!Retain(s) \/ (Edition!Step(s, "fatal") /\ UNCHANGED text)
  <2>1. PICK at \in {"write", "done", "content", "fatal"} :
             /\ Edition!Step(s, at)
             /\ text' = text \/ text' = [text EXCEPT ![s] = Edition!Source]
    BY <1>4 DEF Edition!Retain
  <2>2. "overall" \in DOMAIN summary'
    BY <1>4 DEF EditionInv, Tables
  <2> HIDE DEF Proper
  <2> QED
    BY <1>1, <1>2, <1>4, <2>1, <2>2, TextsAreProper, SectionStepKeeps
<1> QED
  BY <1>3, <1>4 DEF Edition!Facts

\* A section is written.
LEMMA WriteKeeps ==
    ASSUME EditionInv, NEW s \in Edition!Sections, Edition!Write(s)
    PROVE  EditionInv'
<1>1. /\ UNCHANGED <<request, early, review, cache>> /\ work[s] = "write" /\ s \in Edition!Units
  BY Ordinals DEF Edition!Write, Edition!Judgement, EditionInv, WaveInv
<1>2. phase \in {"edit", "repair", "rewrite"} /\ KeptInv'
  BY <1>1, SameKept DEF EditionInv, WaveInv
<1>3. "overall" \in DOMAIN summary'
  <2>1. (\E n : Edition!Count(n)) \/ summary' = summary
    BY DEF Edition!Write
  <2> QED
    BY <2>1, SummaryCounted DEF EditionInv, Tables
<1>4. PICK at \in {"review", "done", "content", "fatal"} :
        /\ Edition!Step(s, at) /\ (at = "review" => phase = "edit")
        /\ \/ \E t : /\ text' = [text EXCEPT ![s] = t]
                     /\ (\E c : t = Edition!Text(phase, c)) \/ t = Edition!Source
           \/ text' = text /\ at # "review" /\ (at = "done" => phase = "edit")
  BY DEF Edition!Write, Edition!Retain
<1>5. CASE text' = text /\ at # "review" /\ (at = "done" => phase = "edit")
  BY <1>1, <1>2, <1>3, <1>4, <1>5, SectionStepKeeps
<1>6. CASE \E t : /\ text' = [text EXCEPT ![s] = t]
                  /\ (\E c : t = Edition!Text(phase, c)) \/ t = Edition!Source
  <2>1. PICK t : /\ text' = [text EXCEPT ![s] = t]
                 /\ (\E c : t = Edition!Text(phase, c)) \/ t = Edition!Source
    BY <1>6
  <2>2. Proper(t) /\ text'[s] = t
    BY <1>2, <2>1, TextsAreProper DEF EditionInv, Tables
  <2> HIDE DEF Proper
  <2> QED
    BY <1>1, <1>2, <1>3, <1>4, <2>1, <2>2, SectionStepKeeps
<1> QED
  BY <1>4, <1>5, <1>6

\* A section is reviewed or left unreviewed; what is stored is about its present text.
LEMMA ReviewKeeps ==
    ASSUME EditionInv, NEW s \in Edition!Sections, Edition!Review(s)
    PROVE  EditionInv'
<1>1. /\ UNCHANGED <<request, text>> /\ work[s] = "review" /\ s \in Edition!Units
  BY Ordinals DEF Edition!Review, EditionInv, WaveInv
<1>2. phase \in {"edit", "review", "recheck"}
  BY <1>1 DEF EditionInv, WaveInv
<1>3. "overall" \in DOMAIN summary'
  <2>1. (\E n : Edition!Count(n)) \/ summary' = summary
    BY DEF Edition!Review
  <2> QED
    BY <2>1, SummaryCounted DEF EditionInv, Tables
<1>4. CASE \E e \in Edition!Errors : Edition!Step(s, e) /\ UNCHANGED <<early, review, cache>>
  <2>1. PICK e \in {"content", "fatal"} :
            Edition!Step(s, e) /\ UNCHANGED <<early, review, cache>>
    BY <1>4 DEF Edition!Errors
  <2> QED
    BY <1>1, <1>2, <1>3, <2>1, SameKept, SectionStepKeeps DEF EditionInv
<1>5. ASSUME NEW r, r.of = text[s], Edition!Store(s, r), Edition!Step(s, "done"), KeptInv'
      PROVE  EditionInv'
  <2>1. /\ early' = early \/ early' = [early EXCEPT ![s] = r]
        /\ review' = review \/ review' = [review EXCEPT ![s] = r]
        /\ phase # "edit" => review'[s].of = text[s]
    BY <1>5 DEF Edition!Store, EditionInv, Tables
  <2> QED
    BY <1>1, <1>2, <1>3, <1>5, <2>1, SectionStepKeeps
<1>6. CASE /\ ~Edition!Local(text[s]) /\ Edition!Step(s, "done")
           /\ \E body, aux, located \in BOOLEAN :
                 LET r == Edition!Verdict(text[s], body, aux, located /\ ~body)
                 IN Edition!Store(s, r) /\ Edition!Save(s, r)
  <2>1. PICK r : /\ r.of = text[s] /\ Edition!Store(s, r) /\ Edition!Save(s, r)
    BY <1>6 DEF Edition!Verdict
  <2>2. phase = "edit" => Proper(text[s])
    BY <1>1 DEF EditionInv, TextInv
  <2>3. ASSUME NEW g \in cache' \ cache
        PROVE  Edition!Approved(g.review) /\ ~Edition!Local(g.review.of) /\ Proper(g.review.of)
    <3>1. /\ g = [unit |-> s, basis |-> Edition!BasisOf(s), review |-> r]
          /\ phase = "edit" /\ Edition!Approved(r)
      BY <2>1, <2>3 DEF Edition!Save
    <3>2. g.review = r
      BY <3>1
    <3> HIDE DEF Proper
    <3> QED
      BY <1>6, <2>1, <2>2, <3>1, <3>2
  <2>4. KeptInv'
    BY <1>1, <2>3, SameRequest DEF EditionInv, KeptInv, Proper, Edition!Approved, Edition!Local
  <2> QED
    BY <1>5, <1>6, <2>1, <2>4
<1>7. CASE /\ Edition!Store(s, Edition!Unreviewed(text[s])) /\ Edition!Step(s, "done")
           /\ UNCHANGED cache
  <2>1. Edition!Unreviewed(text[s]).of = text[s]
    BY DEF Edition!Unreviewed, Edition!Verdict
  <2> QED
    BY <1>1, <1>5, <1>7, <2>1, SameKept DEF EditionInv
<1> QED
  BY <1>4, <1>6, <1>7 DEF Edition!Review

\* The compiler's thread hands out a repair or goes on with the texts as they are.
LEMMA TextsKept ==
    ASSUME EditionInv, UNCHANGED <<request, text, early, review, cache>>,
           "overall" \in DOMAIN summary', NEW p, NEW units,
           Edition!Wave(p, units), units \subseteq Edition!Sections,
           \/ /\ p = "repair"
              /\ \A s \in Edition!Sections : text[s] = Edition!NoText \/ Proper(text[s])
              /\ \A s \in Edition!Sections \ units : Proper(text[s])
           \/ /\ p \in {"assess", "gate"} /\ units = {}
              /\ \A s \in Edition!Sections : Proper(text[s])
           \/ /\ p = "settle" /\ units = {}
              /\ \A s \in Edition!Sections : Proper(text[s]) /\ review[s].of = text[s]
           \/ /\ p \in {"rewrite", "recheck"}
              /\ \A s \in Edition!Sections : Proper(text[s])
              /\ \A s \in Edition!Sections \ units : review[s].of = text[s]
    PROVE  EditionInv'
<1>1. /\ WaveInv' /\ phase' = p /\ todo' = units
      /\ \A u \in Edition!Units : work'[u] = IF u \in units THEN "queued" ELSE "idle"
  BY WaveSet DEF EditionInv, WavePhases
<1>2. \A s \in Edition!Sections : Proper(text[s])' <=> Proper(text[s])
  BY DEF Proper
<1>3. Edition!NoText' = Edition!NoText
  BY DEF Edition!NoText
<1>4. TextInv' /\ ReviewInv' /\ SettledInv'
  <2> HIDE DEF Proper
  <2> QED
    BY <1>1, <1>2, <1>3, SameRequest, Ordinals
       DEF EditionInv, WaveInv, TextInv, ReviewInv, SettledInv, Whole, Judging, Written
<1> QED
  BY <1>1, <1>4, SameRequest, SameKept DEF EditionInv, Tables

\* After the edit wave and its repair, every section has a text.
LEMMA AfterTextsKeep ==
    ASSUME EditionInv, Edition!AfterEdit \/ Edition!Assess \/ Edition!AfterRepair
    PROVE  EditionInv'
<1> HIDE DEF Proper
<1>1. UNCHANGED <<request, text, early, review, cache>>
  BY DEF Edition!AfterEdit, Edition!Assess, Edition!AfterRepair, Edition!Judgement
<1>2. CASE Edition!AfterEdit
  <2> DEFINE missing == {s \in Edition!Sections : text[s] = Edition!NoText}
  <2>1. phase = "edit"
    BY <1>2 DEF Edition!AfterEdit, Edition!Collected
  <2>2. \A s \in Edition!Sections : text[s] = Edition!NoText \/ Proper(text[s])
    BY <2>1 DEF EditionInv, TextInv
  <2>3. CASE Edition!Break("content")
    BY <1>1, <2>3, BrokenOff
  <2>4. CASE ~Edition!Break("content")
    <3>1. \/ summary' = [[summary EXCEPT !.prep = @ + 1, !.waves = 1] EXCEPT !.contract = TRUE]
          \/ summary' = [summary EXCEPT !.prep = @ + 1, !.waves = 1]
      BY <1>2, <2>4, Zenon DEF Edition!AfterEdit
    <3>2. "overall" \in DOMAIN summary'
      BY <3>1, Zenon DEF EditionInv, Tables
    <3>3. \/ Edition!Wave("repair", missing)
          \/ missing = {} /\ Edition!Wave("assess", {})
      BY <1>2, <2>4, Zenon DEF Edition!AfterEdit, Edition!Leave
    <3> QED
      BY <1>1, <2>2, <3>2, <3>3, TextsKept
  <2> QED
    BY <2>3, <2>4
<1>3. CASE Edition!Assess
  <2>1. /\ phase = "assess" /\ UNCHANGED summary
        /\ Edition!Wave("repair", Edition!Broken) \/ Edition!Wave("gate", {})
    BY <1>3 DEF Edition!Assess, Edition!Leave
  <2>2. \A s \in Edition!Sections : Proper(text[s])
    BY <2>1 DEF EditionInv, TextInv, Whole
  <2>3. Edition!Broken \subseteq Edition!Sections /\ "overall" \in DOMAIN summary'
    BY <2>1 DEF Edition!Broken, EditionInv, Tables
  <2> QED
    BY <1>1, <2>1, <2>2, <2>3, TextsKept
<1>4. CASE Edition!AfterRepair
  <2>1. /\ phase = "repair" /\ \A u \in todo : work[u] = "done"
        /\ \E p \in {"assess", "gate"} : Edition!Wave(p, {})
        /\ Edition!Repaired
    BY <1>4 DEF Edition!AfterRepair, Edition!Collected, Edition!Leave
  <2>2. \A s \in Edition!Sections : Proper(text[s])
    BY <2>1 DEF EditionInv, TextInv, Written
  <2>3. "overall" \in DOMAIN summary'
    BY <2>1, Zenon DEF Edition!Repaired, EditionInv, Tables
  <2> QED
    BY <1>1, <2>1, <2>2, <2>3, TextsKept
<1> QED
  BY <1>2, <1>3, <1>4

\* The reviews of the wave before are those of the texts.
LEMMA AfterReviewsKeep ==
    ASSUME EditionInv, Edition!Judge \/ Edition!AfterRecheck
    PROVE  EditionInv'
<1> HIDE DEF Proper
<1>1. UNCHANGED <<request, text, early, review, cache>>
  BY DEF Edition!Judge, Edition!AfterRecheck, Edition!Judgement
<1>2. phase \in {"review", "recheck"} /\ \A u \in todo : work[u] = "done"
  BY DEF Edition!Judge, Edition!AfterRecheck, Edition!Collected
<1>3. \A s \in Edition!Sections : Proper(text[s]) /\ review[s].of = text[s]
  BY <1>2 DEF EditionInv, TextInv, ReviewInv, Whole, Judging, Written
<1>4. "overall" \in DOMAIN summary'
  <2>1. summary' = summary \/ summary' = [summary EXCEPT !.waves = @ + 1]
    BY Zenon DEF Edition!Judge, Edition!AfterRecheck
  <2> QED
    BY <2>1, Zenon DEF EditionInv, Tables
<1>5. \/ Edition!Wave("settle", {})
      \/ \E failed \in SUBSET Edition!Sections : Edition!Wave("rewrite", failed)
  BY DEF Edition!Judge, Edition!AfterRecheck, Edition!Leave
<1> QED
  BY <1>1, <1>3, <1>4, <1>5, TextsKept

\* The deterministic gate: what fails it and may fall back does, and what needs a review
\* of its text gets one.
LEMMA GateKeeps ==
    ASSUME EditionInv, Edition!Gate
    PROVE  EditionInv'
<1>1. /\ UNCHANGED <<request, early, cache>> /\ phase = "gate"
      /\ text' = [s \in Edition!Sections |->
            IF Edition!Partial /\ text[s].check \in {"anchors", "mapping"}
            THEN Edition!Source ELSE text[s]]
  BY DEF Edition!Gate
<1>2. \A s \in Edition!Sections : Proper(text[s])
  BY <1>1 DEF EditionInv, TextInv, Whole
<1>3. /\ text' = [s \in Edition!Sections |-> text'[s]]
      /\ \A s \in Edition!Sections : Proper(text'[s])
  <2> HIDE DEF Proper
  <2> QED
    BY <1>1, <1>2, TextsAreProper
<1>4. \A s \in Edition!Sections : Proper(text'[s]) <=> Proper(text[s])'
  BY DEF Proper
<1> HIDE DEF Proper
<1>5. KeptInv'
  BY <1>1, SameKept DEF EditionInv
<1>6. CASE /\ Edition!Wave("review", {s \in Edition!Sections : early[s].of # text'[s]})
           /\ summary' = [summary EXCEPT !.waves = @ + 1] /\ review' = early
  <2>1. /\ WaveInv' /\ phase' = "review"
        /\ todo' = {s \in Edition!Sections : early[s].of # text'[s]}
        /\ \A u \in Edition!Units :
              work'[u] = IF u \in {s \in Edition!Sections : early[s].of # text'[s]}
                         THEN "queued" ELSE "idle"
    BY <1>1, <1>6, WaveSet DEF EditionInv, WavePhases
  <2>2. "overall" \in DOMAIN summary'
    BY <1>6, Zenon DEF EditionInv, Tables
  <2>3. TextInv' /\ ReviewInv' /\ SettledInv'
    BY <1>1, <1>3, <1>4, <1>6, <2>1, SameRequest, Ordinals
       DEF EditionInv, WaveInv, TextInv, ReviewInv, SettledInv, Whole, Judging, Written
  <2> QED
    BY <1>1, <1>3, <1>5, <1>6, <2>1, <2>2, <2>3, SameRequest DEF EditionInv, Tables
<1>7. CASE /\ Edition!Leave("overview") /\ UNCHANGED review
           /\ summary' = [summary EXCEPT !.overall = "fail"]
  <2>1. WaveInv' /\ phase' = "overview"
    BY <1>1, <1>7, Left DEF EditionInv, WavePhases
  <2>2. "overall" \in DOMAIN summary' /\ summary'.overall = "fail"
    BY <1>7, Zenon DEF EditionInv, Tables
  <2>3. TextInv' /\ ReviewInv' /\ SettledInv'
    BY <2>1, <2>2 DEF TextInv, ReviewInv, SettledInv, Whole, Judging
  <2> QED
    BY <1>1, <1>3, <1>5, <1>7, <2>1, <2>2, <2>3, SameRequest DEF EditionInv, Tables
<1> QED
  BY <1>6, <1>7 DEF Edition!Gate

\* The rewritten sections are reviewed again; when one fails its checks, all of them fall
\* back together.
LEMMA AfterRewriteKeeps ==
    ASSUME EditionInv, Edition!AfterRewrite
    PROVE  EditionInv'
<1> HIDE DEF Proper
<1>1. /\ UNCHANGED <<request, early, review, cache>> /\ phase = "rewrite"
      /\ todo \subseteq Edition!Sections
  BY DEF Edition!AfterRewrite, Edition!Collected, Edition!Judgement, EditionInv, WaveInv
<1>2. CASE Edition!Break("content") /\ UNCHANGED text
  BY <1>1, <1>2, BrokenOff
<1>3. CASE ~(Edition!Break("content") /\ UNCHANGED text)
  <2>1. /\ Edition!Wave("recheck", todo) /\ Edition!Repaired
        /\ \A s \in Edition!Sections : text'[s] \in {Edition!Source, text[s]}
        /\ \A s \in Edition!Sections \ todo : text'[s] = text[s]
        /\ text' = [s \in Edition!Sections |-> text'[s]]
    BY <1>3 DEF Edition!AfterRewrite
  <2>2. "overall" \in DOMAIN summary'
    BY <2>1, Zenon DEF Edition!Repaired, EditionInv, Tables
  <2>3. /\ \A s \in Edition!Sections : Proper(text'[s])
        /\ \A s \in Edition!Sections \ todo : review[s].of = text'[s]
    BY <1>1, <2>1, TextsAreProper DEF EditionInv, TextInv, Whole, Judging, ReviewInv
  <2>4. \A s \in Edition!Sections : Proper(text'[s]) <=> Proper(text[s])'
    BY DEF Proper
  <2>5. /\ WaveInv' /\ phase' = "recheck" /\ todo' = todo
        /\ \A u \in Edition!Units : work'[u] = IF u \in todo THEN "queued" ELSE "idle"
    BY <1>1, <2>1, WaveSet DEF EditionInv, WavePhases
  <2>6. TextInv' /\ ReviewInv' /\ SettledInv'
    BY <1>1, <2>3, <2>4, <2>5, SameRequest, Ordinals
       DEF EditionInv, WaveInv, TextInv, ReviewInv, SettledInv, Whole, Judging, Written
  <2> QED
    BY <1>1, <2>1, <2>2, <2>5, <2>6, SameRequest, SameKept DEF EditionInv, Tables
<1> QED
  BY <1>2, <1>3

\* The text that a partial fallback was made of.
LEMMA WholeAgain ==
    ASSUME NEW p,
           p = [by |-> p.by, check |-> p.check, partial |-> p.partial, from |-> p.from], NEW x
    PROVE  [p EXCEPT !.partial = x]
               = [by |-> p.by, check |-> p.check, partial |-> x, from |-> p.from]
OBVIOUS

\* What is published of a section is what its review says of its text.
LEMMA FallbackReviewed ==
    ASSUME NEW t, Proper(t), NEW r, r.of = t, NEW u,
           u = IF r.body \/ Edition!Local(t) THEN t
               ELSE IF Edition!Contextual /\ r.located THEN [t EXCEPT !.partial = TRUE]
               ELSE Edition!Source
    PROVE  /\ \/ u.by = "source"
              \/ /\ r.of = [u EXCEPT !.partial = FALSE]
                 /\ IF u.partial THEN r.located ELSE r.body
           /\ ~Edition!Local(u) => u = t
<1>1. /\ t = [by |-> t.by, check |-> t.check, partial |-> FALSE, from |-> t.from]
      /\ t.partial = FALSE
  BY DEF Proper
<1>2. [t EXCEPT !.partial = FALSE] = t
  BY <1>1
<1>3. PICK p : p = [t EXCEPT !.partial = TRUE]
  OBVIOUS
<1>4. /\ p = [by |-> p.by, check |-> p.check, partial |-> p.partial, from |-> p.from]
      /\ p.by = t.by /\ p.check = t.check /\ p.partial = TRUE /\ p.from = t.from
  BY <1>1, <1>3
<1>5. PICK no : no = FALSE
  OBVIOUS
<1>6. [p EXCEPT !.partial = no] = t
  <2>1. [p EXCEPT !.partial = no]
            = [by |-> p.by, check |-> p.check, partial |-> no, from |-> p.from]
    BY <1>4, WholeAgain, Zenon
  <2> QED
    BY <1>1, <1>4, <1>5, <2>1
<1>7. CASE u = Edition!Source
  BY <1>7, TextsAreProper DEF Edition!Local
<1>8. CASE u = p /\ r.located
  BY <1>4, <1>5, <1>6, <1>8 DEF Edition!Local
<1>9. CASE u = t /\ (r.body \/ t.by = "source")
  BY <1>1, <1>2, <1>9
<1> QED
  BY <1>1, <1>3, <1>7, <1>8, <1>9 DEF Edition!Local

\* What fell back and what passed is settled.
LEMMA SettleKeeps ==
    ASSUME EditionInv, Edition!Settle
    PROVE  EditionInv'
<1>1. UNCHANGED <<request, early, review, cache>> /\ phase = "settle"
  BY DEF Edition!Settle
<1>2. CASE Edition!Break("content") /\ UNCHANGED text
  BY <1>1, <1>2, BrokenOff
<1>3. CASE /\ text' = [s \in Edition!Sections |-> Edition!Fallback(s)]
           /\ excluded' = Edition!Unread
           /\ Edition!Leave("overview") /\ UNCHANGED summary
  <2>1. \A s \in Edition!Sections : Proper(text[s]) /\ review[s].of = text[s]
    BY <1>1 DEF EditionInv, TextInv, ReviewInv, Whole
  <2>2. ASSUME NEW s \in Edition!Sections
        PROVE  /\ \/ text'[s].by = "source"
                  \/ /\ review[s].of = [text'[s] EXCEPT !.partial = FALSE]
                     /\ IF text'[s].partial THEN review[s].located ELSE review[s].body
               /\ s \notin excluded' /\ ~Edition!Local(text'[s]) =>
                     review[s].of = text'[s] /\ review[s].aux
    <3>1. text'[s] = IF review[s].body \/ Edition!Local(text[s]) THEN text[s]
                     ELSE IF Edition!Contextual /\ review[s].located
                     THEN [text[s] EXCEPT !.partial = TRUE] ELSE Edition!Source
      BY <1>3 DEF Edition!Fallback
    <3>2. Proper(text[s]) /\ review[s].of = text[s]
      BY <2>1
    <3>3. s \notin excluded' => review[s].aux
      BY <1>3 DEF Edition!Unread
    <3> HIDE DEF Proper
    <3> QED
      BY <3>1, <3>2, <3>3, FallbackReviewed
  <2>3. (\A s \in Edition!Sections : Reviewed(s))'
    BY <1>1, <2>2, SameRequest DEF Reviewed, Edition!Local
  <2>4. WaveInv' /\ phase' = "overview"
    BY <1>1, <1>3, Left DEF EditionInv, WavePhases
  <2>5. TextInv' /\ ReviewInv' /\ SettledInv'
    BY <2>3, <2>4 DEF TextInv, ReviewInv, SettledInv, Whole, Judging
  <2> QED
    BY <1>1, <1>3, <2>4, <2>5, SameRequest, SameKept DEF EditionInv, Tables
<1> QED
  BY <1>2, <1>3 DEF Edition!Settle

\* The overview and the delivery leave the texts and their reviews as they are.
LEMMA EndsKeep ==
    ASSUME EditionInv, Edition!Overview \/ Edition!Deliver
    PROVE  EditionInv'
<1>1. UNCHANGED <<request, text, early, review, excluded, cache>>
  BY DEF Edition!Overview, Edition!Deliver, Edition!Judgement
<1>2. CASE \E e \in Edition!Errors : Edition!Break(e)
  BY <1>1, <1>2, BrokenOff
<1>3. CASE Edition!Overview /\ ~\E e \in Edition!Errors : Edition!Break(e)
  <2>1. phase = "overview" /\ Edition!Leave("returned")
    BY <1>3 DEF Edition!Overview
  <2>2. \/ summary' = summary
        \/ \E n \in 0..1 : summary' = [summary EXCEPT !.prep = @ + 1, !.ops = @ + n]
    BY <1>3 DEF Edition!Overview
  <2>3. "overall" \in DOMAIN summary' /\ summary'.overall = summary.overall
    <3>1. CASE summary' = summary
      BY <3>1 DEF EditionInv, Tables
    <3>2. ASSUME NEW n, summary' = [summary EXCEPT !.prep = @ + 1, !.ops = @ + n]
          PROVE  "overall" \in DOMAIN summary' /\ summary'.overall = summary.overall
      BY <3>2, Zenon DEF EditionInv, Tables
    <3> QED
      BY <2>2, <3>1, <3>2
  <2>4. WaveInv' /\ phase' = "returned"
    BY <1>1, <2>1, Left DEF EditionInv, WavePhases
  <2>5. TextInv' /\ ReviewInv' /\ SettledInv'
    BY <1>1, <2>1, <2>3, <2>4, SameReviewed
       DEF EditionInv, TextInv, ReviewInv, SettledInv, Whole, Judging
  <2> QED
    BY <1>1, <2>3, <2>4, <2>5, SameRequest, SameKept DEF EditionInv, Tables
<1>4. CASE Edition!Deliver
  <2>1. /\ phase = "returned" /\ UNCHANGED summary
        /\ \/ Edition!Leave("published") /\ summary.overall # "fail"
           \/ Edition!Leave("rejected")
    BY <1>4 DEF Edition!Deliver, Edition!Accepted
  <2>2. /\ WaveInv' /\ phase' \in {"published", "rejected"}
        /\ phase' = "published" => summary.overall # "fail"
    BY <1>1, <2>1, Left DEF EditionInv, WavePhases
  <2>3. TextInv' /\ ReviewInv' /\ SettledInv'
    BY <1>1, <2>1, <2>2, SameReviewed
       DEF EditionInv, TextInv, ReviewInv, SettledInv, Whole, Judging
  <2> QED
    BY <1>1, <2>1, <2>2, <2>3, SameRequest, SameKept DEF EditionInv, Tables
<1> QED
  BY <1>2, <1>3, <1>4

\* The next Job of the request starts with nothing but the groups that were kept.
LEMMA NewJobKeeps ==
    ASSUME EditionInv, Edition!NewJob
    PROVE  EditionInv'
<1>1. /\ UNCHANGED <<request, cache>> /\ phase' = "context" /\ todo' = {}
      /\ work' = [u \in Edition!Units |-> "idle"]
      /\ text' = [s \in Edition!Sections |-> Edition!NoText]
      /\ early' = [s \in Edition!Sections |-> Edition!NoReview]
      /\ review' = [s \in Edition!Sections |-> Edition!NoReview]
      /\ summary' = Edition!Fresh
  BY DEF Edition!NewJob
<1>2. WaveInv'
  BY <1>1, SameRequest DEF EditionInv, WaveInv
<1>3. Tables'
  BY <1>1, SameRequest DEF Tables, Edition!Fresh
<1>4. TextInv' /\ ReviewInv' /\ SettledInv'
  BY <1>1, SameRequest
     DEF TextInv, ReviewInv, SettledInv, Whole, Judging, Edition!NoText
<1> QED
  BY <1>1, <1>2, <1>3, <1>4, SameKept DEF EditionInv

\* The invariant of the faithful edition.
THEOREM EditionInvariant == Edition!Spec => []EditionInv
<1>1. Edition!Init => EditionInv
  BY DEF Edition!Init, EditionInv, WaveInv, Tables, Edition!Fresh, TextInv, Whole, Judging,
     ReviewInv, SettledInv, KeptInv
<1>2. EditionInv /\ [Edition!Next]_Edition!vars => EditionInv'
  <2> SUFFICES ASSUME EditionInv, [Edition!Next]_Edition!vars PROVE EditionInv'
    OBVIOUS
  <2>1. CASE UNCHANGED Edition!vars
    <3>1. UNCHANGED <<request, phase, todo, work, text, early, review, excluded, summary,
                     cache>>
      BY <2>1 DEF Edition!vars
    <3>2. WaveInv' /\ Tables'
      BY <3>1, SameRequest DEF EditionInv, WaveInv, Tables
    <3>3. TextInv' /\ ReviewInv' /\ SettledInv'
      BY <3>1, SameRequest, SameReviewed DEF EditionInv, TextInv, ReviewInv, SettledInv, Proper,
         Written, Edition!NoText
    <3> QED
      BY <3>1, <3>2, <3>3, SameKept DEF EditionInv
  <2>2. CASE Edition!Compile
    BY <2>2, AbandonKeeps, FailKeeps, BeforeSectionsKeep, AfterTextsKeep, GateKeeps,
       AfterReviewsKeep, AfterRewriteKeeps, SettleKeeps, EndsKeep DEF Edition!Compile
  <2>3. CASE \E u \in Edition!Units : Edition!Worker(u)
    BY <2>3, StartKeeps, BatchKeeps, FactsKeep, WriteKeeps, ReviewKeeps DEF Edition!Worker
  <2> QED
    BY <2>1, <2>2, <2>3, NewJobKeeps DEF Edition!Next
<1> QED
  BY <1>1, <1>2, PTL DEF Edition!Spec

\* A repaired section never inherits the review of its earlier text: what is published of a
\* section is source wording, or its very text passed its review, and so did its summary.
THEOREM PublishedTextIsReviewed == Edition!Spec => []PublishedTextReviewed
<1>1. EditionInv => PublishedTextReviewed
  BY DEF EditionInv, SettledInv, Reviewed, PublishedTextReviewed, Edition!PublishedTextReviewed,
     Edition!PublishedSummariesReviewed
<1> QED
  BY <1>1, EditionInvariant, PTL

\* A group that later Jobs may use passed its own review, body and summary, with no text of
\* the source in it.
THEOREM KeptGroupsAreApproved == Edition!Spec => []KeptGroupsApproved
<1>1. EditionInv => KeptGroupsApproved
  BY DEF EditionInv, KeptInv, KeptGroupsApproved, Edition!KeptGroupsApproved
<1> QED
  BY <1>1, EditionInvariant, PTL

-----------------------------------------------------------------------------
(* The compiler of knowledge notes.  The items a compilation works on      *)
(* stand, each by its lineage, for sets of roots: the items the map wave   *)
(* extracted.  At every moment the lineages of the items at hand and the   *)
(* roots dropped so far are a partition of all roots.                      *)

AnId == Nat \X Nat \X Nat
AnItem == [id : AnId, size : 1 .. MapOut]
AMap == {s \in Seq(1 .. MapOut) : Total(s) <= MapOut}

\* No two items of a list have an id in common.
Distinct(s) == \A i, j \in DOMAIN s : s[i].id = s[j].id => i = j
\* No item of a list has an id that a later batch may give.
Earlier(s, n) == \A i \in DOMAIN s : s[i].id[1] = 1 => s[i].id[2] < n

\* The sets that f gives to X, and D, are a partition of R.
Splits(X, f, D, R) ==
    /\ \A x \in X : f[x] \cap D = {}
    /\ \A x, y \in X : x # y => f[x] \cap f[y] = {}
    /\ D \cup UNION {f[x] : x \in X} = R

\* What the items of a wave stand for: those it has not taken, and those it made.
Held == [x \in Article!Ids(rest) \cup Article!Ids(next) |->
            IF x \in Article!Ids(next) THEN nextLineage[x] ELSE lineage[x]]

-----------------------------------------------------------------------------
(* Sets and their sizes.                                                   *)

\* A sequence without repetitions has as many elements as it is long.
LEMMA DistinctCount ==
    ASSUME NEW n \in Nat, NEW g, \A i, j \in 1 .. n : g[i] = g[j] => i = j,
           NEW T, T = {g[i] : i \in 1 .. n}
    PROVE  IsFiniteSet(T) /\ Cardinality(T) = n
<1> DEFINE f == [i \in 1 .. n |-> g[i]]
<1>1. f \in Surjection(1 .. n, T) /\ f \in Injection(1 .. n, T)
  BY DEF Surjection, Injection, IsInjective
<1>2. IsFiniteSet(1 .. n) /\ Cardinality(1 .. n) = n
  BY FS_Interval
<1> HIDE DEF f
<1>3. IsFiniteSet(T) /\ Cardinality(T) = Cardinality(1 .. n)
  BY <1>1, <1>2, FS_Surjection
<1> QED
  BY <1>2, <1>3

\* Sets that have nothing in common have together as many elements as each in turn.
LEMMA DisjointTotal ==
    ASSUME NEW n \in Nat, NEW S, \A i \in 1 .. n : IsFiniteSet(S[i]),
           \A i, j \in 1 .. n : i # j => S[i] \cap S[j] = {}
    PROVE  /\ IsFiniteSet(UNION {S[i] : i \in 1 .. n})
           /\ Total([i \in 1 .. n |-> Cardinality(S[i])]) = Cardinality(UNION {S[i] : i \in 1 .. n})
<1> DEFINE sizes == [i \in 1 .. n |-> Cardinality(S[i])]
           U == [k \in 0 .. n |-> UNION {S[i] : i \in 1 .. k}]
<1>1. sizes \in Seq(Nat) /\ Len(sizes) = n
  <2>1. sizes \in [1 .. n -> Nat]
    BY FS_CardinalityType
  <2> QED
    BY <2>1, FunctionIsSequence
<1>2. U[0] = {} /\ \A k \in 0 .. n - 1 : U[k + 1] = U[k] \cup S[k + 1] /\ U[k] \cap S[k + 1] = {}
  <2>1. ASSUME NEW k \in 0 .. n - 1
        PROVE  U[k + 1] = U[k] \cup S[k + 1] /\ U[k] \cap S[k + 1] = {}
    <3>1. k \in 0 .. n /\ k + 1 \in 0 .. n /\ 1 .. k + 1 = (1 .. k) \cup {k + 1}
          /\ k + 1 \in 1 .. n /\ \A i \in 1 .. k : i \in 1 .. n /\ i # k + 1
      BY <2>1
    <3>2. U[k] = UNION {S[i] : i \in 1 .. k} /\ U[k + 1] = UNION {S[i] : i \in 1 .. k + 1}
      BY <3>1
    <3> HIDE DEF U
    <3>3. U[k + 1] = U[k] \cup S[k + 1]
      BY <3>1, <3>2, Zenon
    <3>5. \A i \in 1 .. k : S[i] \cap S[k + 1] = {}
      BY <3>1
    <3>4. U[k] \cap S[k + 1] = {}
      BY <3>2, <3>5, Zenon
    <3> QED
      BY <3>3, <3>4
  <2>2. U[0] = {}
    OBVIOUS
  <2> QED
    BY <2>1, <2>2
<1>3. U[n] = UNION {S[i] : i \in 1 .. n}
  OBVIOUS
<1>4. \A i \in 1 .. n : sizes[i] = Cardinality(S[i])
  OBVIOUS
<1> HIDE DEF U, sizes
<1>5. PICK f : Sums(f, sizes) /\ Total(sizes) = f[Len(sizes)]
  BY <1>1, TotalIsASum
<1> DEFINE K == {k \in 0 .. n : IsFiniteSet(U[k]) /\ f[k] = Cardinality(U[k])}
<1>6. 0 \in K
  <2>1. IsFiniteSet(U[0]) /\ Cardinality(U[0]) = 0
    BY <1>2, FS_EmptySet
  <2>2. f[0] = 0 /\ 0 \in 0 .. n
    BY <1>5 DEF Sums
  <2> QED
    BY <2>1, <2>2
<1>7. ASSUME NEW k \in 0 .. n - 1, k \in K PROVE k + 1 \in K
  <2>1. k + 1 \in 1 .. n /\ k + 1 \in 0 .. n /\ (k + 1) - 1 = k
    OBVIOUS
  <2>2. IsFiniteSet(U[k]) /\ f[k] = Cardinality(U[k]) /\ IsFiniteSet(S[k + 1])
    BY <1>7, <2>1
  <2>3. IsFiniteSet(U[k + 1])
        /\ Cardinality(U[k + 1]) = Cardinality(U[k]) + Cardinality(S[k + 1]) - Cardinality({})
    BY <1>2, <2>2, FS_Union
  <2>4. f[k + 1] = f[k] + Cardinality(S[k + 1])
    BY <1>1, <1>4, <1>5, <2>1 DEF Sums
  <2>5. Cardinality({}) = 0 /\ Cardinality(U[k]) \in Nat /\ Cardinality(S[k + 1]) \in Nat
    BY <2>2, FS_EmptySet, FS_CardinalityType
  <2> QED
    BY <2>1, <2>2, <2>3, <2>4, <2>5
<1> HIDE DEF K
<1>8. 0 .. n \subseteq K
  BY <1>6, <1>7, UpTo
<1>9. n \in K
  BY <1>8
<1> QED
  BY <1>1, <1>3, <1>5, <1>9 DEF K, sizes

\* KnowledgeCompiler's operators are the library's.
LEMMA ArticleTotal == ASSUME NEW s PROVE Article!Total(s) = Total(s)
BY DEF Article!Total, Total
\* As above.
LEMMA ArticleFlatten == ASSUME NEW s PROVE Article!FlattenSeq(s) = FlattenSeq(s)
BY DEF Article!FlattenSeq, FlattenSeq
\* As above.
LEMMA ArticleToSet == ASSUME NEW s PROVE Article!ToSet(s) = ToSet(s)
BY DEF Article!ToSet, ToSet
\* As above.
LEMMA ArticleSize == ASSUME NEW s PROVE Article!Cardinality(s) = Cardinality(s)
BY DEF Article!Cardinality, Cardinality
\* As above.
LEMMA ArticleInOrder == ASSUME NEW s PROVE Article!SetToSeq(s) = SetToSeq(s)
BY ArticleSize DEF Article!SetToSeq, SetToSeq, Article!IsInjective, IsInjective

\* A finite set in some order.
LEMMA SetInOrder ==
    ASSUME NEW T, NEW S, S \subseteq T, IsFiniteSet(S)
    PROVE  /\ SetToSeq(S) \in Seq(T) /\ ToSet(SetToSeq(S)) = S
           /\ Len(SetToSeq(S)) = Cardinality(S)
<1> DEFINE n == Cardinality(S)
<1>1. n \in Nat /\ ExistsBijection(1 .. n, S)
  BY FS_CardinalityType
<1>2. PICK b : b \in Bijection(1 .. n, S)
  BY <1>1 DEF ExistsBijection
<1>3. b \in [1 .. n -> S] /\ IsInjective(b)
  BY <1>2 DEF Bijection, Injection
<1> DEFINE f == SetToSeq(S)
<1>4. f \in [1 .. n -> S] /\ IsInjective(f)
  BY <1>3 DEF SetToSeq
<1> HIDE DEF f
<1>5. f \in Injection(1 .. n, S)
  BY <1>4 DEF Injection
<1>6. Cardinality(1 .. n) = n
  BY <1>1, FS_Interval
<1>7. f \in Surjection(1 .. n, S)
  BY <1>1, <1>5, <1>6, FS_Injection
<1> HIDE DEF n
<1>8. f \in Seq(S) /\ Len(f) = n
  BY <1>1, <1>4, FunctionIsSequence
<1>9. DOMAIN f = 1 .. n
  BY <1>4
<1>10. ToSet(f) = S
  BY <1>4, <1>7, <1>9 DEF ToSet, Surjection
<1> QED
  BY <1>8, <1>10, SeqMonotonic DEF f, n

-----------------------------------------------------------------------------
(* Lists of items.                                                         *)

Sizes(s) == [i \in 1 .. Len(s) |-> s[i].size]

\* What the constants are.
LEMMA Constants ==
    /\ MapOut \in Nat /\ MapOut >= 1 /\ Budget \in Nat /\ MaxCovered \in Nat /\ MaxItems \in Nat
    /\ ConsolidateBase \in Nat /\ ComposeBase \in Nat /\ ComposeBase <= ConsolidateBase + MapOut
    /\ MaxItems >= 1
    /\ Transcripts \subseteq Seq(Nat \ {0})
BY ProductionAssumption DEF ProductionAssumption, Article!CompilerAssumption

\* An item has an id and a size, which is no larger than an output.
LEMMA ItemFields ==
    ASSUME NEW x \in AnItem
    PROVE  x.id \in AnId /\ x.size \in 1 .. MapOut /\ x.size \in Nat /\ x.size <= MapOut
BY Constants DEF AnItem

\* The size of a list of items is the sum of theirs.
LEMMA SizesType ==
    ASSUME NEW s \in Seq(AnItem)
    PROVE  /\ Sizes(s) \in Seq(Nat) /\ Len(Sizes(s)) = Len(s)
           /\ Article!SizeOf(s) = Total(Sizes(s)) /\ Article!SizeOf(s) \in Nat
<1>1. ASSUME NEW i \in 1 .. Len(s) PROVE s[i].size \in Nat
  <2>1. s[i] \in AnItem
    BY ElementOfSeq
  <2> QED
    BY <2>1, ItemFields
<1>2. Len(s) \in Nat /\ DOMAIN s = 1 .. Len(s)
  OBVIOUS
<1>3. Sizes(s) \in [1 .. Len(s) -> Nat]
  BY <1>1 DEF Sizes
<1>4. Sizes(s) \in Seq(Nat) /\ Len(Sizes(s)) = Len(s)
  BY <1>2, <1>3, FunctionIsSequence
<1>5. Article!SizeOf(s) = Total(Sizes(s))
  BY <1>2, ArticleTotal DEF Article!SizeOf, Sizes
<1> QED
  BY <1>4, <1>5, TotalType

\* Two lists are together as large as the sum of their sizes.
LEMMA SizeConcat ==
    ASSUME NEW a \in Seq(AnItem), NEW b \in Seq(AnItem)
    PROVE  Article!SizeOf(a \o b) = Article!SizeOf(a) + Article!SizeOf(b)
<1> DEFINE ab == a \o b sa == Sizes(a) sb == Sizes(b) sab == Sizes(ab)
<1>1. /\ ab \in Seq(AnItem) /\ Len(ab) = Len(a) + Len(b) /\ Len(a) \in Nat /\ Len(b) \in Nat
      /\ \A k \in 1 .. Len(a) + Len(b) : ab[k] = IF k <= Len(a) THEN a[k] ELSE b[k - Len(a)]
  BY ConcatProperties
<1>2. /\ sa \in Seq(Nat) /\ Len(sa) = Len(a) /\ sb \in Seq(Nat) /\ Len(sb) = Len(b)
  BY SizesType
<1>3. sab \in Seq(Nat) /\ Len(sab) = Len(a) + Len(b)
  <2> HIDE DEF ab
  <2> QED
    BY <1>1, SizesType
<1>4. /\ \A k \in 1 .. Len(a) : sa[k] = a[k].size
      /\ \A k \in 1 .. Len(b) : sb[k] = b[k].size
  BY DEF Sizes
<1>5. \A k \in 1 .. Len(a) + Len(b) : sab[k] = ab[k].size
  <2> HIDE DEF ab
  <2> QED
    BY <1>1 DEF Sizes
<1> HIDE DEF ab, sa, sb, sab
<1>6. /\ sa \o sb \in Seq(Nat) /\ Len(sa \o sb) = Len(a) + Len(b)
      /\ \A k \in 1 .. Len(a) + Len(b) : (sa \o sb)[k] = IF k <= Len(a) THEN sa[k] ELSE sb[k - Len(a)]
  <2>1. /\ sa \o sb \in Seq(Nat) /\ Len(sa \o sb) = Len(sa) + Len(sb)
        /\ \A k \in 1 .. Len(sa) + Len(sb) :
              (sa \o sb)[k] = IF k <= Len(sa) THEN sa[k] ELSE sb[k - Len(sa)]
    BY ONLY <1>2, ConcatProperties
  <2> QED
    BY <1>2, <2>1
<1>7. ASSUME NEW k \in 1 .. Len(a) + Len(b) PROVE sab[k] = (sa \o sb)[k]
  <2>1. CASE k <= Len(a)
    <3>1. k \in 1 .. Len(a)
      BY <1>1, <2>1
    <3> QED
      BY <1>1, <1>4, <1>5, <1>6, <2>1, <3>1
  <2>2. CASE ~(k <= Len(a))
    <3>1. k - Len(a) \in 1 .. Len(b)
      BY <1>1, <2>2
    <3> QED
      BY <1>1, <1>4, <1>5, <1>6, <2>2, <3>1
  <2> QED
    BY <2>1, <2>2
<1>8. sab = sa \o sb
  BY <1>3, <1>6, <1>7, SeqEqual
<1>9. Total(sab) = Total(sa) + Total(sb)
  BY <1>2, <1>8, TotalConcat
<1> QED
  BY <1>1, <1>9, SizesType DEF ab, sa, sb, sab

\* A list of one item is as large as the item.
LEMMA SizeOne ==
    ASSUME NEW x \in AnItem
    PROVE  Article!SizeOf(<<x>>) = x.size
<1>1. <<x>> \in Seq(AnItem) /\ Sizes(<<x>>) = <<x.size>>
  BY DEF Sizes
<1> QED
  BY <1>1, SizesType, TotalSingle, ItemFields

\* One item is no larger than an output, two are no larger than two.
LEMMA SizeOfFew ==
    ASSUME NEW s \in Seq(AnItem)
    PROVE  /\ Len(s) = 0 => Article!SizeOf(s) = 0
           /\ Len(s) = 1 => Article!SizeOf(s) <= MapOut
           /\ Len(s) >= 2 => Article!SizeOf(SubSeq(s, 1, 2)) <= 2 * MapOut
<1>1. ASSUME Len(s) = 0 PROVE Article!SizeOf(s) = 0
  <2>1. Sizes(s) = <<>>
    BY <1>1 DEF Sizes
  <2>2. Article!SizeOf(s) = 0
    BY <2>1, SizesType, TotalEmpty
  <2> QED
    BY <1>1, <2>2
<1>2. ASSUME Len(s) = 1 PROVE Article!SizeOf(s) <= MapOut
  <2>1. s[1] \in AnItem /\ s = <<s[1]>>
    BY <1>2
  <2>2. Article!SizeOf(s) = s[1].size
    BY <2>1, SizeOne
  <2> QED
    BY <1>2, <2>1, <2>2, ItemFields
<1>3. ASSUME Len(s) >= 2 PROVE Article!SizeOf(SubSeq(s, 1, 2)) <= 2 * MapOut
  <2>1. s[1] \in AnItem /\ s[2] \in AnItem
    BY <1>3
  <2>2. SubSeq(s, 1, 2) = <<s[1]>> \o <<s[2]>>
    <3>1. SubSeq(s, 1, 2) = SubSeq(s, 1, 2 - 1) \o <<s[2]>>
      <4>1. 1 \in 1 .. Len(s) /\ 2 \in 1 .. Len(s)
        BY <1>3
      <4> QED
        BY <4>1, SubSeqRecursiveSecond
    <3>2. SubSeq(s, 1, 2 - 1) = <<s[1]>>
      BY <1>3, FirstAlone
    <3> QED
      BY <3>1, <3>2
  <2>3. <<s[1]>> \in Seq(AnItem) /\ <<s[2]>> \in Seq(AnItem) /\ <<s[1]>> \o <<s[2]>> = <<s[1], s[2]>>
    BY <2>1, TwoInARow
  <2>4. Article!SizeOf(<<s[1], s[2]>>) = s[1].size + s[2].size
    BY <2>1, <2>3, SizeConcat, SizeOne
  <2>5. /\ s[1].size \in Nat /\ s[2].size \in Nat /\ s[1].size <= MapOut /\ s[2].size <= MapOut
    BY <2>1, ItemFields
  <2>6. Article!SizeOf(SubSeq(s, 1, 2)) = s[1].size + s[2].size
    BY <2>2, <2>3, <2>4
  <2>7. Article!SizeOf(SubSeq(s, 1, 2)) <= 2 * MapOut
    BY <2>5, <2>6, Constants
  <2> QED
    BY <2>7
<1> QED
  BY <1>1, <1>2, <1>3

\* The ids of two lists, and whether they are distinct and earlier than a batch.
LEMMA IdsConcat ==
    ASSUME NEW a \in Seq(AnItem), NEW b \in Seq(AnItem)
    PROVE  /\ Article!Ids(a \o b) = Article!Ids(a) \cup Article!Ids(b)
           /\ Distinct(a \o b) <=>
                 Distinct(a) /\ Distinct(b) /\ Article!Ids(a) \cap Article!Ids(b) = {}
           /\ \A n : Earlier(a \o b, n) <=> Earlier(a, n) /\ Earlier(b, n)
<1> DEFINE ab == a \o b
<1>1. /\ ab \in Seq(AnItem) /\ Len(ab) = Len(a) + Len(b) /\ Len(a) \in Nat /\ Len(b) \in Nat
      /\ \A k \in 1 .. Len(a) + Len(b) : ab[k] = IF k <= Len(a) THEN a[k] ELSE b[k - Len(a)]
      /\ DOMAIN a = 1 .. Len(a) /\ DOMAIN b = 1 .. Len(b)
  BY ConcatProperties
<1> HIDE DEF ab
<1>2. DOMAIN ab = 1 .. Len(a) + Len(b)
  BY <1>1
<1>3. /\ \A i \in DOMAIN a : i \in DOMAIN ab /\ ab[i] = a[i]
      /\ \A i \in DOMAIN b : i + Len(a) \in DOMAIN ab /\ ab[i + Len(a)] = b[i]
      /\ \A k \in DOMAIN ab :
            \/ k \in DOMAIN a /\ ab[k] = a[k]
            \/ k - Len(a) \in DOMAIN b /\ ab[k] = b[k - Len(a)]
  BY <1>1, <1>2
<1>4. Article!Ids(ab) = Article!Ids(a) \cup Article!Ids(b)
  BY <1>3 DEF Article!Ids
<1>5. ASSUME Distinct(ab) PROVE Distinct(a) /\ Distinct(b) /\ Article!Ids(a) \cap Article!Ids(b) = {}
  <2>1. Distinct(a)
    BY <1>3, <1>5 DEF Distinct
  <2>2. Distinct(b)
    <3> SUFFICES ASSUME NEW i \in DOMAIN b, NEW j \in DOMAIN b, b[i].id = b[j].id PROVE i = j
      BY DEF Distinct
    <3>1. i + Len(a) = j + Len(a)
      BY <1>3, <1>5 DEF Distinct
    <3> QED
      BY <1>1, <3>1
  <2>3. ASSUME NEW i \in DOMAIN a, NEW j \in DOMAIN b PROVE a[i].id # b[j].id
    <3>1. i # j + Len(a)
      BY <1>1
    <3> QED
      BY <1>3, <1>5, <3>1 DEF Distinct
  <2> QED
    BY <2>1, <2>2, <2>3 DEF Article!Ids
<1>6. ASSUME Distinct(a), Distinct(b), Article!Ids(a) \cap Article!Ids(b) = {} PROVE Distinct(ab)
  <2> SUFFICES ASSUME NEW i \in DOMAIN ab, NEW j \in DOMAIN ab, ab[i].id = ab[j].id PROVE i = j
    BY DEF Distinct
  <2>1. \/ i \in DOMAIN a /\ ab[i] = a[i]
        \/ i - Len(a) \in DOMAIN b /\ ab[i] = b[i - Len(a)]
    BY <1>3
  <2>2. \/ j \in DOMAIN a /\ ab[j] = a[j]
        \/ j - Len(a) \in DOMAIN b /\ ab[j] = b[j - Len(a)]
    BY <1>3
  <2>3. \A k \in DOMAIN a, l \in DOMAIN b : a[k].id # b[l].id
    BY <1>6 DEF Article!Ids
  <2>4. \/ i \in DOMAIN a /\ j \in DOMAIN a /\ a[i].id = a[j].id
        \/ i - Len(a) \in DOMAIN b /\ j - Len(a) \in DOMAIN b /\ b[i - Len(a)].id = b[j - Len(a)].id
    BY <2>1, <2>2, <2>3
  <2>5. i = j \/ i - Len(a) = j - Len(a)
    BY <1>6, <2>4 DEF Distinct
  <2> QED
    BY <1>1, <1>2, <2>5
<1>7. ASSUME NEW n PROVE Earlier(ab, n) <=> Earlier(a, n) /\ Earlier(b, n)
  BY <1>3 DEF Earlier
<1> QED
  BY <1>4, <1>5, <1>6, <1>7 DEF ab

\* A list of distinct items has as many ids as items.
LEMMA IdsCount ==
    ASSUME NEW s \in Seq(AnItem), Distinct(s)
    PROVE  IsFiniteSet(Article!Ids(s)) /\ Cardinality(Article!Ids(s)) = Len(s)
<1>1. PICK n \in Nat : n = Len(s) /\ DOMAIN s = 1 .. n
  OBVIOUS
<1>5. PICK g : g = [i \in 1 .. n |-> s[i].id]
  OBVIOUS
<1>2. \A i \in 1 .. n : g[i] = s[i].id
  BY <1>5
<1>3. \A i, j \in 1 .. n : g[i] = g[j] => i = j
  BY <1>1, <1>2 DEF Distinct
<1>4. Article!Ids(s) = {g[i] : i \in 1 .. n}
  BY <1>1, <1>2 DEF Article!Ids
<1> QED
  BY <1>1, <1>3, <1>4, DistinctCount

\* The ids of a list are ids.
LEMMA IdsType ==
    ASSUME NEW s \in Seq(AnItem)
    PROVE  Article!Ids(s) \subseteq AnId
<1>1. ASSUME NEW i \in DOMAIN s PROVE s[i].id \in AnId
  <2>1. s[i] \in AnItem
    OBVIOUS
  <2> QED
    BY <2>1, ItemFields
<1> QED
  BY <1>1 DEF Article!Ids

-----------------------------------------------------------------------------
(* What the map wave leaves.                                               *)

RootSet(c) == {Article!Root(c, i) : i \in DOMAIN maps[c]}

\* The items of one chunk: distinct, no larger than an output.
LEMMA RootsOfOne ==
    ASSUME chunks \in Nat, maps \in [1 .. chunks -> AMap], NEW c \in 1 .. chunks
    PROVE  /\ Article!RootsOf(c) \in Seq(AnItem) /\ Distinct(Article!RootsOf(c))
           /\ Article!Ids(Article!RootsOf(c)) = RootSet(c)
           /\ Article!SizeOf(Article!RootsOf(c)) <= MapOut
           /\ \A n : Earlier(Article!RootsOf(c), n)
<1> DEFINE s == maps[c] r == Article!RootsOf(c)
<1>1. s \in AMap
  OBVIOUS
<1>2. s \in Seq(1 .. MapOut) /\ Total(s) <= MapOut /\ Len(s) \in Nat /\ DOMAIN s = 1 .. Len(s)
  BY <1>1 DEF AMap
<1>3. r = [i \in 1 .. Len(s) |-> [id |-> <<0, c, i>>, size |-> s[i]]]
  BY <1>2 DEF Article!RootsOf, Article!Root
<1>4. RootSet(c) = {<<0, c, i>> : i \in 1 .. Len(s)}
  BY <1>2 DEF RootSet, Article!Root
<1> HIDE DEF s, r
<1>5. ASSUME NEW i \in 1 .. Len(s) PROVE [id |-> <<0, c, i>>, size |-> s[i]] \in AnItem
  <2>1. s[i] \in 1 .. MapOut
    BY <1>2, ElementOfSeq
  <2> QED
    BY <2>1 DEF AnItem, AnId
<1>6. r \in [1 .. Len(s) -> AnItem]
  BY <1>3, <1>5
<1>7. r \in Seq(AnItem) /\ Len(r) = Len(s) /\ DOMAIN r = 1 .. Len(s)
  BY <1>2, <1>6, FunctionIsSequence
<1>8. \A i \in 1 .. Len(s) : r[i].id = <<0, c, i>> /\ r[i].size = s[i]
  BY <1>3
<1>9. Distinct(r)
  BY <1>7, <1>8 DEF Distinct
<1>10. Article!Ids(r) = RootSet(c)
  BY <1>4, <1>7, <1>8 DEF Article!Ids
<1>11. \A n : Earlier(r, n)
  <2>1. \A i \in 1 .. Len(s) : r[i].id[1] = 0
    BY <1>8
  <2> QED
    BY <1>7, <2>1 DEF Earlier
<1>12. Sizes(r) = s
  <2>1. Sizes(r) \in Seq(Nat) /\ Len(Sizes(r)) = Len(s) /\ \A i \in 1 .. Len(s) : Sizes(r)[i] = s[i]
    BY <1>7, <1>8, SizesType DEF Sizes
  <2>2. 1 .. MapOut \subseteq Nat
    OBVIOUS
  <2>3. s \in Seq(Nat)
    BY <1>2, <2>2, SeqMonotonic
  <2> QED
    BY <2>1, <2>3, SeqEqual
<1>13. Article!SizeOf(r) <= MapOut
  BY <1>2, <1>7, <1>12, SizesType
<1> QED
  BY <1>7, <1>9, <1>10, <1>11, <1>13 DEF r

\* A list of items with given ids, no larger than given.
Gathered(s, ids, most) ==
    /\ Distinct(s) /\ Article!Ids(s) = ids /\ Article!SizeOf(s) <= most
    /\ \A n : Earlier(s, n)

\* The items of all chunks: distinct, one per root, no larger than an output per chunk.
LEMMA MapWave ==
    ASSUME chunks \in Nat, maps \in [1 .. chunks -> AMap]
    PROVE  /\ Article!RootItems \in Seq(AnItem) /\ Distinct(Article!RootItems)
           /\ Article!Ids(Article!RootItems) = Article!Roots
           /\ Article!SizeOf(Article!RootItems) <= chunks * MapOut
           /\ \A n : Earlier(Article!RootItems, n)
           /\ IsFiniteSet(Article!Roots) /\ Cardinality(Article!Roots) = Len(Article!RootItems)
<1>1. PICK ss : ss = [c \in 1 .. chunks |-> Article!RootsOf(c)]
  OBVIOUS
<1>2. ss \in Seq(Seq(AnItem)) /\ Len(ss) = chunks
  <2>1. ss \in [1 .. chunks -> Seq(AnItem)]
    BY <1>1, RootsOfOne
  <2> QED
    BY <2>1, FunctionIsSequence
<1>3. Article!RootItems = FlattenSeq(ss)
  BY <1>1, ArticleFlatten DEF Article!RootItems, Article!Chunks
<1>4. PICK f : Joins(f, ss, AnItem) /\ FlattenSeq(ss) = f[Len(ss)]
  BY <1>2, FlattenJoins
<1>5. /\ f \in [0 .. chunks -> Seq(AnItem)] /\ f[0] = <<>>
      /\ \A c \in 1 .. chunks : f[c] = f[c - 1] \o Article!RootsOf(c)
  BY <1>1, <1>2, <1>4 DEF Joins
<1>6. PICK U : U = [k \in 0 .. chunks |-> UNION {RootSet(c) : c \in 1 .. k}]
  OBVIOUS
<1>7. U[0] = {} /\ U[chunks] = UNION {RootSet(c) : c \in 1 .. chunks}
  <2>1. 1 .. 0 = {}
    OBVIOUS
  <2> QED
    BY <1>6, <2>1
<1>8. ASSUME NEW k \in 0 .. chunks - 1
      PROVE  U[k + 1] = U[k] \cup RootSet(k + 1) /\ U[k] \cap RootSet(k + 1) = {}
  <2>1. k \in 0 .. chunks /\ k + 1 \in 0 .. chunks /\ 1 .. k + 1 = (1 .. k) \cup {k + 1}
        /\ \A c \in 1 .. k : c # k + 1
    OBVIOUS
  <2>2. U[k] = UNION {RootSet(c) : c \in 1 .. k} /\ U[k + 1] = UNION {RootSet(c) : c \in 1 .. k + 1}
    BY <1>6, <2>1
  <2>3. U[k + 1] = U[k] \cup RootSet(k + 1)
    BY <2>1, <2>2, Zenon
  <2>4. \A c \in 1 .. k : RootSet(c) \cap RootSet(k + 1) = {}
    BY <2>1 DEF RootSet, Article!Root
  <2>5. U[k] \cap RootSet(k + 1) = {}
    BY <2>2, <2>4, Zenon
  <2> QED
    BY <2>3, <2>5
<1> DEFINE K == {k \in 0 .. chunks : Gathered(f[k], U[k], k * MapOut)}
<1>9. 0 \in K
  <2>1. Distinct(<<>>) /\ Article!Ids(<<>>) = {} /\ \A n : Earlier(<<>>, n)
    BY DEF Distinct, Article!Ids, Earlier
  <2>2. <<>> \in Seq(AnItem) /\ Len(<<>>) = 0
    OBVIOUS
  <2>3. Article!SizeOf(<<>>) = 0
    BY <2>2, SizeOfFew
  <2>4. 0 * MapOut = 0 /\ 0 \in 0 .. chunks
    BY Constants
  <2>5. Gathered(<<>>, {}, 0)
    BY <2>1, <2>3 DEF Gathered
  <2>6. Gathered(f[0], U[0], 0 * MapOut)
    BY <1>5, <1>7, <2>4, <2>5
  <2> QED
    BY <2>4, <2>6
<1>10. ASSUME NEW k \in 0 .. chunks - 1, k \in K PROVE k + 1 \in K
  <2>1. k + 1 \in 1 .. chunks /\ (k + 1) - 1 = k /\ k \in 0 .. chunks /\ k + 1 \in 0 .. chunks
    OBVIOUS
  <2>2. PICK r : r = Article!RootsOf(k + 1)
    OBVIOUS
  <2>3. /\ r \in Seq(AnItem) /\ Distinct(r) /\ Article!Ids(r) = RootSet(k + 1)
        /\ Article!SizeOf(r) <= MapOut /\ \A n : Earlier(r, n)
    BY <2>1, <2>2, RootsOfOne
  <2>4. f[k + 1] = f[k] \o r /\ f[k] \in Seq(AnItem)
    BY <1>5, <2>1, <2>2
  <2>5. /\ Distinct(f[k]) /\ Article!Ids(f[k]) = U[k] /\ Article!SizeOf(f[k]) <= k * MapOut
        /\ \A n : Earlier(f[k], n)
    BY <1>10 DEF Gathered
  <2>6. Article!Ids(f[k]) \cap Article!Ids(r) = {}
    BY <1>8, <2>3, <2>5
  <2>7. PICK a \in Seq(AnItem) : a = f[k]
    BY <2>4
  <2>8. /\ Article!Ids(a \o r) = Article!Ids(a) \cup Article!Ids(r) /\ Distinct(a \o r)
        /\ \A n : Earlier(a \o r, n)
    BY <2>3, <2>5, <2>6, <2>7, IdsConcat
  <2>9. Article!SizeOf(a \o r) = Article!SizeOf(a) + Article!SizeOf(r)
    BY <2>3, <2>7, SizeConcat
  <2>10. Article!SizeOf(a) \in Nat /\ Article!SizeOf(r) \in Nat
    BY <2>3, <2>7, SizesType
  <2>11. Article!SizeOf(f[k + 1]) <= (k + 1) * MapOut
    <3>1. (k + 1) * MapOut = k * MapOut + MapOut /\ k * MapOut \in Nat
      BY <2>1, Constants
    <3> QED
      BY <2>3, <2>4, <2>5, <2>7, <2>9, <2>10, <3>1, Constants
  <2>12. Article!Ids(f[k + 1]) = U[k + 1]
    BY <1>8, <2>3, <2>4, <2>5, <2>7, <2>8
  <2>13. Distinct(f[k + 1]) /\ \A n : Earlier(f[k + 1], n)
    BY <2>4, <2>7, <2>8
  <2> QED
    BY <2>1, <2>11, <2>12, <2>13 DEF Gathered
<1>11. chunks \in K
  <2> HIDE DEF K
  <2>1. 0 .. chunks \subseteq K
    BY <1>9, <1>10, UpTo
  <2> QED
    BY <2>1
<1>12. U[chunks] = Article!Roots
  BY <1>7 DEF Article!Roots, RootSet, Article!Chunks
<1>13. /\ Article!RootItems = f[chunks] /\ Article!RootItems \in Seq(AnItem)
  BY <1>2, <1>3, <1>4, <1>5
<1>14. /\ Distinct(Article!RootItems) /\ Article!Ids(Article!RootItems) = Article!Roots
       /\ Article!SizeOf(Article!RootItems) <= chunks * MapOut /\ \A n : Earlier(Article!RootItems, n)
  BY <1>11, <1>12, <1>13 DEF Gathered
<1> QED
  BY <1>13, <1>14, IdsCount

-----------------------------------------------------------------------------
(* The planner.                                                            *)

\* The state of the loop that fills the chunks.
Filling == [done : Seq(Seq(Nat)), open : Seq(Nat)]

\* The loop that fills the chunks keeps sequences of segments.
LEMMA PlaceType ==
    ASSUME NEW acc \in Filling, NEW size \in Nat
    PROVE  Article!Place(acc, size) \in Filling
<1>1. /\ acc = [done |-> acc.done, open |-> acc.open]
      /\ acc.done \in Seq(Seq(Nat)) /\ acc.open \in Seq(Nat)
  BY DEF Filling
<1>2. CASE Article!Joins(acc.open, size) \/ acc.open = <<>>
  <2>1. PICK new : new = [acc EXCEPT !.open = Append(@, size)]
    OBVIOUS
  <2>2. new = [done |-> acc.done, open |-> Append(acc.open, size)]
    BY <1>1, <2>1
  <2>3. Append(acc.open, size) \in Seq(Nat)
    BY <1>1
  <2> QED
    BY <1>1, <1>2, <2>1, <2>2, <2>3 DEF Article!Place, Filling
<1>3. CASE ~(Article!Joins(acc.open, size) \/ acc.open = <<>>)
  <2>1. Append(acc.done, acc.open) \in Seq(Seq(Nat)) /\ <<size>> \in Seq(Nat)
    BY <1>1
  <2> QED
    BY <1>3, <2>1 DEF Article!Place, Filling
<1> QED
  BY <1>2, <1>3

\* A transcript has a number of chunks.
LEMMA ManyType ==
    ASSUME NEW t \in Seq(Nat)
    PROVE  Article!Many(t) \in Nat
<1> DEFINE start == [done |-> <<>>, open |-> <<>>]
           F == CHOOSE f : f = [n \in 0 .. Len(t) |-> IF n = 0 THEN start ELSE Article!Place(f[n - 1], t[n])]
           h == [i \in Nat |-> [v \in Filling |->
                    IF i \in 1 .. Len(t) THEN Article!Place(v, t[i]) ELSE start]]
<1>1. start \in Filling /\ Len(t) \in Nat /\ \A i \in 1 .. Len(t) : t[i] \in Nat
  BY DEF Filling
<1> HIDE DEF start
<1>2. PICK f : Goes(f, Filling, start, h, Len(t))
  <2>1. h \in [Nat -> [Filling -> Filling]]
    BY <1>1, PlaceType
  <2> HIDE DEF h
  <2> QED
    BY <1>1, <2>1, Recursion
<1>3. f \in [0 .. Len(t) -> Filling] /\ f[0] = start
      /\ \A i \in 1 .. Len(t) : f[i] = Article!Place(f[i - 1], t[i])
  <2>1. f \in [0 .. Len(t) -> Filling] /\ f[0] = start /\ \A i \in 1 .. Len(t) : f[i] = h[i][f[i - 1]]
    BY <1>2 DEF Goes
  <2>2. ASSUME NEW i \in 1 .. Len(t) PROVE f[i] = Article!Place(f[i - 1], t[i])
    <3>1. f[i - 1] \in Filling /\ i \in Nat
      BY <1>1, <2>1
    <3>2. h[i][f[i - 1]] = Article!Place(f[i - 1], t[i])
      BY <3>1
    <3> QED
      BY <2>1, <3>2
  <2> QED
    BY <2>1, <2>2
<1>4. f = [n \in 0 .. Len(t) |-> IF n = 0 THEN start ELSE Article!Place(f[n - 1], t[n])]
  BY <1>1, <1>3
<1>5. F = [n \in 0 .. Len(t) |-> IF n = 0 THEN start ELSE Article!Place(F[n - 1], t[n])]
  BY <1>4
<1>6. Article!ChunksOf(t) = Append(F[Len(t)].done, F[Len(t)].open)
  BY DEF Article!ChunksOf, start
<1> HIDE DEF F
<1>7. F[0] = start /\ \A i \in 1 .. Len(t) : F[i] = Article!Place(F[i - 1], t[i])
  BY <1>1, <1>5
<1>8. \A i \in 0 .. Len(t) : F[i] = f[i]
  <2>1. F[0] = f[0]
    BY <1>3, <1>7
  <2>2. \A i \in 1 .. Len(t) : F[i - 1] = f[i - 1] => F[i] = f[i]
    BY <1>3, <1>7
  <2> QED
    BY <1>1, <2>1, <2>2, Alike
<1>9. f[Len(t)] \in Filling /\ F[Len(t)] = f[Len(t)]
  BY <1>1, <1>3, <1>8
<1>10. f[Len(t)].done \in Seq(Seq(Nat)) /\ f[Len(t)].open \in Seq(Nat)
  BY <1>9 DEF Filling
<1>11. Article!ChunksOf(t) = Append(f[Len(t)].done, f[Len(t)].open)
  BY <1>6, <1>9
<1>12. Len(Append(f[Len(t)].done, f[Len(t)].open)) \in Nat
  <2>1. PICK d \in Seq(Seq(Nat)), o \in Seq(Nat) : d = f[Len(t)].done /\ o = f[Len(t)].open
    BY <1>10
  <2>2. Append(d, o) \in Seq(Seq(Nat))
    BY <2>1
  <2>3. Len(Append(d, o)) \in Nat
    BY <2>2
  <2> QED
    BY <2>1, <2>3
<1> QED
  BY <1>11, <1>12 DEF Article!Many

-----------------------------------------------------------------------------
(* The invariant.                                                          *)

CompilerTypes ==
    /\ transcript \in Transcripts /\ illustrated \in BOOLEAN /\ chunks \in Nat
    /\ maps \in [1 .. chunks -> AMap]
    /\ items \in Seq(AnItem) /\ rest \in Seq(AnItem) /\ next \in Seq(AnItem)
    /\ dropped \in Seq(AnId) /\ batches \in Nat /\ waves \in Nat
    /\ topology \in {"direct", "map", "hierarchy"}

Merging == {"consolidate", "wave"}
WritingStages == {"layout", "gate", "regate", "review", "final", "done"}

\* The plan that is compiled is one that was found feasible.
PlanInv ==
    /\ stage \in {"new", "analyze", "map"} => dropped = <<>> /\ waves = 0
    /\ stage \notin {"new", "failed"} =>
          /\ chunks = Article!Many(transcript)
          /\ topology = "direct" => Article!DirectFits(transcript)
          /\ topology = "map" => Article!MapComposeFeasible(transcript)
          /\ topology = "hierarchy" => Article!HierarchyFeasible
          /\ illustrated => topology = "direct"
    /\ stage = "analyze" => illustrated
    /\ stage = "map" => topology # "direct"
    /\ stage \in Merging => topology = "hierarchy"

ErrorInv ==
    /\ error # "coverage"
    /\ ~illustrated => error \notin {"budget", "context", "no_progress"}

\* The items stand for all roots, each once.
Settled ==
    /\ Distinct(items) /\ Earlier(items, batches)
    /\ Splits(Article!Ids(items), lineage, ToSet(dropped), Article!Roots)
    /\ Len(dropped) = Cardinality(ToSet(dropped))
    /\ Len(items) + waves <= Cardinality(Article!Roots) /\ IsFiniteSet(Article!Roots)

ItemsInv == stage = "consolidate" \/ (stage = "compose" /\ topology # "direct") => Settled

MergeInv ==
    stage = "wave" =>
        /\ Distinct(rest) /\ Distinct(next) /\ Article!Ids(rest) \cap Article!Ids(next) = {}
        /\ Earlier(rest, batches) /\ Earlier(next, batches)
        /\ Article!Ids(next) \subseteq DOMAIN nextLineage
        /\ Splits(Article!Ids(rest) \cup Article!Ids(next), Held, ToSet(dropped), Article!Roots)
        /\ Len(dropped) = Cardinality(ToSet(dropped))
        /\ Len(items) >= 2
        /\ Len(items) + waves <= Cardinality(Article!Roots) /\ IsFiniteSet(Article!Roots)
        /\ (rest = items /\ next = <<>>) \/ Len(rest) + Len(next) < Len(items)

ComposeInv ==
    stage = "compose" =>
        /\ ~illustrated => Article!ComposeSize <= Budget
        /\ topology = "map" => Article!Ids(items) = Article!Roots

CoverageInv ==
    stage \in WritingStages =>
        /\ coverage.covered \cup coverage.omitted = Article!Required
        /\ coverage.covered \cap coverage.omitted = {}

CompilerInv ==
    CompilerTypes /\ PlanInv /\ ErrorInv /\ ItemsInv /\ MergeInv /\ ComposeInv /\ CoverageInv

-----------------------------------------------------------------------------
(* The steps that make no items and no article.                            *)

\* What a step leaves alone keeps its type.
LEMMA TypesStay ==
    ASSUME CompilerTypes,
           UNCHANGED <<transcript, illustrated, topology, chunks, maps, items, rest, next, dropped,
                       batches, waves>>
    PROVE  CompilerTypes'
BY DEF CompilerTypes

\* A step that fails for a reason that may be.
LEMMA FailureKeeps ==
    ASSUME CompilerTypes', stage' = "failed", error' # "coverage",
           ~illustrated' => error' \notin {"budget", "context", "no_progress"}
    PROVE  CompilerInv'
BY DEF CompilerInv, PlanInv, ErrorInv, ItemsInv, MergeInv, ComposeInv, CoverageInv, Merging, WritingStages

\* The article is written: the plan, the items and the ledger stay.
LEMMA WritingKeeps ==
    ASSUME CompilerInv, stage \in WritingStages, stage' \in WritingStages,
           UNCHANGED <<transcript, illustrated, topology, expected, chunks, maps, items, rest, next,
                       dropped, batches, waves, coverage, error>>
    PROVE  CompilerInv'
<1>1. CompilerTypes'
  BY TypesStay DEF CompilerInv
<1>2. PlanInv' /\ ErrorInv' /\ ItemsInv' /\ MergeInv' /\ ComposeInv'
  BY DEF CompilerInv, PlanInv, ErrorInv, ItemsInv, MergeInv, ComposeInv, Merging, WritingStages
<1>3. Article!Required' = Article!Required
  BY DEF Article!Required, Article!Inputs, Article!Roots, Article!Root, Article!Chunks
<1>4. CoverageInv'
  BY <1>3 DEF CompilerInv, CoverageInv
<1> QED
  BY <1>1, <1>2, <1>4 DEF CompilerInv

\* A plan that is accepted has a feasible topology (`_freeze_feasible_topology').
LEMMA FrozenTopology ==
    ASSUME NEW t, Article!Acceptable(t)
    PROVE  /\ Article!Frozen(t).topology \in {"direct", "map", "hierarchy"}
           /\ Article!Frozen(t).topology = "direct" => Article!DirectFits(t)
           /\ Article!Frozen(t).topology = "map" => Article!MapComposeFeasible(t)
           /\ Article!Frozen(t).topology = "hierarchy" => Article!HierarchyFeasible
           /\ Article!Frozen(t).topology # "direct" => ~illustrated
<1> DEFINE p == Article!Planned(t)
           deeper == [topology |-> "hierarchy", expected |-> IF p.expected > 3 THEN p.expected ELSE 3]
<1>1. p.topology \in {"direct", "map", "hierarchy"}
  BY DEF Article!Planned
<1>2. Article!Frozen(t) =
        IF p.topology = "direct" /\ ~Article!DirectFits(t)
        THEN IF Article!MapComposeFeasible(t) THEN [topology |-> "map", expected |-> 2] ELSE deeper
        ELSE IF p.topology = "map" /\ ~Article!MapComposeFeasible(t) THEN deeper ELSE p
  BY DEF Article!Frozen
<1>3. deeper.topology = "hierarchy" /\ [topology |-> "map", expected |-> 2].topology = "map"
  OBVIOUS
<1>4. /\ Article!Frozen(t).topology = "hierarchy" => Article!HierarchyFeasible
      /\ Article!Frozen(t).topology # "direct" => ~illustrated
  BY DEF Article!Acceptable
<1> HIDE DEF p, deeper
<1> QED
  BY <1>1, <1>2, <1>3, <1>4

\* The invariant holds initially.
LEMMA StartKept ==
    ASSUME Article!Init
    PROVE  CompilerInv
<1>1. /\ transcript \in Transcripts /\ illustrated \in BOOLEAN
      /\ stage = "new" /\ topology = "direct" /\ chunks = 0 /\ maps = <<>>
      /\ items = <<>> /\ rest = <<>> /\ next = <<>> /\ batches = 0 /\ waves = 0 /\ dropped = <<>>
      /\ error = "none"
  BY DEF Article!Init
<1>2. <<>> \in Seq(AnItem) /\ <<>> \in Seq(AnId) /\ <<>> \in [1 .. 0 -> AMap]
  OBVIOUS
<1>3. CompilerTypes
  BY <1>1, <1>2 DEF CompilerTypes
<1> QED
  BY <1>1, <1>3 DEF CompilerInv, PlanInv, ErrorInv, ItemsInv, MergeInv, ComposeInv, CoverageInv,
                   Merging, WritingStages

\* Prepare keeps the invariant: the plan it freezes fits.
LEMMA PrepareKeeps ==
    ASSUME CompilerInv, Article!Prepare
    PROVE  CompilerInv'
<1> DEFINE t == transcript
<1>1. /\ stage = "new" /\ Article!Acceptable(t) /\ topology' = Article!Frozen(t).topology
      /\ chunks' = Article!Many(t) /\ maps' = [c \in 1 .. chunks' |-> <<>>]
      /\ stage' = IF illustrated THEN "analyze" ELSE IF topology' = "direct" THEN "compose" ELSE "map"
      /\ UNCHANGED <<transcript, illustrated, items, rest, next, batches, waves, dropped, error>>
  BY DEF Article!Prepare, Article!wave
<1>2. t \in Seq(Nat)
  <2>1. t \in Seq(Nat \ {0})
    BY Constants DEF CompilerInv, CompilerTypes
  <2> QED
    BY <2>1, SeqMonotonic
<1>3. <<>> \in AMap
  <2>1. <<>> \in Seq(1 .. MapOut)
    OBVIOUS
  <2> QED
    BY <2>1, TotalEmpty, Constants DEF AMap
<1>4. chunks' \in Nat /\ maps' \in [1 .. chunks' -> AMap]
  <2>1. chunks' \in Nat
    BY <1>1, <1>2, ManyType
  <2> QED
    BY <1>1, <1>3, <2>1
<1>5. CompilerTypes'
  BY <1>1, <1>4, FrozenTopology DEF CompilerInv, CompilerTypes
<1>6. /\ Article!DirectFits(t)' <=> Article!DirectFits(t)
      /\ Article!MapComposeFeasible(t)' <=> Article!MapComposeFeasible(t)
      /\ Article!Many(t)' = Article!Many(t)
  BY <1>1 DEF Article!DirectFits, Article!MapComposeFeasible, Article!Many
<1>7. PlanInv'
  BY <1>1, <1>6, FrozenTopology DEF CompilerInv, PlanInv, Merging
<1>8. ErrorInv' /\ ItemsInv' /\ MergeInv' /\ CoverageInv'
  BY <1>1 DEF CompilerInv, ErrorInv, ItemsInv, MergeInv, CoverageInv, WritingStages
<1>9. ComposeInv'
  <2> SUFFICES ASSUME stage' = "compose"
               PROVE  Article!ComposeSize' <= Budget /\ topology' # "map"
    BY DEF ComposeInv
  <2>1. topology' = "direct" /\ ~illustrated /\ Article!DirectFits(t)
    BY <1>1, FrozenTopology
  <2>2. Article!ComposeSize' = ComposeBase + Article!Total(t)
    <3>1. Article!Total(t) = Total(t) /\ Total(t) \in Nat
      BY <1>2, ArticleTotal, TotalType
    <3>2. Article!ComposerBase' = ComposeBase
      BY <1>1, <2>1, Constants DEF Article!ComposerBase
    <3> QED
      BY <1>1, <2>1, <3>1, <3>2 DEF Article!ComposeSize
  <2> QED
    BY <2>1, <2>2 DEF Article!DirectFits
<1> QED
  BY <1>5, <1>7, <1>8, <1>9 DEF CompilerInv

\* So do the steps before the items: Reject, Analyze, StartMap and FailMap.
LEMMA EarlyStepsKeep ==
    ASSUME CompilerInv,
           \/ Article!Reject \/ Article!Analyze \/ Article!FailMap
           \/ \E c \in Article!Chunks : Article!StartMap(c)
    PROVE  CompilerInv'
<1>1. CASE Article!Reject
  <2>1. stage' = "failed" /\ error' = "rejected"
        /\ UNCHANGED <<transcript, illustrated, topology, chunks, maps, items, rest, next, dropped,
                       batches, waves>>
    BY <1>1 DEF Article!Reject, Article!Raise, Article!plan, Article!wave
  <2> QED
    BY <2>1, TypesStay, FailureKeeps DEF CompilerInv
<1>2. CASE Article!FailMap
  <2>1. stage' = "failed" /\ error' = "response"
        /\ UNCHANGED <<transcript, illustrated, topology, chunks, maps, items, rest, next, dropped,
                       batches, waves>>
    BY <1>2 DEF Article!FailMap, Article!Raise, Article!plan, Article!wave
  <2> QED
    BY <2>1, TypesStay, FailureKeeps DEF CompilerInv
<1>3. CASE Article!Analyze
  <2>1. /\ stage = "analyze"
        /\ \/ stage' = "compose" /\ error' = error
           \/ stage' = "failed" /\ error' = "response"
        /\ UNCHANGED <<transcript, illustrated, topology, chunks, maps, items, rest, next, dropped,
                       batches, waves>>
    BY <1>3 DEF Article!Analyze, Article!Answer, Article!Refused, Article!Raise, Article!plan,
                Article!wave
  <2>2. CompilerTypes'
    BY <2>1, TypesStay DEF CompilerInv
  <2>3. CASE stage' = "failed"
    BY <2>1, <2>2, <2>3, FailureKeeps
  <2>4. CASE stage' = "compose"
    <3>1. illustrated /\ topology = "direct"
      BY <2>1 DEF CompilerInv, PlanInv
    <3> QED
      BY <2>1, <2>2, <2>4, <3>1 DEF CompilerInv, PlanInv, ErrorInv, ItemsInv, MergeInv, ComposeInv,
                                 CoverageInv, Merging, WritingStages
  <2> QED
    BY <2>1, <2>3, <2>4
<1>4. CASE \E c \in Article!Chunks : Article!StartMap(c)
  <2>1. /\ stage = "map" /\ stage' = "map" /\ error' = error
        /\ UNCHANGED <<transcript, illustrated, topology, chunks, maps, items, rest, next, dropped,
                       batches, waves>>
    BY <1>4 DEF Article!StartMap, Article!plan, Article!wave
  <2>2. CompilerTypes'
    BY <2>1, TypesStay DEF CompilerInv
  <2> QED
    BY <2>1, <2>2 DEF CompilerInv, PlanInv, ErrorInv, ItemsInv, MergeInv, ComposeInv, CoverageInv,
                      Merging, WritingStages
<1> QED
  BY <1>1, <1>2, <1>3, <1>4

\* So does EndMap, whose response the parser has bounded.
LEMMA EndMapKeeps ==
    ASSUME CompilerInv, NEW c \in Article!Chunks, Article!EndMap(c)
    PROVE  CompilerInv'
<1>1. /\ stage = "map" /\ stage' = "map" /\ error' = error
      /\ UNCHANGED <<transcript, illustrated, topology, chunks, items, rest, next, dropped, batches,
                     waves>>
      /\ maps' = maps \/ \E s \in Article!Responses : maps' = [maps EXCEPT ![c] = s]
  BY DEF Article!EndMap, Article!plan, Article!wave
<1>2. maps' \in [1 .. chunks -> AMap]
  <2>1. ASSUME NEW s \in Article!Responses PROVE s \in AMap
    <3>1. PICK n \in 1 .. MaxItems : s \in [1 .. n -> 1 .. MapOut]
      BY DEF Article!Responses
    <3>2. s \in Seq(1 .. MapOut)
      BY <3>1, FunctionIsSequence, Constants
    <3>3. Total(s) <= MapOut
      BY ArticleTotal DEF Article!Responses
    <3> QED
      BY <3>2, <3>3 DEF AMap
  <2> QED
    BY <1>1, <2>1 DEF CompilerInv, CompilerTypes
<1>3. CompilerTypes'
  BY <1>1, <1>2 DEF CompilerInv, CompilerTypes
<1> QED
  BY <1>1, <1>3 DEF CompilerInv, PlanInv, ErrorInv, ItemsInv, MergeInv, ComposeInv, CoverageInv,
                    Merging, WritingStages

-----------------------------------------------------------------------------
(* What is compiled hierarchically can be merged.                          *)

\* What is divided twice and more by m holds m twice.
LEMMA Quotient ==
    ASSUME NEW x \in Nat, NEW m \in Nat, m >= 1, x \div m >= 2
    PROVE  2 * m <= x
<1> DEFINE q == x \div m
<1>1. q \in Int /\ m * q <= x /\ q >= 2
  OBVIOUS
<1> HIDE DEF q
<1>2. PICK r \in Nat : q = 2 + r
  BY <1>1
<1>3. m * q = 2 * m + m * r /\ m * r \in Nat
  BY <1>2
<1> QED
  BY <1>1, <1>3

\* A hierarchy is accepted only if two outputs fit into a consolidation, one into the composer.
LEMMA TwoFit ==
    ASSUME Article!HierarchyFeasible
    PROVE  MaxCovered >= 2 /\ ConsolidateBase + 2 * MapOut <= Budget /\ ComposeBase + MapOut <= Budget
<1>1. MaxCovered >= 2 /\ Article!FanIn >= 2
  BY DEF Article!HierarchyFeasible
<1>2. Budget > ConsolidateBase /\ (Budget - ConsolidateBase) \div MapOut >= 2
  BY <1>1, Constants DEF Article!FanIn
<1>3. Budget - ConsolidateBase \in Nat
  BY <1>2, Constants
<1>4. 2 * MapOut <= Budget - ConsolidateBase
  BY <1>2, <1>3, Constants, Quotient
<1> QED
  BY <1>1, <1>4, Constants

\* The size of the composer's request.
LEMMA ComposeSizeOfItems ==
    ASSUME topology # "direct", ~illustrated
    PROVE  Article!ComposeSize = ComposeBase + Article!SizeOf(items)
BY Constants DEF Article!ComposeSize, Article!ComposerBase

\* CollectMaps keeps the invariant: the items are the roots.
LEMMA CollectMapsKeeps ==
    ASSUME CompilerInv, Article!CollectMaps
    PROVE  CompilerInv'
<1> DEFINE all == Article!RootItems
<1>1. /\ stage = "map" /\ items' = all /\ lineage' = [r \in Article!Roots |-> {r}]
      /\ stage' = IF topology = "hierarchy" THEN "consolidate" ELSE "compose"
      /\ UNCHANGED <<transcript, illustrated, topology, chunks, maps, rest, next, dropped, batches,
                     waves, error>>
  BY DEF Article!CollectMaps, Article!plan, Article!wave
<1>2. /\ chunks \in Nat /\ maps \in [1 .. chunks -> AMap] /\ topology # "direct"
      /\ dropped = <<>> /\ waves = 0 /\ ~illustrated /\ chunks = Article!Many(transcript)
      /\ topology \in {"map", "hierarchy"}
      /\ topology = "map" => Article!MapComposeFeasible(transcript)
  BY <1>1 DEF CompilerInv, CompilerTypes, PlanInv
<1>3. /\ all \in Seq(AnItem) /\ Distinct(all) /\ Article!Ids(all) = Article!Roots
      /\ Article!SizeOf(all) <= chunks * MapOut /\ Earlier(all, batches)
      /\ IsFiniteSet(Article!Roots) /\ Cardinality(Article!Roots) = Len(all)
  BY <1>2, MapWave
<1> HIDE DEF all
<1>4. Article!Roots' = Article!Roots
  BY <1>1 DEF Article!Roots, Article!Root, Article!Chunks
<1>5. CompilerTypes'
  BY <1>1, <1>3 DEF CompilerInv, CompilerTypes
<1>6. Settled'
  <2>1. ToSet(<<>>) = {} /\ Len(<<>>) = 0 /\ Cardinality({}) = 0
    BY FS_EmptySet DEF ToSet
  <2>2. Splits(Article!Roots, lineage', {}, Article!Roots)
    <3>1. \A r \in Article!Roots : lineage'[r] = {r}
      BY <1>1
    <3> QED
      BY <3>1 DEF Splits
  <2>3. Len(all) \in Nat /\ Len(all) + 0 <= Len(all)
    BY <1>3
  <2>4. Splits(Article!Ids(items)', lineage', ToSet(dropped)', Article!Roots')
    BY <1>1, <1>2, <1>3, <1>4, <2>1, <2>2 DEF Article!Ids
  <2>5. Len(dropped') = Cardinality(ToSet(dropped)')
    BY <1>1, <1>2, <2>1
  <2>6. Len(items') + waves' <= Cardinality(Article!Roots')
    BY <1>1, <1>2, <1>3, <1>4, <2>3
  <2>7. Distinct(items') /\ Earlier(items', batches') /\ IsFiniteSet(Article!Roots')
    BY <1>1, <1>3, <1>4
  <2> QED
    BY <2>4, <2>5, <2>6, <2>7 DEF Settled, Distinct, Earlier
<1>7. ComposeInv'
  <2> SUFFICES ASSUME stage' = "compose"
               PROVE  Article!ComposeSize' <= Budget /\ Article!Ids(items)' = Article!Roots'
    BY DEF ComposeInv
  <2>1. topology = "map" /\ Article!MapComposeFeasible(transcript)
    BY <1>1, <1>2
  <2>2. ComposeBase + chunks * MapOut <= Budget
    BY <1>2, <2>1 DEF Article!MapComposeFeasible
  <2>3. Article!ComposeSize' = ComposeBase + Article!SizeOf(items')
    BY <1>1, <1>2, Constants DEF Article!ComposeSize, Article!ComposerBase
  <2>4. Article!SizeOf(all) \in Nat /\ chunks * MapOut \in Nat
    BY <1>2, <1>3, SizesType, Constants
  <2>5. Article!ComposeSize' <= Budget
    BY <1>1, <1>3, <2>2, <2>3, <2>4, Constants
  <2> QED
    BY <1>1, <1>3, <1>4, <2>5 DEF Article!Ids
<1>8. PlanInv'
  <2>1. Article!Many(transcript)' = Article!Many(transcript)
    BY <1>1
  <2> QED
    BY <1>1, <1>2, <2>1 DEF CompilerInv, PlanInv, Merging
<1> QED
  BY <1>1, <1>5, <1>6, <1>7, <1>8 DEF CompilerInv, ErrorInv, ItemsInv, MergeInv, CoverageInv, WritingStages

\* So does LeaveConsolidation: it leaves only what fits.
LEMMA LeaveConsolidationKeeps ==
    ASSUME CompilerInv, Article!LeaveConsolidation
    PROVE  CompilerInv'
<1>1. /\ stage = "consolidate" /\ Article!Composable(items) /\ stage' = "compose"
      /\ UNCHANGED <<transcript, illustrated, topology, chunks, maps, items, lineage, rest, next,
                     dropped, batches, waves, error>>
  BY DEF Article!LeaveConsolidation, Article!plan, Article!wave
<1>2. topology = "hierarchy" /\ ~illustrated /\ Settled
  BY <1>1 DEF CompilerInv, PlanInv, ItemsInv, Merging
<1>3. CompilerTypes'
  BY <1>1, TypesStay DEF CompilerInv
<1>4. Article!ComposeSize' <= Budget
  <2>1. Article!ComposeSize' = Article!ComposeSize
    BY <1>1 DEF Article!ComposeSize, Article!ComposerBase
  <2> QED
    BY <1>1, <1>2, <2>1, ComposeSizeOfItems DEF Article!Composable
<1>5. Settled'
  BY <1>1, <1>2 DEF Settled, Article!Roots, Article!Root, Article!Chunks
<1> QED
  BY <1>1, <1>2, <1>3, <1>4, <1>5 DEF CompilerInv, PlanInv, ErrorInv, ItemsInv, MergeInv, ComposeInv,
                                    CoverageInv, Merging, WritingStages

\* So does BeginWave: two items are left, and every wave so far has taken one at least.
LEMMA BeginWaveKeeps ==
    ASSUME CompilerInv, Article!BeginWave
    PROVE  CompilerInv'
<1>1. /\ stage = "consolidate" /\ ~Article!Composable(items)
      /\ IF Len(items) >= 2 /\ waves < Article!MaxWaves
         THEN rest' = items /\ next' = <<>> /\ nextLineage' = Article!Empty /\ stage' = "wave"
              /\ UNCHANGED error
         ELSE Article!Raise("context") /\ UNCHANGED <<rest, next, nextLineage>>
      /\ UNCHANGED <<transcript, illustrated, topology, chunks, maps, items, lineage, dropped,
                     batches, waves>>
  BY DEF Article!BeginWave, Article!plan
<1>2. /\ topology = "hierarchy" /\ ~illustrated /\ Settled /\ Article!HierarchyFeasible
      /\ items \in Seq(AnItem) /\ Len(items) \in Nat /\ waves \in Nat
  BY <1>1 DEF CompilerInv, CompilerTypes, PlanInv, ItemsInv, Merging
<1>3. /\ MaxCovered >= 2 /\ ComposeBase + MapOut <= Budget
  BY <1>2, TwoFit
<1>4. Len(items) >= 2
  <2>1. /\ Article!SizeOf(items) \in Nat
        /\ Len(items) = 0 => Article!SizeOf(items) = 0
        /\ Len(items) = 1 => Article!SizeOf(items) <= MapOut
    BY <1>2, SizeOfFew, SizesType
  <2>2. PICK n \in Nat : n = Len(items)
    BY <1>2
  <2>3. PICK size \in Nat : size = Article!SizeOf(items)
    BY <2>1
  <2>4. (n = 0 => size = 0) /\ (n = 1 => size <= MapOut)
    BY <2>1, <2>2, <2>3
  <2>5. ~(n <= MaxCovered /\ ComposeBase + size <= Budget)
    BY <1>1, <2>2, <2>3 DEF Article!Composable
  <2>6. n >= 2
    BY <1>3, <2>4, <2>5, Constants
  <2> QED
    BY <2>2, <2>6
<1>5. waves < Article!MaxWaves
  <2>1. Cardinality(Article!Roots) \in Nat /\ Len(items) + waves <= Cardinality(Article!Roots)
    BY <1>2, FS_CardinalityType DEF Settled
  <2>2. waves < Cardinality(Article!Roots) - 1
    BY <1>2, <1>4, <2>1
  <2>3. Article!MaxWaves = IF 1 < Cardinality(Article!Roots) - 1 THEN Cardinality(Article!Roots) - 1 ELSE 1
    BY ArticleSize DEF Article!MaxWaves, Article!Greater
  <2> QED
    BY <1>2, <2>1, <2>2, <2>3
<1>6. rest' = items /\ next' = <<>> /\ stage' = "wave" /\ UNCHANGED error
  BY <1>1, <1>4, <1>5
<1>7. CompilerTypes'
  BY <1>1, <1>2, <1>6 DEF CompilerInv, CompilerTypes
<1>8. Article!Roots' = Article!Roots
  BY <1>1 DEF Article!Roots, Article!Root, Article!Chunks
<1>9. Article!Ids(next') = {} /\ Article!Ids(rest') = Article!Ids(items)
  BY <1>6 DEF Article!Ids
<1>10. Held' = [x \in Article!Ids(items) |-> lineage[x]]
  <2>1. Held' = [x \in Article!Ids(rest') \cup Article!Ids(next') |->
                    IF x \in Article!Ids(next') THEN nextLineage'[x] ELSE lineage'[x]]
    BY DEF Held, Article!Ids
  <2> QED
    BY <1>1, <1>9, <2>1
<1>11. Splits(Article!Ids(rest') \cup Article!Ids(next'), Held', ToSet(dropped'), Article!Roots')
  <2>1. Splits(Article!Ids(items), lineage, ToSet(dropped), Article!Roots)
    BY <1>2 DEF Settled
  <2>2. Splits(Article!Ids(items), [x \in Article!Ids(items) |-> lineage[x]], ToSet(dropped), Article!Roots)
    BY <2>1 DEF Splits
  <2> QED
    BY <1>1, <1>8, <1>9, <1>10, <2>2
<1>12. MergeInv'
  <2>1. Distinct(rest') /\ Earlier(rest', batches') /\ Distinct(next') /\ Earlier(next', batches')
    BY <1>1, <1>2, <1>6 DEF Settled, Distinct, Earlier
  <2>2. /\ Len(dropped') = Cardinality(ToSet(dropped')) /\ Len(items') >= 2
        /\ Len(items') + waves' <= Cardinality(Article!Roots') /\ IsFiniteSet(Article!Roots')
    BY <1>1, <1>2, <1>4, <1>8 DEF Settled
  <2>3. /\ Article!Ids(rest') \cap Article!Ids(next') = {}
        /\ Article!Ids(next') \subseteq DOMAIN nextLineage'
    BY <1>9
  <2>4. rest' = items' /\ next' = <<>>
    BY <1>1, <1>6
  <2> QED
    BY <1>11, <2>1, <2>2, <2>3, <2>4 DEF MergeInv, Distinct, Earlier, Article!Ids, ToSet
<1> QED
  BY <1>1, <1>2, <1>6, <1>7, <1>12 DEF CompilerInv, PlanInv, ErrorInv, ItemsInv, ComposeInv,
                                     CoverageInv, Merging, WritingStages

-----------------------------------------------------------------------------
(* A wave of consolidation.                                                *)

\* A partition stays one when the sets of it are named by another function.
LEMMA SplitsAlike ==
    ASSUME NEW X, NEW f, NEW g, NEW D, NEW R, Splits(X, f, D, R), \A x \in X : g[x] = f[x]
    PROVE  Splits(X, g, D, R)
<1>1. UNION {g[x] : x \in X} = UNION {f[x] : x \in X}
  OBVIOUS
<1>2. D \cup UNION {f[x] : x \in X} = R
  BY DEF Splits
<1>3. \A x \in X : g[x] \cap D = {}
  BY DEF Splits
<1>4. \A x, y \in X : x # y => g[x] \cap g[y] = {}
  BY DEF Splits
<1>5. D \cup UNION {g[x] : x \in X} = R
  BY ONLY <1>1, <1>2
<1> QED
  BY <1>3, <1>4, <1>5 DEF Splits

\* The union of two families of sets.
LEMMA UnionOfBoth ==
    ASSUME NEW A, NEW B
    PROVE  UNION (A \cup B) = (UNION A) \cup (UNION B)
OBVIOUS

Agree(g, f, X, A) == \A x \in X \ A : g[x] = f[x]
Renamed(X, A, N, Y) == A \subseteq X /\ N \cap X = {} /\ Y = (X \ A) \cup N
Leaves(D, E, R) == D \cap E = {} /\ E \subseteq R

(* The sets that g gives to N, and E, are a partition of what f gives to A. *)
StandsFor(N, g, E, A, f) ==
    /\ \A m, n \in N : m # n => g[m] \cap g[n] = {}
    /\ \A n \in N : g[n] \cap E = {}
    /\ E \cup UNION {g[n] : n \in N} = UNION {f[x] : x \in A}

\* Some sets of a partition make way for others that hold the same, but for what is dropped.
LEMMA SplitsAnew ==
    ASSUME NEW X, NEW f, NEW D, NEW R, Splits(X, f, D, R),
           NEW A, NEW N, NEW Y, Renamed(X, A, N, Y), NEW g, NEW E,
           Agree(g, f, X, A), StandsFor(N, g, E, A, f)
    PROVE  Splits(Y, g, D \cup E, R) /\ Leaves(D, E, R)
<1>1. /\ \A x \in X : f[x] \cap D = {}
      /\ \A x, y \in X : x # y => f[x] \cap f[y] = {}
      /\ D \cup UNION {f[x] : x \in X} = R
  BY DEF Splits
<1>0. /\ \A m, n \in N : m # n => g[m] \cap g[n] = {}
      /\ \A n \in N : g[n] \cap E = {}
      /\ E \cup UNION {g[n] : n \in N} = UNION {f[x] : x \in A}
      /\ \A x \in X \ A : g[x] = f[x]
      /\ A \subseteq X /\ N \cap X = {} /\ Y = (X \ A) \cup N
  BY DEF StandsFor, Agree, Renamed
<1>2. \A r \in E : \E x \in A : r \in f[x]
  BY <1>0
<1>3. \A n \in N : \A r \in g[n] : \E x \in A : r \in f[x]
  BY <1>0
<1>4. D \cap E = {}
  BY <1>0, <1>1, <1>2
<1>5. E \subseteq R
  BY <1>0, <1>1, <1>2
<1>6. ASSUME NEW x \in (X \ A) \cup N PROVE g[x] \cap (D \cup E) = {}
  <2>1. CASE x \in N
    BY <1>0, <1>1, <1>3, <2>1
  <2>2. CASE x \in X \ A
    BY <1>0, <1>1, <1>2, <2>2
  <2> QED
    BY <2>1, <2>2
<1>7. ASSUME NEW x \in X \ A, NEW n \in N PROVE g[x] \cap g[n] = {}
  BY <1>0, <1>1, <1>3
<1>8. ASSUME NEW x \in (X \ A) \cup N, NEW y \in (X \ A) \cup N, x # y PROVE g[x] \cap g[y] = {}
  <2>1. CASE x \in N /\ y \in N
    BY <1>0, <1>8, <2>1
  <2>2. CASE x \in X \ A /\ y \in X \ A
    BY <1>0, <1>1, <1>8, <2>2
  <2>3. CASE x \in X \ A /\ y \in N
    BY <1>7, <2>3
  <2>4. CASE x \in N /\ y \in X \ A
    BY <1>7, <2>4
  <2> QED
    BY <2>1, <2>2, <2>3, <2>4
<1>9. (D \cup E) \cup UNION {g[x] : x \in (X \ A) \cup N} = R
  <2>1. UNION {g[x] : x \in (X \ A) \cup N} = (UNION {f[x] : x \in X \ A}) \cup (UNION {g[n] : n \in N})
    <3>1. PICK all, kept, made : /\ all = {g[x] : x \in (X \ A) \cup N}
                                 /\ kept = {f[x] : x \in X \ A} /\ made = {g[n] : n \in N}
      OBVIOUS
    <3>2. all = kept \cup made
      BY <1>0, <3>1
    <3>3. UNION all = (UNION kept) \cup (UNION made)
      BY ONLY <3>2, UnionOfBoth
    <3> QED
      BY ONLY <3>1, <3>3
  <2>2. UNION {f[x] : x \in X} = (UNION {f[x] : x \in X \ A}) \cup (UNION {f[x] : x \in A})
    <3>1. {f[x] : x \in X} = {f[x] : x \in X \ A} \cup {f[x] : x \in A}
      BY <1>0
    <3> QED
      BY ONLY <3>1, UnionOfBoth
  <2> QED
    BY <1>0, <1>1, <2>1, <2>2
<1> QED
  BY <1>0, <1>4, <1>5, <1>6, <1>8, <1>9 DEF Splits, Leaves

\* What Held gives to an item that was made and to one that was not.
LEMMA HeldFunction ==
    /\ \A x \in Article!Ids(next) : Held[x] = nextLineage[x]
    /\ \A x \in Article!Ids(rest) \ Article!Ids(next) : Held[x] = lineage[x]
BY DEF Held

\* The same of the next state.
LEMMA HeldNext ==
    /\ \A x \in Article!Ids(next') : Held'[x] = nextLineage'[x]
    /\ \A x \in Article!Ids(rest') \ Article!Ids(next') : Held'[x] = lineage'[x]
<1>1. Article!Ids(next)' = Article!Ids(next') /\ Article!Ids(rest)' = Article!Ids(rest')
  BY DEF Article!Ids
<1>2. /\ \A x \in Article!Ids(next)' : Held'[x] = nextLineage'[x]
      /\ \A x \in Article!Ids(rest)' \ Article!Ids(next)' : Held'[x] = lineage'[x]
  BY DEF Held
<1> QED
  BY <1>1, <1>2

\* What holds during a wave.
LEMMA DuringWave ==
    ASSUME CompilerInv, stage = "wave"
    PROVE  /\ topology = "hierarchy" /\ ~illustrated /\ Article!HierarchyFeasible
           /\ items \in Seq(AnItem) /\ rest \in Seq(AnItem) /\ next \in Seq(AnItem)
           /\ Len(items) \in Nat /\ Len(rest) \in Nat /\ Len(next) \in Nat
           /\ waves \in Nat /\ batches \in Nat /\ dropped \in Seq(AnId)
           /\ (rest = items /\ next = <<>> /\ Len(next) = 0) \/ Len(rest) + Len(next) < Len(items)
           /\ Len(items) >= 2
           /\ Distinct(rest) /\ Distinct(next) /\ Article!Ids(rest) \cap Article!Ids(next) = {}
           /\ Earlier(rest, batches) /\ Earlier(next, batches)
           /\ Article!Ids(next) \subseteq DOMAIN nextLineage
           /\ Splits(Article!Ids(rest) \cup Article!Ids(next), Held, ToSet(dropped), Article!Roots)
           /\ Len(dropped) = Cardinality(ToSet(dropped))
           /\ Len(items) + waves <= Cardinality(Article!Roots) /\ IsFiniteSet(Article!Roots)
<1>1. CompilerTypes /\ PlanInv /\ MergeInv
  BY DEF CompilerInv
<1>2. /\ items \in Seq(AnItem) /\ rest \in Seq(AnItem) /\ next \in Seq(AnItem)
      /\ waves \in Nat /\ batches \in Nat /\ dropped \in Seq(AnId)
  BY <1>1 DEF CompilerTypes
<1>3. Len(items) \in Nat /\ Len(rest) \in Nat /\ Len(next) \in Nat
  BY <1>2
<1>4. topology = "hierarchy" /\ ~illustrated /\ Article!HierarchyFeasible
  BY <1>1 DEF PlanInv, Merging
<1>5. next = <<>> => Len(next) = 0
  OBVIOUS
<1> QED
  BY <1>1, <1>2, <1>3, <1>4, <1>5 DEF MergeInv

\* The roots are those of the map wave.
LEMMA RootsStay ==
    ASSUME UNCHANGED <<chunks, maps>>
    PROVE  Article!Roots' = Article!Roots
BY DEF Article!Roots, Article!Root, Article!Chunks

\* A wave goes on when what it holds is still a partition of the roots.
LEMMA WaveGoesOn ==
    ASSUME CompilerInv, stage = "wave", stage' = "wave", error' = error,
           UNCHANGED <<transcript, illustrated, topology, chunks, maps, items, waves>>,
           rest' \in Seq(AnItem), next' \in Seq(AnItem), dropped' \in Seq(AnId), batches' \in Nat,
           Distinct(rest'), Distinct(next'), Article!Ids(rest') \cap Article!Ids(next') = {},
           Earlier(rest', batches'), Earlier(next', batches'),
           Article!Ids(next') \subseteq DOMAIN nextLineage',
           Splits(Article!Ids(rest') \cup Article!Ids(next'), Held', ToSet(dropped'), Article!Roots),
           Len(dropped') = Cardinality(ToSet(dropped')),
           Len(rest') + Len(next') < Len(items)
    PROVE  CompilerInv'
<1>1. CompilerTypes'
  BY DEF CompilerInv, CompilerTypes
<1>2. Article!Roots' = Article!Roots
  BY RootsStay
<1>3. MergeInv'
  <2>1. Distinct(rest)' /\ Distinct(next)' /\ Earlier(rest, batches)' /\ Earlier(next, batches)'
    BY DEF Distinct, Earlier
  <2>2. Article!Ids(rest)' = Article!Ids(rest') /\ Article!Ids(next)' = Article!Ids(next')
    BY DEF Article!Ids
  <2>3. ToSet(dropped)' = ToSet(dropped')
    BY DEF ToSet
  <2>4. Splits(Article!Ids(rest) \cup Article!Ids(next), Held, ToSet(dropped), Article!Roots)'
    BY <1>2, <2>2, <2>3 DEF Splits
  <2>5. /\ Len(items') >= 2 /\ Len(items') + waves' <= Cardinality(Article!Roots)
        /\ IsFiniteSet(Article!Roots)
    BY DuringWave
  <2>6. (Article!Ids(rest) \cap Article!Ids(next))' = {} /\ Len(dropped)' = Cardinality(ToSet(dropped))'
        /\ (Article!Ids(next) \subseteq DOMAIN nextLineage)'
    BY <2>2, <2>3
  <2> QED
    BY <1>2, <2>1, <2>4, <2>5, <2>6 DEF MergeInv
<1> QED
  BY <1>1, <1>3 DEF CompilerInv, PlanInv, ErrorInv, ItemsInv, ComposeInv, CoverageInv, Merging, WritingStages

\* PassSingle keeps the invariant: the item that is left over stands for what it stood for.
LEMMA PassSingleKeeps ==
    ASSUME CompilerInv, Article!PassSingle
    PROVE  CompilerInv'
<1>1. /\ stage = "wave" /\ stage' = "wave" /\ error' = error /\ Len(rest) = 1
      /\ next' = next \o rest /\ rest' = <<>>
      /\ nextLineage' = [x \in DOMAIN nextLineage \cup {rest[1].id} |->
                          IF x = rest[1].id THEN lineage[x] ELSE nextLineage[x]]
      /\ UNCHANGED <<transcript, illustrated, topology, chunks, maps, items, waves, lineage, batches,
                     dropped>>
  BY DEF Article!PassSingle, Article!plan
<1>2. Article!Ids(rest) = {rest[1].id}
  <2>1. DOMAIN rest = {1}
    BY <1>1, DuringWave
  <2> QED
    BY <2>1 DEF Article!Ids
<1>3. /\ next' \in Seq(AnItem) /\ Article!Ids(next') = Article!Ids(next) \cup Article!Ids(rest)
      /\ Distinct(next') /\ Earlier(next', batches') /\ Len(next') = Len(next) + 1
  <2>1. /\ Distinct(rest) /\ Distinct(next) /\ Article!Ids(next) \cap Article!Ids(rest) = {}
        /\ rest \in Seq(AnItem) /\ next \in Seq(AnItem)
        /\ Earlier(rest, batches) /\ Earlier(next, batches)
    BY <1>1, DuringWave
  <2>2. Len(next \o rest) = Len(next) + Len(rest) /\ next \o rest \in Seq(AnItem)
    BY <2>1
  <2> QED
    BY <1>1, <2>1, <2>2, IdsConcat
<1>4. /\ Article!Ids(rest') = {} /\ Distinct(rest') /\ Earlier(rest', batches') /\ Len(rest') = 0
      /\ rest' \in Seq(AnItem)
  BY <1>1 DEF Article!Ids, Distinct, Earlier
<1>5. \A x \in Article!Ids(rest) \cup Article!Ids(next) : Held'[x] = Held[x]
  <2>1. ASSUME NEW x \in Article!Ids(rest) \cup Article!Ids(next) PROVE nextLineage'[x] = Held[x]
    <3>1. CASE x \in Article!Ids(rest)
      BY <1>1, <1>2, <3>1, DuringWave, HeldFunction
    <3>2. CASE x \in Article!Ids(next)
      <4>1. x # rest[1].id /\ x \in DOMAIN nextLineage
        BY <1>1, <1>2, <3>2, DuringWave
      <4> QED
        BY <1>1, <3>2, <4>1, HeldFunction
    <3> QED
      BY <3>1, <3>2
  <2> QED
    BY <1>3, <2>1, HeldNext
<1>6. Splits(Article!Ids(rest') \cup Article!Ids(next'), Held', ToSet(dropped'), Article!Roots)
  <2>1. Splits(Article!Ids(rest) \cup Article!Ids(next), Held', ToSet(dropped), Article!Roots)
    <3>1. Splits(Article!Ids(rest) \cup Article!Ids(next), Held, ToSet(dropped), Article!Roots)
      BY <1>1, DuringWave
    <3>2. PICK g : g = Held'
      OBVIOUS
    <3> QED
      BY <1>5, <3>1, <3>2, SplitsAlike
  <2>2. Article!Ids(rest') \cup Article!Ids(next') = Article!Ids(rest) \cup Article!Ids(next)
    BY <1>3, <1>4
  <2> QED
    BY <1>1, <2>1, <2>2
<1>7. Article!Ids(next') \subseteq DOMAIN nextLineage'
  BY <1>1, <1>2, <1>3, DuringWave
<1>8. Len(rest') + Len(next') < Len(items)
  <2>1. PICK n \in Nat : n = Len(rest) /\ n = 1
    BY <1>1
  <2>2. PICK k \in Nat : k = Len(items) /\ k >= 2
    BY <1>1, DuringWave
  <2>3. rest = items => n = k
    BY <2>1, <2>2
  <2>6. rest # items
    BY <2>1, <2>2, <2>3
  <2>4. n + Len(next) < k /\ Len(next) \in Nat
    BY <1>1, <2>1, <2>2, <2>6, DuringWave
  <2> QED
    BY <1>3, <1>4, <2>1, <2>2, <2>4
<1>9. /\ dropped' \in Seq(AnId) /\ batches' \in Nat /\ Len(dropped') = Cardinality(ToSet(dropped'))
      /\ Article!Ids(rest') \cap Article!Ids(next') = {}
  BY <1>1, <1>4, DuringWave
<1> QED
  BY <1>1, <1>3, <1>4, <1>6, <1>7, <1>8, <1>9, WaveGoesOn

\* So does EndWave: a wave ends with fewer items, so `no_progress' is never raised.
LEMMA EndWaveKeeps ==
    ASSUME CompilerInv, Article!EndWave
    PROVE  CompilerInv'
<1>1. /\ stage = "wave" /\ rest = <<>> /\ items' = next /\ lineage' = nextLineage
      /\ IF Len(next) >= Len(items) THEN Article!Raise("no_progress") /\ UNCHANGED waves
         ELSE stage' = "consolidate" /\ waves' = waves + 1 /\ UNCHANGED error
      /\ UNCHANGED <<transcript, illustrated, topology, chunks, maps, rest, next, batches, dropped>>
  BY DEF Article!EndWave, Article!plan, Article!wave
<1>2. Len(next) < Len(items)
  <2>1. PICK k \in Nat : k = Len(items) /\ k >= 2
    BY <1>1, DuringWave
  <2>2. Len(rest) = 0
    BY <1>1
  <2>3. PICK n \in Nat : n = Len(rest) /\ n = 0
    BY <2>2
  <2>4. rest = items => n = k
    BY <2>1, <2>3
  <2>6. rest # items
    BY <2>1, <2>3, <2>4
  <2>5. n + Len(next) < k /\ Len(next) \in Nat
    BY <1>1, <2>1, <2>3, <2>6, DuringWave
  <2> QED
    BY <2>1, <2>3, <2>5
<1>3. /\ stage' = "consolidate" /\ waves' = waves + 1 /\ error' = error
  <2>1. Len(next) \in Nat /\ Len(items) \in Nat
    BY <1>1, DuringWave
  <2> QED
    BY <1>1, <1>2, <2>1
<1>4. CompilerTypes'
  BY <1>1, <1>3 DEF CompilerInv, CompilerTypes
<1>5. Article!Roots' = Article!Roots
  BY <1>1, RootsStay
<1>6. Splits(Article!Ids(next), nextLineage, ToSet(dropped), Article!Roots)
  <2>1. Article!Ids(rest) = {}
    BY <1>1 DEF Article!Ids
  <2>2. Splits(Article!Ids(next), Held, ToSet(dropped), Article!Roots)
    BY <1>1, <2>1, DuringWave
  <2> QED
    BY <2>2, HeldFunction, SplitsAlike
<1>7. Settled'
  <2>1. Distinct(items)' /\ Earlier(items, batches)'
    BY <1>1, DuringWave DEF Distinct, Earlier
  <2>2. Splits(Article!Ids(items), lineage, ToSet(dropped), Article!Roots)'
    <3>1. Article!Ids(items)' = Article!Ids(next) /\ ToSet(dropped)' = ToSet(dropped)
      BY <1>1 DEF Article!Ids, ToSet
    <3> QED
      BY <1>1, <1>5, <1>6, <3>1 DEF Splits
  <2>3. Len(dropped)' = Cardinality(ToSet(dropped))'
    BY <1>1, DuringWave DEF ToSet
  <2>4. (Len(items) + waves <= Cardinality(Article!Roots))' /\ IsFiniteSet(Article!Roots')
    <3>1. /\ Len(items) + waves <= Cardinality(Article!Roots) /\ IsFiniteSet(Article!Roots)
          /\ Len(items) \in Nat /\ Len(next) \in Nat /\ waves \in Nat
          /\ Cardinality(Article!Roots) \in Nat
      BY <1>1, DuringWave, FS_CardinalityType
    <3>2. Len(next) + (waves + 1) <= Cardinality(Article!Roots)
      BY <1>2, <3>1
    <3> QED
      BY <1>1, <1>3, <1>5, <3>1, <3>2
  <2> QED
    BY <2>1, <2>2, <2>3, <2>4 DEF Settled
<1>8. PlanInv'
  <2>1. topology = "hierarchy" /\ PlanInv
    BY <1>1, DuringWave DEF CompilerInv
  <2> QED
    BY <1>1, <1>3, <2>1 DEF PlanInv, Merging
<1> QED
  BY <1>1, <1>3, <1>4, <1>7, <1>8 DEF CompilerInv, ErrorInv, ItemsInv, MergeInv, ComposeInv, CoverageInv,
                                    WritingStages

-----------------------------------------------------------------------------
(* A batch.                                                                *)

\* A wave always finds a batch of two items or more whose request fits.
LEMMA BatchFits ==
    ASSUME CompilerInv, stage = "wave", Len(rest) >= 2
    PROVE  \E n \in 2 .. Len(rest) : Article!Batch = SubSeq(rest, 1, n) /\ Article!Fits(n)
<1>1. /\ rest \in Seq(AnItem) /\ Len(rest) \in Nat /\ Article!HierarchyFeasible
  BY DuringWave
<1>2. MaxCovered >= 2 /\ ConsolidateBase + 2 * MapOut <= Budget
  BY <1>1, TwoFit
<1>3. Article!Fits(2)
  <2>1. Article!SizeOf(SubSeq(rest, 1, 2)) <= 2 * MapOut
    BY <1>1, SizeOfFew
  <2>2. SubSeq(rest, 1, 2) \in Seq(AnItem)
    BY <1>1
  <2>3. Article!SizeOf(SubSeq(rest, 1, 2)) \in Nat
    BY <2>2, SizesType
  <2> QED
    BY <1>2, <2>1, <2>3, Constants DEF Article!Fits
<1>4. Article!BatchSize \in Nat /\ Article!BatchSize >= 2
  <2>1. Article!FanIn \in Nat
    BY Constants DEF Article!FanIn
  <2>2. Article!FanIn * MaxItems \in Nat
    BY <2>1, Constants
  <2>3. PICK k \in Nat : k = Article!FanIn * MaxItems
    BY <2>2
  <2>4. Article!BatchSize = Article!Lesser(MaxCovered, Article!Greater(2, k))
    BY <2>3 DEF Article!BatchSize
  <2> QED
    BY <1>2, <2>4, Constants DEF Article!Lesser, Article!Greater
<1>5. PICK most : most = Article!Lesser(Article!BatchSize, Len(rest))
  OBVIOUS
<1>6. most \in Nat /\ most >= 2 /\ most <= Len(rest)
  BY <1>1, <1>4, <1>5 DEF Article!Lesser
<1>7. PICK ok : ok = {n \in 2 .. most : Article!Fits(n)}
  OBVIOUS
<1>8. 2 \in ok /\ ok \subseteq 0 .. most
  BY <1>3, <1>6, <1>7
<1>9. \E n \in ok : \A m \in ok : m <= n
  BY <1>6, <1>8, GreatestUpTo
<1>10. PICK n : n = CHOOSE k \in ok : \A m \in ok : m <= k
  OBVIOUS
<1>11. n \in ok
  BY <1>9, <1>10
<1>12. Article!Batch = SubSeq(rest, 1, n)
  BY <1>5, <1>7, <1>8, <1>10 DEF Article!Batch
<1>13. n \in 2 .. Len(rest) /\ Article!Fits(n)
  BY <1>1, <1>6, <1>7, <1>11
<1> QED
  BY <1>12, <1>13

(* The nonzero values of o are used, which is 1 .. c.                      *)
Numbered(o, m, used, c) ==
    used = {o[i] : i \in 1 .. m} \ {0} /\ used # {} /\ c = Cardinality(used) /\ used = 1 .. c

\* The outputs of a batch are numbered from one, and are fewer than its items.
LEMMA OutcomeNumbers ==
    ASSUME NEW m \in Nat, NEW L \in Nat, NEW o \in [1 .. m -> 0 .. L],
           NEW used, NEW c, Numbered(o, m, used, c)
    PROVE  c \in Nat /\ c >= 1 /\ c <= L /\ o \in [1 .. m -> 0 .. c]
<1>0. used = {o[i] : i \in 1 .. m} \ {0} /\ c = Cardinality(used)
  BY DEF Numbered
<1>1. used \subseteq 0 .. L
  BY <1>0
<1>2. IsFiniteSet(0 .. L)
  BY FS_Interval
<1>3. c \in Nat
  BY <1>0, <1>1, <1>2, FS_Subset, FS_CardinalityType
<1>7. used = 1 .. c /\ used # {}
  BY DEF Numbered
<1>8. PICK x : x \in used
  BY ONLY <1>7
<1>4. c >= 1
  BY ONLY <1>3, <1>7, <1>8
<1>5. c \in used
  BY ONLY <1>3, <1>4, <1>7
<1>6. c <= L
  BY <1>1, <1>5
<1>9. ASSUME NEW i \in 1 .. m PROVE o[i] \in 0 .. c
  <2>1. o[i] = 0 \/ o[i] \in used
    BY <1>0
  <2> QED
    BY <1>3, <1>7, <2>1
<1> QED
  BY <1>3, <1>4, <1>6, <1>9

(* M[k] is what f gives to the positions where o is k.                     *)
Gathers(M, f, h, o, m, c) ==
    \A k \in 0 .. c : M[k] = UNION {f[h[i]] : i \in {j \in 1 .. m : o[j] = k}}
Named(h, m) == {h[i] : i \in 1 .. m}
Apart(f, h, m) == \A i, j \in 1 .. m : i # j => f[h[i]] \cap f[h[j]] = {}
Exhausts(M, c, f, A) == \A r : r \in UNION {f[x] : x \in A} <=> \E k \in 0 .. c : r \in M[k]

\* What each output stands for, and what is dropped, is a partition of what the batch did.
LEMMA MergedApart ==
    ASSUME NEW m \in Nat, NEW c \in Nat, NEW o \in [1 .. m -> 0 .. c], NEW h, NEW f,
           Apart(f, h, m), NEW M, Gathers(M, f, h, o, m, c), NEW A, A = Named(h, m)
    PROVE  (\A k, l \in 0 .. c : k # l => M[k] \cap M[l] = {}) /\ Exhausts(M, c, f, A)
<1>0. \A i, j \in 1 .. m : i # j => f[h[i]] \cap f[h[j]] = {}
  BY DEF Apart
<1>1. ASSUME NEW k \in 0 .. c, NEW r
      PROVE  r \in M[k] <=> \E i \in 1 .. m : o[i] = k /\ r \in f[h[i]]
  <2>1. M[k] = UNION {f[h[i]] : i \in {j \in 1 .. m : o[j] = k}}
    BY DEF Gathers
  <2>2. r \in UNION {f[h[i]] : i \in {j \in 1 .. m : o[j] = k}}
          <=> \E i \in {j \in 1 .. m : o[j] = k} : r \in f[h[i]]
    BY ONLY Zenon
  <2>3. \A i : i \in {j \in 1 .. m : o[j] = k} <=> i \in 1 .. m /\ o[i] = k
    OBVIOUS
  <2> QED
    BY ONLY <2>1, <2>2, <2>3, Zenon
<1>2. ASSUME NEW k \in 0 .. c, NEW l \in 0 .. c, k # l PROVE M[k] \cap M[l] = {}
  <2> SUFFICES ASSUME NEW r, r \in M[k], r \in M[l] PROVE FALSE
    OBVIOUS
  <2>1. PICK i \in 1 .. m : o[i] = k /\ r \in f[h[i]]
    BY <1>1
  <2>2. PICK j \in 1 .. m : o[j] = l /\ r \in f[h[j]]
    BY <1>1
  <2> QED
    BY <1>0, <1>2, <2>1, <2>2
<1>3. ASSUME NEW r PROVE r \in UNION {f[x] : x \in A} <=> \E k \in 0 .. c : r \in M[k]
  <2>1. r \in UNION {f[x] : x \in A} <=> \E x \in A : r \in f[x]
    BY ONLY Zenon
  <2>2. (\E x \in A : r \in f[x]) <=> \E i \in 1 .. m : r \in f[h[i]]
    BY DEF Named
  <2>3. \A i \in 1 .. m : o[i] \in 0 .. c
    OBVIOUS
  <2>4. (\E i \in 1 .. m : r \in f[h[i]]) <=> \E k \in 0 .. c : r \in M[k]
    BY ONLY <1>1, <2>3, Zenon
  <2> QED
    BY ONLY <2>1, <2>2, <2>4
<1> QED
  BY <1>2, <1>3 DEF Exhausts

NewList(b, c, size) == [k \in 1 .. c |-> [id |-> <<1, b, k>>, size |-> size]]

\* The items a batch makes.
LEMMA NewItems ==
    ASSUME NEW b \in Nat, NEW c \in Nat, NEW size \in 1 .. MapOut,
           NEW new, new = NewList(b, c, size)
    PROVE  /\ new \in Seq(AnItem) /\ Len(new) = c /\ Distinct(new) /\ Earlier(new, b + 1)
           /\ Article!Ids(new) = {<<1, b, k>> : k \in 1 .. c}
<1>0. new = [k \in 1 .. c |-> [id |-> <<1, b, k>>, size |-> size]]
  BY DEF NewList
<1>1. \A k \in 1 .. c : [id |-> <<1, b, k>>, size |-> size] \in AnItem
  BY DEF AnItem, AnId
<1>2. new \in Seq(AnItem) /\ Len(new) = c /\ DOMAIN new = 1 .. c
  <2>1. new \in [1 .. c -> AnItem]
    BY <1>0, <1>1
  <2> QED
    BY <2>1, FunctionIsSequence
<1>3. \A k \in 1 .. c : new[k].id = <<1, b, k>>
  BY <1>0
<1>4. Article!Ids(new) = {<<1, b, k>> : k \in 1 .. c}
  BY <1>2, <1>3 DEF Article!Ids
<1>5. Distinct(new)
  BY <1>2, <1>3 DEF Distinct
<1>6. Earlier(new, b + 1)
  <2>1. \A k \in 1 .. c : new[k].id[1] = 1 /\ new[k].id[2] = b
    BY <1>3
  <2> QED
    BY <1>2, <2>1 DEF Earlier
<1> QED
  BY <1>2, <1>4, <1>5, <1>6

\* The ids of a batch are those of no earlier item.
LEMMA NewIdsAreNew ==
    ASSUME NEW b \in Nat, NEW s \in Seq(AnItem), Earlier(s, b)
    PROVE  /\ \A k : <<1, b, k>> \notin Article!Ids(s)
           /\ Earlier(s, b + 1)
<1>1. ASSUME NEW i \in DOMAIN s PROVE s[i].id \in AnId /\ (s[i].id[1] = 1 => s[i].id[2] < b)
  <2>1. s[i] \in AnItem
    OBVIOUS
  <2> QED
    BY <2>1, ItemFields DEF Earlier
<1>2. ASSUME NEW k, NEW i \in DOMAIN s PROVE s[i].id # <<1, b, k>>
  <2>1. <<1, b, k>>[1] = 1 /\ <<1, b, k>>[2] = b
    OBVIOUS
  <2> QED
    BY <1>1, <2>1
<1>3. Earlier(s, b + 1)
  <2>1. ASSUME NEW i \in DOMAIN s, s[i].id[1] = 1 PROVE s[i].id[2] < b + 1
    <3>1. s[i].id[2] < b /\ s[i].id[2] \in Nat
      BY <1>1, <2>1 DEF AnId
    <3> QED
      BY <3>1
  <2> QED
    BY <2>1 DEF Earlier
<1> QED
  BY <1>2, <1>3 DEF Article!Ids

\* Roots are ids.
LEMMA RootsType ==
    ASSUME CompilerTypes
    PROVE  Article!Roots \subseteq AnId
<1>1. chunks \in Nat /\ maps \in [1 .. chunks -> AMap]
  BY DEF CompilerTypes
<1>2. ASSUME NEW c \in 1 .. chunks PROVE RootSet(c) \subseteq AnId
  BY <1>1, RootsOfOne, IdsType
<1>3. Article!Roots = UNION {RootSet(c) : c \in 1 .. chunks}
  BY DEF Article!Roots, RootSet, Article!Chunks
<1> QED
  BY <1>2, <1>3

(* What a batch that is answered changes, by c new items.                  *)
Taken(batch, o, size, c, new) ==
    /\ c = Cardinality(Article!Outputs(o))
    /\ new = NewList(batches, c, size)
    /\ next' = next \o new
    /\ nextLineage' = [x \in DOMAIN nextLineage \cup Article!Ids(new) |->
                          IF x \in Article!Ids(new) THEN Article!Merged(batch, o, x[3])
                          ELSE nextLineage[x]]
    /\ dropped' = dropped \o SetToSeq(Article!Merged(batch, o, 0))
    /\ rest' = SubSeq(rest, Len(batch) + 1, Len(rest))
    /\ batches' = batches + 1

\* A batch that is answered changes that.
LEMMA TakeChanges ==
    ASSUME NEW batch, NEW o, NEW size, Article!Take(batch, o, size)
    PROVE  \E c, new : Taken(batch, o, size, c, new)
<1>1. PICK c : c = Cardinality(Article!Outputs(o))
  OBVIOUS
<1>2. PICK new : new = NewList(batches, c, size)
  OBVIOUS
<1>3. Article!Cardinality(Article!Outputs(o)) = c
  BY <1>1, ArticleSize
<1>4. [k \in 1 .. Article!Cardinality(Article!Outputs(o)) |->
          [id |-> Article!NewId(k), size |-> size]] = new
  BY <1>2, <1>3 DEF Article!NewId, NewList
<1>5. Article!SetToSeq(Article!Dropped(batch, o)) = SetToSeq(Article!Merged(batch, o, 0))
  BY ArticleInOrder DEF Article!Dropped
<1>6. /\ next' = next \o new
      /\ nextLineage' = [x \in DOMAIN nextLineage \cup Article!Ids(new) |->
                            IF x \in Article!Ids(new) THEN Article!Merged(batch, o, x[3])
                            ELSE nextLineage[x]]
      /\ dropped' = dropped \o SetToSeq(Article!Merged(batch, o, 0))
      /\ rest' = SubSeq(rest, Len(batch) + 1, Len(rest))
      /\ batches' = batches + 1
  BY <1>4, <1>5 DEF Article!Take
<1>7. Taken(batch, o, size, c, new)
  BY <1>1, <1>2, <1>6 DEF Taken
<1> QED
  BY <1>7

\* A batch that is answered keeps the invariant: its outputs and what it drops partition its roots.
LEMMA TakeKeeps ==
    ASSUME CompilerInv, stage = "wave", NEW n \in 2 .. Len(rest),
           NEW batch, batch = SubSeq(rest, 1, n), NEW o \in Article!Outcomes(batch),
           NEW size \in 1 .. MapOut, Article!Take(batch, o, size),
           stage' = "wave", error' = error,
           UNCHANGED <<transcript, illustrated, topology, chunks, maps, items, waves, lineage>>
    PROVE  CompilerInv'
<1>0. PICK c, new : Taken(batch, o, size, c, new)
  BY TakeChanges
<1>1. /\ c = Cardinality(Article!Outputs(o))
      /\ new = NewList(batches, c, size)
      /\ next' = next \o new
      /\ nextLineage' = [x \in DOMAIN nextLineage \cup Article!Ids(new) |->
                            IF x \in Article!Ids(new) THEN Article!Merged(batch, o, x[3])
                            ELSE nextLineage[x]]
      /\ dropped' = dropped \o SetToSeq(Article!Merged(batch, o, 0))
      /\ rest' = SubSeq(rest, Len(batch) + 1, Len(rest))
      /\ batches' = batches + 1
  BY <1>0 DEF Taken
<1>2. PICK left : left = SubSeq(rest, n + 1, Len(rest))
  OBVIOUS
<1>3. /\ batch \in Seq(AnItem) /\ left \in Seq(AnItem) /\ Len(batch) = n /\ n \in Nat
      /\ Len(left) = Len(rest) - n /\ rest = batch \o left /\ DOMAIN batch = 1 .. n
  <2>1. rest \in Seq(AnItem) /\ n \in 0 .. Len(rest) /\ n \in Nat
    BY DuringWave
  <2>2. batch = SubSeq(rest, 1, n)
    OBVIOUS
  <2>3. /\ batch \in Seq(AnItem) /\ left \in Seq(AnItem) /\ Len(batch) = n
        /\ Len(left) = Len(rest) - n /\ rest = batch \o left
    BY ONLY <1>2, <2>1, <2>2, HeadAndRest
  <2>4. DOMAIN batch = 1 .. n
    BY ONLY <2>3
  <2> QED
    BY ONLY <2>1, <2>3, <2>4
<1>4. rest' = left
  BY <1>1, <1>2, <1>3
<1>5. /\ Article!Ids(rest) = Article!Ids(batch) \cup Article!Ids(left)
      /\ Distinct(batch) /\ Distinct(left) /\ Article!Ids(batch) \cap Article!Ids(left) = {}
      /\ Earlier(left, batches)
  <2>1. Distinct(rest) /\ Earlier(rest, batches)
    BY DuringWave
  <2>2. Distinct(batch \o left) /\ Earlier(batch \o left, batches)
    BY <1>3, <2>1
  <2>3. Article!Ids(batch \o left) = Article!Ids(batch) \cup Article!Ids(left)
    BY <1>3, IdsConcat
  <2> QED
    BY <1>3, <2>2, <2>3, IdsConcat
\* The outputs.
<1>6. c \in Nat /\ c >= 1 /\ c <= n - 1 /\ o \in [1 .. n -> 0 .. c]
  <2>1. PICK L : L = Article!Lesser(MaxItems, n - 1)
    OBVIOUS
  <2>2. L \in Nat /\ L <= n - 1
    BY <1>3, <2>1, Constants DEF Article!Lesser
  <2>3. PICK used : used = {o[i] : i \in 1 .. n} \ {0}
    OBVIOUS
  <2>4. o \in [1 .. n -> 0 .. L]
    BY <1>3, <2>1 DEF Article!Outcomes
  <2>5. used # {} /\ used = 1 .. Cardinality(used)
    BY <1>3, <2>3, ArticleSize DEF Article!Outcomes
  <2>6. c = Cardinality(used)
    BY <1>1, <2>3, <2>4 DEF Article!Outputs
  <2>7. Numbered(o, n, used, c)
    BY <2>3, <2>5, <2>6 DEF Numbered
  <2>8. c \in Nat /\ c >= 1 /\ c <= L /\ o \in [1 .. n -> 0 .. c]
    BY ONLY <1>3, <2>2, <2>4, <2>7, OutcomeNumbers
  <2> QED
    BY <1>3, <2>2, <2>8
<1>7. /\ new \in Seq(AnItem) /\ Len(new) = c /\ Distinct(new) /\ Earlier(new, batches + 1)
      /\ Article!Ids(new) = {<<1, batches, k>> : k \in 1 .. c}
  <2>1. batches \in Nat
    BY DuringWave
  <2> QED
    BY <1>1, <1>6, <2>1, NewItems
<1>8. /\ Article!Ids(new) \cap Article!Ids(rest) = {} /\ Article!Ids(new) \cap Article!Ids(next) = {}
      /\ Earlier(left, batches + 1) /\ Earlier(next, batches + 1)
  <2>1. /\ rest \in Seq(AnItem) /\ next \in Seq(AnItem) /\ batches \in Nat
        /\ Earlier(rest, batches) /\ Earlier(next, batches)
    BY DuringWave
  <2>2. /\ \A k : <<1, batches, k>> \notin Article!Ids(rest)
        /\ \A k : <<1, batches, k>> \notin Article!Ids(next)
        /\ Earlier(next, batches + 1) /\ Earlier(left, batches + 1)
    BY <1>3, <1>5, <2>1, NewIdsAreNew
  <2> QED
    BY <1>7, <2>2
<1>9. /\ next' \in Seq(AnItem) /\ Len(next') = Len(next) + c /\ Distinct(next')
      /\ Article!Ids(next') = Article!Ids(next) \cup Article!Ids(new) /\ Earlier(next', batches')
  <2>1. next \in Seq(AnItem) /\ Distinct(next)
    BY DuringWave
  <2>2. next \o new \in Seq(AnItem) /\ Len(next \o new) = Len(next) + c
    BY <1>7, <2>1
  <2>3. /\ Article!Ids(next \o new) = Article!Ids(next) \cup Article!Ids(new)
        /\ Distinct(next \o new) /\ Earlier(next \o new, batches + 1)
    BY <1>7, <1>8, <2>1, IdsConcat
  <2> QED
    BY <1>1, <2>2, <2>3
\* The roots.
<1>10. PICK h : h = [i \in 1 .. n |-> batch[i].id]
  OBVIOUS
<1>11. /\ \A i \in 1 .. n : h[i] = batch[i].id /\ h[i] \in Article!Ids(batch)
       /\ \A i, j \in 1 .. n : h[i] = h[j] => i = j
       /\ Article!Ids(batch) = Named(h, n)
  <2>1. \A i \in 1 .. n : h[i] = batch[i].id
    BY <1>10
  <2>2. Article!Ids(batch) = {batch[i].id : i \in 1 .. n}
    BY <1>3 DEF Article!Ids
  <2>3. Article!Ids(batch) = Named(h, n)
    BY <2>1, <2>2 DEF Named
  <2>4. \A i, j \in 1 .. n : batch[i].id = batch[j].id => i = j
    BY <1>3, <1>5 DEF Distinct
  <2> QED
    BY ONLY <2>1, <2>2, <2>3, <2>4
<1>12. PICK M : M = [k \in 0 .. c |-> Article!Merged(batch, o, k)]
  OBVIOUS
<1>32. PICK f, A : f = Held /\ A = Article!Ids(batch)
  OBVIOUS
<1>13. Splits(Article!Ids(rest) \cup Article!Ids(next), f, ToSet(dropped), Article!Roots)
  BY <1>32, DuringWave
<1>14. \A x \in A : f[x] = lineage[x] /\ x \in Article!Ids(rest)
  <2>1. \A x \in A : x \in Article!Ids(rest) \ Article!Ids(next)
    BY <1>5, <1>32, DuringWave
  <2> QED
    BY <1>32, <2>1, HeldFunction
<1>15. Gathers(M, f, h, o, n, c)
  <2> SUFFICES ASSUME NEW k \in 0 .. c PROVE M[k] = UNION {f[h[i]] : i \in {j \in 1 .. n : o[j] = k}}
    BY DEF Gathers
  <2>1. PICK sel : sel = {j \in 1 .. n : o[j] = k}
    OBVIOUS
  <2>2. M[k] = UNION {lineage[batch[i].id] : i \in sel}
    BY <1>3, <1>12, <2>1 DEF Article!Merged
  <2>3. \A i \in sel : lineage[batch[i].id] = f[h[i]]
    BY <1>11, <1>14, <1>32, <2>1
  <2>4. {lineage[batch[i].id] : i \in sel} = {f[h[i]] : i \in sel}
    BY ONLY <2>3
  <2> QED
    BY <2>1, <2>2, <2>4
<1>16. \A i, j \in 1 .. n : i # j => f[h[i]] \cap f[h[j]] = {}
  <2> SUFFICES ASSUME NEW i \in 1 .. n, NEW j \in 1 .. n, i # j PROVE f[h[i]] \cap f[h[j]] = {}
    OBVIOUS
  <2>1. h[i] # h[j] /\ h[i] \in Article!Ids(rest) /\ h[j] \in Article!Ids(rest)
    BY <1>11, <1>14, <1>32
  <2> QED
    BY <1>13, <2>1 DEF Splits
<1>17. /\ \A k, l \in 0 .. c : k # l => M[k] \cap M[l] = {}
       /\ \A r : r \in UNION {f[x] : x \in A} <=> \E k \in 0 .. c : r \in M[k]
  <2>1. n \in Nat /\ c \in Nat /\ o \in [1 .. n -> 0 .. c] /\ A = Named(h, n)
    BY <1>3, <1>6, <1>11, <1>32
  <2>2. Apart(f, h, n)
    BY <1>16 DEF Apart
  <2>3. (\A k, l \in 0 .. c : k # l => M[k] \cap M[l] = {}) /\ Exhausts(M, c, f, A)
    BY ONLY <1>15, <2>1, <2>2, MergedApart
  <2> QED
    BY <2>3 DEF Exhausts
<1>18. PICK X, N, E, g : /\ X = Article!Ids(rest) \cup Article!Ids(next) /\ N = Article!Ids(new)
                         /\ E = M[0] /\ g = Held'
  OBVIOUS
<1>19. ((X \ A) \cup N) = Article!Ids(rest') \cup Article!Ids(next')
  BY <1>4, <1>5, <1>9, <1>18, <1>32, DuringWave
<1>20. \A x \in X \ A : g[x] = f[x]
  <2> SUFFICES ASSUME NEW x \in X \ A PROVE g[x] = f[x]
    OBVIOUS
  <2>1. CASE x \in Article!Ids(next)
    <3>1. x \in DOMAIN nextLineage /\ x \notin Article!Ids(new) /\ x \in Article!Ids(next')
      BY <1>8, <1>9, <2>1, DuringWave
    <3>2. g[x] = nextLineage'[x]
      BY <1>18, <3>1, HeldNext
    <3>3. nextLineage'[x] = nextLineage[x]
      BY <1>1, <3>1
    <3> QED
      BY <1>32, <2>1, <3>2, <3>3, HeldFunction
  <2>2. CASE x \notin Article!Ids(next)
    <3>1. x \in Article!Ids(rest) /\ x \in Article!Ids(rest') /\ x \notin Article!Ids(next')
      BY <1>4, <1>5, <1>8, <1>9, <1>18, <1>32, <2>2
    <3>2. g[x] = lineage'[x]
      BY <1>18, <3>1, HeldNext
    <3> QED
      BY <1>32, <2>2, <3>1, <3>2, HeldFunction
  <2> QED
    BY <2>1, <2>2
<1>21. \A k \in 1 .. c : <<1, batches, k>> \in N /\ g[<<1, batches, k>>] = M[k]
  <2> SUFFICES ASSUME NEW k \in 1 .. c PROVE <<1, batches, k>> \in N /\ g[<<1, batches, k>>] = M[k]
    OBVIOUS
  <2>1. PICK x : x = <<1, batches, k>>
    OBVIOUS
  <2>2. x \in Article!Ids(new) /\ x[3] = k
    BY <1>7, <2>1
  <2>3. nextLineage'[x] = Article!Merged(batch, o, k)
    BY <1>1, <2>2
  <2>4. x \in Article!Ids(next')
    BY <1>9, <2>2
  <2>5. g[x] = nextLineage'[x]
    BY <1>18, <2>4, HeldNext
  <2>6. M[k] = Article!Merged(batch, o, k)
    BY <1>6, <1>12
  <2> QED
    BY <1>18, <2>1, <2>2, <2>3, <2>5, <2>6
<1>22. \A x \in N : \E k \in 1 .. c : x = <<1, batches, k>>
  BY <1>7, <1>18
<1>23. \A x, y \in N : x # y => g[x] \cap g[y] = {}
  <2> SUFFICES ASSUME NEW x \in N, NEW y \in N, x # y PROVE g[x] \cap g[y] = {}
    OBVIOUS
  <2>1. PICK k \in 1 .. c : x = <<1, batches, k>>
    BY <1>22
  <2>2. PICK l \in 1 .. c : y = <<1, batches, l>>
    BY <1>22
  <2>3. k # l /\ g[x] = M[k] /\ g[y] = M[l] /\ k \in 0 .. c /\ l \in 0 .. c
    BY <1>6, <1>21, <2>1, <2>2
  <2> QED
    BY <1>17, <2>3
<1>24. \A x \in N : g[x] \cap E = {}
  <2> SUFFICES ASSUME NEW x \in N PROVE g[x] \cap E = {}
    OBVIOUS
  <2>1. PICK k \in 1 .. c : x = <<1, batches, k>>
    BY <1>22
  <2>2. g[x] = M[k] /\ k # 0 /\ k \in 0 .. c /\ 0 \in 0 .. c
    BY <1>6, <1>21, <2>1
  <2> QED
    BY <1>17, <1>18, <2>2
<1>25. E \cup UNION {g[x] : x \in N} = UNION {f[x] : x \in A}
  <2>1. ASSUME NEW r PROVE r \in E \cup UNION {g[x] : x \in N} <=> \E k \in 0 .. c : r \in M[k]
    <3>1. r \in UNION {g[x] : x \in N} <=> \E x \in N : r \in g[x]
      BY ONLY Zenon
    <3>2. (\E x \in N : r \in g[x]) <=> \E k \in 1 .. c : r \in M[k]
      BY <1>21, <1>22
    <3>3. \A k : k \in 0 .. c <=> k = 0 \/ k \in 1 .. c
      BY <1>6
    <3>4. r \in E <=> r \in M[0]
      BY <1>18
    <3> QED
      BY ONLY <3>1, <3>2, <3>3, <3>4, Zenon
  <2>2. \A r : r \in E \cup UNION {g[x] : x \in N}
                 <=> r \in UNION {f[x] : x \in A}
    BY <1>17, <2>1
  <2> QED
    BY ONLY <2>2, Zenon
<1>26. /\ Splits((X \ A) \cup N, g, ToSet(dropped) \cup E, Article!Roots)
       /\ ToSet(dropped) \cap E = {} /\ E \subseteq Article!Roots
  <2>1. PICK D, R : D = ToSet(dropped) /\ R = Article!Roots
    OBVIOUS
  <2>2. Splits(X, f, D, R)
    BY <1>13, <1>18, <2>1
  <2>6. PICK Y : Y = (X \ A) \cup N
    OBVIOUS
  <2>7. Renamed(X, A, N, Y)
    BY <1>5, <1>8, <1>18, <1>32, <2>6 DEF Renamed
  <2>3. StandsFor(N, g, E, A, f)
    BY <1>23, <1>24, <1>25 DEF StandsFor
  <2>5. Agree(g, f, X, A)
    BY <1>20 DEF Agree
  <2>8. Splits(Y, g, D \cup E, R) /\ Leaves(D, E, R)
    BY ONLY <2>2, <2>3, <2>5, <2>7, SplitsAnew
  <2>4. Splits((X \ A) \cup N, g, D \cup E, R) /\ D \cap E = {} /\ E \subseteq R
    BY <2>6, <2>8 DEF Leaves
  <2> QED
    BY <2>1, <2>4
<1>27. /\ dropped' \in Seq(AnId) /\ ToSet(dropped') = ToSet(dropped) \cup E
       /\ Len(dropped') = Cardinality(ToSet(dropped'))
  <2>1. E = Article!Merged(batch, o, 0)
    BY <1>6, <1>12, <1>18
  <2>2. E \subseteq AnId /\ IsFiniteSet(E)
    BY <1>26, RootsType, DuringWave, FS_Subset DEF CompilerInv
  <2>3. PICK s : s = SetToSeq(E)
    OBVIOUS
  <2>4. s \in Seq(AnId) /\ ToSet(s) = E /\ Len(s) = Cardinality(E)
    BY <2>2, <2>3, SetInOrder
  <2>5. dropped' = dropped \o s /\ dropped \in Seq(AnId) /\ Len(dropped) = Cardinality(ToSet(dropped))
    BY <1>1, <2>1, <2>3, DuringWave
  <2>10. dropped \o s \in Seq(AnId) /\ Len(dropped \o s) = Len(dropped) + Len(s)
    <3>1. dropped \in Seq(AnId) /\ s \in Seq(AnId)
      BY <2>4, <2>5
    <3> QED
      BY ONLY <3>1
  <2>11. ToSet(dropped \o s) = ToSet(dropped) \cup ToSet(s)
    BY ONLY <2>4, <2>5, ElementsOfConcat
  <2>6. ToSet(dropped') = ToSet(dropped) \cup E /\ dropped' \in Seq(AnId)
        /\ Len(dropped') = Len(dropped) + Len(s)
    BY ONLY <2>4, <2>5, <2>10, <2>11
  <2>7. IsFiniteSet(ToSet(dropped))
    <3>1. ToSet(dropped) \subseteq Article!Roots
      BY <1>13 DEF Splits
    <3> QED
      BY <3>1, DuringWave, FS_Subset
  <2>8. Cardinality(ToSet(dropped) \cup E)
          = Cardinality(ToSet(dropped)) + Cardinality(E) - Cardinality({})
    BY <1>26, <2>2, <2>7, FS_Union
  <2>9. Cardinality({}) = 0 /\ Cardinality(E) \in Nat /\ Cardinality(ToSet(dropped)) \in Nat
    BY <2>2, <2>7, FS_EmptySet, FS_CardinalityType
  <2> QED
    BY <2>4, <2>5, <2>6, <2>8, <2>9
<1>28. Splits(Article!Ids(rest') \cup Article!Ids(next'), Held', ToSet(dropped'), Article!Roots)
  BY <1>18, <1>19, <1>26, <1>27
<1>29. Article!Ids(rest') \cap Article!Ids(next') = {} /\ Article!Ids(next') \subseteq DOMAIN nextLineage'
  <2>1. Article!Ids(rest) \cap Article!Ids(next) = {} /\ Article!Ids(next) \subseteq DOMAIN nextLineage
    BY DuringWave
  <2>2. DOMAIN nextLineage' = DOMAIN nextLineage \cup Article!Ids(new)
    BY <1>1
  <2> QED
    BY <1>4, <1>5, <1>8, <1>9, <2>1, <2>2
<1>30. Len(rest') + Len(next') < Len(items)
  <2>1. /\ Len(rest) \in Nat /\ Len(next) \in Nat /\ Len(items) \in Nat
        /\ Len(rest) + Len(next) <= Len(items)
    <3>1. /\ (rest = items /\ next = <<>> /\ Len(next) = 0) \/ Len(rest) + Len(next) < Len(items)
          /\ Len(rest) \in Nat /\ Len(next) \in Nat /\ Len(items) \in Nat
      BY DuringWave
    <3> QED
      BY <3>1
  <2> QED
    BY <1>3, <1>4, <1>6, <1>9, <2>1
<1>31. /\ rest' \in Seq(AnItem) /\ batches' \in Nat /\ Distinct(rest') /\ Earlier(rest', batches')
  <2>1. batches' = batches + 1 /\ batches \in Nat
    BY <1>1, DuringWave
  <2>2. Earlier(left, batches + 1)
    BY <1>8
  <2>3. Earlier(rest', batches')
    BY <1>4, <2>1, <2>2
  <2>4. rest' \in Seq(AnItem) /\ Distinct(rest')
    BY <1>3, <1>4, <1>5
  <2> QED
    BY <2>1, <2>3, <2>4
<1> QED
  BY <1>9, <1>27, <1>28, <1>29, <1>30, <1>31, WaveGoesOn

\* Consolidate keeps the invariant; its batch always fits.
LEMMA ConsolidateKeeps ==
    ASSUME CompilerInv, Article!Consolidate
    PROVE  CompilerInv'
<1>1. /\ stage = "wave" /\ Len(rest) >= 2
      /\ UNCHANGED <<transcript, illustrated, topology, chunks, maps, items, waves, lineage>>
  BY DEF Article!Consolidate, Article!plan
<1>2. PICK n \in 2 .. Len(rest) : Article!Batch = SubSeq(rest, 1, n) /\ Article!Fits(n)
  BY <1>1, BatchFits
<1>3. PICK batch : batch = Article!Batch
  OBVIOUS
<1>4. Len(batch) = n
  <2>1. rest \in Seq(AnItem) /\ n \in 0 .. Len(rest)
    BY <1>1, DuringWave
  <2> QED
    BY <1>2, <1>3, <2>1, HeadAndRest
<1>5. \/ \E o \in Article!Outcomes(batch), size \in 1 .. MapOut :
            Article!Take(batch, o, size) /\ Article!Answer("wave")
      \/ Article!Refused /\ UNCHANGED <<Article!wave, dropped>>
  BY <1>2, <1>3, <1>4 DEF Article!Consolidate
<1>6. CASE Article!Refused /\ UNCHANGED <<Article!wave, dropped>>
  <2>1. stage' = "failed" /\ error' = "response" /\ UNCHANGED <<rest, next, batches, dropped>>
    BY <1>6 DEF Article!Refused, Article!Raise, Article!wave
  <2>2. CompilerTypes'
    BY <1>1, <2>1, TypesStay DEF CompilerInv
  <2> QED
    BY <2>1, <2>2, FailureKeeps
<1>7. CASE \E o \in Article!Outcomes(batch), size \in 1 .. MapOut :
               Article!Take(batch, o, size) /\ Article!Answer("wave")
  <2>1. PICK o \in Article!Outcomes(batch), size \in 1 .. MapOut :
               Article!Take(batch, o, size) /\ Article!Answer("wave")
    BY <1>7
  <2>2. stage' = "wave" /\ error' = error
    BY <2>1 DEF Article!Answer
  <2>3. batch = SubSeq(rest, 1, n)
    BY <1>2, <1>3
  <2> QED
    BY <1>1, <2>1, <2>2, <2>3, TakeKeeps
<1> QED
  BY <1>5, <1>6, <1>7

-----------------------------------------------------------------------------
(* The article.                                                            *)

\* The ledger of the composer accounts for what its inputs stand for.
LEMMA LinesOf ==
    ASSUME NEW X, NEW D, NEW R, Splits(X, lineage, D, R), NEW V, NEW W,
           V \cup W = X, V \cap W = {}
    PROVE  /\ Article!Lines(V) \cup (Article!Lines(W) \cup D) = R
           /\ Article!Lines(V) \cap (Article!Lines(W) \cup D) = {}
<1>1. /\ \A x \in X : lineage[x] \cap D = {}
      /\ \A x, y \in X : x # y => lineage[x] \cap lineage[y] = {}
      /\ D \cup UNION {lineage[x] : x \in X} = R
  BY DEF Splits
<1>2. \A S, r : r \in Article!Lines(S) <=> \E x \in S : r \in lineage[x]
  BY Zenon DEF Article!Lines
<1>3. \A r : r \in UNION {lineage[x] : x \in X} <=> \E x \in X : r \in lineage[x]
  BY Zenon
<1>4. \A x : x \in X <=> x \in V \/ x \in W
  OBVIOUS
<1>5. \A r : r \in R <=> r \in D \/ \E x \in X : r \in lineage[x]
  BY ONLY <1>1, <1>3
<1>6. \A r : r \in Article!Lines(V) \cup (Article!Lines(W) \cup D) <=> r \in R
  BY ONLY <1>2, <1>4, <1>5
<1>7. \A r : ~(r \in Article!Lines(V) /\ r \in D)
  BY <1>1, <1>2
<1>8. \A r : ~(r \in Article!Lines(V) /\ r \in Article!Lines(W))
  <2> SUFFICES ASSUME NEW r, r \in Article!Lines(V), r \in Article!Lines(W) PROVE FALSE
    OBVIOUS
  <2>1. PICK x \in V : r \in lineage[x]
    BY <1>2
  <2>2. PICK y \in W : r \in lineage[y]
    BY <1>2
  <2>3. x # y /\ x \in X /\ y \in X
    OBVIOUS
  <2> QED
    BY <1>1, <2>1, <2>2, <2>3
<1>9. Article!Lines(V) \cup (Article!Lines(W) \cup D) = R
  BY ONLY <1>6, Zenon
<1> QED
  BY <1>7, <1>8, <1>9

\* The expansion of the ledger finds every root once.
LEMMA RootsCounted ==
    ASSUME CompilerTypes, Settled
    PROVE  Article!Total([i \in DOMAIN items |-> Article!Cardinality(lineage[items[i].id])]) + Len(dropped)
             = Article!Cardinality(Article!Roots)
<1>1. PICK n \in Nat : n = Len(items) /\ DOMAIN items = 1 .. n
  BY DEF CompilerTypes
<1>2. PICK S : S = [i \in 1 .. n |-> lineage[items[i].id]]
  OBVIOUS
<1>3. \A i \in 1 .. n : S[i] = lineage[items[i].id] /\ items[i].id \in Article!Ids(items)
  BY <1>1, <1>2 DEF Article!Ids
<1>4. /\ \A x \in Article!Ids(items) : lineage[x] \cap ToSet(dropped) = {}
      /\ \A x, y \in Article!Ids(items) : x # y => lineage[x] \cap lineage[y] = {}
      /\ ToSet(dropped) \cup UNION {lineage[x] : x \in Article!Ids(items)} = Article!Roots
      /\ IsFiniteSet(Article!Roots)
  BY DEF Settled, Splits
<1>5. \A i \in 1 .. n : IsFiniteSet(S[i])
  <2> SUFFICES ASSUME NEW i \in 1 .. n PROVE IsFiniteSet(S[i])
    OBVIOUS
  <2>1. S[i] \subseteq Article!Roots
    BY <1>3, <1>4
  <2> QED
    BY <1>4, <2>1, FS_Subset
<1>6. \A i, j \in 1 .. n : i # j => S[i] \cap S[j] = {}
  <2> SUFFICES ASSUME NEW i \in 1 .. n, NEW j \in 1 .. n, i # j PROVE S[i] \cap S[j] = {}
    OBVIOUS
  <2>1. items[i].id # items[j].id
    BY <1>1 DEF Settled, Distinct
  <2> QED
    BY <1>3, <1>4, <2>1
<1>7. PICK U : U = UNION {S[i] : i \in 1 .. n}
  OBVIOUS
<1>8. IsFiniteSet(U) /\ Total([i \in 1 .. n |-> Cardinality(S[i])]) = Cardinality(U)
  BY <1>5, <1>6, <1>7, DisjointTotal
<1>9. \A r : r \in U <=> \E x \in Article!Ids(items) : r \in lineage[x]
  <2>1. \A r : r \in U <=> \E i \in 1 .. n : r \in S[i]
    BY ONLY <1>7, Zenon
  <2>2. \A x : x \in Article!Ids(items) <=> \E i \in 1 .. n : x = items[i].id
    BY <1>1 DEF Article!Ids
  <2>3. ASSUME NEW r, NEW i \in 1 .. n, r \in S[i]
        PROVE  \E x \in Article!Ids(items) : r \in lineage[x]
    BY <1>3, <2>3
  <2>4. ASSUME NEW r, NEW x \in Article!Ids(items), r \in lineage[x]
        PROVE  \E i \in 1 .. n : r \in S[i]
    <3>1. PICK i \in 1 .. n : x = items[i].id
      BY <2>2
    <3>2. r \in S[i]
      BY <1>3, <2>4, <3>1
    <3> QED
      BY <3>2
  <2> QED
    BY ONLY <2>1, <2>3, <2>4, Zenon
<1>10. U \cup ToSet(dropped) = Article!Roots /\ U \cap ToSet(dropped) = {}
  <2>1. \A r : r \in UNION {lineage[x] : x \in Article!Ids(items)}
                <=> \E x \in Article!Ids(items) : r \in lineage[x]
    BY Zenon
  <2>2. UNION {lineage[x] : x \in Article!Ids(items)} = U
    BY ONLY <1>9, <2>1, Zenon
  <2> QED
    BY <1>4, <1>9, <2>2
<1>11. IsFiniteSet(ToSet(dropped))
  BY <1>4, <1>10, FS_Subset
<1>12. Cardinality(Article!Roots) = Cardinality(U) + Cardinality(ToSet(dropped)) - Cardinality({})
  BY <1>8, <1>10, <1>11, FS_Union
<1>13. /\ Cardinality({}) = 0 /\ Cardinality(U) \in Nat /\ Cardinality(ToSet(dropped)) \in Nat
       /\ Len(dropped) = Cardinality(ToSet(dropped))
  BY <1>8, <1>11, FS_EmptySet, FS_CardinalityType DEF Settled
<1>14. [i \in DOMAIN items |-> Article!Cardinality(lineage[items[i].id])] = [i \in 1 .. n |-> Cardinality(S[i])]
  BY <1>1, <1>3, ArticleSize
<1>15. Article!Total([i \in DOMAIN items |-> Article!Cardinality(lineage[items[i].id])]) = Cardinality(U)
  BY <1>8, <1>14, ArticleTotal
<1> QED
  BY <1>12, <1>13, <1>15, ArticleSize

\* The article accounts for its inputs, and the expansion of its ledger never fails.
LEMMA LedgerKept ==
    ASSUME CompilerInv, stage = "compose", NEW l \in Article!Ledgers(Article!Inputs)
    PROVE  /\ Article!Expandable(l)
           /\ Article!Expanded(l).covered \cup Article!Expanded(l).omitted = Article!Required
           /\ Article!Expanded(l).covered \cap Article!Expanded(l).omitted = {}
<1>1. PICK x : x \subseteq Article!Inputs /\ l = [covered |-> Article!Inputs \ x, omitted |-> x]
  BY DEF Article!Ledgers
<1>2. l.covered \cup l.omitted = Article!Inputs /\ l.covered \cap l.omitted = {}
  BY <1>1
<1>3. topology \in {"direct", "map", "hierarchy"} /\ CompilerTypes
  BY DEF CompilerInv, CompilerTypes
<1>4. CASE topology = "direct"
  <2>1. Article!Expandable(l) /\ Article!Expanded(l) = l /\ Article!Required = Article!Inputs
    BY <1>4 DEF Article!Expandable, Article!Expanded, Article!Required
  <2> QED
    BY <1>2, <2>1
<1>5. CASE topology = "map"
  <2>1. Article!Expandable(l) /\ Article!Expanded(l) = l /\ Article!Required = Article!Roots
    BY <1>5 DEF Article!Expandable, Article!Expanded, Article!Required
  <2>2. Article!Inputs = Article!Roots
    BY <1>5 DEF Article!Inputs, CompilerInv, ComposeInv
  <2> QED
    BY <1>2, <2>1, <2>2
<1>6. CASE topology = "hierarchy"
  <2>1. Settled
    BY <1>6 DEF CompilerInv, ItemsInv
  <2>2. Article!Inputs = Article!Ids(items) /\ Article!Required = Article!Roots
    BY <1>6 DEF Article!Inputs, Article!Required
  <2>3. Article!Expanded(l) = [covered |-> Article!Lines(l.covered),
                               omitted |-> Article!Lines(l.omitted) \cup ToSet(dropped)]
    BY <1>6, ArticleToSet DEF Article!Expanded
  <2>4. /\ Article!Expanded(l).covered = Article!Lines(l.covered)
        /\ Article!Expanded(l).omitted = Article!Lines(l.omitted) \cup ToSet(dropped)
    BY <2>3
  <2>5. PICK V, W : V = l.covered /\ W = l.omitted
    OBVIOUS
  <2>6. Splits(Article!Ids(items), lineage, ToSet(dropped), Article!Roots)
    BY <2>1 DEF Settled
  <2>7. V \cup W = Article!Ids(items) /\ V \cap W = {}
    BY <1>2, <2>2, <2>5
  <2>8. PICK X, D, R : X = Article!Ids(items) /\ D = ToSet(dropped) /\ R = Article!Roots
    OBVIOUS
  <2>9. /\ Article!Lines(V) \cup (Article!Lines(W) \cup D) = R
        /\ Article!Lines(V) \cap (Article!Lines(W) \cup D) = {}
    <3>1. Splits(X, lineage, D, R) /\ V \cup W = X /\ V \cap W = {}
      BY <2>6, <2>7, <2>8
    <3> QED
      BY ONLY <3>1, LinesOf
  <2>10. /\ Article!Expanded(l).covered \cup Article!Expanded(l).omitted = Article!Roots
         /\ Article!Expanded(l).covered \cap Article!Expanded(l).omitted = {}
    BY <2>4, <2>5, <2>8, <2>9
  <2>11. Article!Expandable(l)
    BY <1>3, <2>1, <2>10, RootsCounted DEF Article!Expandable
  <2> QED
    BY <2>2, <2>10, <2>11
<1> QED
  BY <1>3, <1>4, <1>5, <1>6

\* So does Compose: the expansion of the ledger accounts for every root.
LEMMA ComposeKeeps ==
    ASSUME CompilerInv, Article!Compose
    PROVE  CompilerInv'
<1>1. /\ stage = "compose"
      /\ UNCHANGED <<transcript, illustrated, topology, chunks, maps, items, lineage, rest, next, dropped,
                     batches, waves>>
      /\ \/ \E l \in Article!Ledgers(Article!Inputs) :
               IF Article!Expandable(l)
               THEN /\ coverage' = Article!Expanded(l)
                    /\ stage' = IF illustrated THEN "layout" ELSE "gate"
                    /\ UNCHANGED error
               ELSE Article!Raise("coverage") /\ UNCHANGED <<coverage, flaws>>
         \/ Article!Refused
  BY DEF Article!Compose, Article!plan, Article!wave
<1>2. CompilerTypes'
  BY <1>1, TypesStay DEF CompilerInv
<1>3. CASE Article!Refused
  <2>1. stage' = "failed" /\ error' = "response"
    BY <1>3 DEF Article!Refused, Article!Raise
  <2> QED
    BY <1>2, <2>1, FailureKeeps
<1>4. ASSUME NEW l \in Article!Ledgers(Article!Inputs),
             IF Article!Expandable(l)
             THEN /\ coverage' = Article!Expanded(l)
                  /\ stage' = IF illustrated THEN "layout" ELSE "gate"
                  /\ UNCHANGED error
             ELSE Article!Raise("coverage") /\ UNCHANGED <<coverage, flaws>>
      PROVE  CompilerInv'
  <2>1. /\ Article!Expandable(l)
        /\ Article!Expanded(l).covered \cup Article!Expanded(l).omitted = Article!Required
        /\ Article!Expanded(l).covered \cap Article!Expanded(l).omitted = {}
    BY <1>1, LedgerKept
  <2>2. /\ coverage' = Article!Expanded(l) /\ stage' \in {"layout", "gate"} /\ error' = error
    BY <1>4, <2>1
  <2>3. Article!Required' = Article!Required
    BY <1>1 DEF Article!Required, Article!Inputs, Article!Roots, Article!Root, Article!Chunks
  <2>4. CoverageInv'
    BY <2>1, <2>2, <2>3 DEF CoverageInv
  <2>5. PlanInv' /\ ErrorInv' /\ ItemsInv' /\ MergeInv' /\ ComposeInv'
    BY <1>1, <2>2 DEF CompilerInv, PlanInv, ErrorInv, ItemsInv, MergeInv, ComposeInv, Merging
  <2> QED
    BY <1>2, <2>4, <2>5 DEF CompilerInv
<1> QED
  BY <1>1, <1>3, <1>4

\* So does ComposeTooLarge, which only the analysis of frames brings about.
LEMMA ComposeTooLargeKeeps ==
    ASSUME CompilerInv, Article!ComposeTooLarge
    PROVE  CompilerInv'
<1>1. /\ stage = "compose" /\ Article!ComposeSize > Budget /\ stage' = "failed" /\ error' = "budget"
      /\ UNCHANGED <<transcript, illustrated, topology, chunks, maps, items, rest, next, dropped,
                     batches, waves>>
  BY DEF Article!ComposeTooLarge, Article!Raise, Article!plan, Article!wave
<1>2. illustrated
  <2> SUFFICES ASSUME ~illustrated PROVE FALSE
    OBVIOUS
  <2>1. Article!ComposeSize <= Budget /\ CompilerTypes
    BY <1>1 DEF CompilerInv, ComposeInv
  <2>2. PICK size : size = Article!ComposeSize
    OBVIOUS
  <2>3. size \in Int
    <3>1. Article!SizeOf(items) \in Nat
      BY <2>1, SizesType DEF CompilerTypes
    <3>2. Article!Total(transcript) \in Nat
      <4>1. transcript \in Seq(Nat \ {0})
        BY <2>1, Constants DEF CompilerTypes
      <4>2. transcript \in Seq(Nat)
        BY <4>1, SeqMonotonic
      <4> QED
        BY <4>2, ArticleTotal, TotalType
    <3> QED
      BY <2>2, <3>1, <3>2, Constants DEF Article!ComposeSize, Article!ComposerBase
  <2> QED
    BY <1>1, <2>1, <2>2, <2>3, Constants
<1>3. CompilerTypes'
  BY <1>1, TypesStay DEF CompilerInv
<1> QED
  BY <1>1, <1>2, <1>3, FailureKeeps

\* So do the steps that check, repair and review the article: the ledger stays.
LEMMA WritingStepsKeep ==
    ASSUME CompilerInv,
           \/ Article!BindRanges \/ Article!Pass \/ Article!RepairText \/ Article!GateFails
           \/ Article!Regated \/ Article!Review \/ Article!Finish
    PROVE  CompilerInv'
<1>1. /\ stage \in WritingStages
      /\ \/ stage' \in WritingStages /\ error' = error
         \/ stage' = "failed" /\ error' \in {"response", "layout", "quality", "identity"}
      /\ UNCHANGED <<transcript, illustrated, topology, expected, chunks, maps, items, rest, next, dropped,
                     batches, waves, coverage>>
  <2>1. CASE Article!BindRanges
    BY <2>1 DEF Article!BindRanges, Article!Repair, Article!Refused, Article!Raise, Article!plan, Article!wave,
                Article!account, WritingStages
  <2>2. CASE Article!RepairText
    BY <2>2 DEF Article!RepairText, Article!Repair, Article!Refused, Article!Raise, Article!plan, Article!wave,
                WritingStages
  <2>3. CASE Article!Pass \/ Article!Regated
    BY <2>3 DEF Article!Pass, Article!Regated, Article!AfterGate, Article!plan, Article!wave,
                Article!article, WritingStages
  <2>4. CASE Article!GateFails
    BY <2>4 DEF Article!GateFails, Article!Raise, Article!plan, Article!wave, Article!article, WritingStages
  <2>5. CASE Article!Review
    BY <2>5 DEF Article!Review, Article!Answer, Article!Refused, Article!Raise, Article!plan,
                Article!wave, Article!article, WritingStages
  <2>6. CASE Article!Finish
    BY <2>6 DEF Article!Finish, Article!Raise, Article!plan, Article!wave, Article!article, WritingStages
  <2> QED
    BY <2>1, <2>2, <2>3, <2>4, <2>5, <2>6
<1>2. CompilerTypes'
  BY <1>1, TypesStay DEF CompilerInv
<1> QED
  BY <1>1, <1>2, FailureKeeps, WritingKeeps

-----------------------------------------------------------------------------

\* The steps of the compiler keep its invariant.
LEMMA CompilerStepsKeep ==
    ASSUME CompilerInv, [Article!Next]_(Article!vars)
    PROVE  CompilerInv'
<1>1. CASE Article!Next
  BY <1>1, PrepareKeeps, EarlyStepsKeep, EndMapKeeps, CollectMapsKeeps, BeginWaveKeeps,
     LeaveConsolidationKeeps, PassSingleKeeps, ConsolidateKeeps, EndWaveKeeps, ComposeKeeps,
     ComposeTooLargeKeeps, WritingStepsKeep DEF Article!Next
<1>2. CASE UNCHANGED Article!vars
  <2>1. UNCHANGED <<transcript, illustrated, stage, topology, expected, chunks, maps, items, lineage, rest,
                    next, nextLineage, batches, waves, dropped, coverage, error>>
    BY <1>2 DEF Article!vars
  <2>2. CompilerTypes'
    BY <2>1, TypesStay DEF CompilerInv
  <2>3. Article!Roots' = Article!Roots /\ Article!Ids(items)' = Article!Ids(items)
        /\ Article!Ids(rest)' = Article!Ids(rest) /\ Article!Ids(next)' = Article!Ids(next)
        /\ ToSet(dropped)' = ToSet(dropped)
    BY <2>1, RootsStay DEF Article!Ids, ToSet
  <2>4. Held' = Held
    BY <2>1, <2>3 DEF Held
  <2>5. PlanInv' /\ ErrorInv'
    BY <2>1 DEF CompilerInv, PlanInv, ErrorInv, Merging
  <2>6. ItemsInv'
    BY <2>1, <2>3 DEF CompilerInv, ItemsInv, Settled, Splits, Distinct, Earlier
  <2>7. MergeInv'
    BY <2>1, <2>3, <2>4 DEF CompilerInv, MergeInv, Splits, Distinct, Earlier
  <2>8. ComposeInv'
    <3>1. Article!ComposeSize' = Article!ComposeSize
      BY <2>1 DEF Article!ComposeSize, Article!ComposerBase
    <3> QED
      BY <2>1, <2>3, <3>1 DEF CompilerInv, ComposeInv
  <2>9. CoverageInv'
    <3>1. Article!Required' = Article!Required
      BY <2>1, <2>3 DEF Article!Required, Article!Inputs
    <3> QED
      BY <2>1, <3>1 DEF CompilerInv, CoverageInv, WritingStages
  <2> QED
    BY <2>2, <2>5, <2>6, <2>7, <2>8, <2>9 DEF CompilerInv
<1> QED
  BY <1>1, <1>2

\* The compiler keeps its invariant.
THEOREM CompilerInvariant == Article!Spec => []CompilerInv
<1>1. Article!Init => CompilerInv
  BY StartKept
<1>2. CompilerInv /\ [Article!Next]_(Article!vars) => CompilerInv'
  BY CompilerStepsKeep
<1> QED
  BY <1>1, <1>2, PTL DEF Article!Spec

\* Every knowledge item of every chunk is covered or omitted, exactly once.
THEOREM RootsAlwaysAccounted == Article!Spec => []RootsAccounted
<1>1. CompilerInv => RootsAccounted
  BY DEF CompilerInv, ErrorInv, CoverageInv, WritingStages, RootsAccounted, Article!RootsAccounted
<1> QED
  BY <1>1, CompilerInvariant, PTL

\* What a plan accepted fits.
THEOREM CapacityIsKnownFirst == Article!Spec => []CapacityKnownFirst
<1>1. CompilerInv => CapacityKnownFirst
  BY DEF CompilerInv, ErrorInv, CapacityKnownFirst, Article!CapacityKnownFirst
<1> QED
  BY <1>1, CompilerInvariant, PTL

=============================================================================
