------------------------------ MODULE NoteTask ------------------------------
(***************************************************************************)
(* A note task of the legacy backend and its two clients.                  *)
(*                                                                         *)
(* POST /generate_note writes PENDING into <task>.status.json and queues   *)
(* run_note_task; the run reports its phases through the same file, writes *)
(* SUCCESS, and only then its note into <task>.json                        *)
(* (backend/app/routers/note.py, services/note.py).  GET /task_status      *)
(* reads the two files.  The web client (useTaskPolling, taskStore) polls  *)
(* every three seconds until the task is settled and can retry it under    *)
(* the same identifier; the browser extension polls one request after the  *)
(* other.                                                                  *)
(*                                                                         *)
(* The module follows one task.  A status is written in three steps (open  *)
(* the temporary file, write, rename it); what two writers do to the same  *)
(* temporary file is that of POSIX: a rename moves the file that the other *)
(* writer still has open.                                                  *)
(***************************************************************************)
EXTENDS Naturals, Sequences, FiniteSets

CONSTANTS
  Runs,          \* the submissions of the task: the first and its retries
  Polls,         \* requests of the web client that may be in flight at once
  MaxWorkers,    \* TASK_MAX_WORKERS
  MaxRestarts,   \* bound: restarts of the backend
  MaxVersions,   \* bound: versions after which the web client polls no more
  Extension,     \* TRUE: the extension watches the task too
  NoNote

WorkersAssumption == MaxWorkers \in Nat \ {0} /\ Extension \in BOOLEAN

VARIABLES
  run,       \* run[r]: where submission r is
  status,    \* the text in <task>.status.json
  tmp,       \* the text in <task>.status.tmp
  result,    \* <task>.json: NoNote, "partial", or the run that wrote it
  shown,     \* the status of the task in the web client
  versions,  \* the notes of the task in the web client, newest first
  poll,      \* poll[k]: one request of the web client
  ext,       \* the extension: the status it shows, and whether it polls
  restarts

vars == <<run, status, tmp, result, shown, versions, poll, ext, restarts>>

----------------------------------------------------------------------------
(* Status texts, shortest first; FAILED carries a message.                 *)
Reported == <<"SAVING", "PENDING", "PARSING", "SUCCESS", "DOWNLOADING", "TRANSCRIBING", "FAILED">>
Size(text) ==
  CASE text = "" -> 0
    [] text = "SAVING" -> 6
    [] text \in {"PENDING", "PARSING", "SUCCESS"} -> 7
    [] text = "DOWNLOADING" -> 11
    [] text = "TRANSCRIBING" -> 12
    [] OTHER -> 13

(* Text written at the start of a file that holds old: the tail of a       *)
(* longer one stays and the file is no JSON any more.                      *)
Over(old, text) == IF Size(old) > Size(text) THEN "garbage" ELSE text

Settled(s) == s \in {"SUCCESS", "FAILED"}

Idle == [at |-> "unsent", io |-> "done", file |-> "none"]
NoPoll == [at |-> "idle", seen |-> "none", answer |-> "none", note |-> NoNote]

Init ==
  /\ run = [r \in Runs |-> Idle]
  /\ status = "none" /\ tmp = "none" /\ result = NoNote
  /\ shown = "none" /\ versions = <<>>
  /\ poll = [k \in Polls |-> NoPoll]
  /\ ext = [status |-> "none", on |-> FALSE]
  /\ restarts = 0

Files == <<status, tmp, result>>
Web == <<shown, versions, poll>>

----------------------------------------------------------------------------
(* _update_status                                                          *)

Open(r) ==
  /\ run[r].io = "open"
  /\ tmp' = ""
  /\ run' = [run EXCEPT ![r].io = "write", ![r].file = "tmp"]
  /\ UNCHANGED <<status, result, Web, ext, restarts>>

(* The buffer is written when the file is closed, wherever a rename of the *)
(* other writer has moved the file meanwhile.                              *)
Write(r) ==
  /\ run[r].io = "write"
  /\ tmp' = IF run[r].file = "tmp" THEN Over(tmp, run[r].at) ELSE tmp
  /\ status' = IF run[r].file = "status" THEN Over(status, run[r].at) ELSE status
  /\ run' = [run EXCEPT ![r].io = "rename", ![r].file = "none"]
  /\ UNCHANGED <<result, Web, ext, restarts>>

Moved == [tmp |-> "status", status |-> "gone", gone |-> "gone", none |-> "none"]

(* Without a temporary file the rename fails, and the text of that error   *)
(* is written into the status file.                                        *)
Rename(r) ==
  /\ run[r].io = "rename"
  /\ IF tmp = "none"
     THEN /\ status' = "garbage"
          /\ run' = [run EXCEPT ![r].io = "done"]
     ELSE /\ status' = tmp
          /\ run' = [q \in Runs |-> [run[q] EXCEPT !.file = Moved[@],
                                     !.io = IF q = r THEN "done" ELSE @]]
  /\ tmp' = "none"
  /\ UNCHANGED <<result, Web, ext, restarts>>

(* The run begins to report phase p.                                       *)
Report(r, p) == run' = [run EXCEPT ![r].at = p, ![r].io = "open"]
At(r, p) == run[r].at = p /\ run[r].io = "done"

----------------------------------------------------------------------------
(* generate_note                                                           *)

Accept(r) ==
  /\ At(r, "sent")
  /\ Report(r, "PENDING")
  /\ UNCHANGED <<Files, Web, ext, restarts>>

(* The reply, and with it the background task.  An answer that is lost     *)
(* leaves the client as it was: the retry reports an error only.           *)
Replied(r, got) ==
  /\ At(r, "PENDING")
  /\ run' = [run EXCEPT ![r].at = "queued"]
  /\ shown' = IF got THEN "PENDING" ELSE shown
  /\ ext' = IF Extension /\ got /\ shown = "none" THEN [status |-> "PENDING", on |-> TRUE] ELSE ext
  /\ UNCHANGED <<Files, versions, poll, restarts>>
Reply(r) == Replied(r, TRUE)
LoseReply(r) == Replied(r, FALSE)

----------------------------------------------------------------------------
(* NoteGenerator.generate in the executor                                  *)

Generating == {"PARSING", "DOWNLOADING", "TRANSCRIBING", "SUMMARIZING", "SAVING", "SUCCESS", "FAILED"}
Busy == {r \in Runs : run[r].at \in Generating}

Begin(r) ==
  /\ At(r, "queued")
  /\ Cardinality(Busy) < MaxWorkers
  /\ Report(r, "PARSING")
  /\ UNCHANGED <<Files, Web, ext, restarts>>

Download(r) ==
  /\ At(r, "PARSING")
  /\ Report(r, "DOWNLOADING")
  /\ UNCHANGED <<Files, Web, ext, restarts>>

(* Only without subtitles or a cached transcript.                          *)
Transcribe(r) ==
  /\ At(r, "DOWNLOADING")
  /\ Report(r, "TRANSCRIBING")
  /\ UNCHANGED <<Files, Web, ext, restarts>>

(* SUMMARIZING is reported for the stem of the Markdown cache,             *)
(* <task>_markdown, whose status file nobody reads.                        *)
Summarize(r) ==
  /\ At(r, "DOWNLOADING") \/ At(r, "TRANSCRIBING")
  /\ run' = [run EXCEPT ![r].at = "SUMMARIZING"]
  /\ UNCHANGED <<Files, Web, ext, restarts>>

Save(r) ==
  /\ At(r, "SUMMARIZING")
  /\ Report(r, "SAVING")
  /\ UNCHANGED <<Files, Web, ext, restarts>>

Succeed(r) ==
  /\ At(r, "SAVING")
  /\ Report(r, "SUCCESS")
  /\ UNCHANGED <<Files, Web, ext, restarts>>

(* Any exception of the phases.                                            *)
Fail(r) ==
  /\ \E p \in {"PARSING", "DOWNLOADING", "TRANSCRIBING", "SUMMARIZING"} : At(r, p)
  /\ Report(r, "FAILED")
  /\ UNCHANGED <<Files, Web, ext, restarts>>

EndFailed(r) ==
  /\ At(r, "FAILED")
  /\ run' = [run EXCEPT ![r].at = "failed"]
  /\ UNCHANGED <<Files, Web, ext, restarts>>

(* run_note_task: save_note_to_file truncates the file, then fills it.     *)
OpenNote(r) ==
  /\ At(r, "SUCCESS")
  /\ result' = "partial"
  /\ run' = [run EXCEPT ![r].at = "note"]
  /\ UNCHANGED <<status, tmp, Web, ext, restarts>>

WriteNote(r) ==
  /\ At(r, "note")
  /\ result' = r
  /\ run' = [run EXCEPT ![r].at = "saved"]
  /\ UNCHANGED <<status, tmp, Web, ext, restarts>>

----------------------------------------------------------------------------
(* get_task_status.  "error" stands for an error response of any kind: the *)
(* status FAILED is one (R.error), an exception of the handler another.    *)

StatusAnswer ==
  CASE status \in {"", "garbage", "FAILED"} -> "error"
    [] status = "none" -> "PENDING"
    [] OTHER -> status

(* Mutant: a half-written note is answered as it is.                       *)
ResultAnswerAnyway == IF result = NoNote THEN "PENDING" ELSE "SUCCESS"

(* The second file, read after SUCCESS was found in the first.             *)
ResultAnswer ==
  CASE result = NoNote -> "PENDING"
    [] result = "partial" -> "error"
    [] OTHER -> "SUCCESS"

AnswerStatus(k) ==
  /\ poll[k].at = "asked"
  /\ poll' = [poll EXCEPT ![k] =
       [at |-> IF StatusAnswer = "SUCCESS" THEN "reading" ELSE "answered", seen |-> @.seen,
        answer |-> StatusAnswer, note |-> @.note]]
  /\ UNCHANGED <<run, Files, shown, versions, ext, restarts>>

AnswerResult(k) ==
  /\ poll[k].at = "reading"
  /\ poll' = [poll EXCEPT ![k] =
       [at |-> "answered", seen |-> @.seen, answer |-> ResultAnswer, note |-> result]]
  /\ UNCHANGED <<run, Files, shown, versions, ext, restarts>>

----------------------------------------------------------------------------
(* The web client.                                                         *)

(* The first submission, or retryTask; the form does not submit while the  *)
(* task is shown as being generated.                                       *)
Send(r) ==
  /\ run[r].at = "unsent"
  /\ \/ shown = "none" /\ \A q \in Runs : run[q].at = "unsent"
     \/ Settled(shown)
  /\ run' = [run EXCEPT ![r].at = "sent"]
  /\ UNCHANGED <<Files, Web, ext, restarts>>

Tick(k) ==
  /\ poll[k].at = "idle"
  /\ shown # "none" /\ ~Settled(shown)
  /\ Len(versions) < MaxVersions
  /\ poll' = [poll EXCEPT ![k] = [NoPoll EXCEPT !.at = "asked", !.seen = shown]]
  /\ UNCHANGED <<run, Files, shown, versions, ext, restarts>>

(* updateTaskContent: the note is a new version unless the task is shown   *)
(* as SUCCESS already.                                                     *)
Update(s, note) ==
  /\ shown' = s
  /\ versions' = IF s = "SUCCESS" /\ shown # "SUCCESS" THEN <<note>> \o versions ELSE versions

(* An error of any kind marks the task failed; another status than the one *)
(* seen when asking is taken over, with the note if there is one.          *)
Deliver(k) ==
  /\ poll[k].at = "answered"
  /\ CASE poll[k].answer = "error" -> Update("FAILED", NoNote)
       [] poll[k].answer = poll[k].seen -> UNCHANGED <<shown, versions>>
       [] OTHER -> Update(poll[k].answer, poll[k].note)
  /\ poll' = [poll EXCEPT ![k] = NoPoll]
  /\ UNCHANGED <<run, Files, ext, restarts>>

(* A timeout or a broken connection.                                       *)
LosePoll(k) ==
  /\ poll[k].at \in {"asked", "answered"}
  /\ shown' = "FAILED"
  /\ poll' = [poll EXCEPT ![k] = NoPoll]
  /\ UNCHANGED <<run, Files, versions, ext, restarts>>

----------------------------------------------------------------------------
(* The extension: one request at a time; an error response throws, is      *)
(* shown as a message and polled again.                                    *)
ExtPoll ==
  /\ ext.on
  /\ LET a == IF StatusAnswer = "SUCCESS" THEN ResultAnswer ELSE StatusAnswer
     IN  /\ a # "error"
         /\ ext' = [status |-> a, on |-> a \notin {"SUCCESS", "FAILED"}]
  /\ UNCHANGED <<run, Files, Web, restarts>>

(* The backend restarts: the executor's queue and threads are gone.        *)
Restart ==
  /\ restarts < MaxRestarts
  /\ restarts' = restarts + 1
  /\ run' = [r \in Runs |->
       IF run[r].at \in {"unsent", "saved", "failed"} THEN run[r]
       ELSE [Idle EXCEPT !.at = "killed"]]
  /\ poll' = [k \in Polls |-> IF poll[k].at = "idle" THEN poll[k]
                              ELSE [poll[k] EXCEPT !.at = "answered", !.answer = "error"]]
  /\ UNCHANGED <<Files, shown, versions, ext>>

RunStep(r) ==
  \/ Open(r) \/ Write(r) \/ Rename(r)
  \/ Accept(r) \/ Reply(r) \/ LoseReply(r)
  \/ Begin(r) \/ Download(r) \/ Transcribe(r) \/ Summarize(r) \/ Save(r) \/ Succeed(r)
  \/ Fail(r) \/ EndFailed(r)
  \/ OpenNote(r) \/ WriteNote(r)

PollStep(k) == Tick(k) \/ AnswerStatus(k) \/ AnswerResult(k) \/ Deliver(k) \/ LosePoll(k)

Next ==
  \/ \E r \in Runs : Send(r) \/ RunStep(r)
  \/ \E k \in Polls : PollStep(k)
  \/ ExtPoll
  \/ Restart

Spec == Init /\ [][Next]_vars

(* The threads of the backend and the timers of the clients go on; a       *)
(* request is answered or times out after ten seconds.                     *)
FairSpec ==
  /\ Spec
  /\ \A r \in Runs : WF_vars(RunStep(r))
  /\ \A k \in Polls : WF_vars(Tick(k)) /\ WF_vars(AnswerStatus(k) \/ AnswerResult(k) \/ Deliver(k))
  /\ WF_vars(ExtPoll)

----------------------------------------------------------------------------
(* Properties                                                              *)

Texts == {"none", "", "garbage", "PENDING", "PARSING", "DOWNLOADING", "TRANSCRIBING", "SAVING",
          "SUCCESS", "FAILED"}
Notes == Runs \union {NoNote, "partial"}

TypeOK ==
  /\ run \in [Runs -> [at : Generating \union {"unsent", "sent", "PENDING", "queued", "note",
                                               "saved", "failed", "killed"},
                       io : {"open", "write", "rename", "done"},
                       file : {"none", "tmp", "status", "gone"}]]
  /\ status \in Texts /\ tmp \in Texts /\ result \in Notes
  /\ shown \in Texts \ {"", "garbage"}
  /\ versions \in Seq(Runs \union {"partial"})
  /\ poll \in [Polls -> [at : {"idle", "asked", "reading", "answered"}, seen : Texts,
                         answer : Texts \union {"error"}, note : Notes]]
  /\ ext \in [status : Texts, on : BOOLEAN] /\ restarts \in 0..MaxRestarts

(* Whatever is half-written, cut off by a restart or overtaken by a retry, *)
(* the client shows complete notes only, and SUCCESS only with one.        *)
ShownNotesAreComplete ==
  /\ \A i \in 1..Len(versions) : versions[i] \in Runs
  /\ shown = "SUCCESS" => versions # <<>>

(* Without a second request in flight, a task the client shows as settled  *)
(* stays as it is until the retry of it is answered.                       *)
SettledUntilRetried ==
  [][Settled(shown) /\ shown' # shown => \E r \in Runs : At(r, "PENDING") /\ run'[r].at = "queued"]_vars

(* The client stops waiting for every task it shows.                       *)
EveryTaskSettles == shown = "PENDING" ~> Settled(shown)

(* "In theory this does not happen": a task with status SUCCESS whose note *)
(* is not in its file.                                                     *)
SuccessHasNote == status = "SUCCESS" => result # NoNote

(* The temporary file and the rename are there to make a status atomic:    *)
(* a status file, once there, holds a status.                              *)
StatusIsWhole == status \notin {"", "garbage"}

(* The extension polls until the task is SUCCESS or FAILED.                *)
ExtensionStops == ext.on ~> ~ext.on
=============================================================================
