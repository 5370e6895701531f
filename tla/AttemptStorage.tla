---------------------------- MODULE AttemptStorage ---------------------------
(***************************************************************************)
(* The private files of a Job beside the store (FileAttemptStorage,        *)
(* adapters/jobs/file_attempt_storage.py): the payload of a step's         *)
(* checkpoint, and events.jsonl, the projection of the Job's events.  The  *)
(* store is the truth for both.                                            *)
(*                                                                         *)
(* One step of one Job is modelled.  Executions run it one after another,  *)
(* each fencing the one before, and an overtaken execution goes on.  A     *)
(* payload is named by the execution that produced it; a projection is a   *)
(* prefix of the events, named by its length.                              *)
(***************************************************************************)
EXTENDS Naturals, FiniteSets

CONSTANTS
    MaxExecutions,  \* bound on executions of the step
    MaxPowerLosses, \* bound on losses of what the directory had not yet on disk
    Publishers,     \* callers of append_event and reconcile_event_projection
    MaxEvents,      \* bound on the events of the Job
    MaxCrashes      \* bound on publishers killed

StorageAssumption == {MaxExecutions, MaxPowerLosses, MaxEvents, MaxCrashes} \subseteq Nat

VARIABLES
    phase,      \* each execution of the step: how far it is
    current,    \* the execution whose fencing token the Job's claim carries
    files,      \* the payload files: path -> content
    durable,    \* paths whose directory entry is on disk
    recorded,   \* the checkpoint rows, by execution
    used,       \* for each execution, the content it took for the step's result
    publisher,  \* each publisher: phase and the length of the list it read
    events,     \* number of events in the store
    projection, \* length of events.jsonl
    returned,   \* auxiliary: the largest event whose append_event returned
    torn,       \* auxiliary: a publisher was killed since the last write
    budget

checkpointVars == <<phase, current, files, durable, recorded, used>>
projectionVars == <<publisher, events, projection, returned, torn>>
vars == <<checkpointVars, projectionVars, budget>>

Executions == 1 .. MaxExecutions
NoExecution == 0
Listening == [phase |-> "idle", last |-> 0, own |-> 0]

Init ==
    /\ phase = [e \in Executions |-> "new"] /\ current = NoExecution
    /\ files = [e \in Executions |-> NoExecution] /\ durable = {} /\ recorded = {}
    /\ used = [e \in Executions |-> NoExecution]
    /\ publisher = [p \in Publishers |-> Listening]
    /\ events = 0 /\ projection = 0 /\ returned = 0 /\ torn = FALSE
    /\ budget = [losses |-> MaxPowerLosses, crashes |-> MaxCrashes]

Goto(e, p) == phase' = [phase EXCEPT ![e] = p]

-----------------------------------------------------------------------------
(* Checkpoints.                                                            *)

\* Mutant: one file for all executions of the step.
PathOfStep(e) == 1

\* The file is named by a checkpoint id made for this execution.
Path(e) == e

Latest == CHOOSE e \in recorded : \A f \in recorded : f <= e

\* validate_checkpoint: the latest row, and a file with its content.
Reusable == recorded # {} /\ files[Path(Latest)] = Latest

\* A new execution of the step begins and fences the one before.
Enter(e) ==
    /\ phase[e] = "new" /\ e = current + 1 /\ current' = e
    /\ IF Reusable
       THEN Goto(e, "done") /\ used' = [used EXCEPT ![e] = files[Path(Latest)]]
       ELSE Goto(e, "acting") /\ UNCHANGED used
    /\ UNCHANGED <<files, durable, recorded, projectionVars, budget>>

\* The step has run; its payload is written, synced and moved to its name, whose
\* directory entry reaches the disk later.
Replace(e) ==
    /\ phase[e] = "acting" /\ Goto(e, "replaced")
    /\ files' = [files EXCEPT ![Path(e)] = e] /\ durable' = durable \ {Path(e)}
    /\ UNCHANGED <<current, recorded, used, projectionVars, budget>>

\* record_checkpoint, refused without the current token.
Record(e) ==
    /\ phase[e] = "replaced" /\ current = e /\ Goto(e, "done")
    /\ recorded' = recorded \cup {e} /\ used' = [used EXCEPT ![e] = e]
    /\ UNCHANGED <<current, files, durable, projectionVars, budget>>

RecordRefused(e) ==
    /\ phase[e] = "replaced" /\ current # e /\ Goto(e, "failed")
    /\ UNCHANGED <<current, files, durable, recorded, used, projectionVars, budget>>

\* The directory is written back, or the power fails before it is: any entry that
\* was not on disk may be gone, and every execution with it.
WriteBack ==
    /\ durable' = {e \in Executions : files[e] # NoExecution} /\ durable' # durable
    /\ UNCHANGED <<phase, current, files, recorded, used, projectionVars, budget>>

PowerFails ==
    /\ budget.losses > 0 /\ budget' = [budget EXCEPT !.losses = @ - 1]
    /\ \E lost \in SUBSET {e \in Executions : files[e] # NoExecution /\ e \notin durable} :
          files' = [e \in Executions |-> IF e \in lost THEN NoExecution ELSE files[e]]
    /\ phase' = [e \in Executions |-> IF phase[e] \in {"acting", "replaced"} THEN "failed"
                                      ELSE phase[e]]
    /\ UNCHANGED <<current, durable, recorded, used, projectionVars>>

-----------------------------------------------------------------------------
(* The projection.                                                         *)

Step(p, to) == publisher' = [publisher EXCEPT ![p].phase = to]

\* append_event: the store numbers the event first.
Append(p) ==
    /\ publisher[p].phase = "idle" /\ events < MaxEvents /\ events' = events + 1
    /\ publisher' = [publisher EXCEPT ![p] = [@ EXCEPT !.phase = "list", !.own = events + 1]]
    /\ UNCHANGED <<checkpointVars, projection, returned, torn, budget>>

\* reconcile_event_projection
Reconcile(p) ==
    /\ publisher[p].phase = "idle" /\ Step(p, "list")
    /\ UNCHANGED <<checkpointVars, events, projection, returned, torn, budget>>

\* The store records an event of its own, without the projection.
StoreAppends ==
    /\ events < MaxEvents /\ events' = events + 1
    /\ UNCHANGED <<checkpointVars, publisher, projection, returned, torn, budget>>

List(p) ==
    /\ publisher[p].phase = "list"
    /\ publisher' = [publisher EXCEPT ![p] = [@ EXCEPT !.phase = "listed", !.last = events]]
    /\ UNCHANGED <<checkpointVars, events, projection, returned, torn, budget>>

\* _write_projection replaces the file by the list that was read.
WriteProjection(p) ==
    /\ publisher[p].phase = "listed" /\ Step(p, "written")
    /\ projection' = publisher[p].last /\ torn' = FALSE
    /\ UNCHANGED <<checkpointVars, events, returned, budget>>

Return(p) ==
    /\ publisher' = [publisher EXCEPT ![p] = Listening]
    /\ returned' = IF publisher[p].own > returned THEN publisher[p].own ELSE returned

\* Mutant: the list is not read again.
CheckNothing(p) ==
    /\ publisher[p].phase = "written" /\ Return(p)
    /\ UNCHANGED <<checkpointVars, events, projection, torn, budget>>

\* _publish_until_caught_up ends when no event came after the list it wrote.
Check(p) ==
    /\ publisher[p].phase = "written"
    /\ IF events > publisher[p].last THEN Step(p, "list") /\ UNCHANGED returned ELSE Return(p)
    /\ UNCHANGED <<checkpointVars, events, projection, torn, budget>>

PublisherDies(p) ==
    /\ publisher[p].phase # "idle" /\ budget.crashes > 0
    /\ budget' = [budget EXCEPT !.crashes = @ - 1]
    /\ publisher' = [publisher EXCEPT ![p] = Listening]
    /\ torn' = TRUE
    /\ UNCHANGED <<checkpointVars, events, projection, returned>>

RunStep(e) == Enter(e) \/ Replace(e) \/ Record(e) \/ RecordRefused(e)
Publish(p) == List(p) \/ WriteProjection(p) \/ Check(p)

CheckpointNext == (\E e \in Executions : RunStep(e)) \/ WriteBack \/ PowerFails

ProjectionNext ==
    \/ StoreAppends
    \/ \E p \in Publishers : Append(p) \/ Reconcile(p) \/ Publish(p) \/ PublisherDies(p)

Next == CheckpointNext \/ ProjectionNext

Spec == Init /\ [][Next]_vars

\* A publisher goes on.
FairSpec == Spec /\ \A p \in Publishers : WF_vars(Publish(p))

-----------------------------------------------------------------------------
(* Properties.                                                             *)

\* Types.
TypeOK ==
    /\ phase \in [Executions -> {"new", "acting", "replaced", "done", "failed"}]
    /\ current \in 0 .. MaxExecutions /\ recorded \subseteq Executions
    /\ files \in [Executions -> 0 .. MaxExecutions] /\ durable \subseteq Executions
    /\ used \in [Executions -> 0 .. MaxExecutions]
    /\ publisher \in [Publishers -> [phase : {"idle", "list", "listed", "written"},
                                     last : 0 .. MaxEvents, own : 0 .. MaxEvents]]
    /\ events \in 0 .. MaxEvents /\ projection \in 0 .. events /\ returned \in 0 .. events
    /\ \A e \in Executions : phase[e] = "new" <=> e > current

\* As long as the power holds, a recorded checkpoint can be reused, whatever an
\* overtaken execution writes late and whoever dies between the file and the row.
RecordedIsReusable ==
    budget.losses = MaxPowerLosses => \A e \in recorded : files[Path(e)] = e

\* An execution that takes the step as done has the content of a recorded
\* checkpoint, also when the file of the latest row was lost.
UsedIsRecorded ==
    \A e \in Executions : phase[e] = "done" => used[e] \in recorded

\* When no call is running, events.jsonl holds every event whose append returned,
\* unless a publisher was killed since the last write.
ProjectionCaughtUp ==
    (\A p \in Publishers : publisher[p].phase = "idle") /\ ~torn => projection >= returned

\* A publisher that others keep overtaking returns once the events stop.
CallsReturn ==
    \A p \in Publishers : publisher[p].phase # "idle" ~> publisher[p].phase = "idle"
=============================================================================
