---------------------------- MODULE MCPublication ----------------------------
(***************************************************************************)
(* PortablePublish, SourceIdentity and AttemptStorage for TLC: what a Job  *)
(* leaves behind outside its row.  A behaviour moves the component `part'  *)
(* names; the others stay in their initial state.                          *)
(***************************************************************************)
EXTENDS PortablePublish, TLC

CONSTANTS
    SourceJobs, MaxRollbacks, MaxLosses,      \* of SourceIdentity
    MaxExecutions, MaxPowerLosses, MaxEvents  \* of AttemptStorage

VARIABLES
    part,
    phase, candidate, binding, source, known, cache, bundles, lost, writer, sourceBudget,
    execution, current, payloads, durable, recorded, used, publisher, events, projection,
    returned, torn, storageBudget

-----------------------------------------------------------------------------
(* Jobs of one source.                                                     *)
Source == INSTANCE SourceIdentity WITH Jobs <- SourceJobs, budget <- sourceBudget

(* Executions of a step of one Job, and processes that project its events. *)
Storage == INSTANCE AttemptStorage WITH
    Publishers <- Procs, phase <- execution, files <- payloads, budget <- storageBudget

ASSUME PublicationAssumption == Source!SourceAssumption /\ Storage!StorageAssumption

-----------------------------------------------------------------------------
sourceVars ==
    <<phase, candidate, binding, source, known, cache, bundles, lost, writer, sourceBudget>>
storageVars ==
    <<execution, current, payloads, durable, recorded, used, publisher, events, projection,
      returned, torn, storageBudget>>

PublicationInit ==
    /\ part \in {"source", "checkpoints", "projection", "publish"}
    /\ Source!Init /\ Storage!Init /\ Init

SourceMoves == part = "source" /\ Source!Next /\ UNCHANGED <<part, storageVars, vars>>
CheckpointMoves ==
    part = "checkpoints" /\ Storage!CheckpointNext /\ UNCHANGED <<part, sourceVars, vars>>
ProjectionMoves ==
    part = "projection" /\ Storage!ProjectionNext /\ UNCHANGED <<part, sourceVars, vars>>
PublishMoves == part = "publish" /\ Next /\ UNCHANGED <<part, sourceVars, storageVars>>

PublicationNext ==
    SourceMoves \/ CheckpointMoves \/ ProjectionMoves \/ PublishMoves

PublicationSpec ==
    PublicationInit /\ [][PublicationNext]_<<part, sourceVars, storageVars, vars>>

\* Processes are compared for equality only.
Symmetry == Permutations(Procs)

-----------------------------------------------------------------------------
(* Properties, beside those of PortablePublish.                            *)

\* The committed bundles of one source carry one source id, whichever Jobs produced them
\* at the same time, as long as no publication is lost after its rename (SourceIdentity).
OneSourcePerIdentity == Source!OneSourcePerIdentity

\* A recorded checkpoint can be reused as long as the power holds, whatever an overtaken
\* execution writes late (AttemptStorage).
RecordedIsReusable == Storage!RecordedIsReusable

\* When no call runs, the event file has every event whose append returned, unless a
\* publisher was killed since the last write (AttemptStorage).
ProjectionCaughtUp == Storage!ProjectionCaughtUp

=============================================================================
