--------------------------- MODULE SourceIdentity ---------------------------
(***************************************************************************)
(* How Jobs that produce from one source agree on its source id:           *)
(* VerifiedSourceIdentityRegistry (adapters/sources/legacy_video.py), the  *)
(* cache in the source_identities table and the atomic commit of a result  *)
(* (adapters/jobs/sqlite_repository.py), the committed bundles             *)
(* (adapters/iwiki/portable_gateway.py) and the Jobs that use them         *)
(* (core/application/video_service.py, document_service.py).               *)
(*                                                                         *)
(* One canonical identity is modelled: everything is keyed by it.  A Job   *)
(* publishes at most one bundle, and derives from its own id the source id *)
(* it uses when it finds none, so a Job stands for both; a binding is the  *)
(* bundle that owns it.                                                    *)
(***************************************************************************)
EXTENDS Naturals, FiniteSets

CONSTANTS
    Jobs,          \* Jobs that produce from the source, in the order of their bundle ids
    None,          \* no bundle, no source id
    MaxCrashes,    \* bound on executions that die or give up before they publish
    MaxRollbacks,  \* bound on transactions lost after the bundle was published
    MaxLosses      \* bound on bundles that are removed or damaged

SourceAssumption ==
    /\ Jobs \subseteq Nat /\ None \notin Jobs
    /\ {MaxCrashes, MaxRollbacks, MaxLosses} \subseteq Nat

VARIABLES
    phase,      \* where the execution of each Job is
    candidate,  \* the row it read
    binding,    \* the binding it found in the bundles
    source,     \* the source id in its acquire checkpoint
    known,      \* auxiliary: the recorded bundle of a Job that succeeded before it began
    cache,      \* the row of source_identities
    bundles,    \* committed bundles that validate
    lost,       \* committed bundles that do not validate any more
    writer,     \* the Job whose immediate transaction is open
    budget

registry == <<candidate, binding, known>>
vars == <<phase, registry, source, cache, bundles, lost, writer, budget>>

Ended == {"done", "failed"}
Phases == Ended \cup {"queued", "candidate", "truth", "reread", "assembled", "publishing",
                      "published"}
Row == Jobs \cup {None}

Init ==
    /\ phase = [j \in Jobs |-> "queued"]
    /\ candidate = [j \in Jobs |-> None] /\ binding = [j \in Jobs |-> None]
    /\ source = [j \in Jobs |-> None] /\ known = [j \in Jobs |-> None]
    /\ cache = None /\ bundles = {} /\ lost = {} /\ writer = None
    /\ budget = [crashes |-> MaxCrashes, rollbacks |-> MaxRollbacks, losses |-> MaxLosses]

Spend(what) == budget[what] > 0 /\ budget' = [budget EXCEPT ![what] = @ - 1]

Goto(j, p) == phase' = [phase EXCEPT ![j] = p]

-----------------------------------------------------------------------------
(* resolve_verified.                                                       *)

\* The bindings of the identity when all its bundles agree on one source.
Truth == IF \A b, c \in bundles : source[b] = source[c] THEN bundles ELSE {}

\* The row of a Job that succeeded is what later Jobs of the source know.
ReadCandidate(j) ==
    /\ phase[j] = "queued"
    /\ candidate' = [candidate EXCEPT ![j] = cache]
    /\ known' = [known EXCEPT ![j] = IF cache \in bundles /\ phase[cache] = "done"
                                     THEN cache ELSE None]
    /\ Goto(j, "candidate")
    /\ UNCHANGED <<binding, source, cache, bundles, lost, writer, budget>>

\* The bundle with the largest id.
ReadTruth(j) ==
    /\ phase[j] = "candidate"
    /\ \/ Truth = {} /\ binding' = [binding EXCEPT ![j] = None]
       \/ \E b \in Truth : /\ \A c \in Truth : c <= b
                           /\ binding' = [binding EXCEPT ![j] = b]
    /\ Goto(j, "truth")
    /\ UNCHANGED <<candidate, known, source, cache, bundles, lost, writer, budget>>

\* The resolved source id is written with the acquire checkpoint and not changed by a
\* later execution.  What is resolved without a checkpoint is the Job's own id.
Acquire(j, b) ==
    /\ source' = [source EXCEPT ![j] = IF @ # None THEN @ ELSE IF b = None THEN j ELSE source[b]]
    /\ Goto(j, "assembled")

\* No binding is found.  A row whose bundle does not validate is removed, if it is
\* still the row that was read.  Every change of the row is a transaction of its own,
\* which waits for the one that is open.
DiscardStale(j) ==
    /\ phase[j] = "truth" /\ binding[j] = None
    /\ IF candidate[j] \in bundles \cup {None}
       THEN UNCHANGED cache
       ELSE writer = None /\ cache' = IF cache = candidate[j] THEN None ELSE cache
    /\ Acquire(j, None)
    /\ UNCHANGED <<registry, bundles, lost, writer, budget>>

Confirmed(j) ==
    /\ phase[j] = "truth" /\ binding[j] # None /\ candidate[j] = binding[j]
    /\ Acquire(j, binding[j])
    /\ UNCHANGED <<registry, cache, bundles, lost, writer, budget>>

\* replace_source_identity_candidate changes exactly the row that was read;
\* cache_source_identity_candidate inserts, or accepts an equal row.
Store(j) ==
    /\ phase[j] = "truth" /\ binding[j] # None /\ candidate[j] # binding[j]
    /\ writer = None
    /\ IF cache = candidate[j] \/ (candidate[j] = None /\ cache = binding[j])
       THEN cache' = binding[j] /\ Acquire(j, binding[j])
       ELSE Goto(j, "reread") /\ UNCHANGED <<source, cache>>
    /\ UNCHANGED <<registry, bundles, lost, writer, budget>>

\* An insertion that waited longer than the busy timeout is taken for a conflict.
StoreIsBusy(j) ==
    /\ phase[j] = "truth" /\ binding[j] # None /\ candidate[j] = None /\ writer # None
    /\ Goto(j, "reread")
    /\ UNCHANGED <<registry, source, cache, bundles, lost, writer, budget>>

\* Another Job changed the row first.
Reread(j) ==
    /\ phase[j] = "reread"
    /\ Acquire(j, IF cache = binding[j] THEN binding[j] ELSE None)
    /\ UNCHANGED <<registry, cache, bundles, lost, writer, budget>>

-----------------------------------------------------------------------------
(* commit_video_result_atomic, commit_recipe_result_atomic.                *)

\* Mutant: the row is not compared.
ConflictsNever(j) == FALSE

Conflicts(j) == cache # None /\ source[cache] # source[j]

BeginCommit(j) ==
    /\ phase[j] = "assembled" /\ writer = None
    /\ IF Conflicts(j)
       THEN Goto(j, "failed") /\ UNCHANGED writer
       ELSE Goto(j, "publishing") /\ writer' = j
    /\ UNCHANGED <<registry, source, cache, bundles, lost, budget>>

\* commit_prepared: a bundle that is already there is accepted.
PortableCommit(j) ==
    /\ phase[j] = "publishing"
    /\ bundles' = bundles \cup {j}
    /\ Goto(j, "published")
    /\ UNCHANGED <<registry, source, cache, lost, writer, budget>>

PortableFails(j) ==
    /\ phase[j] = "publishing"
    /\ Goto(j, "failed") /\ writer' = None
    /\ UNCHANGED <<registry, source, cache, bundles, lost, budget>>

\* The row, the result and the end of the Job are one transaction.
SqlCommit(j) ==
    /\ phase[j] = "published"
    /\ cache' = j
    /\ Goto(j, "done") /\ writer' = None
    /\ UNCHANGED <<registry, source, bundles, lost, budget>>

\* The process dies or the store refuses: the Job runs again, its bundle stays.
Rollback(j) ==
    /\ phase[j] = "published" /\ Spend("rollbacks")
    /\ Goto(j, "queued") /\ writer' = None
    /\ UNCHANGED <<registry, source, cache, bundles, lost>>

-----------------------------------------------------------------------------

\* An execution that dies before it publishes is resumed.
Crash(j) ==
    /\ phase[j] \in {"candidate", "truth", "reread", "assembled", "publishing"}
    /\ Spend("crashes")
    /\ Goto(j, "queued") /\ writer' = IF writer = j THEN None ELSE writer
    /\ UNCHANGED <<registry, source, cache, bundles, lost>>

\* A Job may be cancelled between two executions.
Cancel(j) ==
    /\ phase[j] = "queued" /\ Spend("crashes")
    /\ Goto(j, "failed")
    /\ UNCHANGED <<registry, source, cache, bundles, lost, writer>>

\* The user removes or damages a bundle of a Job that ended.
Lose(b) ==
    /\ b \in bundles /\ phase[b] \in Ended /\ Spend("losses")
    /\ bundles' = bundles \ {b} /\ lost' = lost \cup {b}
    /\ UNCHANGED <<phase, registry, source, cache, writer>>

Execute(j) ==
    \/ ReadCandidate(j) \/ ReadTruth(j)
    \/ DiscardStale(j) \/ Confirmed(j) \/ Store(j) \/ StoreIsBusy(j) \/ Reread(j)
    \/ BeginCommit(j) \/ PortableCommit(j) \/ PortableFails(j) \/ SqlCommit(j)

Next == \E j \in Jobs : Execute(j) \/ Rollback(j) \/ Crash(j) \/ Cancel(j) \/ Lose(j)

Spec == Init /\ [][Next]_vars

\* Workers resume Jobs; a transaction waits for the one that is open, within the busy
\* timeout, and some waiting transaction gets its turn.
FairSpec == Spec /\ \A j \in Jobs : SF_vars(Execute(j))

-----------------------------------------------------------------------------
(* Properties.                                                             *)

\* A Job past its acquire checkpoint has a source id; a bundle has one; the open
\* transaction is that of a Job that commits.
TypeOK ==
    /\ phase \in [Jobs -> Phases]
    /\ candidate \in [Jobs -> Row] /\ binding \in [Jobs -> Row] /\ known \in [Jobs -> Row]
    /\ source \in [Jobs -> Row] /\ cache \in Row
    /\ bundles \subseteq Jobs /\ lost \subseteq Jobs
    /\ \A j \in Jobs : /\ phase[j] \in {"assembled", "publishing", "published", "done"}
                          => source[j] # None
                       /\ writer = j <=> phase[j] \in {"publishing", "published"}
                       /\ j \in bundles \cup lost => source[j] # None

\* The committed bundles of one source carry one source id, whichever Jobs produced them
\* at the same time, as long as no transaction is lost after its bundle was published.
OneSourcePerIdentity ==
    budget.rollbacks = MaxRollbacks => \A b, c \in bundles : source[b] = source[c]

\* The row names a bundle that was published: no plan of a transaction that was lost.
CacheNamesCommitted == cache # None => cache \in bundles \cup lost

\* A Job that begins after another one succeeded takes over its source id, unless the
\* bundle is lost, or it lost its compare-and-swap to a Job that wrote another row.
FoundBindingReused ==
    [][\A j \in Jobs : source[j] = None /\ source'[j] # None /\ known[j] # None =>
          \/ source'[j] = source[known[j]] \/ known[j] \in lost
          \/ phase[j] = "reread" /\ cache # binding[j]]_vars

\* The same whatever other Jobs of the source do.
LaterJobsReuse ==
    [][\A j \in Jobs : source[j] = None /\ source'[j] # None /\ known[j] # None =>
          source'[j] = source[known[j]] \/ known[j] \in lost]_vars

\* Every Job comes to its end: nobody keeps the transaction the others wait for.
EveryJobEnds == <>(\A j \in Jobs : phase[j] \in Ended)

=============================================================================
