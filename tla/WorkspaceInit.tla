---------------------------- MODULE WorkspaceInit ----------------------------
(***************************************************************************)
(* The creation of a workspace (initialize_workspace,                      *)
(* workspace_initializer.py): directories of the contract, then the        *)
(* manifest, written beside its place and moved there, then the workspace  *)
(* is opened as a check.  What a failing call created it takes back.  A    *)
(* file lock outside the workspace, waited for at most five seconds, keeps *)
(* calls apart.                                                            *)
(*                                                                         *)
(* One root; every call asks for the same name or for another one.         *)
(***************************************************************************)
EXTENDS Naturals, FiniteSets

CONSTANTS
    Callers,     \* processes that initialise the workspace
    Directories, \* _CONTRACT_DIRECTORIES
    Names,       \* names asked for
    MaxCalls,    \* bound on calls
    MaxFaults,   \* bound on failures of the file system or of the check
    MaxCrashes,  \* bound on processes killed
    Nobody

InitAssumption ==
    /\ {MaxCalls, MaxFaults, MaxCrashes} \subseteq Nat /\ Nobody \notin Callers

VARIABLES
    disk,    \* root, control (BOOLEAN), directories, temps, manifest
    lock,    \* holder of the lock
    call,    \* each caller: phase and what it remembers
    results, \* auxiliary: <<id, name>> of the calls that succeeded
    stuck,   \* auxiliary: a file could not be removed
    budget

vars == <<disk, lock, call, results, stuck, budget>>

NoManifest == <<>>
NoCall == [phase |-> "idle", number |-> 0, name |-> Nobody, root |-> FALSE, control |-> FALSE,
           made |-> {}, temp |-> FALSE, wrote |-> FALSE]

Init ==
    /\ disk \in [root : {FALSE}, control : {FALSE}, dirs : {{}}, temps : {{}}, manifest : {NoManifest}]
          \cup [root : {TRUE}, control : {FALSE}, dirs : SUBSET Directories, temps : {{}},
                manifest : {NoManifest}]
    /\ lock = Nobody /\ call = [c \in Callers |-> NoCall]
    /\ results = {} /\ stuck = FALSE
    /\ budget = [calls |-> MaxCalls, faults |-> MaxFaults, crashes |-> MaxCrashes]

Spend(what) == budget[what] > 0 /\ budget' = [budget EXCEPT ![what] = @ - 1]
Goto(c, p) == call' = [call EXCEPT ![c].phase = p]
End(c, outcome) == call' = [call EXCEPT ![c] = [NoCall EXCEPT !.phase = outcome]] /\ lock' = Nobody

Begin(c) ==
    /\ call[c].phase = "idle" /\ Spend("calls")
    /\ \E n \in Names :
          call' = [call EXCEPT ![c] =
                      [NoCall EXCEPT !.phase = "waiting", !.number = budget.calls, !.name = n]]
    /\ UNCHANGED <<disk, lock, results, stuck>>

\* Mutant: contenders do not wait.
AcquireAnyway(c) ==
    /\ call[c].phase = "waiting" /\ lock' = c /\ Goto(c, "locked")
    /\ UNCHANGED <<disk, results, stuck, budget>>

Acquire(c) ==
    /\ call[c].phase = "waiting" /\ lock = Nobody /\ lock' = c /\ Goto(c, "locked")
    /\ UNCHANGED <<disk, results, stuck, budget>>

\* workspace_init_busy
Busy(c) ==
    /\ call[c].phase = "waiting" /\ lock # Nobody /\ Goto(c, "failed")
    /\ UNCHANGED <<disk, lock, results, stuck, budget>>

\* The root is made, then the control directory.
MakeRoot(c) ==
    /\ call[c].phase = "locked"
    /\ call' = [call EXCEPT ![c] = [@ EXCEPT !.phase = "rooted", !.root = ~disk.root]]
    /\ disk' = [disk EXCEPT !.root = TRUE]
    /\ UNCHANGED <<lock, results, stuck, budget>>

MakeControl(c) ==
    /\ call[c].phase = "rooted"
    /\ call' = [call EXCEPT ![c] = [@ EXCEPT !.phase = "prepared", !.control = ~disk.control]]
    /\ disk' = [disk EXCEPT !.control = TRUE]
    /\ UNCHANGED <<lock, results, stuck, budget>>

\* A manifest is there: its workspace must be whole and have the name.
Reuse(c) ==
    /\ call[c].phase = "prepared" /\ disk.manifest # NoManifest
    /\ IF disk.dirs = Directories /\ disk.manifest[2] = call[c].name
       THEN End(c, "reused") /\ results' = results \cup {disk.manifest}
       ELSE Goto(c, "remove") /\ UNCHANGED <<lock, results>>
    /\ UNCHANGED <<disk, stuck, budget>>

\* workspace_control_conflict
Occupied(c) ==
    /\ call[c].phase = "prepared" /\ disk.manifest = NoManifest /\ disk.temps # {}
    /\ Goto(c, "remove_conflict")
    /\ UNCHANGED <<disk, lock, results, stuck, budget>>

\* The directories that are missing, one after another.
MakeDirectory(c) ==
    /\ call[c].phase = "prepared" /\ disk.manifest = NoManifest /\ disk.temps = {}
    /\ \E d \in Directories \ disk.dirs :
          /\ disk' = [disk EXCEPT !.dirs = @ \cup {d}]
          /\ call' = [call EXCEPT ![c].made = @ \cup {d}]
    /\ UNCHANGED <<lock, results, stuck, budget>>

\* The manifest is written under a temporary name in the control directory.
WriteTemporary(c) ==
    /\ call[c].phase = "prepared" /\ disk.manifest = NoManifest /\ disk.temps = {}
    /\ disk.dirs = Directories
    /\ disk' = [disk EXCEPT !.temps = @ \cup {call[c].number}]
    /\ call' = [call EXCEPT ![c] = [@ EXCEPT !.phase = "written", !.temp = TRUE]]
    /\ UNCHANGED <<lock, results, stuck, budget>>

ReplaceManifest(c) ==
    /\ call[c].phase = "written"
    /\ disk' = [disk EXCEPT !.temps = @ \ {call[c].number},
                            !.manifest = <<call[c].number, call[c].name>>]
    /\ call' = [call EXCEPT ![c] = [@ EXCEPT !.phase = "placed", !.temp = FALSE, !.wrote = TRUE]]
    /\ UNCHANGED <<lock, results, stuck, budget>>

\* _open_initialized accepts what was written.
Verify(c) ==
    /\ call[c].phase = "placed" /\ End(c, "created")
    /\ results' = results \cup {disk.manifest}
    /\ UNCHANGED <<disk, stuck, budget>>

\* Any step, or the check, fails.
StepFails(c) ==
    /\ call[c].phase \in {"locked", "rooted", "prepared", "written", "placed"} /\ Spend("faults")
    /\ Goto(c, IF call[c].wrote THEN "withdraw" ELSE "remove")
    /\ UNCHANGED <<disk, lock, results, stuck>>

\* The manifest is removed; a failure to do so is passed over.
Withdraw(c) ==
    /\ call[c].phase = "withdraw" /\ Goto(c, "remove")
    /\ disk' = [disk EXCEPT !.manifest = NoManifest]
    /\ UNCHANGED <<lock, results, stuck, budget>>

WithdrawFails(c) ==
    /\ call[c].phase = "withdraw" /\ Goto(c, "remove") /\ stuck' = TRUE /\ Spend("faults")
    /\ UNCHANGED <<disk, lock, results>>

\* _remove_empty_directories: the contract's, then control, then the root, each only
\* when this call made it and it is empty.
RemoveDirectories(c) ==
    LET dirs == disk.dirs \ call[c].made
        control == disk.control /\ ~(call[c].control /\ disk.temps = {} /\ disk.manifest = NoManifest)
        root == ~(call[c].root /\ ~control /\ dirs = {})
    IN /\ call[c].phase \in {"remove", "remove_conflict"}
       /\ disk' = [disk EXCEPT !.dirs = dirs, !.control = control, !.root = root]
       /\ Goto(c, IF call[c].phase = "remove" THEN "unlink" ELSE "unlink_conflict")
       /\ UNCHANGED <<lock, results, stuck, budget>>

\* finally: the temporary file is removed and the lock released.
UnlinkTemporary(c) ==
    /\ call[c].phase \in {"unlink", "unlink_conflict"}
    /\ End(c, IF call[c].phase = "unlink" THEN "failed" ELSE "refused")
    /\ disk' = [disk EXCEPT !.temps = IF call[c].temp THEN @ \ {call[c].number} ELSE @]
    /\ UNCHANGED <<results, stuck, budget>>

UnlinkFails(c) ==
    /\ call[c].phase = "unlink" /\ call[c].temp /\ Spend("faults")
    /\ End(c, "failed") /\ stuck' = TRUE
    /\ UNCHANGED <<disk, results>>

Leave(c) ==
    /\ call[c].phase \in {"created", "reused", "failed", "refused"}
    /\ call' = [call EXCEPT ![c] = NoCall]
    /\ UNCHANGED <<disk, lock, results, stuck, budget>>

\* The process is killed; the system frees its lock.
Die(c) ==
    /\ call[c].phase # "idle" /\ Spend("crashes")
    /\ call' = [call EXCEPT ![c] = NoCall] /\ lock' = IF lock = c THEN Nobody ELSE lock
    /\ UNCHANGED <<disk, results, stuck>>

Next ==
    \E c \in Callers :
        \/ Begin(c) \/ Acquire(c) \/ Busy(c) \/ MakeRoot(c) \/ MakeControl(c)
        \/ Reuse(c) \/ Occupied(c) \/ MakeDirectory(c) \/ WriteTemporary(c) \/ ReplaceManifest(c) \/ Verify(c)
        \/ StepFails(c) \/ Withdraw(c) \/ WithdrawFails(c) \/ RemoveDirectories(c)
        \/ UnlinkTemporary(c) \/ UnlinkFails(c) \/ Leave(c) \/ Die(c)

Spec == Init /\ [][Next]_vars

-----------------------------------------------------------------------------
(* Properties.                                                             *)

Locked == {"locked", "rooted", "prepared", "written", "placed", "withdraw", "remove",
           "remove_conflict", "unlink", "unlink_conflict"}

\* Types; one call at a time touches the workspace.
TypeOK ==
    /\ disk.root \in BOOLEAN /\ disk.control \in BOOLEAN /\ disk.dirs \subseteq Directories
    /\ disk.temps \subseteq 1 .. MaxCalls
    /\ disk.manifest = NoManifest \/ disk.manifest \in (1 .. MaxCalls) \X Names
    /\ results \subseteq (1 .. MaxCalls) \X Names
    /\ \A c \in Callers : lock = c <=> call[c].phase \in Locked

\* All calls that succeeded name the same workspace, and it is the one on disk:
\* none was withdrawn or replaced after a caller was told of it.
ResultsAgree == \A r \in results : r = disk.manifest

\* A manifest stands in a whole workspace, whoever was killed or failed and at what
\* point; only a manifest that could not be removed may be left alone.
ManifestIsWhole ==
    disk.manifest # NoManifest /\ ~stuck => disk.root /\ disk.control /\ disk.dirs = Directories

\* A call is refused for an occupied control directory only after a process was
\* killed or a file could not be removed: another failure never blocks the next call.
RefusalHasCause ==
    (\E c \in Callers : call[c].phase = "refused") => budget.crashes < MaxCrashes \/ stuck

\* When no call runs and none was killed, a root without manifest is as it was
\* before: the control directory that a failing call made is gone.
FailureLeavesNoControl ==
    /\ lock = Nobody /\ budget.crashes = MaxCrashes /\ ~stuck /\ disk.manifest = NoManifest
    => ~disk.control
=============================================================================
