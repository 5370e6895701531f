-------------------------- MODULE WorkspaceRegistry --------------------------
(***************************************************************************)
(* The machine's registry of workspaces (WorkspaceInstanceRegistry,        *)
(* adapters/jobs/workspace_instance_registry.py): one JSON file that gives *)
(* a workspace, its inspected identity at its canonical root, the id under *)
(* which its Job store is kept.  resolve() adds an entry under a file lock *)
(* and replaces the file; get() and list() take no lock and compare the    *)
(* opened file with the one at the path instead.                           *)
(*                                                                         *)
(* Whether a file that is open can be replaced is up to the platform: both *)
(* outcomes are steps.                                                     *)
(***************************************************************************)
EXTENDS Naturals, FiniteSets

CONSTANTS
    Workspaces, \* pairs of identity and canonical root
    Resolvers,  \* processes that call resolve
    Readers,    \* processes that call get or list
    Capacity,   \* _MAXIMUM_REGISTRY_INSTANCES
    MaxCalls,   \* bound on calls of resolve
    MaxReads,   \* bound on calls of get and list
    MaxCrashes, \* bound on processes killed
    Nobody

RegistryAssumption ==
    /\ {Capacity, MaxCalls, MaxReads, MaxCrashes} \subseteq Nat
    /\ Nobody \notin Resolvers

VARIABLES
    registry, \* the entries of the file at the path
    version,  \* the file itself (its inode); 0 when there is none
    lock,     \* holder of the FileLock
    call,     \* each resolver: phase, workspace, the entries it read
    reading,  \* each reader: phase, the file it opened and its entries
    returned, \* auxiliary: entries that resolve returned
    minted,   \* ids handed out by uuid4
    budget

vars == <<registry, version, lock, call, reading, returned, minted, budget>>

Entry == [workspace : Workspaces, id : 1 .. MaxCalls]
NoCall == [phase |-> "idle", workspaces |-> {}, image |-> {}]
NoRead == [phase |-> "idle", file |-> 0, image |-> {}, owed |-> {}]

Init ==
    /\ registry = {} /\ version = 0 /\ lock = Nobody
    /\ call = [c \in Resolvers |-> NoCall]
    /\ reading = [r \in Readers |-> NoRead]
    /\ returned = {} /\ minted = 0
    /\ budget = [calls |-> MaxCalls, reads |-> MaxReads, crashes |-> MaxCrashes]

\* _validate_registry: what every later read demands of the file.
Valid(entries) ==
    /\ Cardinality(entries) <= Capacity
    /\ \A e, f \in entries : e.workspace = f.workspace \/ e.id = f.id => e = f

\* _find_instance
Found(c) == {e \in call[c].image : e.workspace \in call[c].workspaces}

Spend(what) == budget[what] > 0 /\ budget' = [budget EXCEPT ![what] = @ - 1]

\* The call is over and the lock is free again.
Leave(c) == call' = [call EXCEPT ![c] = NoCall] /\ lock' = Nobody

-----------------------------------------------------------------------------
(* resolve().                                                              *)

\* The workspace is inspected before the lock.
Inspect(c) ==
    /\ call[c].phase = "idle" /\ Spend("calls")
    /\ \E w \in Workspaces :
          call' = [call EXCEPT ![c] = [@ EXCEPT !.phase = "inspected", !.workspaces = {w}]]
    /\ UNCHANGED <<registry, version, lock, reading, returned, minted>>

Take(c) ==
    /\ call[c].phase = "inspected"
    /\ call' = [call EXCEPT ![c] = [@ EXCEPT !.phase = "read", !.image = registry]]
    /\ UNCHANGED <<registry, version, reading, returned, minted, budget>>

\* Mutant: the registry is read without the lock.
LockIgnored(c) == Take(c) /\ lock' = lock

\* The registry is read once the lock is held.
Lock(c) == Take(c) /\ lock = Nobody /\ lock' = c

\* The workspace has an entry already.
Known(c) ==
    /\ call[c].phase = "read" /\ Found(c) # {}
    /\ returned' = returned \cup Found(c) /\ Leave(c)
    /\ UNCHANGED <<registry, version, reading, minted, budget>>

Full(c) == Found(c) = {} /\ Cardinality(call[c].image) >= Capacity

\* workspace_instance_registry_full
Refuse(c) ==
    /\ call[c].phase = "read" /\ Full(c) /\ Leave(c)
    /\ UNCHANGED <<registry, version, reading, returned, minted, budget>>

\* A new id, and the temporary file with the list that has it.
Mint(c) ==
    /\ call[c].phase = "read" /\ Found(c) = {} /\ ~Full(c) /\ minted' = minted + 1
    /\ LET new == [workspace |-> CHOOSE w \in call[c].workspaces : TRUE, id |-> minted + 1]
       IN call' = [call EXCEPT ![c] = [@ EXCEPT !.phase = "staged",
                                               !.image = call[c].image \cup {new}]]

Stage(c) == Mint(c) /\ UNCHANGED <<registry, version, lock, reading, returned, budget>>

\* os.replace
Replace(c) ==
    /\ call[c].phase = "staged"
    /\ registry' = call[c].image /\ version' = minted
    /\ returned' = returned \cup Found(c) /\ Leave(c)
    /\ UNCHANGED <<reading, minted, budget>>

\* A reader has the file open and the platform keeps it: the call fails.
ReplaceRefused(c) ==
    /\ call[c].phase = "staged" /\ \E r \in Readers : reading[r].phase = "open"
    /\ Leave(c)
    /\ UNCHANGED <<registry, version, reading, returned, minted, budget>>

\* A killed process leaves its lock, and at most a temporary file nobody reads.
Die(c) ==
    /\ call[c].phase # "idle" /\ Spend("crashes")
    /\ call' = [call EXCEPT ![c] = NoCall] /\ lock' = IF lock = c THEN Nobody ELSE lock
    /\ UNCHANGED <<registry, version, reading, returned, minted>>

-----------------------------------------------------------------------------
(* get() and list().                                                       *)

\* The file is opened; without one the list is empty.
Open(r) ==
    /\ reading[r].phase = "idle" /\ Spend("reads")
    /\ reading' = [reading EXCEPT ![r] =
          [phase |-> IF version = 0 THEN "answered" ELSE "open",
           file |-> version, image |-> registry, owed |-> returned]]
    /\ UNCHANGED <<registry, version, lock, call, returned, minted>>

\* _read_registry: what was opened must still be the file at the path, and valid.
Sound(r) == reading[r].file = version /\ Valid(reading[r].image)

Read(r) ==
    /\ reading[r].phase = "open"
    /\ reading' = [reading EXCEPT ![r].phase = IF Sound(r) THEN "answered" ELSE "invalid"]
    /\ UNCHANGED <<registry, version, lock, call, returned, minted, budget>>

Close(r) ==
    /\ reading[r].phase \in {"answered", "invalid"}
    /\ reading' = [reading EXCEPT ![r] = NoRead]
    /\ UNCHANGED <<registry, version, lock, call, returned, minted, budget>>

Resolve(c) ==
    Lock(c) \/ Known(c) \/ Refuse(c) \/ Stage(c) \/ Replace(c) \/ ReplaceRefused(c)

Next ==
    \/ \E c \in Resolvers : Inspect(c) \/ Resolve(c) \/ Die(c)
    \/ \E r \in Readers : Open(r) \/ Read(r) \/ Close(r)

Spec == Init /\ [][Next]_vars

\* A process in resolve goes on; the wait for the lock polls until it is free.
FairSpec == Spec /\ \A c \in Resolvers : WF_vars(Resolve(c))

-----------------------------------------------------------------------------
(* Properties.                                                             *)

\* Types; the lock is held exactly from the read to the end of a call.
TypeOK ==
    /\ registry \subseteq Entry /\ returned \subseteq Entry
    /\ version \in 0 .. MaxCalls /\ minted \in 0 .. MaxCalls
    /\ call \in [Resolvers -> [phase : {"idle", "inspected", "read", "staged"},
                               workspaces : SUBSET Workspaces, image : SUBSET Entry]]
    /\ reading \in [Readers -> [phase : {"idle", "open", "answered", "invalid"},
                                file : 0 .. MaxCalls, image : SUBSET Entry, owed : SUBSET Entry]]
    /\ \A c \in Resolvers : lock = c <=> call[c].phase \in {"read", "staged"}

\* The id that resolve returned for a workspace stays its id: the entry is never
\* lost to another process's write, to a crash or to a full registry, and the
\* same workspace is never given a second one.
StableInstances ==
    /\ returned \subseteq registry
    /\ \A e, f \in returned : e.workspace = f.workspace => e = f

\* The file on disk always passes the validation of a later read, also at its
\* limit: one entry too many would make every later call fail.
RegistryReadable == Valid(registry)

\* A list that is answered has every instance that resolve had returned when the
\* list began, although it takes no lock.
ListShowsResolved ==
    \A r \in Readers : reading[r].phase = "answered" => reading[r].owed \subseteq reading[r].image

\* A call of resolve ends, whoever dies or is refused with the lock.
EveryCallEnds ==
    \A c \in Resolvers : call[c].phase # "idle" ~> call[c].phase = "idle"

\* A read of a sound registry is answered.
SoundRegistryAnswers ==
    \A r \in Readers : reading[r].phase = "invalid" => ~Valid(registry)
=============================================================================
