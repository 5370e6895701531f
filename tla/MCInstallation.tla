--------------------------- MODULE MCInstallation ---------------------------
(***************************************************************************)
(* PackInstall, WorkspaceRegistry and WorkspaceInit for TLC: what is set   *)
(* up once on a machine.  A behaviour moves the component `part' names;    *)
(* the others stay in their initial state.                                 *)
(***************************************************************************)
EXTENDS PackInstall, TLC

CONSTANTS
    Workspaces, Readers, Capacity, RegistryCalls, MaxReads,  \* of WorkspaceRegistry
    Callers, Directories, Names, InitCalls, InitFaults,      \* of WorkspaceInit
    LaterVersion  \* the version that no installation wants while the power holds

VARIABLES
    part,
    registry, version, registryLock, resolving, reading, returned, minted, registryBudget,
    contents, initLock, initialising, results, stuck, initBudget

-----------------------------------------------------------------------------
(* The installers are the processes that resolve workspaces, too.          *)
Registry == INSTANCE WorkspaceRegistry WITH
    Resolvers <- Installers, MaxCalls <- RegistryCalls,
    lock <- registryLock, call <- resolving, budget <- registryBudget

Setup == INSTANCE WorkspaceInit WITH
    MaxCalls <- InitCalls, MaxFaults <- InitFaults,
    disk <- contents, lock <- initLock, call <- initialising, budget <- initBudget

ASSUME InstallationAssumption == Registry!RegistryAssumption /\ Setup!InitAssumption

-----------------------------------------------------------------------------
registryVars ==
    <<registry, version, registryLock, resolving, reading, returned, minted, registryBudget>>
initVars == <<contents, initLock, initialising, results, stuck, initBudget>>

InstallationInit ==
    /\ part \in {"registry", "init", "pack", "power"}
    /\ Registry!Init /\ Setup!Init /\ (part = "init" \/ ~contents.root)
    /\ Init

RegistryMoves == part = "registry" /\ Registry!Next /\ UNCHANGED <<part, initVars, vars>>
InitMoves == part = "init" /\ Setup!Next /\ UNCHANGED <<part, registryVars, vars>>

\* Three installers of one version while the power holds, or two of two versions.
PackMoves ==
    /\ part = "pack" /\ Next /\ UNCHANGED <<part, registryVars, initVars>>
    /\ budget'.losses = budget.losses /\ \A i \in Installers : install'[i].version # LaterVersion
PowerMoves ==
    /\ part = "power" /\ Next /\ UNCHANGED <<part, registryVars, initVars>>
    /\ budget'.damage = budget.damage
    /\ Cardinality({i \in Installers : install'[i] # Idle}) <= 2

InstallationNext == RegistryMoves \/ InitMoves \/ PackMoves \/ PowerMoves

InstallationSpec == InstallationInit /\ [][InstallationNext]_<<part, registryVars, initVars, vars>>

-----------------------------------------------------------------------------
(* Properties, beside those of PackInstall.                                *)

\* The id that WorkspaceInstanceRegistry.resolve returned for a workspace stays its
\* id, across concurrent writers, a killed one and a full registry.
StableInstances == Registry!StableInstances

\* The results of initialize_workspace, of different processes and after failures and
\* a killed process, all name the workspace that is on the disk.
ResultsAgree == Setup!ResultsAgree

\* These ids are compared for equality only.
Symmetry == Permutations(Installers) \cup Permutations(Readers)

=============================================================================
