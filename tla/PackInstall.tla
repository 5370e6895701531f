----------------------------- MODULE PackInstall -----------------------------
(***************************************************************************)
(* The installation of a signed Pack                                       *)
(* (install_document_basic_pack and install_official_video_pack).  A       *)
(* version of the Pack has a lock and a pointer, active.json, that names   *)
(* a generation by its digest; generations and the stages they are built   *)
(* in lie in one store for all versions.  A generation is verified in its  *)
(* stage, renamed to its digest and then pointed to.                       *)
(*                                                                         *)
(* A generation is whole or gone; what is in it, and the older layout      *)
(* beside the store, are left out.                                         *)
(***************************************************************************)
EXTENDS Naturals, FiniteSets

CONSTANTS
    Versions,       \* versions of the Pack, of the releases that share the machine
    Digests,        \* contents a source may have
    Installers,     \* processes that install
    MaxInstalls,    \* bound on installations
    MaxFaults,      \* bound on failures of the file system, the checks or the probe
    MaxCrashes,     \* bound on installers killed
    MaxPowerLosses, \* bound on losses of power
    MaxDamage,      \* bound on pointers or generations damaged from outside
    Nobody, Absent, Malformed

ASSUME PackAssumption ==
    /\ {MaxInstalls, MaxFaults, MaxCrashes, MaxPowerLosses, MaxDamage} \subseteq Nat
    /\ Nobody \notin Installers /\ {Absent, Malformed} \cap Digests = {} /\ Absent # Malformed

VARIABLES
    lock,        \* holder of install.lock, by version
    pointer,     \* active.json, by version
    pointerDisk, \* what of it is on disk
    store,       \* the generations: pairs of version and digest
    storeDisk,   \* those whose directory entry is on disk
    orphans,     \* auxiliary: those an installer left before their sync, and not synced since
    stages,      \* installers whose stage exists
    install,     \* each installer: phase, version, digest, repair, the pointer it saw
    reported,    \* auxiliary: pairs whose installation was reported
    budget

disk == <<pointer, pointerDisk, store, storeDisk, orphans>>
vars == <<lock, disk, stages, install, reported, budget>>

Packs == Versions \X Digests
Idle == [phase |-> "idle", version |-> Nobody, digest |-> Nobody, repair |-> FALSE, seen |-> Absent]
Kinds == {"installs", "faults", "crashes", "losses", "damage"}

Init ==
    /\ lock = [v \in Versions |-> Nobody]
    /\ pointer = [v \in Versions |-> Absent] /\ pointerDisk = pointer
    /\ store = {} /\ storeDisk = {} /\ orphans = {} /\ stages = {} /\ reported = {}
    /\ install = [i \in Installers |-> Idle]
    /\ budget = [installs |-> MaxInstalls, faults |-> MaxFaults, crashes |-> MaxCrashes,
                 losses |-> MaxPowerLosses, damage |-> MaxDamage]

Holding == {"locked", "swept", "staged", "verified", "renaming", "renamed", "published",
            "activating"}

Spend(what) == budget[what] > 0 /\ budget' = [budget EXCEPT ![what] = @ - 1]
Goto(i, p) == install' = [install EXCEPT ![i].phase = p]
Version(i) == install[i].version
Pack(i) == <<install[i].version, install[i].digest>>
Active(i) == pointer[Version(i)]

\* The call is over: its stage is removed and the lock released.
Leave(i, outcome) ==
    /\ install' = [install EXCEPT ![i] = [Idle EXCEPT !.phase = outcome]]
    /\ lock' = [lock EXCEPT ![Version(i)] = Nobody]
    /\ stages' = stages \ {i}

-----------------------------------------------------------------------------
(* An installation.                                                        *)

Begin(i) ==
    /\ install[i].phase = "idle" /\ Spend("installs")
    /\ \E p \in Packs, repair \in BOOLEAN :
          install' = [install EXCEPT ![i] = [Idle EXCEPT
                         !.phase = "waiting", !.version = p[1], !.digest = p[2], !.repair = repair]]
    /\ UNCHANGED <<lock, disk, stages, reported>>

\* Mutant: installers do not wait for each other.
AcquireAnyway(i) ==
    /\ install[i].phase = "waiting" /\ lock' = [lock EXCEPT ![Version(i)] = i]
    /\ Goto(i, "locked")
    /\ UNCHANGED <<disk, stages, reported, budget>>

Acquire(i) ==
    /\ install[i].phase = "waiting" /\ lock[Version(i)] = Nobody
    /\ lock' = [lock EXCEPT ![Version(i)] = i] /\ Goto(i, "locked")
    /\ UNCHANGED <<disk, stages, reported, budget>>

\* pack_install_busy
Busy(i) ==
    /\ install[i].phase = "waiting" /\ lock[Version(i)] # Nobody /\ Goto(i, "failed")
    /\ UNCHANGED <<lock, disk, stages, reported, budget>>

\* _cleanup_orphans removes every stage in the store.
Sweep(i) ==
    /\ install[i].phase = "locked" /\ Goto(i, "swept") /\ stages' = {}
    /\ UNCHANGED <<lock, disk, reported, budget>>

Report(i) == reported' = reported \cup {Pack(i)}

\* The pointer names this digest already: nothing is copied.
AlreadyActive(i) ==
    /\ install[i].phase = "swept" /\ ~install[i].repair
    /\ Active(i) = install[i].digest /\ Pack(i) \in store
    /\ Leave(i, "done") /\ Report(i)
    /\ UNCHANGED <<disk, budget>>

MakeStage(i) ==
    /\ install[i].phase = "swept" /\ Goto(i, "staged") /\ stages' = stages \cup {i}
    /\ UNCHANGED <<lock, disk, reported, budget>>

\* The source is copied, verified and probed, and the receipt written.
Materialize(i) ==
    /\ install[i].phase = "staged" /\ i \in stages /\ Goto(i, "verified")
    /\ UNCHANGED <<lock, disk, stages, reported, budget>>

\* What stands in the way of the new generation.
Refused(i) ==
    \/ Active(i) = Malformed /\ ~install[i].repair
    \/ Active(i) \in Digests /\ Active(i) # install[i].digest
    \/ Active(i) \in Digests /\ Pack(i) \notin store /\ ~install[i].repair

Conflict(i) ==
    /\ install[i].phase = "verified" /\ Refused(i) /\ Leave(i, "failed")
    /\ UNCHANGED <<disk, reported, budget>>

\* The pointer is read and the store looked at.
Decide(i) ==
    /\ install[i].phase = "verified" /\ ~Refused(i)
    /\ install' = [install EXCEPT ![i] = [@ EXCEPT
                      !.phase = IF Pack(i) \in store THEN "published" ELSE "renaming",
                      !.seen = Active(i)]]
    /\ UNCHANGED <<lock, disk, stages, reported, budget>>

Rename(i) ==
    /\ install[i].phase = "renaming" /\ i \in stages /\ Goto(i, "renamed")
    /\ store' = store \cup {Pack(i)} /\ stages' = stages \ {i}
    /\ UNCHANGED <<lock, pointer, pointerDisk, storeDisk, orphans, reported, budget>>

\* The installer goes on without a sync of the generation it has renamed.
Orphan(i) == orphans' = orphans \cup ({Pack(i)} \ storeDisk)

\* Mutant: the store is not synced.
SyncNothing(i) ==
    /\ install[i].phase = "renamed" /\ Goto(i, "published")
    /\ UNCHANGED <<lock, disk, stages, reported, budget>>

Sync(i) ==
    /\ install[i].phase = "renamed" /\ Goto(i, "published")
    /\ storeDisk' = store /\ orphans' = orphans \ store
    /\ UNCHANGED <<lock, pointer, pointerDisk, store, stages, reported, budget>>

\* A sync that fails matters only before a pointer is written.
SyncFails(i) ==
    /\ install[i].phase = "renamed" /\ Spend("faults") /\ Orphan(i)
    /\ IF install[i].seen = install[i].digest
       THEN Goto(i, "published") /\ UNCHANGED <<lock, stages>>
       ELSE Leave(i, "failed")
    /\ UNCHANGED <<pointer, pointerDisk, store, storeDisk, reported>>

\* _write_active_pointer: what was seen must still be there, then it is replaced; the
\* sync of its directory may fail unnoticed.
CheckPointer(i) ==
    /\ install[i].phase = "published" /\ install[i].seen \in {Absent, Malformed}
    /\ Active(i) = install[i].seen /\ Goto(i, "activating")
    /\ UNCHANGED <<lock, disk, stages, reported, budget>>

Activate(i) ==
    /\ install[i].phase = "activating"
    /\ pointer' = [pointer EXCEPT ![Version(i)] = install[i].digest]
    /\ pointerDisk' \in {pointerDisk, [pointerDisk EXCEPT ![Version(i)] = install[i].digest]}
    /\ Leave(i, "done") /\ Report(i)
    /\ UNCHANGED <<store, storeDisk, orphans, budget>>

PointerMoved(i) ==
    /\ install[i].phase = "published" /\ install[i].seen \in {Absent, Malformed}
    /\ Active(i) # install[i].seen /\ Leave(i, "failed")
    /\ UNCHANGED <<disk, reported, budget>>

\* The pointer was right: repaired, or already active.
KeepPointer(i) ==
    /\ install[i].phase = "published" /\ install[i].seen \in Digests
    /\ Leave(i, "done") /\ Report(i)
    /\ UNCHANGED <<disk, budget>>

\* The stage is gone.
StageLost(i) ==
    /\ install[i].phase \in {"staged", "renaming"} /\ i \notin stages /\ Leave(i, "failed")
    /\ UNCHANGED <<disk, reported, budget>>

\* A step before the pointer is replaced fails.
Fault(i) ==
    /\ install[i].phase \in Holding \ {"renamed"}
    /\ Spend("faults") /\ Leave(i, "failed")
    /\ UNCHANGED <<disk, reported>>

Close(i) ==
    /\ install[i].phase \in {"done", "failed"} /\ Goto(i, "idle")
    /\ UNCHANGED <<lock, disk, stages, reported, budget>>

-----------------------------------------------------------------------------
(* What happens from outside.                                              *)

\* An installer is killed; the system frees its lock.
Die(i) ==
    /\ install[i].phase \notin {"idle", "done", "failed"} /\ Spend("crashes")
    /\ install' = [install EXCEPT ![i] = Idle]
    /\ lock' = [v \in Versions |-> IF lock[v] = i THEN Nobody ELSE lock[v]]
    /\ IF install[i].phase = "renamed" THEN Orphan(i) ELSE UNCHANGED orphans
    /\ UNCHANGED <<pointer, pointerDisk, store, storeDisk, stages, reported>>

\* What is not on disk may be gone, and every process is.
PowerFails ==
    /\ Spend("losses")
    /\ \E lost \in SUBSET (store \ storeDisk) : store' = store \ lost /\ storeDisk' = store'
    /\ orphans' = orphans \ store'
    /\ \E back \in SUBSET Versions :
          /\ pointer' = [v \in Versions |-> IF v \in back THEN pointerDisk[v] ELSE pointer[v]]
          /\ pointerDisk' = pointer'
    /\ install' = [i \in Installers |-> Idle] /\ lock' = [v \in Versions |-> Nobody]
    /\ UNCHANGED <<stages, reported>>

\* A pointer is overwritten, or a generation deleted, by something else.
Damage ==
    /\ Spend("damage")
    /\ \/ \E v \in Versions :
             /\ pointer' = [pointer EXCEPT ![v] = Malformed]
             /\ pointerDisk' = [pointerDisk EXCEPT ![v] = Malformed]
             /\ UNCHANGED <<store, storeDisk>>
       \/ \E p \in store : store' = store \ {p} /\ storeDisk' = storeDisk \ {p}
             /\ UNCHANGED <<pointer, pointerDisk>>
    /\ UNCHANGED <<lock, stages, install, reported, orphans>>

Step(i) ==
    \/ Acquire(i) \/ Busy(i) \/ Sweep(i) \/ AlreadyActive(i) \/ MakeStage(i) \/ Materialize(i)
    \/ Conflict(i) \/ Decide(i) \/ Rename(i) \/ Sync(i) \/ SyncFails(i) \/ CheckPointer(i)
    \/ Activate(i) \/ PointerMoved(i) \/ KeepPointer(i) \/ StageLost(i) \/ Fault(i)

Next ==
    \/ \E i \in Installers : Begin(i) \/ Step(i) \/ Close(i) \/ Die(i)
    \/ PowerFails \/ Damage

Spec == Init /\ [][Next]_vars

-----------------------------------------------------------------------------
(* Properties.                                                             *)

\* Types; one installer per version is past its lock.
TypeOK ==
    /\ pointer \in [Versions -> Digests \cup {Absent, Malformed}]
    /\ pointerDisk \in [Versions -> Digests \cup {Absent, Malformed}]
    /\ store \subseteq Packs /\ storeDisk \subseteq store /\ reported \subseteq Packs
    /\ orphans \subseteq Packs /\ stages \subseteq Installers /\ budget \in [Kinds -> Nat]
    /\ \A i \in Installers, v \in Versions :
          lock[v] = i <=> install[i].phase \in Holding /\ Version(i) = v

Undamaged == budget.damage = MaxDamage

\* A pointer always names a generation that is whole, whenever an installer fails or
\* is killed and whenever the power is lost; except a generation that an installer left
\* between its rename and its sync, which the next one takes as it is.
PointerHasGeneration ==
    Undamaged =>
        \A v \in Versions :
            pointer[v] \in Digests /\ <<v, pointer[v]>> \notin orphans => <<v, pointer[v]>> \in store

\* A pointer that is valid never comes to name something else by an installation,
\* not even by a repair or by one that looked before another activated.
PointerNeverSwitches ==
    [][\A v \in Versions :
          pointer[v] \in Digests /\ budget'.losses = budget.losses =>
              pointer'[v] \in {pointer[v], Malformed}]_vars

\* Of a version only one content is ever reported as installed, and it is active.
ReportedIsActive ==
    Undamaged /\ budget.losses = MaxPowerLosses =>
        \A p \in reported : pointer[p[1]] = p[2]

\* A failed installation leaves no stage: those that remain belong to a running or a
\* killed installer.
StagesCleaned ==
    budget.crashes = MaxCrashes /\ budget.losses = MaxPowerLosses =>
        \A i \in stages : install[i].phase \in Holding \ {"locked", "swept"}

\* The clean-up removes orphans only: the stage of a running installation stays.
StageInUseKept ==
    \A i \in Installers : install[i].phase \in {"staged", "verified", "renaming"} => i \in stages
=============================================================================
