-------------------------- MODULE InstallationProofs -------------------------
(***************************************************************************)
(* Proofs about what is set up once on a machine: the Packs (PackInstall), *)
(* the registry of workspaces and the creation of a workspace (Registry    *)
(* and Setup of MCInstallation), for every value of their constants.       *)
(***************************************************************************)
EXTENDS MCInstallation, FiniteSetTheorems, TLAPS

-----------------------------------------------------------------------------
(* PackInstall: the inductive invariant.                                   *)

Ended == {"idle", "done", "failed"}
InstallPhases == Holding \cup Ended \cup {"waiting"}
InstallRow == [phase : InstallPhases, version : Versions \cup {Nobody},
               digest : Digests \cup {Nobody}, repair : BOOLEAN,
               seen : Digests \cup {Absent, Malformed}]
Pointers == [Versions -> Digests \cup {Absent, Malformed}]
Pointing == {"published", "activating"}

PackTypes ==
    /\ install \in [Installers -> InstallRow]
    /\ lock \in [Versions -> Installers \cup {Nobody}]
    /\ pointer \in Pointers /\ pointerDisk \in Pointers
    /\ store \subseteq Packs /\ storeDisk \subseteq store /\ orphans \subseteq Packs
    /\ budget \in [Kinds -> Nat] /\ budget.damage <= MaxDamage
    /\ \A i \in Installers : install[i].phase \notin Ended =>
          install[i].version \in Versions /\ install[i].digest \in Digests

\* One installer per version is past its lock.
LocksInv ==
    \A i \in Installers, v \in Versions :
        lock[v] = i <=> install[i].phase \in Holding /\ install[i].version = v

\* A generation that is not on disk is an orphan or about to be synced; and what a pointer
\* names, or is about to name, is on disk or an orphan.
Accounted == storeDisk \cup orphans

GenerationsInv ==
    /\ \A p \in store \ storeDisk :
          p \in orphans \/ \E i \in Installers : install[i].phase = "renamed" /\ Pack(i) = p
    /\ Undamaged =>
          /\ \A v \in Versions : pointer[v] \in Digests => <<v, pointer[v]>> \in Accounted
          /\ \A v \in Versions : pointerDisk[v] \in Digests => <<v, pointerDisk[v]>> \in Accounted
          /\ \A i \in Installers : install[i].phase \in Pointing => Pack(i) \in Accounted
          /\ \A i \in Installers : install[i].phase = "renamed" => Pack(i) \in store

PackInv == PackTypes /\ LocksInv /\ GenerationsInv

-----------------------------------------------------------------------------
(* PackInstall: what the parts of a step do.                               *)

\* An event of a bounded kind is spent.
LEMMA SpendsOne ==
    ASSUME PackTypes, NEW what \in Kinds, Spend(what)
    PROVE  /\ budget' \in [Kinds -> Nat]
           /\ what # "damage" => budget'.damage = budget.damage
BY DEF PackTypes, Spend, Kinds

\* An installer goes on to a phase.
LEMMA Went ==
    ASSUME PackTypes, NEW i \in Installers, NEW ph \in InstallPhases, Goto(i, ph)
    PROVE  /\ install' \in [Installers -> InstallRow]
           /\ install'[i].phase = ph /\ install'[i].version = install[i].version
           /\ install'[i].digest = install[i].digest /\ install'[i].seen = install[i].seen
           /\ \A j \in Installers : j # i => install'[j] = install[j]
BY DEF PackTypes, Goto, InstallRow

\* An installer leaves an installation.
LEMMA Left ==
    ASSUME PackTypes, NEW i \in Installers, NEW outcome \in {"done", "failed"}, Leave(i, outcome),
           install[i].version \in Versions
    PROVE  /\ install' \in [Installers -> InstallRow] /\ install'[i].phase = outcome
           /\ \A j \in Installers : j # i => install'[j] = install[j]
           /\ lock' \in [Versions -> Installers \cup {Nobody}]
           /\ lock'[install[i].version] = Nobody
           /\ \A v \in Versions : v # install[i].version => lock'[v] = lock[v]
<1>1. [Idle EXCEPT !.phase = outcome] \in InstallRow /\ [Idle EXCEPT !.phase = outcome].phase = outcome
  BY DEF Idle, InstallRow, InstallPhases, Ended
<1> QED  BY <1>1 DEF PackTypes, Leave, Version

\* The locks of the versions, after a step of one installer.
LEMMA LockKept ==
    ASSUME PackInv, NEW i \in Installers, \A j \in Installers : j # i => install'[j] = install[j],
           lock' = lock, install'[i].version = install[i].version,
           install'[i].phase \in Holding <=> install[i].phase \in Holding
    PROVE  LocksInv'
BY DEF PackInv, LocksInv

\* The holder of a version lock lets go of it.
LEMMA LockFreed ==
    ASSUME PackInv, NEW i \in Installers, \A j \in Installers : j # i => install'[j] = install[j],
           install[i].phase \in Holding, install'[i].phase \notin Holding,
           lock'[install[i].version] = Nobody,
           \A v \in Versions : v # install[i].version => lock'[v] = lock[v]
    PROVE  LocksInv'
BY PackAssumption DEF PackInv, LocksInv

\* A step of one installer that keeps account of the generations keeps the invariant.
LEMMA InstallerStep ==
    ASSUME PackInv, NEW i \in Installers, LocksInv',
           install' \in [Installers -> InstallRow], \A j \in Installers : j # i => install'[j] = install[j],
           install'[i].phase \notin Ended =>
              install'[i].version \in Versions /\ install'[i].digest \in Digests,
           lock' \in [Versions -> Installers \cup {Nobody}],
           pointer' \in Pointers, pointerDisk' \in Pointers,
           store' \subseteq Packs, storeDisk' \subseteq store', orphans' \subseteq Packs,
           budget' \in [Kinds -> Nat], budget'.damage = budget.damage,
           Accounted \subseteq Accounted', store \subseteq store',
           \A p \in store' \ storeDisk' :
              \/ p \in orphans'
              \/ install'[i].phase = "renamed" /\ Pack(i)' = p
              \/ p \in store \ storeDisk /\ ~(install[i].phase = "renamed" /\ Pack(i) = p),
           \A v \in Versions : Undamaged /\ pointer'[v] # pointer[v] => <<v, pointer'[v]>> \in Accounted',
           \A v \in Versions :
              Undamaged /\ pointerDisk'[v] # pointerDisk[v] => <<v, pointerDisk'[v]>> \in Accounted',
           Undamaged /\ install'[i].phase \in Pointing => Pack(i)' \in Accounted',
           Undamaged /\ install'[i].phase = "renamed" => Pack(i)' \in store'
    PROVE  PackInv'
<1>1. PackTypes'
  BY DEF PackInv, PackTypes
<1>2. \A p \in store' \ storeDisk' :
        p \in orphans' \/ \E j \in Installers : (install[j].phase = "renamed" /\ Pack(j) = p)'
  <2>1. ASSUME NEW p \in store \ storeDisk, ~(install[i].phase = "renamed" /\ Pack(i) = p), p \notin orphans'
        PROVE  p \in Accounted' \/ \E j \in Installers : (install[j].phase = "renamed" /\ Pack(j) = p)'
    <3>1. CASE p \in orphans
      BY <3>1 DEF Accounted
    <3>2. CASE p \notin orphans
      <4>1. PICK j \in Installers : install[j].phase = "renamed" /\ Pack(j) = p
        BY <2>1, <3>2 DEF PackInv, GenerationsInv
      <4>2. j # i /\ install'[j] = install[j]
        BY <2>1, <4>1
      <4>. QED  BY <4>1, <4>2 DEF Pack
    <3>. QED  BY <3>1, <3>2
  <2>. QED  BY <2>1 DEF Accounted
<1>3. Undamaged' <=> Undamaged
  BY DEF Undamaged
<1>4. ASSUME Undamaged PROVE \A v \in Versions : pointer'[v] \in Digests => <<v, pointer'[v]>> \in Accounted'
  BY <1>4 DEF PackInv, GenerationsInv
<1>5. ASSUME Undamaged
      PROVE  \A v \in Versions : pointerDisk'[v] \in Digests => <<v, pointerDisk'[v]>> \in Accounted'
  BY <1>5 DEF PackInv, GenerationsInv
<1>6. ASSUME Undamaged, NEW j \in Installers, install'[j].phase \in Pointing PROVE Pack(j)' \in Accounted'
  <2>1. CASE j = i
    BY <1>6, <2>1
  <2>2. CASE j # i
    BY <1>6, <2>2 DEF PackInv, GenerationsInv, Pack
  <2>. QED  BY <2>1, <2>2
<1>7. ASSUME Undamaged, NEW j \in Installers, install'[j].phase = "renamed" PROVE Pack(j)' \in store'
  <2>1. CASE j = i
    BY <1>7, <2>1
  <2>2. CASE j # i
    BY <1>7, <2>2 DEF PackInv, GenerationsInv, Pack
  <2>. QED  BY <2>1, <2>2
<1>8. GenerationsInv'
  BY <1>2, <1>3, <1>4, <1>5, <1>6, <1>7 DEF GenerationsInv
<1> QED  BY <1>1, <1>8 DEF PackInv

\* Most steps leave the disk alone, take nothing from a generation that was just renamed
\* and start no pointer.
LEMMA QuietInstall ==
    ASSUME PackInv, NEW i \in Installers, LocksInv', UNCHANGED disk,
           install' \in [Installers -> InstallRow], \A j \in Installers : j # i => install'[j] = install[j],
           install'[i].phase \notin Ended =>
              install'[i].version \in Versions /\ install'[i].digest \in Digests,
           lock' \in [Versions -> Installers \cup {Nobody}],
           budget' \in [Kinds -> Nat], budget'.damage = budget.damage,
           install[i].phase # "renamed", install'[i].phase # "renamed",
           Undamaged /\ install'[i].phase \in Pointing => Pack(i)' \in Accounted
    PROVE  PackInv'
<1>1. UNCHANGED <<pointer, pointerDisk, store, storeDisk, orphans>> /\ Accounted' = Accounted
  BY DEF disk, Accounted
<1>2. /\ pointer' \in Pointers /\ pointerDisk' \in Pointers
      /\ store' \subseteq Packs /\ storeDisk' \subseteq store' /\ orphans' \subseteq Packs
  BY <1>1 DEF PackInv, PackTypes
<1> QED  BY <1>1, <1>2, InstallerStep

-----------------------------------------------------------------------------
(* PackInstall: each action keeps the invariant.                           *)

\* install begins with its Pack and whether it may repair.
LEMMA BeginInstallKeeps == ASSUME PackInv, NEW i \in Installers, Begin(i) PROVE PackInv'
<1>1. /\ PackTypes /\ install[i].phase = "idle" /\ UNCHANGED <<lock, disk>> /\ Spend("installs")
  BY DEF PackInv, Begin
<1>2. PICK p \in Packs, repair \in BOOLEAN :
        install' = [install EXCEPT ![i] = [Idle EXCEPT
                       !.phase = "waiting", !.version = p[1], !.digest = p[2], !.repair = repair]]
  BY DEF Begin
<1> DEFINE new == [Idle EXCEPT !.phase = "waiting", !.version = p[1], !.digest = p[2], !.repair = repair]
<1>3. /\ new \in InstallRow /\ new.phase = "waiting" /\ new.version \in Versions /\ new.digest \in Digests
  BY DEF Idle, InstallRow, InstallPhases, Packs
<1>. HIDE DEF new
<1>4. /\ install' \in [Installers -> InstallRow] /\ install'[i] = new
      /\ \A j \in Installers : j # i => install'[j] = install[j]
  BY <1>1, <1>2, <1>3 DEF PackTypes, new
<1>5. "waiting" \notin Holding \cup Pointing \cup {"renamed"} /\ "idle" \notin Holding /\ "installs" \in Kinds
  BY DEF Holding, Pointing, Kinds
<1>6. LocksInv'
  BY <1>1, <1>3, <1>4, <1>5 DEF PackInv, LocksInv
<1>7. lock' \in [Versions -> Installers \cup {Nobody}]
  BY <1>1 DEF PackTypes
<1> QED  BY <1>1, <1>3, <1>4, <1>5, <1>6, <1>7, SpendsOne, QuietInstall

\* The steps that only go on, with the lock held or without it.
LEMMA GoesOn ==
    ASSUME PackInv, NEW i \in Installers, NEW ph \in InstallPhases, Goto(i, ph),
           UNCHANGED <<lock, disk, budget>>,
           ph \in Holding <=> install[i].phase \in Holding,
           install[i].phase # "renamed", ph # "renamed", ph = "published" => Pack(i) \in Accounted,
           ph = "activating" => install[i].phase = "published",
           ph \notin Ended => install[i].phase \notin Ended
    PROVE  PackInv'
<1>1. PackTypes
  BY DEF PackInv
<1>2. /\ install' \in [Installers -> InstallRow]
      /\ install'[i].phase = ph /\ install'[i].version = install[i].version
      /\ install'[i].digest = install[i].digest
      /\ \A j \in Installers : j # i => install'[j] = install[j]
  BY <1>1, Went
<1>3. LocksInv'
  BY <1>2, LockKept
<1>4. lock' \in [Versions -> Installers \cup {Nobody}] /\ budget' \in [Kinds -> Nat]
  BY <1>1 DEF PackTypes
<1>5. Pack(i)' = Pack(i)
  BY <1>2 DEF Pack
<1>6. Undamaged /\ ph \in Pointing => Pack(i)' \in Accounted
  BY <1>5 DEF Pointing, PackInv, GenerationsInv
<1>7. ph \notin Ended => install[i].version \in Versions /\ install[i].digest \in Digests
  BY <1>1 DEF PackTypes
<1> QED  BY <1>2, <1>3, <1>4, <1>6, <1>7, QuietInstall

\* Steps that only go on, or clean up stages, touch neither pointers nor generations.
LEMMA GoingOnKeeps ==
    ASSUME PackInv, NEW i \in Installers,
           Busy(i) \/ Sweep(i) \/ MakeStage(i) \/ Materialize(i) \/ CheckPointer(i) \/ Close(i)
    PROVE  PackInv'
<1> USE DEF Holding, Ended, InstallPhases
<1>1. CASE Busy(i)
  BY <1>1, GoesOn DEF Busy
<1>2. CASE Sweep(i)
  BY <1>2, GoesOn DEF Sweep
<1>3. CASE MakeStage(i)
  BY <1>3, GoesOn DEF MakeStage
<1>4. CASE Materialize(i)
  BY <1>4, GoesOn DEF Materialize
<1>5. CASE CheckPointer(i)
  BY <1>5, GoesOn DEF CheckPointer
<1>6. CASE Close(i)
  BY <1>6, GoesOn DEF Close
<1> QED  BY <1>1, <1>2, <1>3, <1>4, <1>5, <1>6

\* The steps that end a call without a new generation.
LEMMA CallEnds ==
    ASSUME PackInv, NEW i \in Installers, NEW outcome \in {"done", "failed"}, Leave(i, outcome),
           UNCHANGED disk, install[i].phase \in Holding \ {"renamed"},
           budget' \in [Kinds -> Nat], budget'.damage = budget.damage
    PROVE  PackInv'
<1>1. PackTypes
  BY DEF PackInv
<1>2. install[i].version \in Versions /\ outcome \in Ended /\ outcome \notin Holding \cup Pointing \cup {"renamed"}
  BY <1>1 DEF PackTypes, Holding, Ended, Pointing
<1>3. /\ install' \in [Installers -> InstallRow] /\ install'[i].phase = outcome
      /\ \A j \in Installers : j # i => install'[j] = install[j]
      /\ lock' \in [Versions -> Installers \cup {Nobody}]
      /\ lock'[install[i].version] = Nobody
      /\ \A v \in Versions : v # install[i].version => lock'[v] = lock[v]
  BY <1>1, <1>2, Left
<1>4. LocksInv'
  BY <1>2, <1>3, LockFreed
<1> QED  BY <1>2, <1>3, <1>4, QuietInstall

\* An installation ends without having written.
LEMMA CallEndsKeeps ==
    ASSUME PackInv, NEW i \in Installers,
           \/ AlreadyActive(i) \/ Conflict(i) \/ PointerMoved(i) \/ KeepPointer(i) \/ StageLost(i)
           \/ Fault(i)
    PROVE  PackInv'
<1>1. PackTypes /\ budget \in [Kinds -> Nat]
  BY DEF PackInv, PackTypes
<1>2. CASE AlreadyActive(i)
  BY <1>1, <1>2, CallEnds DEF AlreadyActive, Holding
<1>3. CASE Conflict(i)
  BY <1>1, <1>3, CallEnds DEF Conflict, Holding
<1>4. CASE PointerMoved(i)
  BY <1>1, <1>4, CallEnds DEF PointerMoved, Holding
<1>5. CASE KeepPointer(i)
  BY <1>1, <1>5, CallEnds DEF KeepPointer, Holding
<1>6. CASE StageLost(i)
  BY <1>1, <1>6, CallEnds DEF StageLost, Holding
<1>7. CASE Fault(i)
  <2>1. "faults" \in Kinds
    BY DEF Kinds
  <2>2. budget' \in [Kinds -> Nat] /\ budget'.damage = budget.damage
    BY <1>1, <1>7, <2>1, SpendsOne DEF Fault
  <2>. QED  BY <1>7, <2>2, CallEnds DEF Fault
<1> QED  BY <1>2, <1>3, <1>4, <1>5, <1>6, <1>7

\* The version lock is taken.
LEMMA AcquireKeeps == ASSUME PackInv, NEW i \in Installers, Acquire(i) PROVE PackInv'
<1>1. /\ PackTypes /\ install[i].phase = "waiting" /\ lock[install[i].version] = Nobody
      /\ lock' = [lock EXCEPT ![install[i].version] = i] /\ Goto(i, "locked")
      /\ UNCHANGED <<disk, budget>>
  BY DEF PackInv, Acquire, Version
<1>2. /\ "locked" \in InstallPhases /\ "locked" \in Holding /\ "locked" \notin Pointing
      /\ "waiting" \notin Ended /\ "waiting" \notin Holding
  BY DEF InstallPhases, Holding, Pointing, Ended
<1>3. /\ install' \in [Installers -> InstallRow]
      /\ install'[i].phase = "locked" /\ install'[i].version = install[i].version
      /\ install'[i].digest = install[i].digest
      /\ \A j \in Installers : j # i => install'[j] = install[j]
  BY <1>1, <1>2, Went
<1>4. install[i].version \in Versions /\ install[i].digest \in Digests
  BY <1>1, <1>2 DEF PackTypes
<1>5. /\ lock' \in [Versions -> Installers \cup {Nobody}] /\ lock'[install[i].version] = i
      /\ \A v \in Versions : v # install[i].version => lock'[v] = lock[v]
  BY <1>1, <1>4 DEF PackTypes
<1>6. LocksInv'
  BY <1>1, <1>2, <1>3, <1>4, <1>5, PackAssumption DEF PackInv, LocksInv
<1>7. budget' \in [Kinds -> Nat] /\ budget'.damage = budget.damage
  BY <1>1 DEF PackTypes
<1> QED  BY <1>1, <1>2, <1>3, <1>4, <1>5, <1>6, <1>7, QuietInstall

\* A generation that is there already is on disk or an orphan: the lock keeps away
\* whoever could be between its rename and its sync.
LEMMA FoundIsAccounted ==
    ASSUME PackInv, NEW i \in Installers, install[i].phase = "verified", Pack(i) \in store
    PROVE  Pack(i) \in Accounted
<1>1. ASSUME NEW j \in Installers, install[j].phase = "renamed" PROVE Pack(j) # Pack(i)
  <2>1. install[i].version \in Versions /\ install[j].version \in Versions
    BY <1>1 DEF PackInv, PackTypes, Ended
  <2>2. lock[install[i].version] = i /\ lock[install[j].version] = j
    BY <1>1, <2>1 DEF PackInv, LocksInv, Holding
  <2>3. i # j
    BY <1>1
  <2>. QED  BY <2>2, <2>3 DEF Pack
<1> QED  BY <1>1 DEF PackInv, GenerationsInv, Accounted

\* The installer reads whether its generation is there.
LEMMA DecideKeeps == ASSUME PackInv, NEW i \in Installers, Decide(i) PROVE PackInv'
<1> DEFINE ph == IF Pack(i) \in store THEN "published" ELSE "renaming"
<1>1. /\ PackTypes /\ install[i].phase = "verified"
      /\ install' = [install EXCEPT ![i] = [@ EXCEPT !.phase = ph, !.seen = Active(i)]]
      /\ UNCHANGED <<lock, disk, budget>>
  BY DEF PackInv, Decide
<1>2. /\ ph \in InstallPhases /\ ph \in Holding /\ (ph = "published" <=> Pack(i) \in store)
      /\ ph \notin {"activating", "renamed"} /\ "verified" \in Holding /\ "verified" \notin Ended
  BY DEF InstallPhases, Holding, Ended
<1>3. install[i].version \in Versions /\ install[i].digest \in Digests
  BY <1>1, <1>2 DEF PackTypes
<1>4. Active(i) \in Digests \cup {Absent, Malformed}
  BY <1>1, <1>3 DEF PackTypes, Pointers, Active, Version
<1>. HIDE DEF ph
<1>5. /\ install' \in [Installers -> InstallRow]
      /\ install'[i].phase = ph /\ install'[i].version = install[i].version
      /\ install'[i].digest = install[i].digest
      /\ \A j \in Installers : j # i => install'[j] = install[j]
  BY <1>1, <1>2, <1>4 DEF PackTypes, InstallRow
<1>6. LocksInv'
  BY <1>1, <1>2, <1>5, LockKept
<1>7. lock' \in [Versions -> Installers \cup {Nobody}] /\ budget' \in [Kinds -> Nat]
  BY <1>1 DEF PackTypes
<1>8. Pack(i)' = Pack(i)
  BY <1>5 DEF Pack
<1>9. ph \in Pointing => Pack(i)' \in Accounted
  BY <1>1, <1>2, <1>8, FoundIsAccounted DEF Pointing
<1> QED  BY <1>1, <1>2, <1>3, <1>5, <1>6, <1>7, <1>9, QuietInstall

\* The stage becomes a generation, not yet synced.
LEMMA RenameKeeps == ASSUME PackInv, NEW i \in Installers, Rename(i) PROVE PackInv'
<1>1. /\ PackTypes /\ install[i].phase = "renaming" /\ Goto(i, "renamed")
      /\ store' = store \cup {Pack(i)}
      /\ UNCHANGED <<lock, pointer, pointerDisk, storeDisk, orphans, budget>>
  BY DEF PackInv, Rename
<1>2. /\ "renamed" \in InstallPhases /\ "renamed" \in Holding /\ "renamed" \notin Pointing
      /\ "renaming" \notin Ended /\ "renaming" \in Holding
  BY DEF InstallPhases, Holding, Pointing, Ended
<1>3. /\ install' \in [Installers -> InstallRow]
      /\ install'[i].phase = "renamed" /\ install'[i].version = install[i].version
      /\ install'[i].digest = install[i].digest
      /\ \A j \in Installers : j # i => install'[j] = install[j]
  BY <1>1, <1>2, Went
<1>4. install[i].version \in Versions /\ install[i].digest \in Digests
  BY <1>1, <1>2 DEF PackTypes
<1>5. LocksInv'
  BY <1>1, <1>2, <1>3, LockKept
<1>6. Pack(i)' = Pack(i) /\ Pack(i) \in Packs
  BY <1>3, <1>4 DEF Pack, Packs
<1>7. /\ lock' \in [Versions -> Installers \cup {Nobody}]
      /\ pointer' \in Pointers /\ pointerDisk' \in Pointers
      /\ store' \subseteq Packs /\ storeDisk' \subseteq store' /\ orphans' \subseteq Packs
      /\ budget' \in [Kinds -> Nat] /\ budget'.damage = budget.damage
  BY <1>1, <1>6 DEF PackTypes
<1>8. Accounted' = Accounted /\ store \subseteq store'
  BY <1>1 DEF Accounted
<1>9. \A p \in store' \ storeDisk' :
         \/ p \in orphans'
         \/ install'[i].phase = "renamed" /\ Pack(i)' = p
         \/ p \in store \ storeDisk /\ ~(install[i].phase = "renamed" /\ Pack(i) = p)
  BY <1>1, <1>3, <1>6
<1>10. install'[i].phase \notin Pointing /\ Pack(i)' \in store'
  BY <1>1, <1>2, <1>3, <1>6
<1>11. install'[i].version \in Versions /\ install'[i].digest \in Digests
  BY <1>3, <1>4
<1>12. \A v \in Versions : pointer'[v] = pointer[v] /\ pointerDisk'[v] = pointerDisk[v]
  BY <1>1
<1> QED  BY <1>3, <1>5, <1>7, <1>8, <1>9, <1>10, <1>11, <1>12, InstallerStep

\* The store is synced: what is in it is on disk.
LEMMA SyncKeeps == ASSUME PackInv, NEW i \in Installers, Sync(i) PROVE PackInv'
<1>1. /\ PackTypes /\ install[i].phase = "renamed" /\ Goto(i, "published")
      /\ storeDisk' = store /\ orphans' = orphans \ store
      /\ UNCHANGED <<lock, pointer, pointerDisk, store, budget>>
  BY DEF PackInv, Sync
<1>2. /\ "published" \in InstallPhases /\ "published" \in Holding
      /\ "renamed" \notin Ended /\ "renamed" \in Holding
  BY DEF InstallPhases, Holding, Ended
<1>3. /\ install' \in [Installers -> InstallRow]
      /\ install'[i].phase = "published" /\ install'[i].version = install[i].version
      /\ install'[i].digest = install[i].digest
      /\ \A j \in Installers : j # i => install'[j] = install[j]
  BY <1>1, <1>2, Went
<1>4. install[i].version \in Versions /\ install[i].digest \in Digests
  BY <1>1, <1>2 DEF PackTypes
<1>5. LocksInv'
  BY <1>1, <1>2, <1>3, LockKept
<1>6. /\ Pack(i)' = Pack(i)
      /\ Undamaged => Pack(i) \in store
  BY <1>1, <1>3 DEF Pack, PackInv, GenerationsInv
<1>7. /\ lock' \in [Versions -> Installers \cup {Nobody}]
      /\ pointer' \in Pointers /\ pointerDisk' \in Pointers
      /\ store' \subseteq Packs /\ storeDisk' \subseteq store' /\ orphans' \subseteq Packs
      /\ budget' \in [Kinds -> Nat] /\ budget'.damage = budget.damage
  BY <1>1 DEF PackTypes
<1>8. Accounted' = store \cup orphans
  BY <1>1 DEF Accounted
<1>9. /\ Accounted \subseteq Accounted' /\ store \subseteq store' /\ store' \ storeDisk' = {}
      /\ Undamaged => Pack(i)' \in Accounted'
  BY <1>1, <1>6, <1>8 DEF Accounted, PackTypes
<1>10. install'[i].version \in Versions /\ install'[i].digest \in Digests
  BY <1>3, <1>4
<1>11. \A v \in Versions : pointer'[v] = pointer[v] /\ pointerDisk'[v] = pointerDisk[v]
  BY <1>1
<1> QED  BY <1>3, <1>5, <1>7, <1>9, <1>10, <1>11, InstallerStep

\* A generation left before its sync is an orphan from then on.
LEMMA OrphanAccounts ==
    ASSUME PackTypes, NEW i \in Installers, Orphan(i), UNCHANGED <<store, storeDisk>>,
           install[i].version \in Versions, install[i].digest \in Digests
    PROVE  /\ orphans' \subseteq Packs /\ Accounted \subseteq Accounted' /\ Pack(i) \in Accounted'
           /\ \A p \in store' \ storeDisk' :
                 p \in orphans' \/ (p \in store \ storeDisk /\ Pack(i) # p)
BY DEF PackTypes, Orphan, Accounted, Pack, Packs

\* A sync that fails leaves an orphan.
LEMMA SyncFailsKeeps == ASSUME PackInv, NEW i \in Installers, SyncFails(i) PROVE PackInv'
<1>1. /\ PackTypes /\ install[i].phase = "renamed" /\ Spend("faults") /\ Orphan(i)
      /\ UNCHANGED <<pointer, pointerDisk, store, storeDisk>>
  BY DEF PackInv, SyncFails
<1>2. /\ "published" \in InstallPhases /\ "published" \in Holding
      /\ "renamed" \notin Ended /\ "renamed" \in Holding /\ "faults" \in Kinds
      /\ "failed" \in Ended /\ "failed" \notin Holding \cup Pointing
  BY DEF InstallPhases, Holding, Ended, Kinds, Pointing
<1>3. install[i].version \in Versions /\ install[i].digest \in Digests
  BY <1>1, <1>2 DEF PackTypes
<1>4. /\ orphans' \subseteq Packs /\ Accounted \subseteq Accounted' /\ Pack(i) \in Accounted'
      /\ \A p \in store' \ storeDisk' :
            p \in orphans' \/ (p \in store \ storeDisk /\ Pack(i) # p)
  BY <1>1, <1>3, OrphanAccounts
<1>5. /\ pointer' \in Pointers /\ pointerDisk' \in Pointers
      /\ store' \subseteq Packs /\ storeDisk' \subseteq store' /\ store \subseteq store'
      /\ \A v \in Versions : pointer'[v] = pointer[v] /\ pointerDisk'[v] = pointerDisk[v]
  BY <1>1 DEF PackTypes
<1>6. budget' \in [Kinds -> Nat] /\ budget'.damage = budget.damage
  BY <1>1, <1>2, SpendsOne
<1>7. CASE Goto(i, "published") /\ UNCHANGED lock
  <2>1. /\ install' \in [Installers -> InstallRow]
        /\ install'[i].phase = "published" /\ install'[i].version = install[i].version
        /\ install'[i].digest = install[i].digest
        /\ \A j \in Installers : j # i => install'[j] = install[j]
    BY <1>1, <1>2, <1>7, Went
  <2>2. LocksInv'
    BY <1>1, <1>2, <1>7, <2>1, LockKept
  <2>3. lock' \in [Versions -> Installers \cup {Nobody}]
    BY <1>1, <1>7 DEF PackTypes
  <2>4. Pack(i)' = Pack(i) /\ install'[i].version \in Versions /\ install'[i].digest \in Digests
    BY <1>3, <2>1 DEF Pack
  <2>. QED  BY <1>4, <1>5, <1>6, <2>1, <2>2, <2>3, <2>4, InstallerStep
<1>8. CASE Leave(i, "failed")
  <2>1. /\ install' \in [Installers -> InstallRow] /\ install'[i].phase = "failed"
        /\ \A j \in Installers : j # i => install'[j] = install[j]
        /\ lock' \in [Versions -> Installers \cup {Nobody}]
        /\ lock'[install[i].version] = Nobody
        /\ \A v \in Versions : v # install[i].version => lock'[v] = lock[v]
    BY <1>1, <1>3, <1>8, Left
  <2>2. LocksInv'
    BY <1>1, <1>2, <2>1, LockFreed
  <2>3. install'[i].phase \in Ended /\ install'[i].phase \notin Pointing /\ install'[i].phase # "renamed"
    BY <1>2, <2>1
  <2>. QED  BY <1>4, <1>5, <1>6, <2>1, <2>2, <2>3, InstallerStep
<1> QED  BY <1>7, <1>8 DEF SyncFails

\* active.json is replaced, with or without reaching the disk.
LEMMA ActivateKeeps == ASSUME PackInv, NEW i \in Installers, Activate(i) PROVE PackInv'
<1>1. /\ PackTypes /\ install[i].phase = "activating" /\ Leave(i, "done")
      /\ pointer' = [pointer EXCEPT ![install[i].version] = install[i].digest]
      /\ pointerDisk' \in {pointerDisk, [pointerDisk EXCEPT ![install[i].version] = install[i].digest]}
      /\ UNCHANGED <<store, storeDisk, orphans, budget>>
  BY DEF PackInv, Activate, Version
<1>2. /\ "activating" \in Pointing /\ "activating" \notin Ended /\ "activating" \in Holding
      /\ "done" \in Ended /\ "done" \notin Holding \cup Pointing
  BY DEF Pointing, Ended, Holding
<1>3. install[i].version \in Versions /\ install[i].digest \in Digests
  BY <1>1, <1>2 DEF PackTypes
<1>4. /\ install' \in [Installers -> InstallRow] /\ install'[i].phase = "done"
      /\ \A j \in Installers : j # i => install'[j] = install[j]
      /\ lock' \in [Versions -> Installers \cup {Nobody}]
      /\ lock'[install[i].version] = Nobody
      /\ \A v \in Versions : v # install[i].version => lock'[v] = lock[v]
  BY <1>1, <1>3, Left
<1>5. LocksInv'
  BY <1>1, <1>2, <1>4, LockFreed
<1>6. pointer' \in Pointers /\ pointerDisk' \in Pointers
  BY <1>1, <1>3 DEF PackTypes, Pointers
<1>7. /\ store' \subseteq Packs /\ storeDisk' \subseteq store' /\ orphans' \subseteq Packs
      /\ budget' \in [Kinds -> Nat] /\ budget'.damage = budget.damage
      /\ store \subseteq store' /\ store' \ storeDisk' = store \ storeDisk
  BY <1>1 DEF PackTypes
<1>8. Accounted' = Accounted
  BY <1>1 DEF Accounted
<1>9. Undamaged => <<install[i].version, install[i].digest>> \in Accounted
  BY <1>1, <1>2 DEF PackInv, GenerationsInv, Pack
<1>10. \A v \in Versions : Undamaged /\ pointer'[v] # pointer[v] => <<v, pointer'[v]>> \in Accounted'
  BY <1>1, <1>3, <1>8, <1>9 DEF PackTypes, Pointers
<1>11. \A v \in Versions :
         Undamaged /\ pointerDisk'[v] # pointerDisk[v] => <<v, pointerDisk'[v]>> \in Accounted'
  BY <1>1, <1>3, <1>8, <1>9 DEF PackTypes, Pointers
<1>12. install'[i].phase \in Ended /\ install'[i].phase \notin Pointing /\ install'[i].phase # "renamed"
  BY <1>2, <1>4 DEF Ended
<1> QED  BY <1>1, <1>4, <1>5, <1>6, <1>7, <1>8, <1>10, <1>11, <1>12, InstallerStep

\* An installer is killed.
LEMMA DieInstallKeeps == ASSUME PackInv, NEW i \in Installers, Die(i) PROVE PackInv'
<1>1. /\ PackTypes /\ install[i].phase \notin Ended /\ Spend("crashes")
      /\ install' = [install EXCEPT ![i] = Idle]
      /\ lock' = [v \in Versions |-> IF lock[v] = i THEN Nobody ELSE lock[v]]
      /\ UNCHANGED <<pointer, pointerDisk, store, storeDisk>>
  BY DEF PackInv, Die, Ended
<1>2. Idle \in InstallRow /\ Idle.phase \in Ended /\ Idle.phase \notin Holding \cup Pointing
  BY DEF Idle, InstallRow, InstallPhases, Ended, Holding, Pointing
<1>3. /\ install' \in [Installers -> InstallRow] /\ install'[i] = Idle
      /\ \A j \in Installers : j # i => install'[j] = install[j]
  BY <1>1, <1>2 DEF PackTypes
<1>4. install[i].version \in Versions /\ install[i].digest \in Digests
  BY <1>1 DEF PackTypes
<1>5. /\ lock' \in [Versions -> Installers \cup {Nobody}]
      /\ \A v \in Versions : lock'[v] = IF lock[v] = i THEN Nobody ELSE lock[v]
  BY <1>1 DEF PackTypes
<1>6. LocksInv'
  BY <1>2, <1>3, <1>5, PackAssumption DEF PackInv, LocksInv
<1>7. /\ orphans' \subseteq Packs /\ Accounted \subseteq Accounted'
      /\ \A p \in store' \ storeDisk' :
            p \in orphans' \/ (p \in store \ storeDisk /\ ~(install[i].phase = "renamed" /\ Pack(i) = p))
  <2>1. CASE install[i].phase = "renamed"
    <3>1. Orphan(i)
      BY <2>1 DEF Die
    <3>. QED  BY <1>1, <1>4, <3>1, OrphanAccounts
  <2>2. CASE install[i].phase # "renamed"
    <3>1. orphans' = orphans
      BY <2>2 DEF Die
    <3>. QED  BY <1>1, <2>2, <3>1 DEF PackTypes, Accounted
  <2>. QED  BY <2>1, <2>2
<1>8. /\ pointer' \in Pointers /\ pointerDisk' \in Pointers
      /\ store' \subseteq Packs /\ storeDisk' \subseteq store' /\ store \subseteq store'
      /\ \A v \in Versions : pointer'[v] = pointer[v] /\ pointerDisk'[v] = pointerDisk[v]
  BY <1>1 DEF PackTypes
<1>9. budget' \in [Kinds -> Nat] /\ budget'.damage = budget.damage
  <2>1. "crashes" \in Kinds
    BY DEF Kinds
  <2>. QED  BY <1>1, <2>1, SpendsOne
<1>10. install'[i].phase # "renamed"
  BY <1>2, <1>3 DEF Ended
<1> QED  BY <1>2, <1>3, <1>6, <1>5, <1>7, <1>8, <1>9, <1>10, InstallerStep

\* The power is lost: memory is what the disk has.
LEMMA PowerFailsKeeps == ASSUME PackInv, PowerFails PROVE PackInv'
<1>1. /\ PackTypes /\ Spend("losses") /\ orphans' = orphans \ store'
      /\ install' = [i \in Installers |-> Idle] /\ lock' = [v \in Versions |-> Nobody]
  BY DEF PackInv, PowerFails
<1>2. PICK lost \in SUBSET (store \ storeDisk) : store' = store \ lost /\ storeDisk' = store'
  BY DEF PowerFails
<1>3. PICK back \in SUBSET Versions :
         /\ pointer' = [v \in Versions |-> IF v \in back THEN pointerDisk[v] ELSE pointer[v]]
         /\ pointerDisk' = pointer'
  BY DEF PowerFails
<1>4. /\ Idle \in InstallRow /\ Idle.phase \in Ended
      /\ Idle.phase \notin Holding \cup Pointing \cup {"renamed"}
  BY DEF Idle, InstallRow, InstallPhases, Ended, Holding, Pointing
<1>5. /\ pointer' \in Pointers /\ pointerDisk' \in Pointers
      /\ \A v \in Versions : pointer'[v] \in {pointer[v], pointerDisk[v]}
  BY <1>1, <1>3 DEF PackTypes, Pointers
<1>6. /\ store' \subseteq Packs /\ storeDisk' \subseteq store' /\ orphans' \subseteq Packs
      /\ store' \ storeDisk' = {} /\ storeDisk \subseteq store'
  BY <1>1, <1>2 DEF PackTypes
<1>7. Accounted \subseteq Accounted'
  BY <1>1, <1>2, <1>6 DEF Accounted
<1>8. budget' \in [Kinds -> Nat] /\ budget'.damage = budget.damage
  <2>1. "losses" \in Kinds
    BY DEF Kinds
  <2>. QED  BY <1>1, <2>1, SpendsOne
<1>9. /\ \A i \in Installers : install'[i] = Idle
      /\ \A v \in Versions : lock'[v] = Nobody
      /\ install' \in [Installers -> InstallRow] /\ lock' \in [Versions -> Installers \cup {Nobody}]
  BY <1>1, <1>4
<1>10. PackTypes'
  BY <1>1, <1>4, <1>5, <1>6, <1>8, <1>9 DEF PackTypes
<1>11. LocksInv'
  BY <1>4, <1>9, PackAssumption DEF LocksInv
<1>12. ASSUME Undamaged
       PROVE  \A v \in Versions : pointer'[v] \in Digests => <<v, pointer'[v]>> \in Accounted'
  BY <1>12, <1>5, <1>7 DEF PackInv, GenerationsInv
<1>13. GenerationsInv'
  BY <1>3, <1>4, <1>6, <1>8, <1>9, <1>12 DEF GenerationsInv, Undamaged
<1> QED  BY <1>10, <1>11, <1>13 DEF PackInv

\* Somebody else removes a generation or makes a pointer unreadable.
LEMMA DamageKeeps == ASSUME PackInv, Damage PROVE PackInv'
<1>1. /\ PackTypes /\ Spend("damage") /\ UNCHANGED <<lock, stages, install, reported, orphans>>
  BY DEF PackInv, Damage
<1>2. budget' \in [Kinds -> Nat] /\ budget'.damage < MaxDamage /\ budget'.damage <= MaxDamage
  <2>1. budget' = [budget EXCEPT !["damage"] = @ - 1] /\ budget["damage"] > 0 /\ "damage" \in Kinds
    BY <1>1 DEF Spend, Kinds
  <2>. QED  BY <1>1, <2>1, PackAssumption DEF PackTypes
<1>3. ~Undamaged'
  BY <1>2, PackAssumption DEF Undamaged
<1>4. /\ pointer' \in Pointers /\ pointerDisk' \in Pointers
      /\ store' \subseteq Packs /\ storeDisk' \subseteq store'
      /\ store' \ storeDisk' \subseteq store \ storeDisk
  <2>1. CASE \E v \in Versions :
               /\ pointer' = [pointer EXCEPT ![v] = Malformed]
               /\ pointerDisk' = [pointerDisk EXCEPT ![v] = Malformed]
               /\ UNCHANGED <<store, storeDisk>>
    BY <1>1, <2>1 DEF PackTypes, Pointers
  <2>2. CASE \E p \in store : store' = store \ {p} /\ storeDisk' = storeDisk \ {p}
               /\ UNCHANGED <<pointer, pointerDisk>>
    BY <1>1, <2>2 DEF PackTypes
  <2>. QED  BY <2>1, <2>2 DEF Damage
<1>5. PackTypes'
  BY <1>1, <1>2, <1>4 DEF PackTypes
<1>6. LocksInv'
  BY <1>1 DEF PackInv, LocksInv
<1>7. \A p \in store' \ storeDisk' :
         p \in orphans' \/ \E i \in Installers : (install[i].phase = "renamed" /\ Pack(i) = p)'
  BY <1>1, <1>4 DEF PackInv, GenerationsInv, Pack
<1>8. GenerationsInv'
  BY <1>3, <1>7 DEF GenerationsInv
<1> QED  BY <1>5, <1>6, <1>8 DEF PackInv

\* Every step of the installers keeps the invariant.
LEMMA PackStep == ASSUME PackInv, [Next]_vars PROVE PackInv'
<1>1. ASSUME UNCHANGED vars PROVE PackInv'
  BY <1>1 DEF PackInv, PackTypes, LocksInv, GenerationsInv, Undamaged, Accounted, Pack, vars, disk
<1>2. ASSUME NEW i \in Installers, Begin(i) \/ Step(i) \/ Close(i) \/ Die(i) PROVE PackInv'
  BY <1>2, BeginInstallKeeps, GoingOnKeeps, CallEndsKeeps, AcquireKeeps, DecideKeeps, RenameKeeps,
     SyncKeeps, SyncFailsKeeps, ActivateKeeps, DieInstallKeeps DEF Step
<1> QED  BY <1>1, <1>2, PowerFailsKeeps, DamageKeeps DEF Next

\* It holds before the first installation.
LEMMA PackInit == Init => PackInv
<1> SUFFICES ASSUME Init PROVE PackInv
  OBVIOUS
<1>1. /\ Idle \in InstallRow /\ Idle.phase \in Ended
      /\ Idle.phase \notin Holding \cup Pointing \cup {"renamed"}
  BY DEF Idle, InstallRow, InstallPhases, Ended, Holding, Pointing
<1>2. /\ install \in [Installers -> InstallRow] /\ \A i \in Installers : install[i] = Idle
      /\ lock \in [Versions -> Installers \cup {Nobody}] /\ \A v \in Versions : lock[v] = Nobody
      /\ pointer \in Pointers /\ pointerDisk = pointer /\ \A v \in Versions : pointer[v] = Absent
      /\ store = {} /\ storeDisk = {} /\ orphans = {}
  BY <1>1 DEF Init, Pointers
<1>3. budget \in [Kinds -> Nat] /\ budget.damage = MaxDamage
  BY PackAssumption DEF Init, Kinds
<1>4. PackTypes
  BY <1>1, <1>2, <1>3, PackAssumption DEF PackTypes
<1>5. LocksInv
  BY <1>1, <1>2, PackAssumption DEF LocksInv
<1>6. GenerationsInv
  BY <1>1, <1>2, PackAssumption DEF GenerationsInv
<1> QED  BY <1>4, <1>5, <1>6 DEF PackInv

\* The invariant of Pack installation.
LEMMA PackInvHolds == Spec => []PackInv
<1> QED  BY PackInit, PackStep, PTL DEF Spec

\* What _write_active_pointer writes outlives a loss of power: active.json names a
\* generation that is in the store, unless something from outside damaged either or an
\* installer had left the generation before its sync.
THEOREM PointersHaveGenerations == Spec => []PointerHasGeneration
<1>1. PackInv => PointerHasGeneration
  BY DEF PackInv, PackTypes, GenerationsInv, Accounted, PointerHasGeneration
<1> QED  BY <1>1, PackInvHolds, PTL

-----------------------------------------------------------------------------
(* WorkspaceRegistry: the inductive invariant.                             *)

EntryRow == [workspace : Workspaces, id : Nat]
CallRow == [phase : {"idle", "inspected", "read", "staged"},
            workspaces : SUBSET Workspaces, image : SUBSET EntryRow]

\* Entries that name workspaces and ids at most once, with ids handed out already.
OneEach(entries, ids) ==
    /\ entries \subseteq EntryRow /\ \A e \in entries : e.id <= ids
    /\ \A e, f \in entries : e.workspace = f.workspace \/ e.id = f.id => e = f
    /\ IsFiniteSet(entries) /\ Cardinality(entries) <= Capacity

\* What a resolver that holds the lock has before it: the registry, or the registry with
\* its own workspace added.
CallInv(c) ==
    /\ resolving[c].phase # "idle" => resolving[c].workspaces # {}
    /\ resolving[c].phase = "read" => resolving[c].image = registry
    /\ resolving[c].phase = "staged" =>
          registry \subseteq resolving[c].image /\ OneEach(resolving[c].image, minted)

RegistryInv ==
    /\ resolving \in [Installers -> CallRow]
    /\ \A c \in Installers : registryLock = c <=> resolving[c].phase \in {"read", "staged"}
    /\ minted \in Nat
    /\ OneEach(registry, minted) /\ returned \subseteq registry
    /\ \A c \in Installers : CallInv(c)

\* The instance counts as the library does.
LEMMA SameCount == ASSUME NEW S PROVE Registry!Cardinality(S) = Cardinality(S)
BY DEF Registry!Cardinality, Cardinality

\* What the constants of the registry are.
LEMMA RegistryParameters ==
    InstallationAssumption => Capacity \in Nat /\ RegistryCalls \in Nat /\ Nobody \notin Installers
BY DEF InstallationAssumption, Registry!RegistryAssumption

\* A list with one entry more, for a workspace and an id that it does not have.
LEMMA OneMore ==
    ASSUME NEW entries, NEW ids \in Nat, OneEach(entries, ids), NEW new, new.id = ids + 1,
           new \in EntryRow, \A e \in entries : e.workspace # new.workspace,
           ~(Cardinality(entries) >= Capacity)
    PROVE  OneEach(entries \cup {new}, ids + 1)
<1>1. new \notin entries /\ \A e \in entries : e.id \in Nat /\ e.id <= ids
  BY DEF OneEach, EntryRow
<1>2. /\ IsFiniteSet(entries \cup {new})
      /\ Cardinality(entries \cup {new}) = Cardinality(entries) + 1
  BY <1>1, FS_AddElement DEF OneEach
<1>3. Cardinality(entries \cup {new}) <= Capacity
  BY <1>2, FS_CardinalityType, InstallationAssumption, RegistryParameters DEF OneEach
<1>4. entries \cup {new} \subseteq EntryRow /\ \A e \in entries \cup {new} : e.id <= ids + 1
  BY <1>1 DEF OneEach
<1>5. \A e, f \in entries \cup {new} : e.workspace = f.workspace \/ e.id = f.id => e = f
  BY <1>1 DEF OneEach
<1> QED  BY <1>2, <1>3, <1>4, <1>5 DEF OneEach

-----------------------------------------------------------------------------
(* WorkspaceRegistry: each action keeps the invariant.                     *)

\* The calls of the others, and the registry, stay.
LEMMA ResolverStep ==
    ASSUME RegistryInv, NEW c \in Installers, resolving' \in [Installers -> CallRow],
           \A d \in Installers : d # c => resolving'[d] = resolving[d],
           \A d \in Installers : registryLock' = d <=> resolving'[d].phase \in {"read", "staged"},
           registry' = registry, minted' \in Nat, minted <= minted', minted' = minted \/ registryLock = c,
           returned' \subseteq registry', CallInv(c)'
    PROVE  RegistryInv'
<1>1. OneEach(registry', minted')
  BY DEF RegistryInv, OneEach, EntryRow
<1>2. ASSUME NEW d \in Installers, d # c PROVE CallInv(d)'
  <2>1. CallInv(d) /\ resolving'[d] = resolving[d]
    BY <1>2 DEF RegistryInv
  <2>2. resolving[d].phase = "staged" => minted' = minted
    BY <1>2 DEF RegistryInv
  <2>. QED  BY <2>1, <2>2 DEF CallInv
<1> QED  BY <1>1, <1>2 DEF RegistryInv

\* A call that is over holds nothing.
LEMMA ResolverLeaves ==
    ASSUME RegistryInv, NEW c \in Installers, Registry!Leave(c), registryLock = c
    PROVE  /\ resolving' \in [Installers -> CallRow] /\ CallInv(c)'
           /\ \A d \in Installers : d # c => resolving'[d] = resolving[d]
           /\ \A d \in Installers : registryLock' = d <=> resolving'[d].phase \in {"read", "staged"}
<1>1. Registry!NoCall.phase = "idle" /\ Registry!NoCall \in CallRow
  BY DEF Registry!NoCall, CallRow
<1>2. /\ resolving' \in [Installers -> CallRow] /\ resolving'[c] = Registry!NoCall
      /\ \A d \in Installers : d # c => resolving'[d] = resolving[d]
      /\ registryLock' = Nobody
  BY <1>1 DEF RegistryInv, Registry!Leave
<1>3. \A d \in Installers : registryLock' # d
  BY <1>2, InstallationAssumption, RegistryParameters
<1>4. \A d \in Installers : resolving'[d].phase \notin {"read", "staged"}
  BY <1>1, <1>2 DEF RegistryInv
<1>5. CallInv(c)'
  BY <1>1, <1>2 DEF CallInv
<1> QED  BY <1>2, <1>3, <1>4, <1>5

\* resolve looks at the workspace.
LEMMA InspectKeeps == ASSUME RegistryInv, NEW c \in Installers, Registry!Inspect(c) PROVE RegistryInv'
<1>1. PICK w \in Workspaces :
        resolving' = [resolving EXCEPT ![c] = [@ EXCEPT !.phase = "inspected", !.workspaces = {w}]]
  BY DEF Registry!Inspect
<1>2. resolving[c].phase = "idle" /\ UNCHANGED <<registry, registryLock, returned, minted>>
  BY DEF Registry!Inspect
<1>3. /\ resolving' \in [Installers -> CallRow]
      /\ resolving'[c].phase = "inspected" /\ resolving'[c].workspaces = {w}
      /\ \A d \in Installers : d # c => resolving'[d] = resolving[d]
  BY <1>1 DEF RegistryInv, CallRow
<1>4. \A d \in Installers : registryLock' = d <=> resolving'[d].phase \in {"read", "staged"}
  BY <1>2, <1>3 DEF RegistryInv
<1>5. CallInv(c)'
  BY <1>3 DEF CallInv
<1> QED  BY <1>2, <1>3, <1>4, <1>5, ResolverStep DEF RegistryInv

\* resolve reads the registry under its lock.
LEMMA LockKeeps == ASSUME RegistryInv, NEW c \in Installers, Registry!Lock(c) PROVE RegistryInv'
<1>1. /\ resolving[c].phase = "inspected" /\ registryLock = Nobody /\ registryLock' = c
      /\ resolving' = [resolving EXCEPT ![c] = [@ EXCEPT !.phase = "read", !.image = registry]]
      /\ UNCHANGED <<registry, returned, minted>>
  BY DEF Registry!Lock, Registry!Take
<1>2. registry \subseteq EntryRow
  BY DEF RegistryInv, OneEach
<1>3. /\ resolving' \in [Installers -> CallRow]
      /\ resolving'[c].phase = "read" /\ resolving'[c].workspaces = resolving[c].workspaces
      /\ resolving'[c].image = registry
      /\ \A d \in Installers : d # c => resolving'[d] = resolving[d]
  BY <1>1, <1>2 DEF RegistryInv, CallRow
<1>4. \A d \in Installers : registryLock' = d <=> resolving'[d].phase \in {"read", "staged"}
  BY <1>1, <1>3, InstallationAssumption, RegistryParameters DEF RegistryInv
<1>5. CallInv(c)'
  BY <1>1, <1>3 DEF CallInv, RegistryInv
<1> QED  BY <1>1, <1>3, <1>4, <1>5, ResolverStep DEF RegistryInv

\* resolve answers from the registry, or refuses.
LEMMA KnownKeeps ==
    ASSUME RegistryInv, NEW c \in Installers, Registry!Known(c) \/ Registry!Refuse(c)
    PROVE  RegistryInv'
<1>1. /\ resolving[c].phase = "read" /\ Registry!Leave(c) /\ UNCHANGED <<registry, minted>>
      /\ returned' = returned \/ returned' = returned \cup Registry!Found(c)
  BY DEF Registry!Known, Registry!Refuse
<1>2. registryLock = c /\ Registry!Found(c) \subseteq registry
  BY <1>1 DEF RegistryInv, CallInv, Registry!Found
<1> QED  BY <1>1, <1>2, ResolverLeaves, ResolverStep DEF RegistryInv

\* resolve prepares an entry with a new id.
LEMMA StageKeeps == ASSUME RegistryInv, NEW c \in Installers, Registry!Stage(c) PROVE RegistryInv'
<1> DEFINE new == [workspace |-> CHOOSE w \in resolving[c].workspaces : TRUE, id |-> minted + 1]
<1>1. /\ resolving[c].phase = "read" /\ Registry!Found(c) = {} /\ minted' = minted + 1
      /\ ~(Cardinality(resolving[c].image) >= Capacity)
      /\ resolving' = [resolving EXCEPT ![c] =
                        [@ EXCEPT !.phase = "staged", !.image = resolving[c].image \cup {new}]]
      /\ UNCHANGED <<registry, registryLock, returned>>
  <2>1. Registry!Mint(c) /\ UNCHANGED <<registry, registryLock, returned>>
    BY DEF Registry!Stage
  <2>2. /\ resolving[c].phase = "read" /\ Registry!Found(c) = {} /\ minted' = minted + 1
        /\ ~Registry!Full(c)
    BY <2>1 DEF Registry!Mint
  <2>3. ~(Cardinality(resolving[c].image) >= Capacity)
    BY <2>2, SameCount DEF Registry!Full
  <2>4. resolving' = [resolving EXCEPT ![c] =
                        [@ EXCEPT !.phase = "staged", !.image = resolving[c].image \cup {new}]]
    BY <2>1, Zenon DEF Registry!Mint
  <2>. QED  BY <2>1, <2>2, <2>3, <2>4
<1>2. /\ resolving[c].image = registry /\ registryLock = c /\ minted \in Nat
      /\ resolving[c].workspaces # {} /\ resolving[c].workspaces \subseteq Workspaces
      /\ OneEach(registry, minted)
  BY <1>1 DEF RegistryInv, CallInv, CallRow
<1>3. new.workspace \in resolving[c].workspaces /\ new \in EntryRow /\ new.id = minted + 1
  BY <1>2 DEF EntryRow
<1>4. \A e \in registry : e.workspace # new.workspace
  BY <1>1, <1>2, <1>3 DEF Registry!Found
<1>. HIDE DEF new
<1>5. OneEach(registry \cup {new}, minted + 1)
  BY <1>1, <1>2, <1>3, <1>4, OneMore
<1>6. registry \cup {new} \subseteq EntryRow
  BY <1>5 DEF OneEach
<1>7. /\ resolving' \in [Installers -> CallRow]
      /\ resolving'[c].phase = "staged" /\ resolving'[c].workspaces = resolving[c].workspaces
      /\ resolving'[c].image = registry \cup {new}
      /\ \A d \in Installers : d # c => resolving'[d] = resolving[d]
  <2>1. resolving \in [Installers -> CallRow] /\ registry \cup {new} \in SUBSET EntryRow
    BY <1>6 DEF RegistryInv
  <2>2. resolving' = [resolving EXCEPT ![c] =
                         [@ EXCEPT !.phase = "staged", !.image = registry \cup {new}]]
    BY <1>1, <1>2
  <2>. QED  BY <2>1, <2>2 DEF CallRow
<1>8. \A d \in Installers : registryLock' = d <=> resolving'[d].phase \in {"read", "staged"}
  BY <1>1, <1>2, <1>7 DEF RegistryInv
<1>9. CallInv(c)'
  BY <1>1, <1>2, <1>5, <1>7 DEF CallInv
<1>10. minted' \in Nat /\ minted <= minted'
  BY <1>1, <1>2
<1> QED  BY <1>1, <1>2, <1>7, <1>8, <1>9, <1>10, ResolverStep DEF RegistryInv

\* The registry file cannot be replaced.
LEMMA ReplaceRefusedKeeps ==
    ASSUME RegistryInv, NEW c \in Installers, Registry!ReplaceRefused(c) PROVE RegistryInv'
<1>1. /\ resolving[c].phase = "staged" /\ Registry!Leave(c)
      /\ UNCHANGED <<registry, minted, returned>>
  BY DEF Registry!ReplaceRefused
<1>2. registryLock = c
  BY <1>1 DEF RegistryInv
<1> QED  BY <1>1, <1>2, ResolverLeaves, ResolverStep DEF RegistryInv

\* The registry file is replaced by what was prepared.
LEMMA ReplaceKeeps == ASSUME RegistryInv, NEW c \in Installers, Registry!Replace(c) PROVE RegistryInv'
<1>1. /\ resolving[c].phase = "staged" /\ registry' = resolving[c].image
      /\ returned' = returned \cup Registry!Found(c) /\ Registry!Leave(c) /\ minted' = minted
  BY DEF Registry!Replace
<1>2. /\ registryLock = c /\ registry \subseteq resolving[c].image
      /\ OneEach(resolving[c].image, minted)
  BY <1>1 DEF RegistryInv, CallInv
<1>3. OneEach(registry', minted') /\ returned' \subseteq registry'
  BY <1>1, <1>2 DEF RegistryInv, Registry!Found
<1>4. /\ resolving' \in [Installers -> CallRow] /\ CallInv(c)'
      /\ \A d \in Installers : d # c => resolving'[d] = resolving[d]
      /\ \A d \in Installers : registryLock' = d <=> resolving'[d].phase \in {"read", "staged"}
  BY <1>1, <1>2, ResolverLeaves
<1>5. ASSUME NEW d \in Installers, d # c PROVE CallInv(d)'
  <2>1. resolving[d].phase \notin {"read", "staged"}
    BY <1>2, <1>5 DEF RegistryInv
  <2>. QED  BY <1>4, <1>5, <2>1 DEF CallInv, RegistryInv
<1> QED  BY <1>1, <1>3, <1>4, <1>5 DEF RegistryInv

\* A process dies; its lock is freed.
LEMMA DieResolverKeeps == ASSUME RegistryInv, NEW c \in Installers, Registry!Die(c) PROVE RegistryInv'
<1>1. /\ resolving' = [resolving EXCEPT ![c] = Registry!NoCall]
      /\ registryLock' = IF registryLock = c THEN Nobody ELSE registryLock
      /\ UNCHANGED <<registry, returned, minted>>
  BY DEF Registry!Die
<1>2. Registry!NoCall.phase = "idle" /\ Registry!NoCall \in CallRow
  BY DEF Registry!NoCall, CallRow
<1>3. /\ resolving' \in [Installers -> CallRow] /\ resolving'[c] = Registry!NoCall
      /\ \A d \in Installers : d # c => resolving'[d] = resolving[d]
  BY <1>1, <1>2 DEF RegistryInv
<1>4. \A d \in Installers : registryLock' = d <=> resolving'[d].phase \in {"read", "staged"}
  BY <1>1, <1>2, <1>3, InstallationAssumption, RegistryParameters DEF RegistryInv
<1>5. CallInv(c)'
  BY <1>2, <1>3 DEF CallInv
<1> QED  BY <1>1, <1>3, <1>4, <1>5, ResolverStep DEF RegistryInv

\* Every step of resolve keeps the invariant.
LEMMA RegistryStep ==
    ASSUME RegistryInv, [Registry!Next]_(Registry!vars) PROVE RegistryInv'
<1>1. ASSUME UNCHANGED <<registry, registryLock, resolving, returned, minted>> PROVE RegistryInv'
  BY <1>1 DEF RegistryInv, CallInv
<1>2. CASE UNCHANGED Registry!vars
  BY <1>1, <1>2 DEF Registry!vars
<1>3. ASSUME NEW c \in Installers, Registry!Inspect(c) \/ Registry!Resolve(c) \/ Registry!Die(c)
      PROVE  RegistryInv'
  BY <1>3, InspectKeeps, LockKeeps, KnownKeeps, StageKeeps, ReplaceKeeps, ReplaceRefusedKeeps,
     DieResolverKeeps DEF Registry!Resolve
<1>4. ASSUME NEW r \in Readers, Registry!Open(r) \/ Registry!Read(r) \/ Registry!Close(r)
      PROVE  RegistryInv'
  BY <1>1, <1>4 DEF Registry!Open, Registry!Read, Registry!Close
<1> QED  BY <1>2, <1>3, <1>4 DEF Registry!Next

\* The invariant of the registry.
LEMMA RegistryInvHolds == Registry!Spec => []RegistryInv
<1>1. Registry!Init => RegistryInv
  <2> SUFFICES ASSUME Registry!Init PROVE RegistryInv
    OBVIOUS
  <2>1. Registry!NoCall.phase = "idle" /\ Registry!NoCall \in CallRow
    BY DEF Registry!NoCall, CallRow
  <2>2. /\ registry = {} /\ registryLock = Nobody /\ returned = {} /\ minted = 0
        /\ resolving \in [Installers -> CallRow] /\ \A c \in Installers : resolving[c].phase = "idle"
    BY <2>1 DEF Registry!Init
  <2>3. OneEach(registry, minted)
    BY <2>2, FS_EmptySet, InstallationAssumption, RegistryParameters DEF OneEach
  <2>4. \A c \in Installers : CallInv(c)
    BY <2>2 DEF CallInv
  <2>. QED  BY <2>2, <2>3, <2>4, InstallationAssumption, RegistryParameters DEF RegistryInv
<1> QED  BY <1>1, RegistryStep, PTL DEF Registry!Spec

\* WorkspaceInstanceRegistry.resolve: the id that was returned for a workspace stays its
\* id, whichever processes resolve at the same time, are killed or find the registry full.
THEOREM InstancesAreStable == Registry!Spec => []StableInstances
<1>1. RegistryInv => StableInstances
  BY DEF RegistryInv, OneEach, StableInstances, Registry!StableInstances
<1> QED  BY <1>1, RegistryInvHolds, PTL

\* What resolve writes passes _validate_registry at the next read, also at its limit.
THEOREM RegistryStaysReadable == Registry!Spec => []Registry!RegistryReadable
<1>1. RegistryInv => Registry!RegistryReadable
  <2>1. ASSUME OneEach(registry, minted) PROVE Registry!Valid(registry)
    BY <2>1, SameCount DEF OneEach, Registry!Valid
  <2>. QED  BY <2>1 DEF RegistryInv, Registry!RegistryReadable
<1> QED  BY <1>1, RegistryInvHolds, PTL

-----------------------------------------------------------------------------
(* WorkspaceInit: the inductive invariant.                                 *)

SetupPhases == {"idle", "waiting", "created", "reused", "failed", "refused"} \cup Setup!Locked
CallerRow == [phase : SetupPhases, number : Nat, name : Names \cup {Nobody}, root : BOOLEAN,
              control : BOOLEAN, made : SUBSET Directories, temp : BOOLEAN, wrote : BOOLEAN]
Trees == [root : BOOLEAN, control : BOOLEAN, dirs : SUBSET Directories, temps : SUBSET Nat,
          manifest : {Setup!NoManifest} \cup (Nat \X (Names \cup {Nobody}))]

\* The phases in which the workspace has no manifest that a caller was told of: the
\* manifest is about to be placed, or was placed by this call and not yet reported.
Pending == {"written", "placed", "withdraw"}
Unwritten == {"waiting", "locked", "rooted", "prepared", "written"}

SetupInv ==
    /\ initialising \in [Callers -> CallerRow] /\ contents \in Trees
    /\ initBudget \in [{"calls", "faults", "crashes"} -> Nat]
    /\ \A c \in Callers : initLock = c <=> initialising[c].phase \in Setup!Locked
    /\ \A r \in results : r = contents.manifest /\ r # Setup!NoManifest
    /\ \A c \in Callers :
          /\ initialising[c].phase \in Pending => results = {}
          /\ initialising[c].phase = "placed" => contents.manifest # Setup!NoManifest
          /\ initialising[c].phase \in Unwritten =>
                ~initialising[c].wrote

\* What the constants of the initialisation are.
LEMMA SetupParameters ==
    /\ InitCalls \in Nat /\ InitFaults \in Nat /\ MaxCrashes \in Nat /\ Nobody \notin Callers
BY InstallationAssumption DEF InstallationAssumption, Setup!InitAssumption

-----------------------------------------------------------------------------
(* WorkspaceInit: what the parts of a step do.                             *)

\* An event of a bounded kind is spent.
LEMMA SetupSpends ==
    ASSUME SetupInv, NEW what \in {"calls", "faults", "crashes"}, Setup!Spend(what)
    PROVE  initBudget' \in [{"calls", "faults", "crashes"} -> Nat]
BY DEF SetupInv, Setup!Spend

\* A call goes on to a phase.
LEMMA SetupGoes ==
    ASSUME SetupInv, NEW c \in Callers, NEW ph \in SetupPhases, Setup!Goto(c, ph)
    PROVE  /\ initialising' \in [Callers -> CallerRow]
           /\ initialising'[c].phase = ph /\ initialising'[c].wrote = initialising[c].wrote
           /\ \A d \in Callers : d # c => initialising'[d] = initialising[d]
BY DEF SetupInv, Setup!Goto, CallerRow

\* A caller without a call, and one that begins.
LEMMA NoCallTyped ==
    /\ Setup!NoCall \in CallerRow /\ Setup!NoCall.phase = "idle" /\ ~Setup!NoCall.wrote
    /\ \A ph \in SetupPhases :
          LET row == [Setup!NoCall EXCEPT !.phase = ph]
          IN  row \in CallerRow /\ row.phase = ph /\ ~row.wrote
BY DEF Setup!NoCall, CallerRow, SetupPhases

Outcomes == {"created", "reused", "failed", "refused"}

\* A call ends and lets go of the lock.
LEMMA SetupEnds ==
    ASSUME SetupInv, NEW c \in Callers, NEW outcome \in Outcomes, Setup!End(c, outcome),
           initialising[c].phase \in Setup!Locked
    PROVE  /\ initialising' \in [Callers -> CallerRow] /\ initialising'[c].phase = outcome
           /\ \A d \in Callers : d # c => initialising'[d] = initialising[d]
           /\ \A d \in Callers : initLock' = d <=> initialising'[d].phase \in Setup!Locked
<1>1. outcome \in SetupPhases /\ outcome \notin Setup!Locked
  BY DEF Outcomes, SetupPhases, Setup!Locked
<1> DEFINE row == [Setup!NoCall EXCEPT !.phase = outcome]
<1>2. row \in CallerRow /\ row.phase = outcome
  BY <1>1, NoCallTyped
<1>3. initialising' = [initialising EXCEPT ![c] = row] /\ initLock' = Nobody
  BY DEF Setup!End
<1>. HIDE DEF row
<1>4. /\ initialising' \in [Callers -> CallerRow] /\ initialising'[c] = row
      /\ \A d \in Callers : d # c => initialising'[d] = initialising[d]
  BY <1>2, <1>3 DEF SetupInv
<1>5. \A d \in Callers : initLock' # d /\ initialising'[d].phase \notin Setup!Locked
  BY <1>1, <1>2, <1>3, <1>4, SetupParameters DEF SetupInv
<1> QED  BY <1>2, <1>4, <1>5

\* A step with the lock that leaves the manifest alone, or leaves nobody to be told of it.
LEMMA SetupStep ==
    ASSUME SetupInv, NEW c \in Callers, initialising' \in [Callers -> CallerRow], contents' \in Trees,
           \A d \in Callers : d # c => initialising'[d] = initialising[d],
           \A d \in Callers : initLock' = d <=> initialising'[d].phase \in Setup!Locked,
           initBudget' \in [{"calls", "faults", "crashes"} -> Nat],
           contents'.manifest = contents.manifest \/ initialising[c].phase \in Pending,
           \A r \in results' : r \in results \/ (r = contents'.manifest /\ r # Setup!NoManifest),
           results' = results \/ initialising[c].phase \in Setup!Locked,
           /\ initialising'[c].phase \in Pending => results' = {}
           /\ initialising'[c].phase = "placed" => contents'.manifest # Setup!NoManifest
           /\ initialising'[c].phase \in Unwritten =>
                 ~initialising'[c].wrote
    PROVE  SetupInv'
<1>1. \A r \in results' : r = contents'.manifest /\ r # Setup!NoManifest
  BY DEF SetupInv
<1>2. ASSUME NEW d \in Callers, d # c
      PROVE  /\ initialising'[d].phase \in Pending => results' = {}
             /\ initialising'[d].phase = "placed" => contents'.manifest # Setup!NoManifest
             /\ initialising'[d].phase \in Unwritten =>
                   ~initialising'[d].wrote
  <2>1. initialising'[d] = initialising[d] /\ Pending \subseteq Setup!Locked
    BY <1>2 DEF Pending, Setup!Locked
  <2>2. initialising[d].phase \in Pending => initialising[c].phase \notin Setup!Locked
    BY <1>2, <2>1 DEF SetupInv
  <2>3. initialising[d].phase \in Pending => results' = results /\ contents'.manifest = contents.manifest
    BY <2>1, <2>2
  <2>4. "placed" \in Pending
    BY DEF Pending
  <2>. QED  BY <1>2, <2>1, <2>3, <2>4 DEF SetupInv
<1> QED  BY <1>1, <1>2 DEF SetupInv

\* The lock stays with its holder.
LEMMA SetupLockKept ==
    ASSUME SetupInv, NEW c \in Callers, initLock' = initLock,
           \A d \in Callers : d # c => initialising'[d] = initialising[d],
           initialising'[c].phase \in Setup!Locked <=> initialising[c].phase \in Setup!Locked
    PROVE  \A d \in Callers : initLock' = d <=> initialising'[d].phase \in Setup!Locked
BY DEF SetupInv

-----------------------------------------------------------------------------
(* WorkspaceInit: each action keeps the invariant.                         *)

\* initialize_workspace begins.
LEMMA BeginSetupKeeps == ASSUME SetupInv, NEW c \in Callers, Setup!Begin(c) PROVE SetupInv'
<1>1. /\ initialising[c].phase = "idle" /\ Setup!Spend("calls")
      /\ UNCHANGED <<contents, initLock, results>>
  BY DEF Setup!Begin
<1>2. PICK n \in Names :
        initialising' = [initialising EXCEPT ![c] =
           [Setup!NoCall EXCEPT !.phase = "waiting", !.number = initBudget.calls, !.name = n]]
  BY DEF Setup!Begin
<1> DEFINE row == [Setup!NoCall EXCEPT !.phase = "waiting", !.number = initBudget.calls, !.name = n]
<1>3. row \in CallerRow /\ row.phase = "waiting" /\ ~row.wrote
  BY DEF SetupInv, Setup!NoCall, CallerRow, SetupPhases
<1>. HIDE DEF row
<1>4. /\ initialising' \in [Callers -> CallerRow] /\ initialising'[c].phase = "waiting"
      /\ ~initialising'[c].wrote
      /\ \A d \in Callers : d # c => initialising'[d] = initialising[d]
  BY <1>2, <1>3 DEF SetupInv, row
<1>5. "waiting" \notin Setup!Locked \cup Pending /\ "idle" \notin Setup!Locked
  BY DEF Setup!Locked, Pending
<1>6. \A d \in Callers : initLock' = d <=> initialising'[d].phase \in Setup!Locked
  BY <1>1, <1>4, <1>5, SetupLockKept
<1>7. contents' \in Trees
  BY <1>1 DEF SetupInv
<1>8. initBudget' \in [{"calls", "faults", "crashes"} -> Nat]
  BY <1>1, SetupSpends
<1> QED  BY <1>1, <1>4, <1>5, <1>6, <1>7, <1>8, SetupStep

\* The steps of a call that only go on; the manifest stays.
LEMMA SetupGoesOn ==
    ASSUME SetupInv, NEW c \in Callers, contents' \in Trees, contents'.manifest = contents.manifest,
           results' = results, initBudget' \in [{"calls", "faults", "crashes"} -> Nat],
           initialising' \in [Callers -> CallerRow],
           \A d \in Callers : d # c => initialising'[d] = initialising[d],
           \A d \in Callers : initLock' = d <=> initialising'[d].phase \in Setup!Locked,
           initialising'[c].phase \in {"written", "withdraw"} => results = {},
           initialising'[c].phase # "placed",
           initialising'[c].phase \in Unwritten =>
              ~initialising'[c].wrote
    PROVE  SetupInv'
<1>1. initialising'[c].phase \in Pending => results' = {}
  BY DEF Pending
<1> QED  BY <1>1, SetupStep

\* The lock of the root is taken.
LEMMA AcquireSetupKeeps ==
    ASSUME SetupInv, NEW c \in Callers, Setup!Acquire(c) PROVE SetupInv'
<1>1. /\ initialising[c].phase = "waiting" /\ initLock = Nobody /\ initLock' = c
      /\ Setup!Goto(c, "locked") /\ UNCHANGED <<contents, results, initBudget>>
  BY DEF Setup!Acquire
<1>2. "locked" \in SetupPhases /\ "locked" \in Setup!Locked /\ "waiting" \in Unwritten
  BY DEF SetupPhases, Setup!Locked, Unwritten
<1>3. /\ initialising' \in [Callers -> CallerRow]
      /\ initialising'[c].phase = "locked" /\ initialising'[c].wrote = initialising[c].wrote
      /\ \A d \in Callers : d # c => initialising'[d] = initialising[d]
  BY <1>1, <1>2, SetupGoes
<1>4. \A d \in Callers : initLock' = d <=> initialising'[d].phase \in Setup!Locked
  BY <1>1, <1>2, <1>3, SetupParameters DEF SetupInv
<1>5. ~initialising'[c].wrote
  BY <1>1, <1>2, <1>3 DEF SetupInv
<1>6. contents' \in Trees /\ initBudget' \in [{"calls", "faults", "crashes"} -> Nat]
  BY <1>1 DEF SetupInv
<1> QED  BY <1>1, <1>3, <1>4, <1>5, <1>6, SetupGoesOn

\* The steps that keep the lock as it is and go to another phase, and what they need.
LEMMA SetupGoesTo ==
    ASSUME SetupInv, NEW c \in Callers, NEW ph \in SetupPhases, Setup!Goto(c, ph),
           initLock' = initLock, results' = results,
           initBudget' \in [{"calls", "faults", "crashes"} -> Nat],
           contents' \in Trees, contents'.manifest = contents.manifest,
           ph \in Setup!Locked <=> initialising[c].phase \in Setup!Locked,
           ph \notin {"placed", "written"} \cup Unwritten, ph = "withdraw" => results = {}
    PROVE  SetupInv'
<1>1. /\ initialising' \in [Callers -> CallerRow] /\ initialising'[c].phase = ph
      /\ \A d \in Callers : d # c => initialising'[d] = initialising[d]
  BY SetupGoes
<1>2. \A d \in Callers : initLock' = d <=> initialising'[d].phase \in Setup!Locked
  BY <1>1, SetupLockKept
<1> QED  BY <1>1, <1>2, SetupGoesOn

\* A call that finds the root locked or occupied ends.
LEMMA GoingKeeps ==
    ASSUME SetupInv, NEW c \in Callers, Setup!Busy(c) \/ Setup!Occupied(c) PROVE SetupInv'
<1>1. contents \in Trees /\ initBudget \in [{"calls", "faults", "crashes"} -> Nat]
  BY DEF SetupInv
<1>2. CASE Setup!Busy(c)
  BY <1>1, <1>2, SetupGoesTo DEF Setup!Busy, SetupPhases, Setup!Locked, Unwritten
<1>3. CASE Setup!Occupied(c)
  BY <1>1, <1>3, SetupGoesTo DEF Setup!Occupied, SetupPhases, Setup!Locked, Unwritten
<1> QED  BY <1>2, <1>3

\* A call that fails after its manifest was placed withdraws it: nobody was told of it.
LEMMA StepFailsKeeps ==
    ASSUME SetupInv, NEW c \in Callers, Setup!StepFails(c) PROVE SetupInv'
<1>1. /\ initialising[c].phase \in {"locked", "rooted", "prepared", "written", "placed"}
      /\ Setup!Spend("faults") /\ UNCHANGED <<contents, initLock, results>>
      /\ Setup!Goto(c, IF initialising[c].wrote THEN "withdraw" ELSE "remove")
  BY DEF Setup!StepFails
<1>2. initialising[c].phase \in Setup!Locked
  BY <1>1 DEF Setup!Locked
<1>3. initialising[c].wrote => results = {}
  BY <1>1 DEF SetupInv, Unwritten, Pending
<1>4. contents' \in Trees /\ initBudget' \in [{"calls", "faults", "crashes"} -> Nat]
  BY <1>1, SetupSpends DEF SetupInv
<1>5. /\ {"withdraw", "remove"} \subseteq SetupPhases \cap Setup!Locked
      /\ \A ph \in {"withdraw", "remove"} : ph \notin {"placed", "written"} \cup Unwritten
  BY DEF SetupPhases, Setup!Locked, Unwritten
<1>6. CASE initialising[c].wrote
  BY <1>1, <1>2, <1>3, <1>4, <1>5, <1>6, SetupGoesTo
<1>7. CASE ~initialising[c].wrote
  BY <1>1, <1>2, <1>4, <1>5, <1>7, SetupGoesTo
<1> QED  BY <1>6, <1>7

\* The directories on the way; the lock is held and the manifest stays.
LEMMA MakingKeeps ==
    ASSUME SetupInv, NEW c \in Callers,
           Setup!MakeRoot(c) \/ Setup!MakeControl(c) \/ Setup!MakeDirectory(c)
    PROVE  SetupInv'
<1>1. /\ initialising \in [Callers -> CallerRow] /\ initialising[c] \in CallerRow /\ contents \in Trees
      /\ initBudget \in [{"calls", "faults", "crashes"} -> Nat]
  BY DEF SetupInv
<1>2. UNCHANGED <<initLock, results, initBudget>>
  BY DEF Setup!MakeRoot, Setup!MakeControl, Setup!MakeDirectory
<1>3. /\ initialising[c].phase \in Setup!Locked /\ ~initialising[c].wrote
  BY DEF Setup!MakeRoot, Setup!MakeControl, Setup!MakeDirectory, Setup!Locked, SetupInv, Unwritten
<1>4. /\ initialising' \in [Callers -> CallerRow] /\ initialising'[c].phase \in {"rooted", "prepared"}
      /\ initialising'[c].wrote = initialising[c].wrote
      /\ \A d \in Callers : d # c => initialising'[d] = initialising[d]
      /\ contents' \in Trees /\ contents'.manifest = contents.manifest
  <2>1. CASE Setup!MakeRoot(c)
    BY <1>1, <2>1 DEF Setup!MakeRoot, CallerRow, SetupPhases, Setup!Locked, Trees
  <2>2. CASE Setup!MakeControl(c)
    BY <1>1, <2>2 DEF Setup!MakeControl, CallerRow, SetupPhases, Setup!Locked, Trees
  <2>3. CASE Setup!MakeDirectory(c)
    BY <1>1, <2>3 DEF Setup!MakeDirectory, CallerRow, SetupPhases, Setup!Locked, Trees
  <2>. QED  BY <2>1, <2>2, <2>3
<1>5. \A d \in Callers : initLock' = d <=> initialising'[d].phase \in Setup!Locked
  BY <1>2, <1>3, <1>4, SetupLockKept DEF Setup!Locked
<1> QED  BY <1>1, <1>2, <1>3, <1>4, <1>5, SetupGoesOn

\* A manifest is written only where none stands, so nobody was told of another.
LEMMA WriteTemporaryKeeps ==
    ASSUME SetupInv, NEW c \in Callers, Setup!WriteTemporary(c) PROVE SetupInv'
<1>1. /\ initialising[c].phase = "prepared" /\ contents.manifest = Setup!NoManifest
      /\ contents' = [contents EXCEPT !.temps = @ \cup {initialising[c].number}]
      /\ initialising' = [initialising EXCEPT ![c] = [@ EXCEPT !.phase = "written", !.temp = TRUE]]
      /\ UNCHANGED <<initLock, results, initBudget>>
  BY DEF Setup!WriteTemporary
<1>2. /\ initialising \in [Callers -> CallerRow] /\ initialising[c] \in CallerRow /\ contents \in Trees
      /\ initBudget \in [{"calls", "faults", "crashes"} -> Nat] /\ ~initialising[c].wrote
  BY <1>1 DEF SetupInv, Unwritten
<1>3. /\ initialising' \in [Callers -> CallerRow] /\ initialising'[c].phase = "written"
      /\ ~initialising'[c].wrote
      /\ \A d \in Callers : d # c => initialising'[d] = initialising[d]
  BY <1>1, <1>2 DEF CallerRow, SetupPhases, Setup!Locked
<1>4. contents' \in Trees /\ contents'.manifest = contents.manifest
  BY <1>1, <1>2 DEF Trees, CallerRow
<1>5. results = {}
  BY <1>1 DEF SetupInv
<1>6. \A d \in Callers : initLock' = d <=> initialising'[d].phase \in Setup!Locked
  BY <1>1, <1>3, SetupLockKept DEF Setup!Locked
<1> QED  BY <1>1, <1>2, <1>3, <1>4, <1>5, <1>6, SetupGoesOn

\* The temporary manifest becomes the manifest.
LEMMA ReplaceManifestKeeps ==
    ASSUME SetupInv, NEW c \in Callers, Setup!ReplaceManifest(c) PROVE SetupInv'
<1>1. /\ initialising[c].phase = "written" /\ UNCHANGED <<initLock, results, initBudget>>
      /\ contents' = [contents EXCEPT !.temps = @ \ {initialising[c].number},
                         !.manifest = <<initialising[c].number, initialising[c].name>>]
      /\ initialising' = [initialising EXCEPT ![c] =
                             [@ EXCEPT !.phase = "placed", !.temp = FALSE, !.wrote = TRUE]]
  BY DEF Setup!ReplaceManifest
<1>2. /\ initialising \in [Callers -> CallerRow] /\ initialising[c] \in CallerRow /\ contents \in Trees
      /\ initBudget \in [{"calls", "faults", "crashes"} -> Nat] /\ results = {}
  BY <1>1 DEF SetupInv, Pending
<1>3. /\ initialising' \in [Callers -> CallerRow] /\ initialising'[c].phase = "placed"
      /\ \A d \in Callers : d # c => initialising'[d] = initialising[d]
  BY <1>1, <1>2 DEF CallerRow, SetupPhases, Setup!Locked
<1>4. /\ contents' \in Trees
      /\ contents'.manifest = <<initialising[c].number, initialising[c].name>>
  BY <1>1, <1>2 DEF Trees, CallerRow
<1>5. contents'.manifest # Setup!NoManifest
  BY <1>4 DEF Setup!NoManifest
<1>6. \A d \in Callers : initLock' = d <=> initialising'[d].phase \in Setup!Locked
  BY <1>1, <1>3, SetupLockKept DEF Setup!Locked
<1>7. "placed" \notin Unwritten /\ "written" \in Pending
  BY DEF Unwritten, Pending
<1> QED  BY <1>1, <1>2, <1>3, <1>4, <1>5, <1>6, <1>7, SetupStep

\* A failing call takes its own manifest back, or cannot.
LEMMA WithdrawKeeps ==
    ASSUME SetupInv, NEW c \in Callers, Setup!Withdraw(c) \/ Setup!WithdrawFails(c)
    PROVE  SetupInv'
<1>1. /\ initialising[c].phase = "withdraw" /\ Setup!Goto(c, "remove")
      /\ UNCHANGED <<initLock, results>>
  BY DEF Setup!Withdraw, Setup!WithdrawFails
<1>2. "remove" \in SetupPhases /\ "remove" \in Setup!Locked /\ "withdraw" \in Setup!Locked
  BY DEF SetupPhases, Setup!Locked
<1>3. "withdraw" \in Pending /\ "remove" \notin Pending \cup Unwritten \cup {"placed"}
  BY DEF Pending, Unwritten
<1>4. /\ initialising' \in [Callers -> CallerRow] /\ initialising'[c].phase = "remove"
      /\ \A d \in Callers : d # c => initialising'[d] = initialising[d]
  BY <1>1, <1>2, SetupGoes
<1>5. \A d \in Callers : initLock' = d <=> initialising'[d].phase \in Setup!Locked
  BY <1>1, <1>2, <1>4, SetupLockKept
<1>6. contents' \in Trees
  BY DEF SetupInv, Setup!Withdraw, Setup!WithdrawFails, Trees
<1>7. initBudget' \in [{"calls", "faults", "crashes"} -> Nat]
  <2>1. CASE Setup!Withdraw(c)
    BY <2>1 DEF SetupInv, Setup!Withdraw
  <2>2. CASE Setup!WithdrawFails(c)
    BY <2>2, SetupSpends DEF Setup!WithdrawFails
  <2>. QED  BY <2>1, <2>2
<1> QED  BY <1>1, <1>3, <1>4, <1>5, <1>6, <1>7, SetupStep

\* A failing call removes the directories it made.
LEMMA RemoveDirectoriesKeeps ==
    ASSUME SetupInv, NEW c \in Callers, Setup!RemoveDirectories(c) PROVE SetupInv'
<1>1. /\ initialising[c].phase \in {"remove", "remove_conflict"}
      /\ UNCHANGED <<initLock, results, initBudget>>
      /\ Setup!Goto(c, IF initialising[c].phase = "remove" THEN "unlink" ELSE "unlink_conflict")
  BY DEF Setup!RemoveDirectories
<1>2. contents \in Trees /\ initBudget \in [{"calls", "faults", "crashes"} -> Nat]
  BY DEF SetupInv
<1>3. contents' \in Trees /\ contents'.manifest = contents.manifest
  BY <1>2 DEF Setup!RemoveDirectories, Trees
<1>4. /\ {"unlink", "unlink_conflict"} \subseteq SetupPhases \cap Setup!Locked
      /\ \A ph \in {"unlink", "unlink_conflict"} :
            ph # "withdraw" /\ ph \notin {"placed", "written"} \cup Unwritten
      /\ initialising[c].phase \in Setup!Locked
  BY <1>1 DEF SetupPhases, Setup!Locked, Unwritten
<1>5. PICK ph \in {"unlink", "unlink_conflict"} : Setup!Goto(c, ph)
  BY <1>1
<1> QED  BY <1>1, <1>2, <1>3, <1>4, <1>5, SetupGoesTo

\* A call ends: it releases the lock; Reuse and Verify report what stands on the disk.
LEMMA EndKeeps ==
    ASSUME SetupInv, NEW c \in Callers, NEW outcome \in Outcomes, Setup!End(c, outcome),
           initialising[c].phase \in Setup!Locked, contents' \in Trees,
           contents'.manifest = contents.manifest,
           initBudget' \in [{"calls", "faults", "crashes"} -> Nat],
           \/ results' = results
           \/ results' = results \cup {contents.manifest} /\ contents.manifest # Setup!NoManifest
    PROVE  SetupInv'
<1>1. /\ initialising' \in [Callers -> CallerRow] /\ initialising'[c].phase = outcome
      /\ \A d \in Callers : d # c => initialising'[d] = initialising[d]
      /\ \A d \in Callers : initLock' = d <=> initialising'[d].phase \in Setup!Locked
  BY SetupEnds
<1>2. outcome \notin Pending \cup Unwritten \cup {"placed"}
  BY DEF Outcomes, Pending, Unwritten
<1> QED  BY <1>1, <1>2, SetupStep

\* A call verifies its workspace, or has removed its temporary file.
LEMMA EndingKeeps ==
    ASSUME SetupInv, NEW c \in Callers,
           Setup!Verify(c) \/ Setup!UnlinkTemporary(c) \/ Setup!UnlinkFails(c)
    PROVE  SetupInv'
<1>1. contents \in Trees /\ initBudget \in [{"calls", "faults", "crashes"} -> Nat]
  BY DEF SetupInv
<1>2. {"created", "failed", "refused"} \subseteq Outcomes
  BY DEF Outcomes
<1>3. CASE Setup!Verify(c)
  <2>1. /\ initialising[c].phase = "placed" /\ Setup!End(c, "created")
        /\ results' = results \cup {contents.manifest} /\ UNCHANGED <<contents, initBudget>>
    BY <1>3 DEF Setup!Verify
  <2>2. "placed" \in Setup!Locked /\ contents.manifest # Setup!NoManifest
    BY <2>1 DEF Setup!Locked, SetupInv
  <2>. QED  BY <1>1, <1>2, <2>1, <2>2, EndKeeps
<1>4. CASE Setup!UnlinkTemporary(c)
  <2>1. /\ initialising[c].phase \in {"unlink", "unlink_conflict"}
        /\ UNCHANGED <<results, initBudget>>
        /\ Setup!End(c, IF initialising[c].phase = "unlink" THEN "failed" ELSE "refused")
    BY <1>4 DEF Setup!UnlinkTemporary
  <2>2. contents' \in Trees /\ contents'.manifest = contents.manifest
    BY <1>1, <1>4 DEF Setup!UnlinkTemporary, Trees
  <2>3. PICK outcome \in {"failed", "refused"} : Setup!End(c, outcome)
    BY <2>1
  <2>4. initialising[c].phase \in Setup!Locked
    BY <2>1 DEF Setup!Locked
  <2>. QED  BY <1>1, <1>2, <2>1, <2>2, <2>3, <2>4, EndKeeps
<1>5. CASE Setup!UnlinkFails(c)
  <2>1. /\ initialising[c].phase = "unlink" /\ Setup!End(c, "failed") /\ Setup!Spend("faults")
        /\ UNCHANGED <<contents, results>>
    BY <1>5 DEF Setup!UnlinkFails
  <2>2. "unlink" \in Setup!Locked
    BY DEF Setup!Locked
  <2>. QED  BY <1>1, <1>2, <2>1, <2>2, SetupSpends, EndKeeps
<1> QED  BY <1>3, <1>4, <1>5

\* A call finds a manifest and returns its workspace.
LEMMA ReuseKeeps == ASSUME SetupInv, NEW c \in Callers, Setup!Reuse(c) PROVE SetupInv'
<1>1. /\ initialising[c].phase = "prepared" /\ contents.manifest # Setup!NoManifest
      /\ UNCHANGED <<contents, initBudget>>
  BY DEF Setup!Reuse
<1>2. /\ contents \in Trees /\ initBudget \in [{"calls", "faults", "crashes"} -> Nat]
      /\ "prepared" \in Setup!Locked /\ "reused" \in Outcomes
  BY DEF SetupInv, Setup!Locked, Outcomes
<1>3. CASE Setup!End(c, "reused") /\ results' = results \cup {contents.manifest}
  BY <1>1, <1>2, <1>3, EndKeeps
<1>4. CASE Setup!Goto(c, "remove") /\ UNCHANGED <<initLock, results>>
  <2>1. /\ "remove" \in SetupPhases /\ "remove" \in Setup!Locked
        /\ "remove" \notin {"placed", "written"} \cup Unwritten
    BY DEF SetupPhases, Setup!Locked, Unwritten
  <2>. QED  BY <1>1, <1>2, <1>4, <2>1, SetupGoesTo
<1> QED  BY <1>3, <1>4 DEF Setup!Reuse

\* A caller leaves or dies.
LEMMA LeaveSetupKeeps ==
    ASSUME SetupInv, NEW c \in Callers, Setup!Leave(c) \/ Setup!Die(c) PROVE SetupInv'
<1>1. /\ initialising' = [initialising EXCEPT ![c] = Setup!NoCall] /\ UNCHANGED <<contents, results>>
      /\ initLock' = initLock \/ initLock' = IF initLock = c THEN Nobody ELSE initLock
      /\ initLock' = initLock => initialising[c].phase \in Outcomes \/ initLock # c
  BY SetupParameters DEF Setup!Leave, Setup!Die, Outcomes
<1>2. Setup!NoCall \in CallerRow /\ Setup!NoCall.phase = "idle"
  BY NoCallTyped
<1>3. /\ initialising' \in [Callers -> CallerRow] /\ initialising'[c].phase = "idle"
      /\ \A d \in Callers : d # c => initialising'[d] = initialising[d]
  BY <1>1, <1>2 DEF SetupInv
<1>4. "idle" \notin Setup!Locked \cup Pending \cup Unwritten \cup {"placed"}
  BY DEF Setup!Locked, Pending, Unwritten
<1>5. initLock' # c
  <2>1. initialising[c].phase \in Outcomes => initLock # c
    BY DEF SetupInv, Outcomes, Setup!Locked
  <2>. QED  BY <1>1, <2>1, SetupParameters
<1>6. \A d \in Callers : initLock' = d <=> initialising'[d].phase \in Setup!Locked
  BY <1>1, <1>3, <1>4, <1>5, SetupParameters DEF SetupInv
<1>7. contents' \in Trees /\ initBudget' \in [{"calls", "faults", "crashes"} -> Nat]
  <2>1. CASE Setup!Leave(c)
    BY <2>1 DEF SetupInv, Setup!Leave
  <2>2. CASE Setup!Die(c)
    BY <2>2, SetupSpends DEF Setup!Die, SetupInv
  <2>. QED  BY <2>1, <2>2
<1> QED  BY <1>1, <1>3, <1>4, <1>6, <1>7, SetupStep

\* Every step of an initialisation keeps the invariant.
LEMMA SetupNext ==
    ASSUME SetupInv, [Setup!Next]_(Setup!vars) PROVE SetupInv'
<1>1. CASE UNCHANGED Setup!vars
  BY <1>1 DEF SetupInv, Setup!vars
<1>2. CASE Setup!Next
  BY <1>2, BeginSetupKeeps, AcquireSetupKeeps, GoingKeeps, MakingKeeps, ReuseKeeps,
     WriteTemporaryKeeps, ReplaceManifestKeeps, EndingKeeps, StepFailsKeeps, WithdrawKeeps,
     RemoveDirectoriesKeeps, LeaveSetupKeeps DEF Setup!Next
<1> QED  BY <1>1, <1>2

\* The invariant of workspace initialisation.
LEMMA SetupInvHolds == Setup!Spec => []SetupInv
<1>1. Setup!Init => SetupInv
  <2> SUFFICES ASSUME Setup!Init PROVE SetupInv
    OBVIOUS
  <2>1. /\ Setup!NoCall \in CallerRow /\ Setup!NoCall.phase = "idle"
        /\ "idle" \notin Setup!Locked \cup Pending \cup Unwritten \cup {"placed"}
    BY NoCallTyped DEF Setup!Locked, Pending, Unwritten
  <2>2. /\ initialising \in [Callers -> CallerRow] /\ \A c \in Callers : initialising[c].phase = "idle"
        /\ initLock = Nobody /\ results = {}
    BY <2>1 DEF Setup!Init
  <2>3. contents \in Trees
    BY DEF Setup!Init, Trees
  <2>4. initBudget \in [{"calls", "faults", "crashes"} -> Nat]
    BY SetupParameters DEF Setup!Init
  <2>. QED  BY <2>1, <2>2, <2>3, <2>4, SetupParameters DEF SetupInv
<1> QED  BY <1>1, SetupNext, PTL DEF Setup!Spec

\* initialize_workspace: every call that succeeded named the workspace that is on the
\* disk; no manifest is withdrawn or replaced once a caller was told of it.
THEOREM InitialisationsAgree == Setup!Spec => []ResultsAgree
<1>1. SetupInv => ResultsAgree
  BY DEF SetupInv, ResultsAgree, Setup!ResultsAgree
<1> QED  BY <1>1, SetupInvHolds, PTL

=============================================================================
