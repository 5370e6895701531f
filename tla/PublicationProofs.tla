-------------------------- MODULE PublicationProofs --------------------------
(***************************************************************************)
(* Proofs about what a Job leaves behind outside its row: the publication  *)
(* of its bundle (PortablePublish), its private files (AttemptStorage, the *)
(* instance Storage of MCPublication) and the source id of its bundle      *)
(* (SourceIdentity, the instance Source), for every value of their         *)
(* constants.                                                              *)
(***************************************************************************)
EXTENDS MCPublication, TLAPS

-----------------------------------------------------------------------------
(* PortablePublish: types and the steps of one process.                    *)

\* A process that is not idle executes a Job.
BusyInv == \A p \in Procs : proc[p].phase # "idle" => proc[p].job \in Jobs

ProcRow == [phase : Phases, job : Jobs \cup {None}]

\* Moving one process, to a phase that is right about the transaction.
LEMMA Moved ==
    ASSUME TypeOK, NEW p \in Procs, NEW ph \in Phases, Goto(p, ph)
    PROVE  /\ proc' \in [Procs -> ProcRow]
           /\ proc'[p].phase = ph /\ proc'[p].job = proc[p].job
           /\ \A q \in Procs : q # p => proc'[q] = proc[q]
BY DEF TypeOK, Goto, ProcRow

\* A process that does nothing.
LEMMA Idled ==
    ASSUME TypeOK, NEW p \in Procs, proc' = [proc EXCEPT ![p] = Idle]
    PROVE  /\ proc' \in [Procs -> ProcRow]
           /\ proc'[p].phase = "idle" /\ proc'[p].job = None
           /\ \A q \in Procs : q # p => proc'[q] = proc[q]
BY DEF TypeOK, Idle, ProcRow, Phases

\* The transaction is that of the process that publishes, if the one that moved keeps it so.
LEMMA TxKept ==
    ASSUME TypeOK, NEW p \in Procs, \A q \in Procs : q # p => proc'[q] = proc[q],
           \/ tx' = p /\ tx \in {None, p} /\ proc'[p].phase \in Publishing
           \/ tx' = tx /\ (proc'[p].phase \in Publishing <=> proc[p].phase \in Publishing)
           \/ tx' = (IF tx = p THEN None ELSE tx) /\ proc'[p].phase \notin Publishing
    PROVE  tx' \in Procs \cup {None} /\ \A q \in Procs : tx' = q <=> proc'[q].phase \in Publishing
BY PublishAssumption DEF TypeOK

\* What an execution that leaves does to the lease and its handle.
LEMMA UnwindTypes ==
    ASSUME TypeOK, NEW p \in Procs, Unwind(p)
    PROVE  /\ lease' \in Procs \cup {None} /\ expired' \subseteq Jobs \cup {Publish}
           /\ handle' \in [Procs -> {"none", "prepared", "claimed"}]
           /\ handle'[p] = "none" /\ \A q \in Procs : q # p => handle'[q] = handle[q]
           /\ tx' = IF tx = p THEN None ELSE tx
           /\ expired' \subseteq expired /\ expired \subseteq expired' \cup {Publish}
BY DEF TypeOK, Unwind

\* A process releases its claim.
LEMMA ReleaseTypes ==
    ASSUME TypeOK, NEW p \in Procs, ReleaseClaim(p), proc[p].job \in Jobs
    PROVE  /\ claim' \in [Jobs -> Procs \cup {None}]
           /\ \A j \in Jobs : claim'[j] = claim[j] \/ (claim'[j] = None /\ claim[j] = p)
BY DEF TypeOK, ReleaseClaim, Job

\* An event of a bounded kind is spent.
LEMMA SpendTypes ==
    ASSUME TypeOK, NEW what \in {"crashes", "lapses", "faults"}, Spend(what)
    PROVE  budget' \in [crashes : 0 .. MaxCrashes, lapses : 0 .. MaxLapses, faults : 0 .. MaxFaults]
<1> USE PublishAssumption
<1>1. CASE what = "crashes"
  BY <1>1 DEF TypeOK, Spend
<1>2. CASE what = "lapses"
  BY <1>2 DEF TypeOK, Spend
<1>3. CASE what = "faults"
  BY <1>3 DEF TypeOK, Spend
<1> QED  BY <1>1, <1>2, <1>3

-----------------------------------------------------------------------------
(* The inductive invariant.                                                *)

Assembling == {"writing", "complete"}
Past == Publishing \cup {"prepare", "prepared", "held"}   \* the candidate is recorded

\* The candidate of a checkpoint is whole or already the bundle, no bundle exists without
\* a checkpoint, and whoever still assembles a Job that has no bundle does so alone and
\* has found no checkpoint: the directory is made exclusively.
AssemblyInv ==
    /\ \A j \in checkpoint : staging[j] \in {"complete", "stamped"} \/ j \in final
    /\ \A p \in Procs : proc[p].phase \in Past => Job(p) \in checkpoint
    /\ final \subseteq checkpoint
    /\ \A p \in Procs : proc[p].phase \in Assembling /\ Job(p) \notin final =>
          /\ Job(p) \notin checkpoint
          /\ staging[Job(p)] = IF At(p, "writing") THEN "partial" ELSE "complete"
          /\ \A q \in Procs \ {p} : Job(q) = Job(p) => proc[q].phase \notin Assembling

\* Whoever assembles a Job that has a checkpoint was overtaken; whoever publishes has the
\* claim of a running Job; and an error that can still fail a recorded Job is a fault.
ClaimInv ==
    /\ \A p \in Procs :
          proc[p].phase \in Assembling \cup {"begin"} /\ Job(p) \in checkpoint => claim[Job(p)] # p
    /\ \A p \in Procs : proc[p].phase \in Publishing =>
          claim[Job(p)] = p /\ jobs[Job(p)].state = "running" /\ ~jobs[Job(p)].cancel
    /\ \A p \in Procs : /\ At(p, "error") /\ Job(p) \in checkpoint /\ Authorised(p)
                        /\ jobs[Job(p)].state = "running" /\ ~jobs[Job(p)].cancel
                        => Job(p) \in faulted

\* A handle is open only between the preparation and the end of the commit.
HandleInv == \A p \in Procs : handle[p] # "none" => proc[p].phase \in Past

PublishInv ==
    TypeOK /\ BusyInv /\ AssemblyInv /\ ClaimInv /\ HandleInv /\ RecordedJobsSurvive

Staged == {"absent", "partial", "complete", "stamped"}
Handles == {"none", "prepared", "claimed"}
Budgets == [crashes : 0 .. MaxCrashes, lapses : 0 .. MaxLapses, faults : 0 .. MaxFaults]

\* The part of TypeOK about the processes and the transaction.
TxOK == tx \in Procs \cup {None} /\ \A p \in Procs : tx = p <=> proc[p].phase \in Publishing

\* The type invariant, by variable.
LEMMA TypeParts ==
    TypeOK <=> /\ proc \in [Procs -> ProcRow] /\ handle \in [Procs -> Handles]
               /\ staging \in [Jobs -> Staged]
               /\ final \subseteq Jobs /\ checkpoint \subseteq Jobs /\ faulted \subseteq Jobs
               /\ jobs \in [Jobs -> [state : States, cancel : BOOLEAN]]
               /\ claim \in [Jobs -> Procs \cup {None}] /\ lease \in Procs \cup {None}
               /\ expired \subseteq Jobs \cup {Publish} /\ budget \in Budgets /\ TxOK
BY DEF TypeOK, ProcRow, Handles, Staged, Budgets, TxOK

\* A step of p that leaves the files and the Jobs alone and takes p to no assembly.
LEMMA QuietStep ==
    ASSUME PublishInv, NEW p \in Procs, UNCHANGED <<staging, final, checkpoint, jobs>>,
           proc' \in [Procs -> ProcRow], \A q \in Procs : q # p => proc'[q] = proc[q],
           handle' \in [Procs -> Handles], \A q \in Procs : q # p => handle'[q] = handle[q],
           handle'[p] = "none" \/ proc'[p].phase \in Past,
           lease' \in Procs \cup {None}, expired' \subseteq Jobs \cup {Publish},
           expired \subseteq expired' \cup {Publish},
           claim' \in [Jobs -> Procs \cup {None}],
           \A j \in Jobs : claim'[j] = claim[j] \/ (claim'[j] = None /\ claim[j] = p),
           TxOK', budget' \in Budgets, faulted \subseteq faulted', faulted' \subseteq Jobs,
           proc'[p].phase \notin Assembling \cup {"begin"},
           proc'[p].phase # "idle" => proc'[p].job = proc[p].job /\ proc[p].job \in Jobs,
           proc'[p].phase \in Past => proc[p].job \in checkpoint,
           proc'[p].phase \in Publishing =>
              /\ claim'[proc[p].job] = p /\ jobs[proc[p].job].state = "running"
              /\ ~jobs[proc[p].job].cancel,
           /\ proc'[p].phase = "error" /\ proc[p].job \in checkpoint /\ claim'[proc[p].job] = p
           /\ proc[p].job \notin expired' /\ jobs[proc[p].job].state = "running"
           /\ ~jobs[proc[p].job].cancel
           => proc[p].job \in faulted'
    PROVE  PublishInv'
<1>1. TypeOK'
  BY TypeParts DEF PublishInv, TypeOK, TxOK, ProcRow, Handles, Budgets
<1>2. BusyInv'
  BY DEF PublishInv, BusyInv
<1>3. AssemblyInv'
  <2>. "idle" \notin Past /\ "idle" \notin Assembling
    BY DEF Past, Assembling, Publishing
  <2>1. \A q \in Procs : (proc[q].phase \in Past => Job(q) \in checkpoint)'
    BY DEF PublishInv, AssemblyInv, Job
  <2>2. ASSUME NEW q \in Procs, (proc[q].phase \in Assembling /\ Job(q) \notin final)'
        PROVE  /\ (Job(q) \notin checkpoint)'
               /\ (staging[Job(q)] = IF At(q, "writing") THEN "partial" ELSE "complete")'
               /\ \A r \in Procs \ {q} : (Job(r) = Job(q) => proc[r].phase \notin Assembling)'
    <3>1. q # p /\ proc'[q] = proc[q]
      BY <2>2
    <3>. QED  BY <2>2, <3>1 DEF PublishInv, AssemblyInv, Job, At
  <2>. QED  BY <2>1, <2>2 DEF PublishInv, AssemblyInv
<1>4. ClaimInv'
  <2>1. \A q \in Procs : (proc[q].phase \in Assembling \cup {"begin"} /\ Job(q) \in checkpoint => claim[Job(q)] # q)'
    BY PublishAssumption DEF PublishInv, BusyInv, ClaimInv, TypeOK, Job, Assembling
  <2>2. \A q \in Procs : (proc[q].phase \in Publishing =>
          claim[Job(q)] = q /\ jobs[Job(q)].state = "running" /\ ~jobs[Job(q)].cancel)'
    <3>1. "idle" \notin Publishing
      BY DEF Publishing
    <3> QED  BY <3>1 DEF PublishInv, BusyInv, ClaimInv, TypeOK, Job
  <2>3. \A q \in Procs : (/\ At(q, "error") /\ Job(q) \in checkpoint /\ Authorised(q)
                          /\ jobs[Job(q)].state = "running" /\ ~jobs[Job(q)].cancel
                          => Job(q) \in faulted)'
    BY PublishAssumption DEF PublishInv, BusyInv, ClaimInv, TypeOK, Job, At, Authorised
  <2>. QED  BY <2>1, <2>2, <2>3 DEF ClaimInv
<1>5. HandleInv'
  BY DEF PublishInv, HandleInv
<1>6. RecordedJobsSurvive'
  BY DEF PublishInv, RecordedJobsSurvive
<1> QED  BY <1>1, <1>2, <1>3, <1>4, <1>5, <1>6 DEF PublishInv


-----------------------------------------------------------------------------
(* The actions that only move a process.                                   *)

\* Leaving: a resource is busy, or the process is lost.
LEMMA LeaveKeeps ==
    ASSUME PublishInv, NEW p \in Procs, Leave(p), proc[p].phase # "idle"
    PROVE  PublishInv'
<1>1. TypeOK /\ proc[p].job \in Jobs /\ UNCHANGED <<staging, final, checkpoint, jobs, faulted, budget>>
  BY DEF PublishInv, BusyInv, Leave, files
<1>2. proc' \in [Procs -> ProcRow] /\ proc'[p].phase = "idle" /\ \A q \in Procs : q # p => proc'[q] = proc[q]
  BY <1>1, Idled DEF Leave
<1>3. "idle" \notin Past \cup Assembling \cup Publishing \cup {"begin", "error"}
  BY DEF Past, Assembling, Publishing
<1>4. /\ lease' \in Procs \cup {None} /\ expired' \subseteq Jobs \cup {Publish}
      /\ handle' \in [Procs -> Handles] /\ handle'[p] = "none"
      /\ \A q \in Procs : q # p => handle'[q] = handle[q]
      /\ tx' = IF tx = p THEN None ELSE tx
      /\ expired \subseteq expired' \cup {Publish}
  BY <1>1, UnwindTypes DEF Leave, Handles
<1>5. /\ claim' \in [Jobs -> Procs \cup {None}]
      /\ \A j \in Jobs : claim'[j] = claim[j] \/ (claim'[j] = None /\ claim[j] = p)
  BY <1>1, ReleaseTypes DEF Leave
<1>6. TxOK'
  BY <1>1, <1>2, <1>3, <1>4, TxKept DEF TxOK
<1>7. budget' \in Budgets /\ faulted' \subseteq Jobs
  BY <1>1 DEF TypeOK, Budgets
<1> QED  BY <1>1, <1>2, <1>3, <1>4, <1>5, <1>6, <1>7, QuietStep

\* The store is busy: the execution leaves.
LEMMA StoreBusyKeeps == ASSUME PublishInv, NEW p \in Procs, StoreBusy(p) PROVE PublishInv'
BY LeaveKeeps DEF StoreBusy

\* The publish lease is taken: the execution leaves.
LEMMA PublishBusyKeeps == ASSUME PublishInv, NEW p \in Procs, PublishBusy(p) PROVE PublishInv'
BY LeaveKeeps DEF PublishBusy, At

\* A process dies with what it has open.
LEMMA CrashKeeps == ASSUME PublishInv, NEW p \in Procs, Crash(p) PROVE PublishInv'
<1>1. /\ TypeOK /\ UNCHANGED <<staging, final, checkpoint, jobs, faulted, claim, lease, expired>>
      /\ proc' = [proc EXCEPT ![p] = Idle] /\ handle' = [handle EXCEPT ![p] = "none"]
      /\ tx' = (IF tx = p THEN None ELSE tx) /\ Spend("crashes")
  BY DEF PublishInv, Crash, files, admission
<1>2. proc' \in [Procs -> ProcRow] /\ proc'[p].phase = "idle" /\ \A q \in Procs : q # p => proc'[q] = proc[q]
  BY <1>1, Idled
<1>3. "idle" \notin Past \cup Assembling \cup Publishing \cup {"begin", "error"}
  BY DEF Past, Assembling, Publishing
<1>4. /\ handle' \in [Procs -> Handles] /\ handle'[p] = "none"
      /\ \A q \in Procs : q # p => handle'[q] = handle[q]
  BY <1>1 DEF TypeOK, Handles
<1>5. claim' \in [Jobs -> Procs \cup {None}] /\ lease' \in Procs \cup {None}
      /\ expired' \subseteq Jobs \cup {Publish} /\ faulted' \subseteq Jobs
  BY <1>1 DEF TypeOK
<1>6. TxOK'
  BY <1>1, <1>2, <1>3, TxKept DEF TxOK
<1>7. budget' \in Budgets
  BY <1>1, SpendTypes DEF Budgets
<1> QED  BY <1>1, <1>2, <1>3, <1>4, <1>5, <1>6, <1>7, QuietStep

\* Raising an error: one that can still end a recorded Job is noted.
LEMMA RaiseKeeps ==
    ASSUME PublishInv, NEW p \in Procs, Raise(p), proc[p].job \in Jobs, budget' \in Budgets,
           faulted \subseteq faulted', faulted' \subseteq Jobs,
           /\ Job(p) \in checkpoint /\ Authorised(p)
           /\ jobs[Job(p)].state = "running" /\ ~jobs[Job(p)].cancel
           => Job(p) \in faulted'
    PROVE  PublishInv'
<1>1. TypeOK /\ UNCHANGED <<staging, final, checkpoint, jobs, claim>> /\ Unwind(p) /\ Goto(p, "error")
  BY DEF PublishInv, Raise, files
<1>2. "error" \in Phases /\ "error" \notin Past \cup Assembling \cup Publishing \cup {"begin", "idle"}
  BY DEF Past, Assembling, Publishing, Phases
<1>3. /\ proc' \in [Procs -> ProcRow] /\ proc'[p].phase = "error" /\ proc'[p].job = proc[p].job
      /\ \A q \in Procs : q # p => proc'[q] = proc[q]
  BY <1>1, <1>2, Moved
<1>4. /\ lease' \in Procs \cup {None} /\ expired' \subseteq Jobs \cup {Publish}
      /\ handle' \in [Procs -> Handles] /\ handle'[p] = "none"
      /\ \A q \in Procs : q # p => handle'[q] = handle[q]
      /\ tx' = IF tx = p THEN None ELSE tx
      /\ expired \subseteq expired' \cup {Publish}
  BY <1>1, UnwindTypes DEF Handles
<1>5. claim' \in [Jobs -> Procs \cup {None}]
  BY <1>1 DEF TypeOK
<1>6. TxOK'
  BY <1>1, <1>2, <1>3, <1>4, TxKept DEF TxOK
<1>7. /\ proc'[p].phase = "error" /\ proc[p].job \in checkpoint /\ claim'[proc[p].job] = p
      /\ proc[p].job \notin expired' /\ jobs[proc[p].job].state = "running"
      /\ ~jobs[proc[p].job].cancel
      => proc[p].job \in faulted'
  BY <1>1, <1>4, PublishAssumption DEF Job, Authorised
<1> QED  BY <1>1, <1>2, <1>3, <1>4, <1>5, <1>6, <1>7, QuietStep

\* A refused call raises; the Job of a recorded candidate is not failed by it.
LEMMA RaiseRefusedKeeps ==
    ASSUME PublishInv, NEW p \in Procs, RaiseRefused(p), proc[p].phase # "idle",
           \/ Job(p) \notin checkpoint
           \/ ~Authorised(p)
           \/ jobs[Job(p)].state # "running"
           \/ jobs[Job(p)].cancel
    PROVE  PublishInv'
<1>1. TypeOK /\ Raise(p) /\ UNCHANGED <<faulted, budget>> /\ proc[p].job \in Jobs
  BY DEF RaiseRefused, PublishInv, BusyInv
<1>2. budget' \in Budgets /\ faulted' \subseteq Jobs
  BY <1>1 DEF TypeOK, Budgets
<1> QED  BY <1>1, <1>2, RaiseKeeps

\* Whoever is at the beginning of an assembly, or in it, finds a checkpoint only when it
\* was overtaken.
LEMMA CandidateExistsKeeps == ASSUME PublishInv, NEW p \in Procs, CandidateExists(p) PROVE PublishInv'
<1>1. Job(p) \notin checkpoint \/ ~Authorised(p)
  BY DEF CandidateExists, At, PublishInv, ClaimInv, Authorised
<1> QED  BY <1>1, RaiseRefusedKeeps DEF CandidateExists, At

\* The checkpoint is refused.
LEMMA RecordRefusedKeeps == ASSUME PublishInv, NEW p \in Procs, RecordRefused(p) PROVE PublishInv'
BY RaiseRefusedKeeps DEF RecordRefused, At

\* The preparation is refused.
LEMMA PrepareRefusedKeeps == ASSUME PublishInv, NEW p \in Procs, PrepareRefused(p) PROVE PublishInv'
<1>1. Job(p) \notin checkpoint
  BY DEF PrepareRefused, Preparable, PublishInv, AssemblyInv
<1> QED  BY <1>1, RaiseRefusedKeeps DEF PrepareRefused, At

\* The guard of the commit refuses.
LEMMA GuardRefusesKeeps == ASSUME PublishInv, NEW p \in Procs, GuardRefuses(p) PROVE PublishInv'
BY RaiseRefusedKeeps DEF GuardRefuses, MayCommit, At

\* The commit, or the store after it, raises.
LEMMA CommitFailsKeeps == ASSUME PublishInv, NEW p \in Procs, CommitFails(p) PROVE PublishInv'
<1>1. proc[p].phase \in Publishing /\ Raise(p) /\ Spend("faults") /\ faulted' = faulted \cup {Job(p)}
  BY DEF CommitFails, RaiseFault
<1>2. TypeOK /\ proc[p].job \in Jobs
  BY <1>1 DEF PublishInv, BusyInv, Publishing
<1>3. budget' \in Budgets
  BY <1>1, <1>2, SpendTypes DEF Budgets
<1>4. faulted \subseteq faulted' /\ faulted' \subseteq Jobs
  BY <1>1, <1>2 DEF TypeOK, Job
<1> QED  BY <1>1, <1>2, <1>3, <1>4, RaiseKeeps


\* Going on towards the commit.
LEMMA PrepareKeeps == ASSUME PublishInv, NEW p \in Procs, Prepare(p) PROVE PublishInv'
<1>1. /\ TypeOK /\ proc[p].phase = "prepare" /\ Goto(p, "prepared")
      /\ handle' = [handle EXCEPT ![p] = "prepared"]
      /\ UNCHANGED <<staging, final, checkpoint, jobs, claim, lease, expired, tx, faulted, budget>>
  BY DEF PublishInv, Prepare, At, files, admission
<1>2. /\ "prepared" \in Phases /\ "prepared" \in Past /\ "prepare" \in Past
      /\ "prepared" \notin Assembling \cup {"begin", "idle", "error"}
      /\ "prepared" \notin Publishing /\ "prepare" \notin Publishing
  BY DEF Past, Assembling, Publishing, Phases
<1>3. /\ proc' \in [Procs -> ProcRow] /\ proc'[p].phase = "prepared" /\ proc'[p].job = proc[p].job
      /\ \A q \in Procs : q # p => proc'[q] = proc[q]
  BY <1>1, <1>2, Moved
<1>4. proc[p].job \in Jobs /\ proc[p].job \in checkpoint
  BY <1>1, <1>2 DEF PublishInv, BusyInv, AssemblyInv, Job
<1>5. handle' \in [Procs -> Handles] /\ \A q \in Procs : q # p => handle'[q] = handle[q]
  BY <1>1 DEF TypeOK, Handles
<1>6. TxOK'
  BY <1>1, <1>2, <1>3, TxKept DEF TxOK
<1>7. /\ claim' \in [Jobs -> Procs \cup {None}] /\ lease' \in Procs \cup {None}
      /\ expired' \subseteq Jobs \cup {Publish} /\ faulted' \subseteq Jobs /\ budget' \in Budgets
  BY <1>1 DEF TypeOK, Budgets
<1> QED  BY <1>1, <1>2, <1>3, <1>4, <1>5, <1>6, <1>7, QuietStep

\* The publish lease is taken.
LEMMA HoldKeeps == ASSUME PublishInv, NEW p \in Procs, Hold(p) PROVE PublishInv'
<1>1. /\ TypeOK /\ proc[p].phase = "prepared" /\ Goto(p, "held")
      /\ lease' = p /\ expired' = expired \ {Publish}
      /\ UNCHANGED <<handle, staging, final, checkpoint, jobs, claim, tx, faulted, budget>>
  BY DEF PublishInv, Hold, At, files
<1>2. /\ "held" \in Phases /\ "held" \in Past /\ "prepared" \in Past
      /\ "held" \notin Assembling \cup {"begin", "idle", "error"}
      /\ "held" \notin Publishing /\ "prepared" \notin Publishing
  BY DEF Past, Assembling, Publishing, Phases
<1>3. /\ proc' \in [Procs -> ProcRow] /\ proc'[p].phase = "held" /\ proc'[p].job = proc[p].job
      /\ \A q \in Procs : q # p => proc'[q] = proc[q]
  BY <1>1, <1>2, Moved
<1>4. proc[p].job \in Jobs /\ proc[p].job \in checkpoint
  BY <1>1, <1>2 DEF PublishInv, BusyInv, AssemblyInv, Job
<1>5. handle' \in [Procs -> Handles]
  BY <1>1 DEF TypeOK, Handles
<1>6. TxOK'
  BY <1>1, <1>2, <1>3, TxKept DEF TxOK
<1>7. /\ claim' \in [Jobs -> Procs \cup {None}] /\ lease' \in Procs \cup {None}
      /\ expired' \subseteq Jobs \cup {Publish} /\ expired \subseteq expired' \cup {Publish}
      /\ faulted' \subseteq Jobs /\ budget' \in Budgets
  BY <1>1 DEF TypeOK, Budgets
<1> QED  BY <1>1, <1>2, <1>3, <1>4, <1>5, <1>6, <1>7, QuietStep

\* The transaction begins, for a claimed, running Job.
LEMMA BeginCommitKeeps == ASSUME PublishInv, NEW p \in Procs, BeginCommit(p) PROVE PublishInv'
<1>1. /\ TypeOK /\ proc[p].phase = "held" /\ Goto(p, "committing")
      /\ tx = None /\ tx' = p /\ handle' = [handle EXCEPT ![p] = "claimed"]
      /\ claim[proc[p].job] = p /\ jobs[proc[p].job].state = "running" /\ ~jobs[proc[p].job].cancel
      /\ UNCHANGED <<staging, final, checkpoint, jobs, claim, lease, expired, faulted, budget>>
  BY DEF PublishInv, BeginCommit, MayCommit, Authorised, Job, At, files, admission
<1>2. /\ "committing" \in Phases /\ "committing" \in Past /\ "held" \in Past
      /\ "committing" \notin Assembling \cup {"begin", "idle", "error"}
      /\ "committing" \in Publishing
  BY DEF Past, Assembling, Publishing, Phases
<1>3. /\ proc' \in [Procs -> ProcRow] /\ proc'[p].phase = "committing" /\ proc'[p].job = proc[p].job
      /\ \A q \in Procs : q # p => proc'[q] = proc[q]
  BY <1>1, <1>2, Moved
<1>4. proc[p].job \in Jobs /\ proc[p].job \in checkpoint
  BY <1>1, <1>2 DEF PublishInv, BusyInv, AssemblyInv, Job
<1>5. handle' \in [Procs -> Handles] /\ \A q \in Procs : q # p => handle'[q] = handle[q]
  BY <1>1 DEF TypeOK, Handles
<1>6. TxOK'
  BY <1>1, <1>2, <1>3, TxKept DEF TxOK
<1>7. /\ claim' \in [Jobs -> Procs \cup {None}] /\ lease' \in Procs \cup {None}
      /\ expired' \subseteq Jobs \cup {Publish} /\ faulted' \subseteq Jobs /\ budget' \in Budgets
  BY <1>1 DEF TypeOK, Budgets
<1> QED  BY <1>1, <1>2, <1>3, <1>4, <1>5, <1>6, <1>7, QuietStep

-----------------------------------------------------------------------------
(* The actions that write the staging directory or the checkpoint.         *)

\* A step that writes files takes no claim from anybody and starts no commit.
LEMMA ClaimKept ==
    ASSUME PublishInv, NEW p \in Procs, UNCHANGED <<checkpoint, jobs, claim>>,
           expired \subseteq expired' \cup {Publish}, faulted \subseteq faulted',
           \A q \in Procs : q # p => proc'[q] = proc[q], proc'[p].job = proc[p].job,
           proc[p].phase # "idle",
           proc'[p].phase \in Assembling \cup {"begin"} => proc[p].phase \in Assembling \cup {"begin"},
           proc'[p].phase \in Publishing => proc[p].phase \in Publishing,
           proc'[p].phase = "error" => proc[p].job \in faulted'
    PROVE  ClaimInv'
<1>1. \A q \in Procs :
        (proc[q].phase \in Assembling \cup {"begin"} /\ Job(q) \in checkpoint => claim[Job(q)] # q)'
  BY DEF PublishInv, ClaimInv, Job
<1>2. \A q \in Procs : (proc[q].phase \in Publishing =>
        claim[Job(q)] = q /\ jobs[Job(q)].state = "running" /\ ~jobs[Job(q)].cancel)'
  BY DEF PublishInv, ClaimInv, Job
<1>3. \A q \in Procs : (/\ At(q, "error") /\ Job(q) \in checkpoint /\ Authorised(q)
                        /\ jobs[Job(q)].state = "running" /\ ~jobs[Job(q)].cancel
                        => Job(q) \in faulted)'
  BY PublishAssumption DEF PublishInv, BusyInv, ClaimInv, Job, At, Authorised
<1> QED  BY <1>1, <1>2, <1>3 DEF ClaimInv

\* Starting: the directory was not there, so no checkpoint names it without a bundle, and
\* nobody else assembles the Job unless it has a bundle.
LEMMA BeginKeeps == ASSUME PublishInv, NEW p \in Procs, Begin(p) PROVE PublishInv'
<1> DEFINE j == proc[p].job
<1>1. /\ TypeOK /\ proc[p].phase = "begin" /\ Goto(p, "writing") /\ staging[j] = "absent"
      /\ staging' = [staging EXCEPT ![j] = "partial"]
      /\ UNCHANGED <<handle, final, checkpoint, jobs, claim, lease, expired, tx, faulted, budget>>
  BY DEF PublishInv, Begin, Job, At, admission
<1>2. /\ "writing" \in Phases /\ "writing" \in Assembling
      /\ "writing" \notin Past /\ "begin" \notin Past
      /\ "writing" \notin Publishing /\ "begin" \notin Publishing /\ "writing" # "error"
  BY DEF Past, Assembling, Publishing, Phases
<1>3. /\ proc' \in [Procs -> ProcRow] /\ proc'[p].phase = "writing" /\ proc'[p].job = j
      /\ \A q \in Procs : q # p => proc'[q] = proc[q]
  BY <1>1, <1>2, Moved
<1>4. j \in Jobs
  BY <1>1 DEF PublishInv, BusyInv
<1>5. /\ staging' \in [Jobs -> Staged] /\ staging'[j] = "partial"
      /\ \A k \in Jobs : k # j => staging'[k] = staging[k]
  BY <1>1, <1>4 DEF TypeOK, Staged
<1>6. TxOK'
  BY <1>1, <1>2, <1>3, TxKept DEF TxOK
<1>. HIDE DEF j
<1>7. TypeOK'
  <2>1. /\ handle' \in [Procs -> Handles]
        /\ final' \subseteq Jobs /\ checkpoint' \subseteq Jobs /\ faulted' \subseteq Jobs
        /\ jobs' \in [Jobs -> [state : States, cancel : BOOLEAN]]
        /\ claim' \in [Jobs -> Procs \cup {None}] /\ lease' \in Procs \cup {None}
        /\ expired' \subseteq Jobs \cup {Publish} /\ budget' \in Budgets
    BY <1>1 DEF TypeOK, Handles, Budgets
  <2>. QED  BY <2>1, <1>3, <1>5, <1>6 DEF TypeOK, TxOK, ProcRow, Handles, Staged, Budgets
<1>8. BusyInv'
  BY <1>3, <1>4 DEF PublishInv, BusyInv
<1>9. AssemblyInv'
  <2>1. j \in checkpoint => j \in final
    BY <1>1 DEF PublishInv, AssemblyInv
  <2>2. \A k \in checkpoint' : staging'[k] \in {"complete", "stamped"} \/ k \in final'
    BY <1>1, <1>5, <2>1 DEF PublishInv, AssemblyInv, TypeOK
  <2>3. \A q \in Procs : (proc[q].phase \in Past => Job(q) \in checkpoint)'
    BY <1>1, <1>2, <1>3 DEF PublishInv, AssemblyInv, Job
  <2>4. ASSUME j \notin final, NEW q \in Procs, q # p, proc[q].job = j
        PROVE  proc[q].phase \notin Assembling
    BY <1>1, <2>4 DEF PublishInv, AssemblyInv, Job
  <2>5. ASSUME NEW q \in Procs, (proc[q].phase \in Assembling /\ Job(q) \notin final)'
        PROVE  /\ (Job(q) \notin checkpoint)'
               /\ (staging[Job(q)] = IF At(q, "writing") THEN "partial" ELSE "complete")'
               /\ \A r \in Procs \ {q} : (Job(r) = Job(q) => proc[r].phase \notin Assembling)'
    <3>1. CASE q = p
      BY <1>1, <1>3, <1>5, <2>1, <2>4, <2>5, <3>1 DEF Job, At
    <3>2. CASE q # p
      <4>1. proc'[q] = proc[q] /\ proc[q].job \in Jobs
        BY <1>3, <2>5, <3>2 DEF PublishInv, BusyInv, Assembling
      <4>2. proc[q].job # j
        BY <1>1, <2>4, <2>5, <3>2, <4>1 DEF Job
      <4>. QED  BY <1>1, <1>3, <1>5, <2>5, <3>2, <4>1, <4>2 DEF PublishInv, AssemblyInv, Job, At
    <3>. QED  BY <3>1, <3>2
  <2>. QED  BY <1>1, <2>2, <2>3, <2>5 DEF PublishInv, AssemblyInv
<1>10. ClaimInv'
  BY <1>1, <1>2, <1>3, ClaimKept DEF j
<1>11. HandleInv' /\ RecordedJobsSurvive'
  BY <1>1, <1>2, <1>3 DEF PublishInv, HandleInv, RecordedJobsSurvive
<1> QED  BY <1>7, <1>8, <1>9, <1>10, <1>11 DEF PublishInv


\* The assembly ends, or an error ends it: only the process that assembles alone changes
\* a directory no bundle came from.
LEMMA AssemblyEnds ==
    ASSUME PublishInv, NEW p \in Procs, proc[p].phase = "writing",
           NEW ph \in {"complete", "error"}, NEW mark \in {"complete", "partial"},
           Goto(p, ph), ph = "complete" => mark = "complete",
           ph = "error" => Job(p) \in faulted',
           staging' = [staging EXCEPT ![Job(p)] = mark],
           UNCHANGED <<final, checkpoint, jobs, claim>>,
           lease' \in Procs \cup {None}, expired' \subseteq Jobs \cup {Publish},
           expired \subseteq expired' \cup {Publish},
           handle' \in [Procs -> Handles], \A q \in Procs : q # p => handle'[q] = handle[q],
           handle'[p] \in {"none", handle[p]},
           tx' \in {tx, IF tx = p THEN None ELSE tx}, budget' \in Budgets,
           faulted \subseteq faulted', faulted' \subseteq Jobs
    PROVE  PublishInv'
<1> DEFINE j == proc[p].job
<1>1. TypeOK /\ staging' = [staging EXCEPT ![j] = mark]
  BY DEF PublishInv, Job
<1>2. /\ ph \in Phases /\ ph \notin Past /\ "writing" \notin Past
      /\ "writing" \in Assembling /\ ph \notin Publishing /\ "writing" \notin Publishing
      /\ ph # "idle" /\ ph # "begin" /\ ph # "writing" /\ "error" \notin Assembling
  BY DEF Past, Assembling, Publishing, Phases
<1>3. /\ proc' \in [Procs -> ProcRow] /\ proc'[p].phase = ph /\ proc'[p].job = j
      /\ \A q \in Procs : q # p => proc'[q] = proc[q]
  BY <1>1, <1>2, Moved
<1>4. j \in Jobs
  BY DEF PublishInv, BusyInv
<1>5. /\ staging' \in [Jobs -> Staged] /\ staging'[j] = mark
      /\ \A k \in Jobs : k # j => staging'[k] = staging[k]
  <2>. HIDE DEF j
  <2>1. staging \in [Jobs -> Staged] /\ mark \in Staged
    BY <1>1 DEF TypeOK, Staged
  <2>. QED  BY <1>1, <1>4, <2>1
<1>6. TxOK'
  <2>1. tx # p
    BY <1>1, <1>2 DEF TypeOK
  <2>2. tx' = tx
    BY <2>1
  <2>. QED  BY <1>1, <1>2, <1>3, <2>2, TxKept DEF TxOK
<1>7. TypeOK'
  <2>1. /\ final' \subseteq Jobs /\ checkpoint' \subseteq Jobs
        /\ jobs' \in [Jobs -> [state : States, cancel : BOOLEAN]]
        /\ claim' \in [Jobs -> Procs \cup {None}]
    BY <1>1 DEF TypeOK
  <2>. HIDE DEF j
  <2>. QED  BY <2>1, <1>3, <1>5, <1>6 DEF TypeOK, TxOK, ProcRow, Handles, Staged, Budgets
<1>8. BusyInv'
  BY <1>3, <1>4 DEF PublishInv, BusyInv
<1>9. AssemblyInv'
  <2>1. j \notin final => /\ j \notin checkpoint
                          /\ \A q \in Procs \ {p} : proc[q].job = j => proc[q].phase \notin Assembling
    BY <1>2 DEF PublishInv, AssemblyInv, Job
  <2>2. \A k \in checkpoint' : staging'[k] \in {"complete", "stamped"} \/ k \in final'
    BY <1>1, <1>5, <2>1 DEF PublishInv, AssemblyInv, TypeOK
  <2>3. \A q \in Procs : (proc[q].phase \in Past => Job(q) \in checkpoint)'
    BY <1>1, <1>2, <1>3 DEF PublishInv, AssemblyInv, Job
  <2>5. ASSUME NEW q \in Procs, (proc[q].phase \in Assembling /\ Job(q) \notin final)'
        PROVE  /\ (Job(q) \notin checkpoint)'
               /\ (staging[Job(q)] = IF At(q, "writing") THEN "partial" ELSE "complete")'
               /\ \A r \in Procs \ {q} : (Job(r) = Job(q) => proc[r].phase \notin Assembling)'
    <3>1. CASE q = p
      <4>1. ph = "complete" /\ mark = "complete" /\ j \notin final
        BY <1>2, <1>3, <2>5, <3>1 DEF Job
      <4>. QED  BY <1>2, <1>3, <1>5, <2>1, <3>1, <4>1 DEF Job, At
    <3>2. CASE q # p
      <4>1. proc'[q] = proc[q] /\ proc[q].job \in Jobs
        BY <1>3, <2>5, <3>2 DEF PublishInv, BusyInv, Assembling
      <4>2. proc[q].job # j
        BY <2>1, <2>5, <3>2, <4>1 DEF Job
      <4>. QED  BY <1>3, <1>5, <2>5, <3>2, <4>1, <4>2 DEF PublishInv, AssemblyInv, Job, At
    <3>. QED  BY <3>1, <3>2
  <2>. QED  BY <2>2, <2>3, <2>5 DEF PublishInv, AssemblyInv
<1>10. ClaimInv'
  BY <1>2, <1>3, ClaimKept DEF Job
<1>11. HandleInv' /\ RecordedJobsSurvive'
  <2>1. handle[p] = "none"
    BY <1>2 DEF PublishInv, HandleInv
  <2>. QED  BY <2>1, <1>2, <1>3 DEF PublishInv, HandleInv, RecordedJobsSurvive
<1> QED  BY <1>7, <1>8, <1>9, <1>10, <1>11 DEF PublishInv

\* The candidate is complete in its staging directory.
LEMMA CompleteKeeps == ASSUME PublishInv, NEW p \in Procs, Complete(p) PROVE PublishInv'
<1>1. /\ TypeOK /\ proc[p].phase = "writing" /\ Goto(p, "complete")
      /\ staging' = [staging EXCEPT ![Job(p)] = "complete"]
      /\ UNCHANGED <<handle, final, checkpoint, jobs, claim, lease, expired, tx, faulted, budget>>
  BY DEF PublishInv, Complete, At, admission
<1>2. /\ handle' \in [Procs -> Handles] /\ lease' \in Procs \cup {None}
      /\ expired' \subseteq Jobs \cup {Publish} /\ faulted' \subseteq Jobs /\ budget' \in Budgets
  BY <1>1 DEF TypeOK, Handles, Budgets
<1> QED  BY <1>1, <1>2, AssemblyEnds

\* The assembly fails and leaves a part.
LEMMA WriteFailsKeeps == ASSUME PublishInv, NEW p \in Procs, WriteFails(p) PROVE PublishInv'
<1>1. /\ TypeOK /\ proc[p].phase = "writing" /\ Unwind(p) /\ Goto(p, "error")
      /\ staging' = [staging EXCEPT ![Job(p)] = "partial"]
      /\ Spend("faults") /\ faulted' = faulted \cup {Job(p)}
      /\ UNCHANGED <<final, checkpoint, jobs, claim>>
  BY DEF PublishInv, WriteFails, At
<1>2. proc[p].job \in Jobs
  BY <1>1 DEF PublishInv, BusyInv
<1>3. budget' \in Budgets
  BY <1>1, SpendTypes DEF Budgets
<1>4. faulted \subseteq faulted' /\ faulted' \subseteq Jobs /\ Job(p) \in faulted'
  BY <1>1, <1>2 DEF TypeOK, Job
<1>5. /\ lease' \in Procs \cup {None} /\ expired' \subseteq Jobs \cup {Publish}
      /\ expired \subseteq expired' \cup {Publish}
      /\ handle' \in [Procs -> Handles] /\ handle'[p] = "none"
      /\ \A q \in Procs : q # p => handle'[q] = handle[q]
      /\ tx' = IF tx = p THEN None ELSE tx
  BY <1>1, UnwindTypes DEF Handles
<1> QED  BY <1>1, <1>3, <1>4, <1>5, AssemblyEnds


\* The checkpoint of a whole candidate: the claim is p's, so nobody else assembles the
\* Job, unless its bundle is there already.
LEMMA RecordCandidateKeeps ==
    ASSUME PublishInv, NEW p \in Procs, RecordCandidate(p) PROVE PublishInv'
<1> DEFINE j == proc[p].job
<1>1. /\ TypeOK /\ proc[p].phase = "complete" /\ Goto(p, "prepare")
      /\ claim[j] = p /\ jobs[j].state = "running" /\ ~jobs[j].cancel
      /\ checkpoint' = checkpoint \cup {j}
      /\ UNCHANGED <<handle, staging, final, jobs, claim, lease, expired, tx, faulted, budget>>
  BY DEF PublishInv, RecordCandidate, Authorised, Job, At, admission
<1>2. /\ "prepare" \in Phases /\ "prepare" \in Past /\ "complete" \notin Past
      /\ "prepare" \notin Assembling \cup {"begin", "idle", "error"} /\ "complete" \in Assembling
      /\ "prepare" \notin Publishing /\ "complete" \notin Publishing
  BY DEF Past, Assembling, Publishing, Phases
<1>3. /\ proc' \in [Procs -> ProcRow] /\ proc'[p].phase = "prepare" /\ proc'[p].job = j
      /\ \A q \in Procs : q # p => proc'[q] = proc[q]
  BY <1>1, <1>2, Moved
<1>4. j \in Jobs
  BY <1>1 DEF PublishInv, BusyInv
<1>5. j \notin final => /\ staging[j] = "complete"
                        /\ \A q \in Procs \ {p} : proc[q].job = j => proc[q].phase \notin Assembling
  BY <1>1, <1>2 DEF PublishInv, AssemblyInv, Job, At
<1>6. TxOK'
  BY <1>1, <1>2, <1>3, TxKept DEF TxOK
<1>7. TypeOK'
  <2>1. /\ handle' \in [Procs -> Handles] /\ staging' \in [Jobs -> Staged]
        /\ final' \subseteq Jobs /\ checkpoint' \subseteq Jobs /\ faulted' \subseteq Jobs
        /\ jobs' \in [Jobs -> [state : States, cancel : BOOLEAN]]
        /\ claim' \in [Jobs -> Procs \cup {None}] /\ lease' \in Procs \cup {None}
        /\ expired' \subseteq Jobs \cup {Publish} /\ budget' \in Budgets
    BY <1>1, <1>4 DEF TypeOK, Handles, Staged, Budgets
  <2>. QED  BY <2>1, <1>3, <1>6 DEF TypeOK, TxOK, ProcRow, Handles, Staged, Budgets
<1>8. BusyInv'
  BY <1>3, <1>4 DEF PublishInv, BusyInv
<1>9. AssemblyInv'
  <2>2. \A k \in checkpoint' : staging'[k] \in {"complete", "stamped"} \/ k \in final'
    BY <1>1, <1>5 DEF PublishInv, AssemblyInv
  <2>3. \A q \in Procs : (proc[q].phase \in Past => Job(q) \in checkpoint)'
    BY <1>1, <1>2, <1>3 DEF PublishInv, AssemblyInv, Job
  <2>4. final' \subseteq checkpoint'
    BY <1>1 DEF PublishInv, AssemblyInv
  <2>5. ASSUME NEW q \in Procs, (proc[q].phase \in Assembling /\ Job(q) \notin final)'
        PROVE  /\ (Job(q) \notin checkpoint)'
               /\ (staging[Job(q)] = IF At(q, "writing") THEN "partial" ELSE "complete")'
               /\ \A r \in Procs \ {q} : (Job(r) = Job(q) => proc[r].phase \notin Assembling)'
    <3>1. q # p /\ proc'[q] = proc[q]
      BY <1>2, <1>3, <2>5
    <3>2. proc[q].job # j
      BY <1>1, <1>5, <2>5, <3>1 DEF Job
    <3>. QED  BY <1>1, <1>2, <1>3, <2>5, <3>1, <3>2 DEF PublishInv, AssemblyInv, Job, At
  <2>. QED  BY <2>2, <2>3, <2>4, <2>5 DEF AssemblyInv
<1>10. ClaimInv'
  <2>1. \A q \in Procs :
          (proc[q].phase \in Assembling \cup {"begin"} /\ Job(q) \in checkpoint => claim[Job(q)] # q)'
    BY <1>1, <1>2, <1>3 DEF PublishInv, ClaimInv, Job
  <2>2. \A q \in Procs : (proc[q].phase \in Publishing =>
          claim[Job(q)] = q /\ jobs[Job(q)].state = "running" /\ ~jobs[Job(q)].cancel)'
    BY <1>1, <1>2, <1>3 DEF PublishInv, ClaimInv, Job
  <2>3. \A q \in Procs : (/\ At(q, "error") /\ Job(q) \in checkpoint /\ Authorised(q)
                          /\ jobs[Job(q)].state = "running" /\ ~jobs[Job(q)].cancel
                          => Job(q) \in faulted)'
    BY <1>1, <1>2, <1>3 DEF PublishInv, ClaimInv, Job, At, Authorised
  <2>. QED  BY <2>1, <2>2, <2>3 DEF ClaimInv
<1>11. HandleInv' /\ RecordedJobsSurvive'
  BY <1>1, <1>2, <1>3 DEF PublishInv, HandleInv, RecordedJobsSurvive
<1> QED  BY <1>7, <1>8, <1>9, <1>10, <1>11 DEF PublishInv

\* The commit moves the directory of a recorded candidate: nobody assembles that Job,
\* unless its bundle was there before.
LEMMA CommitStep ==
    ASSUME PublishInv, NEW p \in Procs, NEW ph \in {"stamped", "renamed"}, Goto(p, ph),
           proc[p].phase \in Publishing, NEW mark \in Staged,
           staging' = [staging EXCEPT ![Job(p)] = mark],
           final' \in {final, final \cup {Job(p)}},
           mark \in {"complete", "stamped"} \/ Job(p) \in final',
           Job(p) \in final' \/ (\A q \in Procs : Job(q) = Job(p) => proc[q].phase \notin Assembling),
           handle' \in [Procs -> Handles], \A q \in Procs : q # p => handle'[q] = handle[q],
           UNCHANGED <<checkpoint, jobs, claim, lease, expired, tx, faulted, budget>>
    PROVE  PublishInv'
<1> DEFINE j == proc[p].job
<1>1. TypeOK /\ staging' = [staging EXCEPT ![j] = mark] /\ j \in checkpoint
  BY DEF PublishInv, AssemblyInv, Job, Past
<1>2. /\ ph \in Phases /\ ph \in Past /\ ph \in Publishing
      /\ ph \notin Assembling \cup {"begin", "idle", "error"}
  BY DEF Past, Assembling, Publishing, Phases
<1>3. /\ proc' \in [Procs -> ProcRow] /\ proc'[p].phase = ph /\ proc'[p].job = j
      /\ \A q \in Procs : q # p => proc'[q] = proc[q]
  BY <1>1, <1>2, Moved
<1>4. j \in Jobs /\ proc[p].phase # "idle"
  BY DEF PublishInv, BusyInv, Publishing
<1>5. /\ staging' \in [Jobs -> Staged] /\ staging'[j] = mark
      /\ \A k \in Jobs : k # j => staging'[k] = staging[k]
  <2>. HIDE DEF j
  <2>1. staging \in [Jobs -> Staged]
    BY <1>1 DEF TypeOK, Staged
  <2>. QED  BY <1>1, <1>4, <2>1
<1>6. TxOK'
  BY <1>1, <1>2, <1>3, TxKept DEF TxOK
<1>7. TypeOK'
  <2>1. /\ final' \subseteq Jobs /\ checkpoint' \subseteq Jobs /\ faulted' \subseteq Jobs
        /\ jobs' \in [Jobs -> [state : States, cancel : BOOLEAN]]
        /\ claim' \in [Jobs -> Procs \cup {None}] /\ lease' \in Procs \cup {None}
        /\ expired' \subseteq Jobs \cup {Publish} /\ budget' \in Budgets
    BY <1>1, <1>4 DEF TypeOK, Budgets, Job
  <2>. HIDE DEF j
  <2>. QED  BY <2>1, <1>3, <1>5, <1>6 DEF TypeOK, TxOK, ProcRow, Handles, Staged, Budgets
<1>8. BusyInv'
  BY <1>3, <1>4 DEF PublishInv, BusyInv
<1>9. AssemblyInv'
  <2>2. \A k \in checkpoint' : staging'[k] \in {"complete", "stamped"} \/ k \in final'
    BY <1>1, <1>5 DEF PublishInv, AssemblyInv, TypeOK, Job
  <2>3. \A q \in Procs : (proc[q].phase \in Past => Job(q) \in checkpoint)'
    BY <1>1, <1>2, <1>3 DEF PublishInv, AssemblyInv, Job
  <2>4. final' \subseteq checkpoint'
    BY <1>1 DEF PublishInv, AssemblyInv, Job
  <2>5. ASSUME NEW q \in Procs, (proc[q].phase \in Assembling /\ Job(q) \notin final)'
        PROVE  /\ (Job(q) \notin checkpoint)'
               /\ (staging[Job(q)] = IF At(q, "writing") THEN "partial" ELSE "complete")'
               /\ \A r \in Procs \ {q} : (Job(r) = Job(q) => proc[r].phase \notin Assembling)'
    <3>1. q # p /\ proc'[q] = proc[q] /\ proc[q].job \in Jobs
      BY <1>2, <1>3, <2>5 DEF PublishInv, BusyInv, Assembling
    <3>2. proc[q].job # j
      BY <2>5, <3>1 DEF Job
    <3>3. proc[q].job \notin final
      BY <2>5, <3>1 DEF Job
    <3>. QED  BY <1>1, <1>2, <1>3, <1>5, <2>5, <3>1, <3>2, <3>3 DEF PublishInv, AssemblyInv, Job, At
  <2>. QED  BY <2>2, <2>3, <2>4, <2>5 DEF AssemblyInv
<1>10. ClaimInv'
  BY <1>2, <1>3, <1>4, ClaimKept
<1>11. HandleInv' /\ RecordedJobsSurvive'
  BY <1>1, <1>2, <1>3 DEF PublishInv, HandleInv, RecordedJobsSurvive
<1> QED  BY <1>7, <1>8, <1>9, <1>10, <1>11 DEF PublishInv

\* A process that publishes has the claim; one that assembles the same Job was overtaken,
\* and then the bundle is there.
LEMMA NobodyAssembles ==
    ASSUME PublishInv, NEW p \in Procs, proc[p].phase \in Publishing, Job(p) \notin final
    PROVE  \A q \in Procs : Job(q) = Job(p) => proc[q].phase \notin Assembling
<1>1. Job(p) \in checkpoint
  BY DEF PublishInv, AssemblyInv, Past
<1> QED  BY <1>1 DEF PublishInv, AssemblyInv

\* The staged bundle is stamped.
LEMMA StampKeeps == ASSUME PublishInv, NEW p \in Procs, Stamp(p) PROVE PublishInv'
<1> DEFINE mark == IF staging[Job(p)] = "complete" THEN "stamped" ELSE staging[Job(p)]
<1>1. /\ TypeOK /\ proc[p].phase = "committing" /\ Goto(p, "stamped")
      /\ staging' = [staging EXCEPT ![Job(p)] = mark]
      /\ UNCHANGED <<handle, final, checkpoint, jobs, claim, lease, expired, tx, faulted, budget>>
  BY DEF PublishInv, Stamp, At, admission
<1>2. proc[p].phase \in Publishing /\ Job(p) \in checkpoint /\ Job(p) \in Jobs
  BY <1>1 DEF Publishing, Past, PublishInv, BusyInv, AssemblyInv, Job
<1>3. mark \in Staged /\ handle' \in [Procs -> Handles]
  BY <1>1, <1>2 DEF TypeOK, Staged, Handles
<1>4. mark \in {"complete", "stamped"} \/ Job(p) \in final'
  BY <1>1, <1>2 DEF PublishInv, AssemblyInv
<1>. HIDE DEF mark
<1>5. Job(p) \in final' \/ (\A q \in Procs : Job(q) = Job(p) => proc[q].phase \notin Assembling)
  BY <1>1, <1>2, NobodyAssembles
<1> QED  BY <1>1, <1>2, <1>3, <1>4, <1>5, CommitStep

\* The staged bundle is renamed into the workspace.
LEMMA RenameKeeps == ASSUME PublishInv, NEW p \in Procs, Rename(p) PROVE PublishInv'
<1> DEFINE mark == IF Job(p) \in final THEN staging[Job(p)] ELSE "absent"
<1>1. /\ TypeOK /\ proc[p].phase = "stamped" /\ Goto(p, "renamed")
      /\ staging' = [staging EXCEPT ![Job(p)] = mark] /\ final' = final \cup {Job(p)}
      /\ handle' = [handle EXCEPT ![p] = "none"]
      /\ UNCHANGED <<checkpoint, jobs, claim, lease, expired, tx, faulted, budget>>
  BY DEF PublishInv, Rename, At, admission
<1>2. proc[p].phase \in Publishing /\ Job(p) \in Jobs
  BY <1>1 DEF Publishing, PublishInv, BusyInv, Job
<1>3. mark \in Staged
  BY <1>1, <1>2 DEF TypeOK, Staged
<1>4. handle' \in [Procs -> Handles] /\ \A q \in Procs : q # p => handle'[q] = handle[q]
  BY <1>1 DEF TypeOK, Handles
<1>. HIDE DEF mark
<1> QED  BY <1>1, <1>2, <1>3, <1>4, CommitStep


-----------------------------------------------------------------------------
(* The actions on the rows of Jobs and claims.                             *)

\* The rows change, the files and the others' claims do not.
LEMMA RowStep ==
    ASSUME PublishInv, UNCHANGED <<staging, final, checkpoint, lease, faulted>>,
           NEW p \in Procs, \A q \in Procs : q # p => proc'[q] = proc[q],
           proc' \in [Procs -> ProcRow], TxOK', budget' \in Budgets,
           handle' \in [Procs -> Handles],
           proc'[p].phase # "idle" => proc'[p].job \in Jobs,
           proc'[p].phase \notin Assembling \/ proc'[p] = proc[p],
           proc'[p].phase \in Past => proc'[p].job \in checkpoint,
           jobs' \in [Jobs -> [state : States, cancel : BOOLEAN]],
           claim' \in [Jobs -> Procs \cup {None}], expired' \subseteq Jobs \cup {Publish},
           HandleInv', ClaimInv', RecordedJobsSurvive'
    PROVE  PublishInv'
<1>1. TypeOK'
  BY TypeParts DEF PublishInv, TypeOK, TxOK, ProcRow, Handles, Budgets
<1>2. BusyInv'
  BY DEF PublishInv, BusyInv
<1>3. AssemblyInv'
  <2>1. \A q \in Procs : (proc[q].phase \in Past => Job(q) \in checkpoint)'
    BY DEF PublishInv, AssemblyInv, Job
  <2>2. ASSUME NEW q \in Procs, (proc[q].phase \in Assembling /\ Job(q) \notin final)'
        PROVE  /\ (Job(q) \notin checkpoint)'
               /\ (staging[Job(q)] = IF At(q, "writing") THEN "partial" ELSE "complete")'
               /\ \A r \in Procs \ {q} : (Job(r) = Job(q) => proc[r].phase \notin Assembling)'
    <3>1. proc'[q] = proc[q]
      BY <2>2
    <3>2. \A r \in Procs : proc'[r].phase \in Assembling => proc'[r] = proc[r]
      OBVIOUS
    <3>. QED  BY <2>2, <3>1, <3>2 DEF PublishInv, AssemblyInv, Job, At
  <2>. QED  BY <2>1, <2>2 DEF PublishInv, AssemblyInv
<1> QED  BY <1>1, <1>2, <1>3 DEF PublishInv

\* A Job ends from an error only while its claim is the process's: so nobody publishes it,
\* and with a recorded candidate the error was a fault.
LEMMA FailJobKeeps == ASSUME PublishInv, NEW p \in Procs, FailJob(p) PROVE PublishInv'
<1> DEFINE j == proc[p].job
           ends == Authorised(p) /\ jobs[j].state = "running"
           over == IF jobs[j].cancel THEN "cancelled" ELSE "failed"
<1>1. /\ TypeOK /\ proc[p].phase = "error" /\ proc' = [proc EXCEPT ![p] = Idle]
      /\ jobs' = IF ends THEN [jobs EXCEPT ![j].state = over] ELSE jobs
      /\ ReleaseClaim(p)
      /\ UNCHANGED <<handle, staging, final, checkpoint, lease, expired, tx, faulted, budget>>
  BY DEF PublishInv, FailJob, Job, At, files
<1>2. /\ "idle" \notin Past \cup Assembling \cup Publishing \cup {"begin", "error"}
      /\ "error" \notin Publishing \cup Past
  BY DEF Past, Assembling, Publishing
<1>3. j \in Jobs
  BY <1>1 DEF PublishInv, BusyInv
<1>4. proc' \in [Procs -> ProcRow] /\ proc'[p].phase = "idle" /\ \A q \in Procs : q # p => proc'[q] = proc[q]
  BY <1>1, Idled
<1>5. /\ claim' \in [Jobs -> Procs \cup {None}]
      /\ \A k \in Jobs : claim'[k] = claim[k] \/ (claim'[k] = None /\ claim[k] = p)
  BY <1>1, <1>3, ReleaseTypes
<1>6. /\ jobs' \in [Jobs -> [state : States, cancel : BOOLEAN]]
      /\ \A k \in Jobs : k # j => jobs'[k] = jobs[k]
      /\ ~ends => jobs' = jobs
      /\ ends => jobs'[j].state = over /\ jobs'[j].cancel = jobs[j].cancel
  <2>1. over \in States
    BY DEF States
  <2>2. jobs \in [Jobs -> [state : States, cancel : BOOLEAN]]
    BY <1>1 DEF TypeOK
  <2>. HIDE DEF over, ends, j
  <2>3. CASE ends
    BY <1>1, <1>3, <2>1, <2>2, <2>3
  <2>4. CASE ~ends
    BY <1>1, <2>2, <2>4
  <2>. QED  BY <2>3, <2>4
<1>7. handle' \in [Procs -> Handles] /\ budget' \in Budgets /\ expired' \subseteq Jobs \cup {Publish}
  BY <1>1 DEF TypeOK, Handles, Budgets
<1>8. TxOK'
  BY <1>1, <1>2, <1>4, TxKept DEF TxOK
<1>9. HandleInv'
  BY <1>1, <1>2, <1>4 DEF PublishInv, HandleInv
<1>10. ends => claim[j] = p
  BY DEF Authorised, Job
<1>11. ClaimInv'
  <2>. HIDE DEF ends, over
  <2>1. ASSUME NEW q \in Procs, (proc[q].phase \in Assembling \cup {"begin"} /\ Job(q) \in checkpoint)'
        PROVE  (claim[Job(q)] # q)'
    <3>1. q # p /\ proc'[q] = proc[q]
      BY <1>2, <1>4, <2>1
    <3>2. proc[q].job \in Jobs /\ claim[proc[q].job] # q
      BY <1>1, <2>1, <3>1 DEF PublishInv, BusyInv, ClaimInv, Job, Assembling
    <3>. QED  BY <1>5, <3>1, <3>2, PublishAssumption DEF Job
  <2>2. ASSUME NEW q \in Procs, (proc[q].phase \in Publishing)'
        PROVE  (claim[Job(q)] = q /\ jobs[Job(q)].state = "running" /\ ~jobs[Job(q)].cancel)'
    <3>1. q # p /\ proc'[q] = proc[q]
      BY <1>2, <1>4, <2>2
    <3>2. /\ proc[q].job \in Jobs /\ claim[proc[q].job] = q
          /\ jobs[proc[q].job].state = "running" /\ ~jobs[proc[q].job].cancel
      BY <2>2, <3>1 DEF PublishInv, BusyInv, ClaimInv, Job, Publishing
    <3>3. jobs'[proc[q].job] = jobs[proc[q].job]
      BY <1>6, <1>10, <3>1, <3>2
    <3>. QED  BY <1>5, <3>1, <3>2, <3>3 DEF Job
  <2>3. ASSUME NEW q \in Procs,
               (/\ At(q, "error") /\ Job(q) \in checkpoint /\ Authorised(q)
                /\ jobs[Job(q)].state = "running" /\ ~jobs[Job(q)].cancel)'
        PROVE  (Job(q) \in faulted)'
    <3>1. q # p /\ proc'[q] = proc[q]
      BY <1>2, <1>4, <2>3 DEF At
    <3>2. proc[q].job \in Jobs /\ claim[proc[q].job] = q /\ proc[q].job \notin expired
      BY <1>1, <1>5, <2>3, <3>1, PublishAssumption DEF PublishInv, BusyInv, Job, At, Authorised
    <3>3. jobs'[proc[q].job] = jobs[proc[q].job]
      BY <1>6, <1>10, <3>1, <3>2
    <3>4. /\ proc[q].phase = "error" /\ proc[q].job \in checkpoint
          /\ jobs[proc[q].job].state = "running" /\ ~jobs[proc[q].job].cancel
      <4>1. checkpoint' = checkpoint
        BY <1>1
      <4>. QED  BY <2>3, <3>1, <3>3, <4>1 DEF Job, At
    <3>5. proc[q].job \in faulted
      BY <3>2, <3>4 DEF PublishInv, ClaimInv, Job, At, Authorised
    <3>. QED  BY <1>1, <3>1, <3>5 DEF Job
  <2>. QED  BY <2>1, <2>2, <2>3 DEF ClaimInv
<1>12. RecordedJobsSurvive'
  <2>1. ASSUME ends, ~jobs[j].cancel, j \in checkpoint PROVE j \in faulted
    BY <1>1, <2>1 DEF PublishInv, ClaimInv, Job, At
  <2>2. ASSUME NEW k \in checkpoint, jobs'[k].state = "failed" PROVE k \in faulted
    <3>1. CASE ends /\ k = j
      BY <1>6, <2>1, <2>2, <3>1
    <3>2. CASE ~(ends /\ k = j)
      <4>. HIDE DEF ends, over, j
      <4>1. k \in Jobs
        BY <1>1 DEF TypeOK
      <4>2. jobs'[k] = jobs[k]
        BY <1>6, <3>2, <4>1
      <4>. QED  BY <2>2, <4>2 DEF PublishInv, RecordedJobsSurvive
    <3>. QED  BY <3>1, <3>2
  <2>. QED  BY <1>1, <2>2 DEF RecordedJobsSurvive
<1>13. proc'[p].phase = "idle" /\ proc'[p].phase \notin Past /\ proc'[p].phase \notin Assembling
  BY <1>2, <1>4
<1>14. UNCHANGED <<staging, final, checkpoint, lease, faulted>>
  BY <1>1
<1>. HIDE DEF j, ends, over
<1> QED  BY <1>4, <1>5, <1>6, <1>7, <1>8, <1>9, <1>11, <1>12, <1>13, <1>14, RowStep


\* A Job is claimed only when its claim is free or ran out, and the process that had it is
\* not publishing then: nobody is inside the transaction.
LEMMA ClaimKeeps ==
    ASSUME PublishInv, NEW p \in Procs, NEW j \in Jobs, Claim(p, j) PROVE PublishInv'
<1>1. /\ TypeOK /\ proc[p].phase = "idle" /\ tx = None /\ jobs[j].state = "running"
      /\ UNCHANGED <<handle, staging, final, checkpoint, lease, tx, faulted, budget>>
  BY DEF PublishInv, Claim, At, files
<1>2. \A q \in Procs : proc[q].phase \notin Publishing
  BY <1>1, PublishAssumption DEF TypeOK
<1>3. /\ handle' \in [Procs -> Handles] /\ budget' \in Budgets
      /\ jobs \in [Jobs -> [state : States, cancel : BOOLEAN]]
      /\ claim \in [Jobs -> Procs \cup {None}] /\ expired \subseteq Jobs \cup {Publish}
      /\ proc \in [Procs -> ProcRow]
  BY <1>1 DEF TypeOK, Handles, Budgets, ProcRow
<1>4. "idle" \notin Past \cup Assembling \cup Publishing \cup {"begin", "error"}
  BY DEF Past, Assembling, Publishing
<1>5. handle[p] = "none"
  BY <1>1, <1>4 DEF PublishInv, HandleInv
<1>6. CASE jobs[j].cancel
  <2>1. /\ jobs' = [jobs EXCEPT ![j].state = "cancelled"]
        /\ UNCHANGED <<proc, claim, expired>>
    BY <1>6 DEF Claim
  <2>2. /\ jobs' \in [Jobs -> [state : States, cancel : BOOLEAN]]
        /\ \A k \in Jobs : k # j => jobs'[k] = jobs[k]
        /\ jobs'[j].state = "cancelled"
    <3>1. "cancelled" \in States
      BY DEF States
    <3>. QED  BY <1>3, <2>1, <3>1
  <2>3. TxOK'
    BY <1>1, <2>1 DEF TypeOK, TxOK
  <2>4. HandleInv'
    BY <1>1, <2>1 DEF PublishInv, HandleInv
  <2>5. ClaimInv'
    <3>1. \A q \in Procs :
            (proc[q].phase \in Assembling \cup {"begin"} /\ Job(q) \in checkpoint => claim[Job(q)] # q)'
      BY <1>1, <2>1 DEF PublishInv, ClaimInv, Job
    <3>2. \A q \in Procs : (proc[q].phase \notin Publishing)'
      BY <1>2, <2>1
    <3>3. ASSUME NEW q \in Procs,
                 (/\ At(q, "error") /\ Job(q) \in checkpoint /\ Authorised(q)
                  /\ jobs[Job(q)].state = "running" /\ ~jobs[Job(q)].cancel)'
          PROVE  (Job(q) \in faulted)'
      <4>1. /\ proc[q].phase = "error" /\ proc[q].job \in checkpoint /\ Authorised(q)
            /\ proc[q].job \in Jobs
            /\ jobs'[proc[q].job].state = "running" /\ ~jobs'[proc[q].job].cancel
        BY <1>1, <2>1, <3>3 DEF PublishInv, BusyInv, Job, At, Authorised
      <4>2. jobs'[proc[q].job] = jobs[proc[q].job]
        BY <2>2, <4>1
      <4>3. proc[q].job \in faulted
        BY <4>1, <4>2 DEF PublishInv, ClaimInv, Job, At
      <4>. QED  BY <1>1, <2>1, <4>3 DEF Job
    <3>. QED  BY <3>1, <3>2, <3>3 DEF ClaimInv
  <2>6. RecordedJobsSurvive'
    BY <1>1, <2>2 DEF PublishInv, RecordedJobsSurvive, TypeOK
  <2>7. proc[p].phase \notin Assembling \cup Past
    BY <1>1, <1>4
  <2>8. proc' \in [Procs -> ProcRow] /\ claim' \in [Jobs -> Procs \cup {None}]
        /\ expired' \subseteq Jobs \cup {Publish}
    BY <1>3, <2>1
  <2>9. UNCHANGED <<staging, final, checkpoint, lease, faulted>>
    BY <1>1
  <2>. QED  BY <1>1, <1>3, <2>1, <2>2, <2>3, <2>4, <2>5, <2>6, <2>7, <2>8, <2>9, RowStep
<1>7. CASE ~jobs[j].cancel
  <2> DEFINE ph == IF j \in checkpoint THEN "prepare" ELSE "begin"
  <2>1. /\ jobs' = jobs /\ claim' = [claim EXCEPT ![j] = p] /\ expired' = expired \ {j}
        /\ proc' = [proc EXCEPT ![p] = [phase |-> ph, job |-> j]]
    BY <1>7 DEF Claim
  <2>2. /\ ph \in Phases /\ ph \notin Assembling \cup Publishing \cup {"idle", "error"}
        /\ ph \in Past => j \in checkpoint
        /\ ph = "begin" => j \notin checkpoint
    BY DEF Phases, Past, Assembling, Publishing
  <2>. HIDE DEF ph
  <2>3. [phase |-> ph, job |-> j] \in ProcRow
    BY <2>2 DEF ProcRow
  <2>4. /\ proc' \in [Procs -> ProcRow] /\ proc'[p].phase = ph /\ proc'[p].job = j
        /\ \A q \in Procs : q # p => proc'[q] = proc[q]
    BY <1>3, <2>1, <2>3
  <2>5. /\ claim' \in [Jobs -> Procs \cup {None}] /\ claim'[j] = p
        /\ \A k \in Jobs : k # j => claim'[k] = claim[k]
        /\ expired' \subseteq Jobs \cup {Publish}
    BY <1>3, <2>1
  <2>6. TxOK'
    BY <1>1, <1>2, <2>2, <2>4, PublishAssumption DEF TxOK
  <2>7. HandleInv'
    BY <1>1, <1>5, <2>4 DEF PublishInv, HandleInv
  <2>8. ClaimInv'
    <3>1. ASSUME NEW q \in Procs, (proc[q].phase \in Assembling \cup {"begin"} /\ Job(q) \in checkpoint)'
          PROVE  (claim[Job(q)] # q)'
      <4>1. q # p /\ proc'[q] = proc[q]
        BY <1>1, <2>2, <2>4, <3>1 DEF Job
      <4>2. proc[q].job \in Jobs /\ claim[proc[q].job] # q
        BY <1>1, <3>1, <4>1 DEF PublishInv, BusyInv, ClaimInv, Job, Assembling
      <4>. QED  BY <2>5, <4>1, <4>2 DEF Job
    <3>2. \A q \in Procs : (proc[q].phase \notin Publishing)'
      BY <1>2, <2>2, <2>4
    <3>3. ASSUME NEW q \in Procs,
                 (/\ At(q, "error") /\ Job(q) \in checkpoint /\ Authorised(q)
                  /\ jobs[Job(q)].state = "running" /\ ~jobs[Job(q)].cancel)'
          PROVE  (Job(q) \in faulted)'
      <4>1. q # p /\ proc'[q] = proc[q]
        BY <2>2, <2>4, <3>3 DEF At
      <4>2. /\ proc[q].phase = "error" /\ proc[q].job \in checkpoint /\ proc[q].job \in Jobs
            /\ claim'[proc[q].job] = q /\ proc[q].job \notin expired'
            /\ jobs[proc[q].job].state = "running" /\ ~jobs[proc[q].job].cancel
        BY <1>1, <2>1, <3>3, <4>1 DEF PublishInv, BusyInv, Job, At, Authorised
      <4>3. proc[q].job # j
        BY <2>5, <4>1, <4>2
      <4>4. claim[proc[q].job] = q /\ proc[q].job \notin expired
        BY <2>1, <2>5, <4>2, <4>3
      <4>5. proc[q].job \in faulted
        BY <4>2, <4>4 DEF PublishInv, ClaimInv, Job, At, Authorised
      <4>. QED  BY <1>1, <4>1, <4>5 DEF Job
    <3>. QED  BY <3>1, <3>2, <3>3 DEF ClaimInv
  <2>9. RecordedJobsSurvive'
    BY <1>1, <2>1 DEF PublishInv, RecordedJobsSurvive
  <2>10. /\ jobs' \in [Jobs -> [state : States, cancel : BOOLEAN]]
         /\ UNCHANGED <<staging, final, checkpoint, lease, faulted>>
    BY <1>1, <1>3, <2>1
  <2>11. proc'[p].job \in Jobs /\ proc'[p].phase \notin Assembling
         /\ (proc'[p].phase \in Past => proc'[p].job \in checkpoint)
    BY <2>2, <2>4
  <2>. QED  BY <1>3, <2>4, <2>5, <2>6, <2>7, <2>8, <2>9, <2>10, <2>11, RowStep
<1> QED  BY <1>6, <1>7


\* The store's commit: whoever is inside the transaction is the only one that publishes.
LEMMA SqlCommitKeeps == ASSUME PublishInv, NEW p \in Procs, SqlCommit(p) PROVE PublishInv'
<1> DEFINE j == proc[p].job
<1>1. /\ TypeOK /\ proc[p].phase = "renamed" /\ Unwind(p) /\ ReleaseClaim(p)
      /\ jobs' = [jobs EXCEPT ![j].state = "succeeded"]
      /\ proc' = [proc EXCEPT ![p] = Idle]
      /\ UNCHANGED <<staging, final, checkpoint, faulted, budget>>
  BY DEF PublishInv, SqlCommit, Job, At, files
<1>2. /\ "idle" \notin Past \cup Assembling \cup Publishing \cup {"begin", "error"}
      /\ "renamed" \in Publishing
  BY DEF Past, Assembling, Publishing
<1>3. j \in Jobs /\ tx = p
  BY <1>1, <1>2 DEF PublishInv, BusyInv, TypeOK
<1>4. proc' \in [Procs -> ProcRow] /\ proc'[p].phase = "idle" /\ \A q \in Procs : q # p => proc'[q] = proc[q]
  BY <1>1, Idled
<1>5. /\ claim' \in [Jobs -> Procs \cup {None}]
      /\ \A k \in Jobs : claim'[k] = claim[k] \/ (claim'[k] = None /\ claim[k] = p)
  BY <1>1, <1>3, ReleaseTypes
<1>6. /\ jobs' \in [Jobs -> [state : States, cancel : BOOLEAN]]
      /\ \A k \in Jobs : k # j => jobs'[k] = jobs[k]
      /\ jobs'[j].state = "succeeded"
  <2>1. "succeeded" \in States
    BY DEF States
  <2>2. jobs \in [Jobs -> [state : States, cancel : BOOLEAN]]
    BY <1>1 DEF TypeOK
  <2>. HIDE DEF j
  <2>. QED  BY <1>1, <1>3, <2>1, <2>2
<1>7. /\ lease' \in Procs \cup {None} /\ expired' \subseteq Jobs \cup {Publish}
      /\ expired \subseteq expired' \cup {Publish}
      /\ handle' \in [Procs -> Handles] /\ handle'[p] = "none"
      /\ \A q \in Procs : q # p => handle'[q] = handle[q]
      /\ tx' = IF tx = p THEN None ELSE tx
  BY <1>1, UnwindTypes DEF Handles
<1>8. TxOK'
  BY <1>1, <1>2, <1>4, <1>7, TxKept DEF TxOK
<1>9. HandleInv'
  BY <1>1, <1>2, <1>4, <1>7 DEF PublishInv, HandleInv
<1>10. \A q \in Procs : q # p => proc[q].phase \notin Publishing
  BY <1>1, <1>3 DEF TypeOK
<1>11. ClaimInv'
  <2>1. ASSUME NEW q \in Procs, (proc[q].phase \in Assembling \cup {"begin"} /\ Job(q) \in checkpoint)'
        PROVE  (claim[Job(q)] # q)'
    <3>1. q # p /\ proc'[q] = proc[q]
      BY <1>2, <1>4, <2>1
    <3>2. proc[q].job \in Jobs /\ claim[proc[q].job] # q
      BY <1>1, <2>1, <3>1 DEF PublishInv, BusyInv, ClaimInv, Job, Assembling
    <3>. QED  BY <1>5, <3>1, <3>2, PublishAssumption DEF Job
  <2>2. \A q \in Procs : (proc[q].phase \notin Publishing)'
    BY <1>2, <1>4, <1>10
  <2>3. ASSUME NEW q \in Procs,
               (/\ At(q, "error") /\ Job(q) \in checkpoint /\ Authorised(q)
                /\ jobs[Job(q)].state = "running" /\ ~jobs[Job(q)].cancel)'
        PROVE  (Job(q) \in faulted)'
    <3>. HIDE DEF j
    <3>1. q # p /\ proc'[q] = proc[q]
      BY <1>2, <1>4, <2>3 DEF At
    <3>2. proc[q].phase = "error" /\ proc[q].job \in Jobs
      BY <2>3, <3>1 DEF PublishInv, BusyInv, At
    <3>3. checkpoint' = checkpoint /\ faulted' = faulted
      BY <1>1
    <3>4. /\ claim'[proc[q].job] = q /\ proc[q].job \notin expired'
          /\ jobs'[proc[q].job].state = "running" /\ ~jobs'[proc[q].job].cancel
          /\ proc[q].job \in checkpoint
      BY <2>3, <3>1, <3>3 DEF Job, Authorised
    <3>5. jobs'[proc[q].job] = jobs[proc[q].job]
      BY <1>6, <3>2, <3>4
    <3>6. claim[proc[q].job] = q /\ proc[q].job \notin expired
      BY <1>5, <1>7, <3>2, <3>4, PublishAssumption
    <3>7. proc[q].job \in faulted
      BY <3>2, <3>4, <3>5, <3>6 DEF PublishInv, ClaimInv, Job, At, Authorised
    <3>. QED  BY <3>1, <3>3, <3>7 DEF Job
  <2>. QED  BY <2>1, <2>2, <2>3 DEF ClaimInv
<1>12. RecordedJobsSurvive'
  <2>1. ASSUME NEW k \in checkpoint, jobs'[k].state = "failed" PROVE k \in faulted
    <3>1. k \in Jobs /\ k # j
      BY <1>1, <1>6, <2>1 DEF TypeOK
    <3>. HIDE DEF j
    <3>. QED  BY <1>6, <2>1, <3>1 DEF PublishInv, RecordedJobsSurvive
  <2>. QED  BY <1>1, <2>1 DEF RecordedJobsSurvive
<1>13. AssemblyInv'
  <2>0. UNCHANGED <<staging, final, checkpoint>>
    BY <1>1
  <2>1. \A q \in Procs : (proc[q].phase \in Past => Job(q) \in checkpoint)'
    BY <1>2, <1>4, <2>0 DEF PublishInv, AssemblyInv, Job
  <2>2. ASSUME NEW q \in Procs, (proc[q].phase \in Assembling /\ Job(q) \notin final)'
        PROVE  /\ (Job(q) \notin checkpoint)'
               /\ (staging[Job(q)] = IF At(q, "writing") THEN "partial" ELSE "complete")'
               /\ \A r \in Procs \ {q} : (Job(r) = Job(q) => proc[r].phase \notin Assembling)'
    <3>1. q # p /\ proc'[q] = proc[q]
      BY <1>2, <1>4, <2>2
    <3>. QED  BY <1>2, <1>4, <2>0, <2>2, <3>1 DEF PublishInv, AssemblyInv, Job, At
  <2>. QED  BY <2>0, <2>1, <2>2 DEF PublishInv, AssemblyInv
<1>14. BusyInv'
  BY <1>4 DEF PublishInv, BusyInv
<1>15. TypeOK'
  <2>1. /\ staging' \in [Jobs -> Staged] /\ final' \subseteq Jobs /\ checkpoint' \subseteq Jobs
        /\ faulted' \subseteq Jobs /\ budget' \in Budgets
    BY <1>1 DEF TypeOK, Staged, Budgets
  <2>. HIDE DEF j
  <2>. QED  BY <2>1, <1>4, <1>5, <1>6, <1>7, <1>8 DEF TypeOK, TxOK, ProcRow, Handles, Staged, Budgets
<1> QED  BY <1>9, <1>11, <1>12, <1>13, <1>14, <1>15 DEF PublishInv

\* Time: a claim or a lease runs out.
LEMMA RunsOutKeeps ==
    ASSUME PublishInv, NEW name \in Jobs \cup {Publish}, NEW live \in BOOLEAN, RunsOut(name, live)
    PROVE  PublishInv'
<1>1. /\ TypeOK /\ expired' = expired \cup {name}
      /\ UNCHANGED <<proc, handle, staging, final, checkpoint, jobs, claim, lease, tx, faulted>>
  BY DEF PublishInv, RunsOut, files
<1>2. budget' \in Budgets
  <2>1. CASE live
    BY <1>1, <2>1, SpendTypes DEF RunsOut, Budgets
  <2>2. CASE ~live
    BY <1>1, <2>2 DEF RunsOut, Budgets, TypeOK
  <2>. QED  BY <2>1, <2>2
<1>3. TypeOK'
  BY <1>1, <1>2 DEF TypeOK, Budgets
<1>4. BusyInv' /\ HandleInv' /\ RecordedJobsSurvive'
  BY <1>1 DEF PublishInv, BusyInv, HandleInv, RecordedJobsSurvive
<1>5. AssemblyInv'
  BY <1>1 DEF PublishInv, AssemblyInv, Job, At
<1>6. ClaimInv'
  BY <1>1 DEF PublishInv, ClaimInv, Job, At, Authorised
<1> QED  BY <1>3, <1>4, <1>5, <1>6 DEF PublishInv

\* The user cancels a running Job while nobody is inside the transaction.
LEMMA RequestCancelKeeps == ASSUME PublishInv, NEW j \in Jobs, RequestCancel(j) PROVE PublishInv'
<1>1. /\ TypeOK /\ tx = None /\ jobs[j].state = "running"
      /\ jobs' = [jobs EXCEPT ![j].cancel = TRUE]
      /\ UNCHANGED <<proc, handle, staging, final, checkpoint, claim, lease, expired, tx, faulted, budget>>
  BY DEF PublishInv, RequestCancel, files, admission
<1>2. /\ jobs' \in [Jobs -> [state : States, cancel : BOOLEAN]]
      /\ \A k \in Jobs : k # j => jobs'[k] = jobs[k]
      /\ jobs'[j].state = "running" /\ jobs'[j].cancel = TRUE
  BY <1>1 DEF TypeOK
<1>3. TypeOK'
  BY <1>1, <1>2 DEF TypeOK
<1>4. BusyInv' /\ HandleInv'
  BY <1>1 DEF PublishInv, BusyInv, HandleInv
<1>5. AssemblyInv'
  BY <1>1 DEF PublishInv, AssemblyInv, Job, At
<1>6. RecordedJobsSurvive'
  BY <1>1, <1>2 DEF PublishInv, RecordedJobsSurvive, TypeOK
<1>7. ClaimInv'
  <2>1. \A q \in Procs :
          (proc[q].phase \in Assembling \cup {"begin"} /\ Job(q) \in checkpoint => claim[Job(q)] # q)'
    BY <1>1 DEF PublishInv, ClaimInv, Job
  <2>2. \A q \in Procs : (proc[q].phase \notin Publishing)'
    BY <1>1, PublishAssumption DEF TypeOK
  <2>3. ASSUME NEW q \in Procs,
               (/\ At(q, "error") /\ Job(q) \in checkpoint /\ Authorised(q)
                /\ jobs[Job(q)].state = "running" /\ ~jobs[Job(q)].cancel)'
        PROVE  (Job(q) \in faulted)'
    <3>1. /\ proc[q].phase = "error" /\ proc[q].job \in Jobs /\ proc[q].job \in checkpoint
          /\ claim[proc[q].job] = q /\ proc[q].job \notin expired
          /\ jobs'[proc[q].job].state = "running" /\ ~jobs'[proc[q].job].cancel
      BY <1>1, <2>3 DEF PublishInv, BusyInv, Job, At, Authorised
    <3>2. jobs'[proc[q].job] = jobs[proc[q].job]
      BY <1>2, <3>1
    <3>3. proc[q].job \in faulted
      BY <3>1, <3>2 DEF PublishInv, ClaimInv, Job, At, Authorised
    <3>. QED  BY <1>1, <3>3 DEF Job
  <2>. QED  BY <2>1, <2>2, <2>3 DEF ClaimInv
<1> QED  BY <1>3, <1>4, <1>5, <1>6, <1>7 DEF PublishInv

-----------------------------------------------------------------------------
(* The theorems.                                                           *)

\* Every behaviour keeps the invariant.
LEMMA PublishInvHolds == Spec => []PublishInv
<1>1. Init => PublishInv
  <2>. SUFFICES ASSUME Init PROVE PublishInv
    OBVIOUS
  <2>1. Idle \in ProcRow /\ Idle.phase = "idle" /\ \A p \in Procs : proc[p] = Idle
    BY DEF Init, Idle, ProcRow, Phases
  <2>2. "idle" \notin Past \cup Assembling \cup Publishing \cup {"begin", "error"}
    BY DEF Past, Assembling, Publishing
  <2>3. TypeOK
    <3>1. budget \in Budgets
      BY PublishAssumption DEF Init, Budgets
    <3>2. proc \in [Procs -> ProcRow]
      BY <2>1 DEF Init
    <3>3. TxOK
      BY <2>1, <2>2, PublishAssumption DEF Init, TxOK
    <3>4. jobs \in [Jobs -> [state : States, cancel : BOOLEAN]]
      BY DEF Init, States
    <3>. QED  BY <3>1, <3>2, <3>3, <3>4 DEF Init, TypeOK, ProcRow, Budgets, TxOK
  <2>4. BusyInv
    BY <2>1 DEF BusyInv
  <2>5. AssemblyInv
    BY <2>1, <2>2 DEF Init, AssemblyInv
  <2>6. ClaimInv
    BY <2>1, <2>2 DEF Init, ClaimInv, At
  <2>7. HandleInv /\ RecordedJobsSurvive
    BY <2>1 DEF Init, HandleInv, RecordedJobsSurvive
  <2>. QED  BY <2>3, <2>4, <2>5, <2>6, <2>7 DEF PublishInv
<1>2. PublishInv /\ [Next]_vars => PublishInv'
  <2>. SUFFICES ASSUME PublishInv, [Next]_vars PROVE PublishInv'
    OBVIOUS
  <2>1. CASE UNCHANGED vars
    <3>1. UNCHANGED <<proc, handle, staging, final, checkpoint, jobs, claim, lease, expired, tx, faulted, budget>>
      BY <2>1 DEF vars, files, admission
    <3>. QED
      BY <3>1 DEF PublishInv, TypeOK, BusyInv, AssemblyInv, ClaimInv, HandleInv,
                  RecordedJobsSurvive, Job, At, Authorised
  <2>2. ASSUME NEW p \in Procs, Execute(p) PROVE PublishInv'
    BY <2>2, BeginKeeps, CandidateExistsKeeps, CompleteKeeps, RecordCandidateKeeps,
       RecordRefusedKeeps, PrepareKeeps, PrepareRefusedKeeps, PublishBusyKeeps, HoldKeeps,
       BeginCommitKeeps, GuardRefusesKeeps, StampKeeps, RenameKeeps, SqlCommitKeeps,
       StoreBusyKeeps, FailJobKeeps DEF Execute
  <2>3. ASSUME NEW p \in Procs, Fault(p) PROVE PublishInv'
    BY <2>3, WriteFailsKeeps, CommitFailsKeeps, CrashKeeps DEF Fault
  <2>4. ASSUME NEW j \in Jobs, ClaimRunsOut(j) PROVE PublishInv'
    BY <2>4, RunsOutKeeps DEF ClaimRunsOut
  <2>5. CASE LeaseRunsOut
    <3> DEFINE live == proc[lease].phase \in Publishing \cup {"held"}
    <3>1. live \in BOOLEAN /\ RunsOut(Publish, live)
      BY <2>5 DEF LeaseRunsOut
    <3>. HIDE DEF live
    <3>. QED  BY <3>1, RunsOutKeeps
  <2>. QED  BY <2>1, <2>2, <2>3, <2>4, <2>5, ClaimKeeps, RequestCancelKeeps DEF Next
<1> QED  BY <1>1, <1>2, PTL DEF Spec

\* A Job whose candidate a checkpoint records fails only from an error of its own, for any
\* number of Jobs, processes, losses and lapses.
THEOREM RecordedJobsNeverFailAlone == Spec => []RecordedJobsSurvive
BY PublishInvHolds, PTL DEF PublishInv

\* The candidate a checkpoint names stays whole until it is the bundle.
THEOREM RecordedCandidatesStay == Spec => []RecordedCandidateStays
<1>1. PublishInv => RecordedCandidateStays
  BY DEF PublishInv, AssemblyInv, RecordedCandidateStays
<1> QED  BY <1>1, PublishInvHolds, PTL

\* A process that has left an execution has left no open handle.
THEOREM HandlesAreClosed == Spec => []HandlesClosed
<1>1. PublishInv => HandlesClosed
  BY DEF PublishInv, HandleInv, HandlesClosed, At, Past, Publishing
<1> QED  BY <1>1, PublishInvHolds, PTL

\* A bundle appears only for a running Job that nobody cancelled, by the process its claim
\* names, inside the transaction.
THEOREM RenamesAreAuthorised == Spec => RenameIsAuthorised
<1> DEFINE Fair == \A j \in final' \ final :
          /\ jobs[j].state = "running" /\ ~jobs[j].cancel
          /\ \E p \in Procs : claim[j] = p /\ Job(p) = j /\ tx = p
<1>1. PublishInv /\ [Next]_vars => [Fair]_vars
  <2>. SUFFICES ASSUME PublishInv, Next PROVE Fair \/ UNCHANGED vars
    OBVIOUS
  <2>1. ASSUME NEW p \in Procs, Rename(p) PROVE Fair
    <3>1. final' = final \cup {Job(p)} /\ proc[p].phase \in Publishing
      BY <2>1 DEF Rename, At, Publishing
    <3>2. /\ claim[Job(p)] = p /\ jobs[Job(p)].state = "running" /\ ~jobs[Job(p)].cancel /\ tx = p
      BY <3>1 DEF PublishInv, ClaimInv, TypeOK
    <3>. QED  BY <3>1, <3>2
  <2>2. ASSUME NEW p \in Procs, Execute(p), ~Rename(p) PROVE final' = final
    BY <2>2 DEF Execute, Begin, CandidateExists, Complete, RecordCandidate, RecordRefused, Prepare,
                PrepareRefused, PublishBusy, Hold, BeginCommit, GuardRefuses, Stamp, SqlCommit,
                StoreBusy, FailJob, Leave, RaiseRefused, Raise, files
  <2>3. ASSUME NEW p \in Procs, Fault(p) PROVE final' = final
    BY <2>3 DEF Fault, WriteFails, CommitFails, Crash, files
  <2>4. ASSUME NEW p \in Procs, NEW j \in Jobs, Claim(p, j) PROVE final' = final
    BY <2>4 DEF Claim, files
  <2>5. ASSUME NEW j \in Jobs, ClaimRunsOut(j) \/ RequestCancel(j) PROVE final' = final
    BY <2>5 DEF ClaimRunsOut, RunsOut, RequestCancel, files
  <2>6. LeaseRunsOut => final' = final
    BY DEF LeaseRunsOut, RunsOut, files
  <2>. QED  BY <2>1, <2>2, <2>3, <2>4, <2>5, <2>6 DEF Next
<1>2. Spec => []PublishInv
  BY PublishInvHolds
<1> QED  BY <1>1, <1>2, PTL DEF Spec, RenameIsAuthorised

-----------------------------------------------------------------------------
(* AttemptStorage: the inductive invariant.                                *)

\* Between its file and its row the payload of an execution is there, unless the power was
\* lost; the rows are those of executions that entered, and one of them is the latest.
CheckpointsInv ==
    /\ storageBudget \in [losses : 0 .. MaxPowerLosses, crashes : 0 .. MaxCrashes]
    /\ storageBudget.losses = MaxPowerLosses =>
          \A e \in Storage!Executions : e \in recorded \/ execution[e] = "replaced" => payloads[e] = e
    /\ \A e \in Storage!Executions : execution[e] = "done" => used[e] \in recorded
    /\ \A e \in recorded : e <= current
    /\ recorded # {} => \E e \in recorded : \A f \in recorded : f <= e

\* An event that returned, or that a publisher has written, and that the file has not, is
\* one that another publisher goes on to write.
Overwritten == \E p \in Procs : publisher[p].phase = "written" /\ projection < publisher[p].last
Behind == projection < returned \/ Overwritten
CatchesUp(p) ==
    \/ publisher[p].phase \in {"list", "listed"}
    \/ publisher[p].phase = "written" /\ publisher[p].last <= projection

ProjectionInv ==
    /\ \A p \in Procs : publisher[p].own <= events /\ publisher[p].last <= events
    /\ Behind /\ ~torn => \E p \in Procs : CatchesUp(p)

StorageInv == Storage!TypeOK /\ CheckpointsInv /\ ProjectionInv

\* The latest row is one of the rows.
LEMMA LatestRecorded ==
    ASSUME Storage!TypeOK, CheckpointsInv, recorded # {}
    PROVE  Storage!Latest \in recorded /\ \A f \in recorded : f <= Storage!Latest
BY DEF CheckpointsInv, Storage!Latest

\* Reusable hands the content of the latest row.
LEMMA ReusedIsRecorded ==
    ASSUME Storage!TypeOK, CheckpointsInv, Storage!Reusable
    PROVE  payloads[Storage!Path(Storage!Latest)] \in recorded
BY LatestRecorded DEF Storage!Reusable

\* The steps of a checkpoint keep its types.
LEMMA CheckpointTypes ==
    ASSUME StorageInv, Storage!CheckpointNext
    PROVE  Storage!TypeOK'
<1> USE PublicationAssumption DEF Storage!StorageAssumption
<1> Storage!TypeOK /\ CheckpointsInv
  BY DEF StorageInv
<1>0. ASSUME UNCHANGED Storage!projectionVars,
             execution' \in [Storage!Executions -> {"new", "acting", "replaced", "done", "failed"}],
             current' \in 0 .. MaxExecutions, recorded' \subseteq Storage!Executions,
             payloads' \in [Storage!Executions -> 0 .. MaxExecutions], durable' \subseteq Storage!Executions,
             used' \in [Storage!Executions -> 0 .. MaxExecutions],
             \A e \in Storage!Executions : execution'[e] = "new" <=> e > current'
      PROVE  Storage!TypeOK'
  BY <1>0 DEF Storage!TypeOK, Storage!projectionVars
<1>1. ASSUME NEW e \in Storage!Executions, Storage!Enter(e) PROVE Storage!TypeOK'
  <2>1. UNCHANGED <<payloads, durable, recorded, Storage!projectionVars>> /\ current' = e
    BY <1>1 DEF Storage!Enter
  <2>2. /\ execution' \in [Storage!Executions -> {"new", "acting", "replaced", "done", "failed"}]
        /\ execution'[e] \in {"done", "acting"}
        /\ \A f \in Storage!Executions : f # e => execution'[f] = execution[f]
    BY <1>1 DEF Storage!Enter, Storage!Goto, Storage!TypeOK
  <2>3. used' \in [Storage!Executions -> 0 .. MaxExecutions]
    <3>1. CASE Storage!Reusable
      <4>0. payloads[Storage!Path(Storage!Latest)] \in recorded
        BY <3>1, ReusedIsRecorded
      <4>1. payloads[Storage!Path(Storage!Latest)] \in 0 .. MaxExecutions
        <5> DEFINE content == payloads[Storage!Path(Storage!Latest)]
        <5>1. content \in Storage!Executions
          BY <4>0 DEF Storage!TypeOK
        <5> HIDE DEF content
        <5>2. content \in 0 .. MaxExecutions
          BY <5>1 DEF Storage!Executions
        <5> QED  BY <5>2 DEF content
      <4> QED  BY <1>1, <3>1, <4>1 DEF Storage!Enter, Storage!TypeOK
    <3>2. CASE ~Storage!Reusable
      BY <1>1, <3>2 DEF Storage!Enter, Storage!TypeOK
    <3> QED  BY <3>1, <3>2
  <2>4. e = current + 1 /\ current \in Nat
    BY <1>1 DEF Storage!Enter, Storage!TypeOK
  <2>5. \A f \in Storage!Executions : execution'[f] = "new" <=> f > current'
    BY <2>1, <2>2, <2>4 DEF Storage!TypeOK, Storage!Executions
  <2> QED  BY <1>0, <2>1, <2>2, <2>3, <2>5 DEF Storage!TypeOK, Storage!Executions
<1>2. ASSUME NEW e \in Storage!Executions, Storage!Replace(e) PROVE Storage!TypeOK'
  <2>1. payloads' \in [Storage!Executions -> 0 .. MaxExecutions]
    BY <1>2 DEF Storage!Replace, Storage!Path, Storage!TypeOK, Storage!Executions
  <2>2. /\ execution' \in [Storage!Executions -> {"new", "acting", "replaced", "done", "failed"}]
        /\ \A f \in Storage!Executions : execution'[f] = "new" <=> f > current
    BY <1>2 DEF Storage!Replace, Storage!Goto, Storage!TypeOK
  <2> QED  BY <1>0, <1>2, <2>1, <2>2 DEF Storage!Replace, Storage!TypeOK
<1>3. ASSUME NEW e \in Storage!Executions, Storage!Record(e) PROVE Storage!TypeOK'
  <2>1. used' \in [Storage!Executions -> 0 .. MaxExecutions]
    BY <1>3 DEF Storage!Record, Storage!TypeOK, Storage!Executions
  <2>2. /\ execution' \in [Storage!Executions -> {"new", "acting", "replaced", "done", "failed"}]
        /\ \A f \in Storage!Executions : execution'[f] = "new" <=> f > current
    BY <1>3 DEF Storage!Record, Storage!Goto, Storage!TypeOK
  <2> QED  BY <1>0, <1>3, <2>1, <2>2 DEF Storage!Record, Storage!TypeOK
<1>4. ASSUME NEW e \in Storage!Executions, Storage!RecordRefused(e) PROVE Storage!TypeOK'
  <2>1. /\ execution' \in [Storage!Executions -> {"new", "acting", "replaced", "done", "failed"}]
        /\ \A f \in Storage!Executions : execution'[f] = "new" <=> f > current
    BY <1>4 DEF Storage!RecordRefused, Storage!Goto, Storage!TypeOK
  <2> QED  BY <1>0, <1>4, <2>1 DEF Storage!RecordRefused, Storage!TypeOK
<1>5. CASE Storage!WriteBack
  BY <1>0, <1>5 DEF Storage!WriteBack, Storage!TypeOK
<1>6. CASE Storage!PowerFails
  <2>1. payloads' \in [Storage!Executions -> 0 .. MaxExecutions]
    BY <1>6 DEF Storage!PowerFails, Storage!TypeOK, Storage!NoExecution
  <2>2. /\ execution' \in [Storage!Executions -> {"new", "acting", "replaced", "done", "failed"}]
        /\ \A f \in Storage!Executions : execution'[f] = "new" <=> f > current
    BY <1>6 DEF Storage!PowerFails, Storage!TypeOK
  <2> QED  BY <1>0, <1>6, <2>1, <2>2 DEF Storage!PowerFails, Storage!TypeOK
<1> QED
  BY <1>1, <1>2, <1>3, <1>4, <1>5, <1>6 DEF Storage!CheckpointNext, Storage!RunStep

\* ... and what is known of the files, unless the power is lost.
LEMMA CheckpointSteps ==
    ASSUME StorageInv, Storage!CheckpointNext, Storage!TypeOK'
    PROVE  CheckpointsInv'
<1> USE PublicationAssumption DEF Storage!StorageAssumption
<1> Storage!TypeOK /\ CheckpointsInv
  BY DEF StorageInv
<1>1. ASSUME NEW e \in Storage!Executions, Storage!Enter(e) PROVE CheckpointsInv'
  <2>1. /\ UNCHANGED <<payloads, recorded, storageBudget>> /\ current' = e /\ current <= e
        /\ current \in Nat
    BY <1>1 DEF Storage!Enter, Storage!TypeOK
  <2>2. \A f \in Storage!Executions : execution'[f] = "replaced" => execution[f] = "replaced"
    BY <1>1 DEF Storage!Enter, Storage!Goto, Storage!TypeOK
  <2>3. \A f \in Storage!Executions : execution'[f] = "done" => used'[f] \in recorded
    <3>1. CASE Storage!Reusable
      <4>1. payloads[Storage!Path(Storage!Latest)] \in recorded
        BY <3>1, ReusedIsRecorded
      <4>2. /\ used' = [used EXCEPT ![e] = payloads[Storage!Path(Storage!Latest)]]
            /\ execution' = [execution EXCEPT ![e] = "done"]
        BY <1>1, <3>1 DEF Storage!Enter, Storage!Goto
      <4> QED  BY <4>1, <4>2 DEF CheckpointsInv, Storage!TypeOK
    <3>2. CASE ~Storage!Reusable
      <4>1. used' = used /\ execution' = [execution EXCEPT ![e] = "acting"]
        BY <1>1, <3>2 DEF Storage!Enter, Storage!Goto
      <4> QED  BY <4>1 DEF CheckpointsInv, Storage!TypeOK
    <3> QED  BY <3>1, <3>2
  <2>4. \A f \in recorded' : f <= current'
    BY <2>1 DEF CheckpointsInv, Storage!TypeOK, Storage!Executions
  <2> QED  BY <2>1, <2>2, <2>3, <2>4 DEF CheckpointsInv
<1>2. ASSUME NEW e \in Storage!Executions, Storage!Replace(e) PROVE CheckpointsInv'
  <2>1. /\ UNCHANGED <<current, recorded, used, storageBudget>>
        /\ payloads' = [payloads EXCEPT ![e] = e] /\ execution' = [execution EXCEPT ![e] = "replaced"]
    BY <1>2 DEF Storage!Replace, Storage!Goto, Storage!Path
  <2> QED  BY <2>1 DEF CheckpointsInv, Storage!TypeOK
<1>3. ASSUME NEW e \in Storage!Executions, Storage!Record(e) PROVE CheckpointsInv'
  <2>1. /\ UNCHANGED <<current, payloads, storageBudget>> /\ execution[e] = "replaced" /\ current = e
        /\ recorded' = recorded \cup {e} /\ used' = [used EXCEPT ![e] = e]
        /\ execution' = [execution EXCEPT ![e] = "done"]
    BY <1>3 DEF Storage!Record, Storage!Goto
  <2>2. e \in recorded' /\ \A f \in recorded' : f <= e
    BY <2>1 DEF CheckpointsInv, Storage!Executions
  <2>3. \A f \in Storage!Executions : execution'[f] = "done" => used'[f] \in recorded'
    BY <2>1 DEF CheckpointsInv, Storage!TypeOK
  <2>4. storageBudget'.losses = MaxPowerLosses =>
           \A f \in Storage!Executions : f \in recorded' \/ execution'[f] = "replaced" => payloads'[f] = f
    BY <2>1 DEF CheckpointsInv, Storage!TypeOK
  <2> QED  BY <2>1, <2>2, <2>3, <2>4 DEF CheckpointsInv
<1>4. ASSUME NEW e \in Storage!Executions, Storage!RecordRefused(e) PROVE CheckpointsInv'
  <2>1. /\ UNCHANGED <<current, payloads, recorded, used, storageBudget>>
        /\ execution' = [execution EXCEPT ![e] = "failed"]
    BY <1>4 DEF Storage!RecordRefused, Storage!Goto
  <2> QED  BY <2>1 DEF CheckpointsInv, Storage!TypeOK
<1>5. CASE Storage!WriteBack
  BY <1>5 DEF Storage!WriteBack, CheckpointsInv
<1>6. CASE Storage!PowerFails
  <2>1. /\ storageBudget.losses > 0 /\ storageBudget'.losses = storageBudget.losses - 1
        /\ UNCHANGED <<current, recorded, used>>
    BY <1>6 DEF Storage!PowerFails, Storage!TypeOK
  <2>2. /\ storageBudget' \in [losses : 0 .. MaxPowerLosses, crashes : 0 .. MaxCrashes]
        /\ storageBudget'.losses # MaxPowerLosses
    BY <1>6, <2>1 DEF CheckpointsInv, Storage!PowerFails
  <2>3. \A f \in Storage!Executions : execution'[f] = "done" => execution[f] = "done"
    BY <1>6 DEF Storage!PowerFails, Storage!TypeOK
  <2> QED  BY <2>1, <2>2, <2>3 DEF CheckpointsInv
<1> QED
  BY <1>1, <1>2, <1>3, <1>4, <1>5, <1>6 DEF Storage!CheckpointNext, Storage!RunStep
\* The steps of the projection leave the checkpoints alone, and a publisher is at most
\* as far as the store.
PublisherRow ==
    [phase : {"idle", "list", "listed", "written"}, last : 0 .. MaxEvents, own : 0 .. MaxEvents]

\* A step of the projection leaves payloads and checkpoints alone.
LEMMA ProjectionTypes ==
    ASSUME StorageInv, Storage!ProjectionNext
    PROVE  Storage!TypeOK' /\ CheckpointsInv'
<1> USE PublicationAssumption DEF Storage!StorageAssumption
<1> Storage!TypeOK /\ CheckpointsInv /\ ProjectionInv
  BY DEF StorageInv
<1>0. ASSUME UNCHANGED Storage!checkpointVars,
             storageBudget' \in [losses : {storageBudget.losses}, crashes : 0 .. MaxCrashes],
             publisher' \in [Procs -> PublisherRow],
             projection' \in 0 .. events', returned' \in 0 .. events', events' \in 0 .. MaxEvents
      PROVE  Storage!TypeOK' /\ CheckpointsInv'
  <2>1. Storage!TypeOK'
    BY <1>0 DEF Storage!TypeOK, Storage!checkpointVars, PublisherRow
  <2>2. /\ storageBudget'.losses = storageBudget.losses
        /\ storageBudget' \in [losses : 0 .. MaxPowerLosses, crashes : 0 .. MaxCrashes]
    BY <1>0 DEF CheckpointsInv
  <2> QED  BY <1>0, <2>1, <2>2 DEF CheckpointsInv, Storage!checkpointVars
<1>1. storageBudget \in [losses : {storageBudget.losses}, crashes : 0 .. MaxCrashes]
  BY DEF CheckpointsInv
<1>2. \A p \in Procs : publisher[p] \in PublisherRow /\ publisher \in [Procs -> PublisherRow]
  BY DEF Storage!TypeOK, PublisherRow
<1>3. projection \in 0 .. events /\ returned \in 0 .. events /\ events \in 0 .. MaxEvents
  BY DEF Storage!TypeOK
<1>4. CASE Storage!StoreAppends
  BY <1>0, <1>1, <1>3, <1>4 DEF Storage!StoreAppends, Storage!TypeOK, PublisherRow
<1>5. ASSUME NEW p \in Procs, Storage!Append(p) PROVE Storage!TypeOK' /\ CheckpointsInv'
  <2>1. events' = events + 1 /\ events' \in 0 .. MaxEvents
    BY <1>3, <1>5 DEF Storage!Append
  <2>2. publisher' \in [Procs -> PublisherRow]
    BY <1>2, <1>5, <2>1 DEF Storage!Append, PublisherRow
  <2> QED  BY <1>0, <1>1, <1>3, <1>5, <2>1, <2>2 DEF Storage!Append
<1>6. ASSUME NEW p \in Procs, Storage!Reconcile(p) PROVE Storage!TypeOK' /\ CheckpointsInv'
  <2>1. publisher' \in [Procs -> PublisherRow]
    BY <1>2, <1>6 DEF Storage!Reconcile, Storage!Step, PublisherRow
  <2> QED  BY <1>0, <1>1, <1>3, <1>6, <2>1 DEF Storage!Reconcile
<1>7. ASSUME NEW p \in Procs, Storage!List(p) PROVE Storage!TypeOK' /\ CheckpointsInv'
  <2>1. publisher' \in [Procs -> PublisherRow]
    BY <1>2, <1>3, <1>7 DEF Storage!List, PublisherRow
  <2> QED  BY <1>0, <1>1, <1>3, <1>7, <2>1 DEF Storage!List
<1>8. ASSUME NEW p \in Procs, Storage!WriteProjection(p) PROVE Storage!TypeOK' /\ CheckpointsInv'
  <2>1. publisher' \in [Procs -> PublisherRow]
    BY <1>2, <1>8 DEF Storage!WriteProjection, Storage!Step, PublisherRow
  <2>2. projection' \in 0 .. events
    BY <1>2, <1>3, <1>8 DEF Storage!WriteProjection, PublisherRow, ProjectionInv
  <2> QED  BY <1>0, <1>1, <1>3, <1>8, <2>1, <2>2 DEF Storage!WriteProjection
<1>9. ASSUME NEW p \in Procs, Storage!Check(p) PROVE Storage!TypeOK' /\ CheckpointsInv'
  <2>1. Storage!Listening \in PublisherRow
    BY DEF Storage!Listening, PublisherRow
  <2>2. publisher' \in [Procs -> PublisherRow]
    BY <1>2, <1>9, <2>1 DEF Storage!Check, Storage!Step, Storage!Return, PublisherRow
  <2>3. returned' \in 0 .. events
    BY <1>2, <1>3, <1>9 DEF Storage!Check, Storage!Return, PublisherRow, ProjectionInv
  <2> QED  BY <1>0, <1>1, <1>3, <1>9, <2>2, <2>3 DEF Storage!Check
<1>10. ASSUME NEW p \in Procs, Storage!PublisherDies(p) PROVE Storage!TypeOK' /\ CheckpointsInv'
  <2>1. Storage!Listening \in PublisherRow
    BY DEF Storage!Listening, PublisherRow
  <2>2. publisher' \in [Procs -> PublisherRow]
    BY <1>2, <1>10, <2>1 DEF Storage!PublisherDies
  <2>3. storageBudget' \in [losses : {storageBudget.losses}, crashes : 0 .. MaxCrashes]
    BY <1>10 DEF Storage!PublisherDies, CheckpointsInv
  <2> QED  BY <1>0, <1>3, <1>10, <2>2, <2>3 DEF Storage!PublisherDies
<1> QED
  BY <1>4, <1>5, <1>6, <1>7, <1>8, <1>9, <1>10 DEF Storage!ProjectionNext, Storage!Publish

\* Whoever leaves the file behind goes on to write it again.
LEMMA ProjectionSteps ==
    ASSUME StorageInv, Storage!ProjectionNext
    PROVE  ProjectionInv'
<1> USE PublicationAssumption DEF Storage!StorageAssumption
<1> Storage!TypeOK /\ ProjectionInv
  BY DEF StorageInv
<1>1. \A p \in Procs : /\ publisher[p] \in PublisherRow
                            /\ publisher[p].own <= events /\ publisher[p].last <= events
  BY DEF Storage!TypeOK, PublisherRow, ProjectionInv
<1>2. /\ projection \in Nat /\ returned \in Nat /\ events \in Nat
      /\ projection <= events /\ returned <= events
  BY DEF Storage!TypeOK
<1>3. Behind /\ ~torn => \E p \in Procs : CatchesUp(p)
  BY DEF ProjectionInv
<1>4. CASE Storage!StoreAppends
  <2>1. events' = events + 1 /\ UNCHANGED <<publisher, projection, returned, torn>>
    BY <1>4 DEF Storage!StoreAppends
  <2>2. \A p \in Procs : publisher[p].own <= events' /\ publisher[p].last <= events'
    BY <1>1, <1>2, <2>1 DEF PublisherRow
  <2> QED  BY <1>3, <2>1, <2>2 DEF ProjectionInv, Behind, Overwritten, CatchesUp
<1>5. ASSUME NEW p \in Procs, publisher'[p].phase \in {"list", "listed"},
             \A q \in Procs : publisher'[q].own <= events' /\ publisher'[q].last <= events'
      PROVE  ProjectionInv'
  BY <1>5 DEF ProjectionInv, CatchesUp
<1>6. ASSUME NEW p \in Procs, Storage!Append(p) PROVE ProjectionInv'
  <2>1. events' = events + 1
    BY <1>6 DEF Storage!Append
  <2>2. /\ publisher'[p].phase = "list" /\ publisher'[p].own = events + 1
        /\ publisher'[p].last = publisher[p].last
        /\ \A q \in Procs : q # p => publisher'[q] = publisher[q]
    BY <1>1, <1>6 DEF Storage!Append, Storage!TypeOK
  <2> QED  BY <1>1, <1>2, <1>5, <2>1, <2>2 DEF PublisherRow
<1>7. ASSUME NEW p \in Procs, Storage!Reconcile(p) PROVE ProjectionInv'
  <2>1. /\ events' = events /\ publisher'[p].phase = "list"
        /\ \A q \in Procs : /\ publisher'[q].own = publisher[q].own
                                 /\ publisher'[q].last = publisher[q].last
    BY <1>1, <1>7 DEF Storage!Reconcile, Storage!Step, Storage!TypeOK
  <2> QED  BY <1>1, <1>5, <2>1
<1>8. ASSUME NEW p \in Procs, Storage!List(p) PROVE ProjectionInv'
  <2>1. /\ events' = events /\ publisher'[p].phase = "listed" /\ publisher'[p].last = events
        /\ publisher'[p].own = publisher[p].own
        /\ \A q \in Procs : q # p => publisher'[q] = publisher[q]
    BY <1>1, <1>8 DEF Storage!List, Storage!TypeOK
  <2> QED  BY <1>1, <1>2, <1>5, <2>1
<1>9. ASSUME NEW p \in Procs, Storage!WriteProjection(p) PROVE ProjectionInv'
  <2>1. /\ events' = events /\ publisher'[p].phase = "written"
        /\ projection' = publisher[p].last
        /\ \A q \in Procs : /\ publisher'[q].own = publisher[q].own
                                 /\ publisher'[q].last = publisher[q].last
    BY <1>1, <1>9 DEF Storage!WriteProjection, Storage!Step, Storage!TypeOK
  <2>2. publisher'[p].last <= projection'
    BY <1>1, <2>1 DEF PublisherRow
  <2>3. CatchesUp(p)'
    BY <2>1, <2>2 DEF CatchesUp
  <2> QED  BY <1>1, <2>1, <2>3 DEF ProjectionInv
<1>10. ASSUME NEW p \in Procs, Storage!Check(p) PROVE ProjectionInv'
  <2>1. /\ UNCHANGED <<events, projection, torn>> /\ publisher[p].phase = "written"
    BY <1>10 DEF Storage!Check
  <2>2. CASE events > publisher[p].last
    <3>1. publisher'[p].phase = "list" /\ returned' = returned
          /\ \A q \in Procs : /\ publisher'[q].own = publisher[q].own
                                   /\ publisher'[q].last = publisher[q].last
      BY <1>1, <1>10, <2>2 DEF Storage!Check, Storage!Step, Storage!TypeOK
    <3> QED  BY <1>1, <1>5, <2>1, <3>1
  <2>3. CASE ~(events > publisher[p].last)
    <3>1. /\ publisher' = [publisher EXCEPT ![p] = Storage!Listening]
          /\ returned' = IF publisher[p].own > returned THEN publisher[p].own ELSE returned
      BY <1>10, <2>3 DEF Storage!Check, Storage!Return
    <3>2. /\ publisher'[p].own = 0 /\ publisher'[p].last = 0 /\ publisher'[p].phase = "idle"
          /\ \A q \in Procs : q # p => publisher'[q] = publisher[q]
      BY <3>1 DEF Storage!TypeOK, Storage!Listening
    <3>3. \A q \in Procs : publisher'[q].own <= events' /\ publisher'[q].last <= events'
      BY <1>1, <1>2, <2>1, <3>2
    <3>4. publisher[p].last = events
      BY <1>1, <1>2, <2>3 DEF PublisherRow
    <3>5. Behind' => projection < events
      <4>1. returned' <= events /\ returned' \in Nat
        BY <1>1, <1>2, <3>1 DEF PublisherRow
      <4>2. \A q \in Procs : publisher'[q].last <= events /\ publisher'[q].last \in Nat
        BY <1>1, <1>2, <3>2 DEF PublisherRow
      <4> QED  BY <1>2, <2>1, <4>1, <4>2 DEF Behind, Overwritten
    <3>6. projection < events => Overwritten /\ ~CatchesUp(p)
      <4>1. projection < events => ~(publisher[p].last <= projection)
        BY <1>2, <3>4
      <4> QED  BY <2>1, <3>4, <4>1 DEF Overwritten, CatchesUp
    <3>7. ASSUME NEW q \in Procs, CatchesUp(q), q # p PROVE CatchesUp(q)'
      BY <2>1, <3>2, <3>7 DEF CatchesUp
    <3>8. Behind' /\ ~torn' => \E q \in Procs : CatchesUp(q)'
      BY <1>3, <2>1, <3>5, <3>6, <3>7 DEF Behind
    <3> QED  BY <3>3, <3>8 DEF ProjectionInv
  <2> QED  BY <2>2, <2>3
<1>11. ASSUME NEW p \in Procs, Storage!PublisherDies(p) PROVE ProjectionInv'
  <2>1. /\ events' = events /\ torn' = TRUE /\ publisher' = [publisher EXCEPT ![p] = Storage!Listening]
    BY <1>11 DEF Storage!PublisherDies
  <2>2. \A q \in Procs : publisher'[q].own <= events' /\ publisher'[q].last <= events'
    BY <1>1, <1>2, <2>1 DEF Storage!TypeOK, Storage!Listening
  <2> QED  BY <2>1, <2>2 DEF ProjectionInv
<1> QED
  BY <1>4, <1>6, <1>7, <1>8, <1>9, <1>10, <1>11 DEF Storage!ProjectionNext, Storage!Publish

\* The initial state satisfies the invariant.
LEMMA StorageInitially == Storage!Init => StorageInv
<1> SUFFICES ASSUME Storage!Init PROVE StorageInv
  OBVIOUS
<1> USE PublicationAssumption DEF Storage!StorageAssumption
<1>1. Storage!TypeOK
  BY DEF Storage!Init, Storage!TypeOK, Storage!Executions, Storage!NoExecution, Storage!Listening
<1>2. CheckpointsInv
  BY DEF Storage!Init, CheckpointsInv
<1>3. ProjectionInv
  BY DEF Storage!Init, ProjectionInv, Behind, Overwritten, Storage!Listening
<1> QED
  BY <1>1, <1>2, <1>3 DEF StorageInv

\* The invariant is inductive.
LEMMA StorageInvHolds == Storage!Spec => []StorageInv
<1>1. ASSUME StorageInv, [Storage!Next]_Storage!vars PROVE StorageInv'
  <2>1. CASE Storage!CheckpointNext
    <3>1. Storage!TypeOK' /\ CheckpointsInv'
      BY <1>1, <2>1, CheckpointTypes, CheckpointSteps
    <3>2. UNCHANGED Storage!projectionVars
      BY <2>1 DEF Storage!CheckpointNext, Storage!RunStep, Storage!Enter, Storage!Replace,
                  Storage!Record, Storage!RecordRefused, Storage!WriteBack, Storage!PowerFails
    <3>3. ProjectionInv'
      BY <1>1, <3>2 DEF StorageInv, ProjectionInv, Behind, Overwritten, CatchesUp,
                        Storage!projectionVars
    <3> QED  BY <3>1, <3>3 DEF StorageInv
  <2>2. CASE Storage!ProjectionNext
    BY <1>1, <2>2, ProjectionTypes, ProjectionSteps DEF StorageInv
  <2>3. CASE UNCHANGED Storage!vars
    BY <1>1, <2>3 DEF StorageInv, Storage!TypeOK, CheckpointsInv, ProjectionInv, Behind, Overwritten,
                      CatchesUp, Storage!vars, Storage!checkpointVars, Storage!projectionVars
  <2> QED  BY <1>1, <2>1, <2>2, <2>3 DEF Storage!Next
<1> QED
  BY <1>1, StorageInitially, PTL DEF Storage!Spec

\* As long as the power holds, a recorded checkpoint can be reused, however late an
\* overtaken execution writes, and whoever dies between the file and the row.
THEOREM RecordedStaysReusable == Storage!Spec => []RecordedIsReusable
<1>1. StorageInv => RecordedIsReusable
  BY DEF StorageInv, CheckpointsInv, RecordedIsReusable, Storage!RecordedIsReusable,
         Storage!TypeOK, Storage!Path
<1> QED
  BY <1>1, StorageInvHolds, PTL

\* An execution that takes the step as done has the content of a recorded checkpoint,
\* also after the power was lost.
THEOREM UsedStaysRecorded == Storage!Spec => []Storage!UsedIsRecorded
<1>1. StorageInv => Storage!UsedIsRecorded
  BY DEF StorageInv, CheckpointsInv, Storage!UsedIsRecorded
<1> QED
  BY <1>1, StorageInvHolds, PTL

\* When no call runs, the event file has every event whose append returned, unless a
\* publisher was killed since the last write.
THEOREM ProjectionCatchesUp == Storage!Spec => []ProjectionCaughtUp
<1>1. ASSUME StorageInv PROVE ProjectionCaughtUp
  <2>1. SUFFICES ASSUME \A p \in Procs : publisher[p].phase = "idle", ~torn
                 PROVE  projection >= returned
    BY DEF ProjectionCaughtUp, Storage!ProjectionCaughtUp
  <2>2. ~Behind
    BY <1>1, <2>1 DEF StorageInv, ProjectionInv, CatchesUp
  <2> QED  BY <1>1, <2>2 DEF Behind, StorageInv, Storage!TypeOK
<1> QED
  BY <1>1, StorageInvHolds, PTL

-----------------------------------------------------------------------------
(* SourceIdentity: the source ids of committed bundles.                    *)

SourceRow == SourceJobs \cup {None}

\* The open transaction is that of the Job that commits, and what is committed has a
\* source id.
SourceTypes ==
    /\ phase \in [SourceJobs -> Source!Phases]
    /\ candidate \in [SourceJobs -> SourceRow] /\ binding \in [SourceJobs -> SourceRow]
    /\ source \in [SourceJobs -> SourceRow]
    /\ cache \in SourceRow /\ writer \in SourceRow
    /\ bundles \subseteq SourceJobs /\ lost \subseteq SourceJobs
    /\ sourceBudget \in [crashes : Nat, rollbacks : 0 .. MaxRollbacks, losses : Nat]
    /\ \A j \in SourceJobs : writer = j <=> phase[j] \in {"publishing", "published"}
    /\ \A j \in SourceJobs : phase[j] \in {"assembled", "publishing", "published", "done"}
                             => source[j] # None
    /\ \A j \in bundles \cup lost : source[j] # None
    /\ \A j \in SourceJobs : binding[j] # None => source[binding[j]] # None

\* Rows and bindings name committed bundles, whose Jobs are past their publication.
Registered ==
    /\ \A j \in bundles : j \notin lost /\ phase[j] \in {"published", "done"}
    /\ \A j \in lost : phase[j] = "done"
    /\ cache \in bundles \cup lost \cup {None}
    /\ \A j \in SourceJobs : /\ candidate[j] \in bundles \cup lost \cup {None}
                             /\ binding[j] \in bundles \cup lost \cup {None}

\* No bundle waits for its row.
Stable == \A w \in SourceJobs : phase[w] # "published"

\* Then the row names the source id of all bundles, though its own bundle may be lost.
RowAgrees ==
    Stable /\ bundles # {} => cache # None /\ \A b \in bundles : source[b] = source[cache]

\* A Job that commits has the source id of the row and of all bundles.
CommitAgrees ==
    /\ \A w \in SourceJobs : phase[w] \in {"publishing", "published"} =>
           cache = None \/ source[cache] = source[w]
    /\ \A w \in SourceJobs : phase[w] = "published" =>
           w \in bundles /\ \A b \in bundles : source[b] = source[w]

\* A set of lost bundles that no Job can bring back into the row: whoever would store one
\* of them compares the row with another of them, or with an empty row.
Closed(B) ==
    /\ Stable /\ bundles # {} => cache \notin B
    /\ \A m \in SourceJobs :
           phase[m] = "truth" /\ binding[m] \in B => candidate[m] \in B \cup {None}

DeadRow(x) == \E B \in SUBSET lost : Closed(B) /\ x \in B

\* A Job that is about to change the row read one that is gone for ever, or one that
\* agrees with the binding it found.
ResolutionAgrees ==
    \A m \in SourceJobs : phase[m] = "truth" =>
        \/ candidate[m] = None \/ DeadRow(candidate[m])
        \/ binding[m] # None /\ source[candidate[m]] = source[binding[m]]

Agreed == Registered /\ RowAgrees /\ CommitAgrees /\ ResolutionAgrees

SourceInv == SourceTypes /\ (sourceBudget.rollbacks = MaxRollbacks => Agreed)

\* The bounds are numbers, and no Job is the absence of one.
LEMMA SourceBounds == None \notin SourceJobs /\ MaxRollbacks \in Nat
BY PublicationAssumption DEF Source!SourceAssumption

\* The acquire checkpoint gives a Job a source id, once.
LEMMA SourceAcquired ==
    ASSUME SourceTypes, NEW j \in SourceJobs, NEW b \in SourceRow, b = None \/ source[b] # None,
           Source!Acquire(j, b)
    PROVE  /\ source' \in [SourceJobs -> SourceRow] /\ source'[j] # None
           /\ \A k \in SourceJobs : source[k] # None => source'[k] = source[k]
           /\ phase' = [phase EXCEPT ![j] = "assembled"]
BY SourceBounds DEF SourceTypes, SourceRow, Source!Acquire, Source!Goto

\* The types are kept.
LEMMA SourceTypesStep ==
    ASSUME SourceTypes, Source!Next
    PROVE  SourceTypes'
<1> USE SourceBounds
        DEF SourceTypes, SourceRow, Source!Phases, Source!Ended, Source!Truth, Source!Goto,
            Source!registry, Source!Spend, Source!Conflicts
<1>1. ASSUME NEW j \in SourceJobs, Source!ReadCandidate(j) PROVE SourceTypes'
  BY <1>1 DEF Source!ReadCandidate
<1>2. ASSUME NEW j \in SourceJobs, Source!ReadTruth(j) PROVE SourceTypes'
  BY <1>2 DEF Source!ReadTruth
<1>3. ASSUME NEW j \in SourceJobs, Source!DiscardStale(j) PROVE SourceTypes'
  <2>1. Source!Acquire(j, None) /\ phase[j] \in {"truth", "reread"}
        /\ cache' \in SourceRow
        /\ UNCHANGED <<candidate, binding, bundles, lost, writer, sourceBudget>>
    BY <1>3 DEF Source!DiscardStale
  <2> QED
    BY <2>1, SourceAcquired
<1>4. ASSUME NEW j \in SourceJobs, Source!Confirmed(j) PROVE SourceTypes'
  <2>1. Source!Acquire(j, binding[j]) /\ phase[j] \in {"truth", "reread"}
        /\ cache' \in SourceRow
        /\ UNCHANGED <<candidate, binding, bundles, lost, writer, sourceBudget>>
    BY <1>4 DEF Source!Confirmed
  <2> QED
    BY <2>1, SourceAcquired
<1>5. ASSUME NEW j \in SourceJobs, Source!Store(j) PROVE SourceTypes'
  <2>1. CASE /\ Source!Acquire(j, binding[j]) /\ cache' = binding[j]
             /\ phase[j] = "truth" /\ binding[j] # None
             /\ UNCHANGED <<candidate, binding, bundles, lost, writer, sourceBudget>>
    BY <2>1, SourceAcquired
  <2>2. CASE Source!Goto(j, "reread") /\ UNCHANGED <<source, cache>>
    BY <1>5, <2>2 DEF Source!Store
  <2> QED
    BY <1>5, <2>1, <2>2 DEF Source!Store
<1>6. ASSUME NEW j \in SourceJobs, Source!StoreIsBusy(j) PROVE SourceTypes'
  BY <1>6 DEF Source!StoreIsBusy
<1>7. ASSUME NEW j \in SourceJobs, Source!Reread(j) PROVE SourceTypes'
  <2>1. /\ phase[j] = "reread"
        /\ Source!Acquire(j, IF cache = binding[j] THEN binding[j] ELSE None)
        /\ UNCHANGED <<cache, candidate, binding, bundles, lost, writer, sourceBudget>>
    BY <1>7 DEF Source!Reread
  <2> QED
    BY <2>1, SourceAcquired
<1>8. ASSUME NEW j \in SourceJobs, Source!BeginCommit(j) PROVE SourceTypes'
  BY <1>8 DEF Source!BeginCommit
<1>9. ASSUME NEW j \in SourceJobs, Source!PortableCommit(j) PROVE SourceTypes'
  BY <1>9 DEF Source!PortableCommit
<1>10. ASSUME NEW j \in SourceJobs, Source!PortableFails(j) PROVE SourceTypes'
  BY <1>10 DEF Source!PortableFails
<1>11. ASSUME NEW j \in SourceJobs, Source!SqlCommit(j) PROVE SourceTypes'
  BY <1>11 DEF Source!SqlCommit
<1>12. ASSUME NEW j \in SourceJobs, Source!Crash(j) PROVE SourceTypes'
  BY <1>12 DEF Source!Crash
<1>13. ASSUME NEW j \in SourceJobs, Source!Cancel(j) PROVE SourceTypes'
  BY <1>13 DEF Source!Cancel
<1>14. ASSUME NEW j \in SourceJobs, Source!Lose(j) PROVE SourceTypes'
  BY <1>14 DEF Source!Lose
<1>15. ASSUME NEW j \in SourceJobs, Source!Rollback(j) PROVE SourceTypes'
  BY <1>15 DEF Source!Rollback
<1> QED
  BY <1>1, <1>2, <1>3, <1>4, <1>5, <1>6, <1>7, <1>8, <1>9, <1>10, <1>11, <1>12, <1>13, <1>14,
     <1>15
     DEF Source!Next, Source!Execute

\* A source id does not change.
LEMMA SourcesKept ==
    ASSUME SourceTypes, Source!Next
    PROVE  \A k \in SourceJobs : source[k] # None => source'[k] = source[k]
BY SourceBounds
   DEF SourceTypes, Source!Next, Source!Execute, Source!Acquire, Source!ReadCandidate,
       Source!ReadTruth, Source!DiscardStale, Source!Confirmed, Source!Store, Source!StoreIsBusy,
       Source!Reread, Source!BeginCommit, Source!PortableCommit, Source!PortableFails,
       Source!SqlCommit, Source!Rollback, Source!Crash, Source!Cancel, Source!Lose

\* No row that is dead is in the table while a bundle is committed.
LEMMA DeadRowIsNotThere ==
    ASSUME NEW x, DeadRow(x), Stable, bundles # {}
    PROVE  cache # x
BY DEF DeadRow, Closed

\* Without a bundle every lost one is dead.
LEMMA LostIsDead ==
    ASSUME SourceTypes, Registered, bundles = {}, NEW x \in lost
    PROVE  DeadRow(x)
<1>1. Closed(lost)
  BY DEF Closed, Registered
<1> QED
  BY <1>1 DEF DeadRow

\* All bundles have the source id of the row, or of the Job that waits for its row.
LEMMA BundlesAgree ==
    ASSUME SourceTypes, Agreed
    PROVE  \A b, c \in bundles : source[b] = source[c]
<1>1. CASE Stable
  BY <1>1 DEF Agreed, RowAgrees
<1>2. CASE ~Stable
  BY <1>2 DEF Agreed, CommitAgrees, Stable
<1> QED
  BY <1>1, <1>2

\* A lost bundle with another source id than the committed ones is dead.
LEMMA StrangerIsDead ==
    ASSUME SourceTypes, Agreed, NEW b \in bundles, NEW x \in lost, source[x] # source[b]
    PROVE  DeadRow(x)
<1> DEFINE B == {y \in lost : source[y] # source[b] \/ DeadRow(y)}
<1>1. ASSUME Stable PROVE cache \notin B
  BY <1>1, DeadRowIsNotThere DEF Agreed, RowAgrees
<1>2. ASSUME NEW m \in SourceJobs, phase[m] = "truth", binding[m] \in B
      PROVE  candidate[m] \in B \cup {None}
  <2> SUFFICES ASSUME candidate[m] # None PROVE candidate[m] \in B
    OBVIOUS
  <2>1. CASE DeadRow(candidate[m])
    <3>1. candidate[m] \in lost
      BY <2>1 DEF DeadRow
    <3> QED
      BY <2>1, <3>1
  <2>2. CASE ~DeadRow(candidate[m])
    <3>1. source[candidate[m]] = source[binding[m]]
      BY <1>2, <2>2 DEF Agreed, ResolutionAgrees
    <3>2. ~DeadRow(binding[m])
      <4>1. ASSUME NEW C \in SUBSET lost, Closed(C), binding[m] \in C PROVE FALSE
        <5>1. candidate[m] \in C
          BY <1>2, <4>1 DEF Closed
        <5> QED
          BY <2>2, <4>1, <5>1 DEF DeadRow
      <4> QED
        BY <4>1 DEF DeadRow
    <3>3. source[candidate[m]] # source[b]
      BY <1>2, <3>1, <3>2
    <3>4. candidate[m] \in bundles \cup lost
      BY DEF Agreed, Registered
    <3> QED
      BY <3>3, <3>4, BundlesAgree
  <2> QED
    BY <2>1, <2>2
<1>3. B \in SUBSET lost /\ Closed(B)
  BY <1>1, <1>2 DEF Closed
<1> HIDE DEF B
<1>4. x \in B
  BY DEF B
<1> QED
  BY <1>3, <1>4 DEF DeadRow

\* A closed set stays closed.
LEMMA ClosedKept ==
    ASSUME SourceTypes, Agreed, Source!Next, sourceBudget'.rollbacks = MaxRollbacks,
           NEW B \in SUBSET lost, Closed(B)
    PROVE  B \in SUBSET lost' /\ Closed(B)'
<1> USE SourceBounds
        DEF SourceTypes, SourceRow, Agreed, Registered, RowAgrees, Closed, Stable, Source!Phases,
            Source!Ended, Source!Truth, Source!Goto, Source!Acquire, Source!registry,
            Source!Spend, Source!Conflicts
<1>1. ASSUME NEW j \in SourceJobs, Source!ReadCandidate(j) PROVE B \in SUBSET lost' /\ Closed(B)'
  BY <1>1 DEF Source!ReadCandidate
<1>2. ASSUME NEW j \in SourceJobs, Source!ReadTruth(j) PROVE B \in SUBSET lost' /\ Closed(B)'
  BY <1>2 DEF Source!ReadTruth
<1>3. ASSUME NEW j \in SourceJobs, Source!DiscardStale(j) PROVE B \in SUBSET lost' /\ Closed(B)'
  BY <1>3 DEF Source!DiscardStale
<1>4. ASSUME NEW j \in SourceJobs, Source!Confirmed(j) PROVE B \in SUBSET lost' /\ Closed(B)'
  BY <1>4 DEF Source!Confirmed
<1>5. ASSUME NEW j \in SourceJobs, Source!Store(j) PROVE B \in SUBSET lost' /\ Closed(B)'
  BY <1>5 DEF Source!Store
<1>6. ASSUME NEW j \in SourceJobs, Source!StoreIsBusy(j) PROVE B \in SUBSET lost' /\ Closed(B)'
  BY <1>6 DEF Source!StoreIsBusy
<1>7. ASSUME NEW j \in SourceJobs, Source!Reread(j) PROVE B \in SUBSET lost' /\ Closed(B)'
  BY <1>7 DEF Source!Reread
<1>8. ASSUME NEW j \in SourceJobs, Source!BeginCommit(j) PROVE B \in SUBSET lost' /\ Closed(B)'
  BY <1>8 DEF Source!BeginCommit
<1>9. ASSUME NEW j \in SourceJobs, Source!PortableCommit(j) PROVE B \in SUBSET lost' /\ Closed(B)'
  BY <1>9 DEF Source!PortableCommit
<1>10. ASSUME NEW j \in SourceJobs, Source!PortableFails(j) PROVE B \in SUBSET lost' /\ Closed(B)'
  BY <1>10 DEF Source!PortableFails
<1>11. ASSUME NEW j \in SourceJobs, Source!SqlCommit(j) PROVE B \in SUBSET lost' /\ Closed(B)'
  BY <1>11 DEF Source!SqlCommit
<1>12. ASSUME NEW j \in SourceJobs, Source!Crash(j) PROVE B \in SUBSET lost' /\ Closed(B)'
  BY <1>12 DEF Source!Crash
<1>13. ASSUME NEW j \in SourceJobs, Source!Cancel(j) PROVE B \in SUBSET lost' /\ Closed(B)'
  BY <1>13 DEF Source!Cancel
<1>14. ASSUME NEW j \in SourceJobs, Source!Lose(j) PROVE B \in SUBSET lost' /\ Closed(B)'
  BY <1>14 DEF Source!Lose
<1>15. ASSUME NEW j \in SourceJobs, Source!Rollback(j) PROVE B \in SUBSET lost' /\ Closed(B)'
  BY <1>15 DEF Source!Rollback
<1> QED
  BY <1>1, <1>2, <1>3, <1>4, <1>5, <1>6, <1>7, <1>8, <1>9, <1>10, <1>11, <1>12, <1>13, <1>14,
     <1>15
     DEF Source!Next, Source!Execute

\* What is dead stays dead.
LEMMA DeadStaysDead ==
    ASSUME SourceTypes, Agreed, Source!Next, sourceBudget'.rollbacks = MaxRollbacks,
           NEW x, DeadRow(x)
    PROVE  DeadRow(x)'
<1>1. PICK B \in SUBSET lost : Closed(B) /\ x \in B
  BY DEF DeadRow
<1>2. B \in SUBSET lost' /\ Closed(B)'
  BY <1>1, ClosedKept
<1> QED
  BY <1>1, <1>2 DEF DeadRow

\* Rows and bindings go on to name committed bundles.
LEMMA RegisteredStep ==
    ASSUME SourceTypes, Agreed, Source!Next, sourceBudget'.rollbacks = MaxRollbacks
    PROVE  Registered'
<1> USE SourceBounds
        DEF SourceTypes, SourceRow, Agreed, Registered, CommitAgrees, Source!Phases, Source!Ended,
            Source!Truth, Source!Acquire, Source!Goto, Source!registry,
            Source!Spend, Source!Conflicts
<1>1. ASSUME NEW j \in SourceJobs, Source!ReadCandidate(j) PROVE Registered'
  BY <1>1 DEF Source!ReadCandidate
<1>2. ASSUME NEW j \in SourceJobs, Source!ReadTruth(j) PROVE Registered'
  BY <1>2 DEF Source!ReadTruth
<1>3. ASSUME NEW j \in SourceJobs, Source!DiscardStale(j) PROVE Registered'
  BY <1>3 DEF Source!DiscardStale
<1>4. ASSUME NEW j \in SourceJobs, Source!Confirmed(j) PROVE Registered'
  BY <1>4 DEF Source!Confirmed
<1>5. ASSUME NEW j \in SourceJobs, Source!Store(j) PROVE Registered'
  BY <1>5 DEF Source!Store
<1>6. ASSUME NEW j \in SourceJobs, Source!StoreIsBusy(j) PROVE Registered'
  BY <1>6 DEF Source!StoreIsBusy
<1>7. ASSUME NEW j \in SourceJobs, Source!Reread(j) PROVE Registered'
  BY <1>7 DEF Source!Reread
<1>8. ASSUME NEW j \in SourceJobs, Source!BeginCommit(j) PROVE Registered'
  BY <1>8 DEF Source!BeginCommit
<1>9. ASSUME NEW j \in SourceJobs, Source!PortableCommit(j) PROVE Registered'
  BY <1>9 DEF Source!PortableCommit
<1>10. ASSUME NEW j \in SourceJobs, Source!PortableFails(j) PROVE Registered'
  BY <1>10 DEF Source!PortableFails
<1>11. ASSUME NEW j \in SourceJobs, Source!SqlCommit(j) PROVE Registered'
  BY <1>11 DEF Source!SqlCommit
<1>12. ASSUME NEW j \in SourceJobs, Source!Crash(j) PROVE Registered'
  BY <1>12 DEF Source!Crash
<1>13. ASSUME NEW j \in SourceJobs, Source!Cancel(j) PROVE Registered'
  BY <1>13 DEF Source!Cancel
<1>14. ASSUME NEW j \in SourceJobs, Source!Lose(j) PROVE Registered'
  BY <1>14 DEF Source!Lose
<1>15. ASSUME NEW j \in SourceJobs, Source!Rollback(j) PROVE Registered'
  BY <1>15 DEF Source!Rollback
<1> QED
  BY <1>1, <1>2, <1>3, <1>4, <1>5, <1>6, <1>7, <1>8, <1>9, <1>10, <1>11, <1>12, <1>13, <1>14,
     <1>15
     DEF Source!Next, Source!Execute

\* The row keeps the source id of the bundles.
LEMMA RowAgreesStep ==
    ASSUME SourceTypes, Agreed, Source!Next, sourceBudget'.rollbacks = MaxRollbacks
    PROVE  RowAgrees'
<1> USE SourceBounds
        DEF SourceTypes, SourceRow, Agreed, Registered, RowAgrees, CommitAgrees, ResolutionAgrees,
            Stable, Source!Phases, Source!Ended, Source!Acquire, Source!Goto,
            Source!registry, Source!Spend, Source!Conflicts
<1>1. ASSUME NEW j \in SourceJobs, Source!ReadCandidate(j) PROVE RowAgrees'
  BY <1>1 DEF Source!ReadCandidate
<1>2. ASSUME NEW j \in SourceJobs, Source!ReadTruth(j) PROVE RowAgrees'
  BY <1>2 DEF Source!ReadTruth
<1>3. ASSUME NEW j \in SourceJobs, Source!DiscardStale(j) PROVE RowAgrees'
  <2>1. writer = None \/ cache' = cache
    BY <1>3 DEF Source!DiscardStale
  <2>2. ASSUME bundles # {}, Stable PROVE cache' = cache
    <3>1. candidate[j] = None \/ DeadRow(candidate[j])
      BY <1>3 DEF Source!DiscardStale
    <3>2. candidate[j] # None => cache # candidate[j]
      BY <2>2, <3>1, DeadRowIsNotThere
    <3> QED
      BY <1>3, <3>2 DEF Source!DiscardStale
  <2>3. UNCHANGED bundles /\ phase'[j] = "assembled"
        /\ \A k \in SourceJobs : k # j => phase'[k] = phase[k]
    BY <1>3 DEF Source!DiscardStale
  <2> QED
    BY <1>3, <2>2, <2>3, SourcesKept DEF Source!DiscardStale
<1>4. ASSUME NEW j \in SourceJobs, Source!Confirmed(j) PROVE RowAgrees'
  BY <1>4 DEF Source!Confirmed
<1>5. ASSUME NEW j \in SourceJobs, Source!Store(j) PROVE RowAgrees'
  <2>1. UNCHANGED bundles /\ phase'[j] \in {"assembled", "reread"} /\ phase[j] = "truth"
        /\ \A k \in SourceJobs : k # j => phase'[k] = phase[k]
    BY <1>5 DEF Source!Store
  <2>2. ASSUME bundles # {}, Stable
        PROVE  cache' # None /\ source[cache'] = source[cache] /\ cache # None
    <3>1. cache # None
      BY <2>2
    <3>2. CASE cache' = cache
      BY <3>1, <3>2
    <3>3. CASE cache = candidate[j] /\ cache' = binding[j]
      <4>1. ~DeadRow(candidate[j])
        BY <2>2, <3>3, DeadRowIsNotThere
      <4> QED
        BY <2>1, <3>1, <3>3, <4>1
    <3> QED
      BY <1>5, <3>1, <3>2, <3>3 DEF Source!Store
  <2>3. \A k \in bundles \cup lost : source'[k] = source[k]
    BY SourcesKept
  <2>4. Stable' => Stable
    BY <2>1
  <2>5. cache' \in bundles \cup lost \cup {None}
    BY <1>5 DEF Source!Store
  <2> HIDE DEF Stable
  <2> QED
    BY <2>1, <2>2, <2>3, <2>4, <2>5
<1>6. ASSUME NEW j \in SourceJobs, Source!StoreIsBusy(j) PROVE RowAgrees'
  BY <1>6 DEF Source!StoreIsBusy
<1>7. ASSUME NEW j \in SourceJobs, Source!Reread(j) PROVE RowAgrees'
  BY <1>7 DEF Source!Reread
<1>8. ASSUME NEW j \in SourceJobs, Source!BeginCommit(j) PROVE RowAgrees'
  BY <1>8 DEF Source!BeginCommit
<1>9. ASSUME NEW j \in SourceJobs, Source!PortableCommit(j) PROVE RowAgrees'
  BY <1>9 DEF Source!PortableCommit
<1>10. ASSUME NEW j \in SourceJobs, Source!PortableFails(j) PROVE RowAgrees'
  BY <1>10 DEF Source!PortableFails
<1>11. ASSUME NEW j \in SourceJobs, Source!SqlCommit(j) PROVE RowAgrees'
  BY <1>11 DEF Source!SqlCommit
<1>12. ASSUME NEW j \in SourceJobs, Source!Crash(j) PROVE RowAgrees'
  BY <1>12 DEF Source!Crash
<1>13. ASSUME NEW j \in SourceJobs, Source!Cancel(j) PROVE RowAgrees'
  BY <1>13 DEF Source!Cancel
<1>14. ASSUME NEW j \in SourceJobs, Source!Lose(j) PROVE RowAgrees'
  BY <1>14 DEF Source!Lose
<1>15. ASSUME NEW j \in SourceJobs, Source!Rollback(j) PROVE RowAgrees'
  BY <1>15 DEF Source!Rollback
<1> QED
  BY <1>1, <1>2, <1>3, <1>4, <1>5, <1>6, <1>7, <1>8, <1>9, <1>10, <1>11, <1>12, <1>13, <1>14,
     <1>15
     DEF Source!Next, Source!Execute

\* The open transaction keeps the source id of the row and of the bundles.
LEMMA CommitAgreesStep ==
    ASSUME SourceTypes, Agreed, Source!Next, sourceBudget'.rollbacks = MaxRollbacks
    PROVE  CommitAgrees'
<1> USE SourceBounds
        DEF SourceTypes, SourceRow, Agreed, Registered, RowAgrees, CommitAgrees, Stable,
            Source!Phases, Source!Ended, Source!Acquire, Source!Goto,
            Source!registry, Source!Spend, Source!Conflicts
<1>1. ASSUME NEW j \in SourceJobs, Source!ReadCandidate(j) PROVE CommitAgrees'
  BY <1>1 DEF Source!ReadCandidate
<1>2. ASSUME NEW j \in SourceJobs, Source!ReadTruth(j) PROVE CommitAgrees'
  BY <1>2 DEF Source!ReadTruth
<1>3. ASSUME NEW j \in SourceJobs, Source!DiscardStale(j) PROVE CommitAgrees'
  BY <1>3 DEF Source!DiscardStale
<1>4. ASSUME NEW j \in SourceJobs, Source!Confirmed(j) PROVE CommitAgrees'
  BY <1>4 DEF Source!Confirmed
<1>5. ASSUME NEW j \in SourceJobs, Source!Store(j) PROVE CommitAgrees'
  BY <1>5 DEF Source!Store
<1>6. ASSUME NEW j \in SourceJobs, Source!StoreIsBusy(j) PROVE CommitAgrees'
  BY <1>6 DEF Source!StoreIsBusy
<1>7. ASSUME NEW j \in SourceJobs, Source!Reread(j) PROVE CommitAgrees'
  BY <1>7 DEF Source!Reread
<1>8. ASSUME NEW j \in SourceJobs, Source!BeginCommit(j) PROVE CommitAgrees'
  BY <1>8 DEF Source!BeginCommit
<1>9. ASSUME NEW j \in SourceJobs, Source!PortableCommit(j) PROVE CommitAgrees'
  BY <1>9 DEF Source!PortableCommit
<1>10. ASSUME NEW j \in SourceJobs, Source!PortableFails(j) PROVE CommitAgrees'
  BY <1>10 DEF Source!PortableFails
<1>11. ASSUME NEW j \in SourceJobs, Source!SqlCommit(j) PROVE CommitAgrees'
  BY <1>11 DEF Source!SqlCommit
<1>12. ASSUME NEW j \in SourceJobs, Source!Crash(j) PROVE CommitAgrees'
  BY <1>12 DEF Source!Crash
<1>13. ASSUME NEW j \in SourceJobs, Source!Cancel(j) PROVE CommitAgrees'
  BY <1>13 DEF Source!Cancel
<1>14. ASSUME NEW j \in SourceJobs, Source!Lose(j) PROVE CommitAgrees'
  BY <1>14 DEF Source!Lose
<1>15. ASSUME NEW j \in SourceJobs, Source!Rollback(j) PROVE CommitAgrees'
  BY <1>15 DEF Source!Rollback
<1> QED
  BY <1>1, <1>2, <1>3, <1>4, <1>5, <1>6, <1>7, <1>8, <1>9, <1>10, <1>11, <1>12, <1>13, <1>14,
     <1>15
     DEF Source!Next, Source!Execute

\* What a Job compares with stays dead, or agrees.
LEMMA ResolutionAgreesStep ==
    ASSUME SourceTypes, Agreed, Source!Next, sourceBudget'.rollbacks = MaxRollbacks
    PROVE  ResolutionAgrees'
<1> SUFFICES ASSUME NEW m \in SourceJobs, (phase[m] = "truth")'
             PROVE  (\/ candidate[m] = None \/ DeadRow(candidate[m])
                     \/ binding[m] # None /\ source[candidate[m]] = source[binding[m]])'
  BY DEF ResolutionAgrees
<1>1. \/ Source!ReadTruth(m)
      \/ phase[m] = "truth" /\ candidate'[m] = candidate[m] /\ binding'[m] = binding[m]
  BY DEF SourceTypes, Source!Next, Source!Execute, Source!Acquire, Source!Goto, Source!registry,
         Source!ReadCandidate, Source!ReadTruth, Source!DiscardStale, Source!Confirmed,
         Source!Store, Source!StoreIsBusy, Source!Reread, Source!BeginCommit,
         Source!PortableCommit, Source!PortableFails, Source!SqlCommit, Source!Rollback,
         Source!Crash, Source!Cancel, Source!Lose
<1>2. candidate'[m] = candidate[m]
  BY <1>1 DEF Source!ReadTruth
<1>3. ASSUME DeadRow(candidate[m]) PROVE DeadRow(candidate[m])'
  <2>1. PICK x : x = candidate[m]
    OBVIOUS
  <2>2. DeadRow(x)
    BY <1>3, <2>1 DEF DeadRow
  <2>3. DeadRow(x)'
    BY <2>2, DeadStaysDead
  <2> QED
    BY <1>2, <2>1, <2>3 DEF DeadRow
<1>4. /\ candidate[m] \in bundles \cup lost \cup {None}
      /\ binding[m] \in bundles \cup lost \cup {None}
  BY DEF Agreed, Registered
<1>5. \A k \in bundles \cup lost : source'[k] = source[k]
  BY SourcesKept DEF SourceTypes
<1>6. CASE phase[m] = "truth" /\ binding'[m] = binding[m]
  BY <1>2, <1>3, <1>4, <1>5, <1>6 DEF Agreed, ResolutionAgrees
<1>7. CASE Source!ReadTruth(m)
  <2> SUFFICES ASSUME candidate[m] # None, ~DeadRow(candidate[m])
               PROVE  binding'[m] # None /\ source[candidate[m]] = source[binding'[m]]
    <3>1. UNCHANGED source
      BY <1>7 DEF Source!ReadTruth
    <3> QED
      BY <1>2, <1>3, <3>1
  <2>1. bundles # {}
    BY <1>4, LostIsDead DEF Agreed
  <2>2. Source!Truth = bundles
    BY BundlesAgree DEF Source!Truth
  <2>3. binding'[m] \in bundles
    BY <1>7, <2>1, <2>2 DEF Source!ReadTruth, SourceTypes
  <2>4. source[candidate[m]] = source[binding'[m]]
    <3>1. PICK b \in bundles : b = binding'[m]
      BY <2>3
    <3> QED
      BY <1>4, <3>1, StrangerIsDead, BundlesAgree
  <2> QED
    BY <2>3, <2>4, SourceBounds DEF SourceTypes
<1> QED
  BY <1>1, <1>6, <1>7

\* The invariant of the registry of source identities.
THEOREM SourceInvariant == Source!Spec => []SourceInv
<1>1. Source!Init => SourceInv
  BY SourceBounds, PublicationAssumption
     DEF Source!Init, SourceInv, SourceTypes, SourceRow, Agreed, Registered, RowAgrees,
         CommitAgrees, ResolutionAgrees, Source!Phases, Source!SourceAssumption
<1>2. ASSUME SourceInv, Source!Next PROVE SourceInv'
  <2>1. SourceTypes /\ SourceTypes'
    BY <1>2, SourceTypesStep DEF SourceInv
  <2>2. ASSUME sourceBudget'.rollbacks = MaxRollbacks PROVE Agreed'
    <3>1. sourceBudget.rollbacks = MaxRollbacks
      BY <1>2, <2>1, <2>2, SourceBounds
         DEF SourceTypes, Source!Next, Source!Execute, Source!Spend, Source!ReadCandidate,
             Source!ReadTruth, Source!DiscardStale, Source!Confirmed, Source!Store,
             Source!StoreIsBusy, Source!Reread, Source!BeginCommit, Source!PortableCommit,
             Source!PortableFails, Source!SqlCommit, Source!Rollback, Source!Crash,
             Source!Cancel, Source!Lose
    <3>2. Agreed
      BY <1>2, <3>1 DEF SourceInv
    <3> QED
      BY <1>2, <2>1, <2>2, <3>2, RegisteredStep, RowAgreesStep, CommitAgreesStep,
         ResolutionAgreesStep
         DEF Agreed
  <2> QED
    BY <2>1, <2>2 DEF SourceInv
<1>3. SourceInv /\ UNCHANGED Source!vars => SourceInv'
  BY DEF SourceInv, SourceTypes, Agreed, Registered, RowAgrees, CommitAgrees, ResolutionAgrees,
         Stable, DeadRow, Closed, Source!vars, Source!registry
<1> QED
  BY <1>1, <1>2, <1>3, PTL DEF Source!Spec

\* As long as no transaction is lost after its bundle was published, the committed bundles
\* of one source carry one source id, whichever Jobs resolve, store and commit, whatever
\* executions die and whatever bundles are lost.
THEOREM OneSourceForEachIdentity == Source!Spec => []OneSourcePerIdentity
<1>1. SourceInv => OneSourcePerIdentity
  BY BundlesAgree DEF SourceInv, OneSourcePerIdentity, Source!OneSourcePerIdentity
<1> QED
  BY <1>1, SourceInvariant, PTL
=============================================================================
