---------------------------- MODULE MCProduction ----------------------------
(***************************************************************************)
(* Instances of CodexPool, TranscribeWorker, FaithfulEdition and           *)
(* KnowledgeCompiler for TLC: what a step calls to produce content.  A     *)
(* behaviour moves the component `part' names; the others stay in their    *)
(* initial state.                                                          *)
(***************************************************************************)
EXTENDS Naturals, Sequences, TLC

CONSTANTS
    Callers, Nobody,
    Clients, Home, PoolSize, Capacity, MaxPoolCalls, MaxPoolDeaths,         \* of CodexPool
    Identities, MaxLines, MaxExits, MaxTimers,                              \* of TranscribeWorker
    Requests, MaxJobs,                                                      \* of FaithfulEdition
    Transcripts, MaxLength, Budget, Overhead, MapBase, ConsolidateBase, ComposeBase,
    Estimate, MapOut, MaxItems, MaxCovered, MaxOmitted, Workers, Observations \* of KnowledgeCompiler

VARIABLES
    part,
    call, client, server, slots, taken, over, begun, deaths,
    lock, transcribing, worker, live, asked, told, armed, late, aged, lines, exits,
    request, job, phase, todo, work, plan, calls, ground, text, early, review, excluded, summary, cache,
    transcript, illustrated, stage, topology, expected, chunks, reads, maps, items, lineage, rest, next,
    nextLineage, batches, waves, dropped, coverage, flaws, repairs, paid, repaired, sequential,
    error

-----------------------------------------------------------------------------
(* The threads of one client; a request of two sections that must pass, one  *)
(* whose sections may fall back, and one that two Jobs ask for.            *)
SameClient == [c \in Callers |-> "client"]

Ask(cut, corrected, fallback, contextual) ==
    [sections |-> cut, batches |-> corrected, concurrency |-> 2, repairs |-> 1,
     partial |-> fallback, contextual |-> contextual]
Strict == Ask({1, 2}, {}, FALSE, FALSE)
Fallback == Ask({1, 2}, {}, TRUE, TRUE)
Repeated == Ask({1}, {11}, TRUE, TRUE)
ThreeRequests == {Strict, Fallback, Repeated}

Pool == INSTANCE CodexPool WITH MaxCalls <- MaxPoolCalls, MaxDeaths <- MaxPoolDeaths

Transcriber == INSTANCE TranscribeWorker WITH
    MaxCalls <- MaxLines, MaxDeaths <- MaxExits,
    call <- transcribing, begun <- lines, deaths <- exits

Edition == INSTANCE FaithfulEdition

Article == INSTANCE KnowledgeCompiler WITH phase <- stage, text <- flaws, calls <- paid

ASSUME ProductionAssumption ==
    /\ Article!CompilerAssumption
    /\ Pool!PoolAssumption /\ Transcriber!WorkerAssumption
    /\ Edition!EditionAssumption

-----------------------------------------------------------------------------
(* Transcripts the plan compiles directly, by a map, by one and by more    *)
(* waves of consolidation, and two that it refuses; with frames, those it  *)
(* compiles directly, one of which its analysis makes too large, and one   *)
(* it refuses.                                                             *)
Spoken == {<<1>>, <<4>>, <<5>>, <<6>>, <<1, 1, 1>>, <<1, 1, 1, 1, 1>>}
Filmed == {<<1>>, <<1, 1>>, <<3>>, <<1, 1, 1>>}
AllTranscripts == Spoken \cup Filmed

poolVars == <<call, client, server, slots, taken, over, begun, deaths>>
workerVars ==
    <<lock, transcribing, worker, live, asked, told, armed, late, aged, lines, exits>>
editionVars ==
    <<request, job, phase, todo, work, plan, calls, ground, text, early, review, excluded, summary,
      cache>>
compilerVars ==
    <<transcript, illustrated, stage, topology, expected, chunks, reads, maps, items, lineage, rest, next,
      nextLineage, batches, waves, dropped, coverage, flaws, repairs, paid, repaired, sequential,
      error>>

Init ==
    /\ part \in {"pool", "transcriber", "edition", "article", "frames"}
    /\ Pool!Init /\ Transcriber!Init /\ Edition!Init /\ Article!Init
    /\ part = "edition" \/ request = Strict
    /\ illustrated = (part = "frames")
    /\ transcript \in CASE part = "article" -> Spoken [] part = "frames" -> Filmed [] OTHER -> {<<1>>}

PoolMoves ==
    part = "pool" /\ Pool!Next /\ UNCHANGED <<part, workerVars, editionVars, compilerVars>>
TranscriberMoves ==
    part = "transcriber" /\ Transcriber!Next
    /\ UNCHANGED <<part, poolVars, editionVars, compilerVars>>
EditionMoves ==
    part = "edition" /\ Edition!Next /\ (request = Repeated \/ job' = 1)
    /\ UNCHANGED <<part, poolVars, workerVars, compilerVars>>
ArticleMoves ==
    part \in {"article", "frames"} /\ Article!Next
    /\ UNCHANGED <<part, poolVars, workerVars, editionVars>>

Next ==
    \/ PoolMoves \/ TranscriberMoves \/ EditionMoves \/ ArticleMoves

Spec == Init /\ [][Next]_<<part, poolVars, workerVars, editionVars, compilerVars>>

\* Threads are compared for equality only.
Symmetry == Permutations(Callers)

-----------------------------------------------------------------------------
(* Properties, of the component each is about.                             *)

\* An answer of the model is made of the text of the call's own thread, whatever a lent
\* connection still carries (CodexPool); a call gets the transcript of its own request from a
\* worker of its model, whatever was cancelled or timed out before it (TranscribeWorker).
AnswersAreOwn == Pool!AnswerIsOwn /\ Transcriber!AnswerIsOurs

\* A published section is source wording, or its very text passed its review, and its
\* summary passed the review of that text (FaithfulEdition).
PublishedTextReviewed ==
    Edition!PublishedTextReviewed /\ Edition!PublishedSummariesReviewed

\* A reviewed group that is kept for later Jobs passed its own review, body and summary
\* (FaithfulEdition).
KeptGroupsApproved == Edition!KeptGroupsApproved

\* Every knowledge item of every chunk is covered by the article or omitted with a reason,
\* exactly once, through all waves of merging (KnowledgeCompiler).
RootsAccounted == Article!RootsAccounted

\* No request of a compilation without frames is found too large once a call was paid
\* (KnowledgeCompiler).
CapacityKnownFirst == Article!CapacityKnownFirst

=============================================================================
