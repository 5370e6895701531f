------------------------------- MODULE MCNotes -------------------------------
(***************************************************************************)
(* NoteSummary, RequestChunker and NoteTask, each with its constants as    *)
(* parameters, for TLC and for the proofs.  A behaviour moves the          *)
(* component `part' names, within the inputs and the sizes of that part;   *)
(* the others stay in their initial state.                                 *)
(***************************************************************************)
EXTENDS Naturals, Sequences

CONSTANTS
    SummaryRuns, Sources, NumChunks, AnswerSizes, MergeBudget, Attempts, Crashes,    \* of NoteSummary
    MaxSegments, SegmentSizes, MaxImages, ImageSizes, Prompts, Overhead, MaxRequest, \* of RequestChunker
    Submissions, Polls, MaxWorkers, MaxRestarts, MaxVersions, Extension,             \* of NoteTask
    None,
    long, short, longest  \* what the parts of NoteSummary are about

VARIABLES
    part,
    run, checkpoint, answered, crashes,
    lengths, frames, prompt, segments, batch, chunks, placed, texts, withImages, pc,
    task, status, tmp, result, shown, versions, poll, ext, restarts

-----------------------------------------------------------------------------
Summary == INSTANCE NoteSummary WITH
    Runs <- SummaryRuns, Sizes <- AnswerSizes, Budget <- MergeBudget,
    MaxAttempts <- Attempts, MaxCrashes <- Crashes

Chunker == INSTANCE RequestChunker WITH Budget <- MaxRequest

Task == INSTANCE NoteTask WITH run <- task, Runs <- Submissions, NoNote <- None

ASSUME NotesAssumption ==
    /\ Summary!NumChunksAssumption /\ Summary!SizesAssumption
    /\ Chunker!SizesAreNaturals
    /\ Task!WorkersAssumption

-----------------------------------------------------------------------------
(* What the parts are about.                                               *)

\* A source of three chunks and one of a single chunk; a source of four.
ThreeSources == {long, short, longest}
ChunksOfEach == [s \in ThreeSources |-> CASE s = long -> 3 [] s = short -> 1 [] s = longest -> 4]

\* Answers of a size, and a budget, of which a merge request holds two and which it does not
\* hold at all; of which a request holds two or three.
AskedOf(r, sources) == run'[r].source \in sources \cup {None}
Sized(r, sizes) ==
    \A seq \in {run'[r].partials, run'[r].merged} : \A i \in DOMAIN seq : seq[i].size \in sizes
TwoMixed == part = "mixed" /\ \A r \in SummaryRuns : AskedOf(r, {long, short}) /\ Sized(r, {3, 7})
OneResumed ==
    part = "resume"
    /\ \A r \in SummaryRuns : AskedOf(r, {longest}) /\ Sized(r, {2, 4}) /\ run'[r].attempt = 1

\* Segments the budget splits, with a prompt that leaves room and one that leaves almost none;
\* frames of which only some fit, between few segments.
Elements(seq) == {seq[i] : i \in DOMAIN seq}
SplitSegments ==
    /\ prompt \in {2, 5} /\ Len(frames) <= 1 /\ Elements(frames) \subseteq {3}
    /\ Elements(lengths) \subseteq {0, 1, 2, 5, 8}
PlacedFrames ==
    prompt = 1 /\ Len(lengths) <= 2 /\ Elements(lengths) \subseteq {0, 2, 6}

-----------------------------------------------------------------------------
summary == <<run, checkpoint, answered, crashes>>
chunker == <<lengths, frames, prompt, segments, batch, chunks, placed, texts, withImages, pc>>
notes == <<task, status, tmp, result, shown, versions, poll, ext, restarts>>

Init ==
    /\ part \in {"mixed", "resume", "requests", "task", "overlap"}
    /\ Summary!Init /\ Chunker!Init /\ Task!Init
    /\ IF part = "requests" THEN SplitSegments \/ PlacedFrames
       ELSE lengths = <<>> /\ frames = <<>> /\ prompt = 1

SummaryMoves ==
    /\ part \in {"mixed", "resume"} /\ Summary!Next /\ (TwoMixed \/ OneResumed)
    /\ UNCHANGED <<part, chunker, notes>>
ChunkerMoves == part = "requests" /\ Chunker!Next /\ UNCHANGED <<part, summary, notes>>

\* A request of the web client is on its way after the step.
Moving(k) == poll'[k].at # "idle"
\* The notes are those of a submission and its retry; or of one submission that two requests
\* of the web client and the extension watch.
TaskMoves ==
    part = "task" /\ Task!Next /\ UNCHANGED <<part, summary, chunker>> /\ (ext.on => ext' = ext)
    /\ \A k, l \in Polls : Moving(k) /\ Moving(l) => k = l
OverlapMoves ==
    part = "overlap" /\ Task!Next /\ UNCHANGED <<part, summary, chunker>>
    /\ \A r, q \in Submissions : task'[r].at # "unsent" /\ task'[q].at # "unsent" => r = q

Next == SummaryMoves \/ ChunkerMoves \/ TaskMoves \/ OverlapMoves

Spec == Init /\ [][Next]_<<part, summary, chunker, notes>>

-----------------------------------------------------------------------------
(* Properties, of the component each is about.                             *)

\* A note has every chunk of its source, however often the backend crashed and whatever
\* checkpoint it went on from (NoteSummary).
NoteCoversItsSource == Summary!NoteCoversItsSource

\* The text of the chunks is the transcript, in order and whole; no request is over the budget,
\* frames included, and none is empty (RequestChunker).
RequestsHoldTheTranscript == Chunker!TranscriptKept /\ Chunker!RequestsFit

\* Every version the web client shows is the whole note of one submission (NoteTask).
ShownNotesAreComplete == Task!ShownNotesAreComplete

\* A merge that is resumed goes on with the partial notes that are still to be merged
\* (NoteSummary).
MergeResumes == Summary!MergeResumes

=============================================================================
