SPECIFICATION Spec
CONSTANTS
    \* NoteSummary
    SummaryRuns = {r1, r2, r3}
    long = long  short = short  longest = longest
    Sources <- ThreeSources
    NumChunks <- ChunksOfEach
    AnswerSizes = {2, 3, 4, 7}
    MergeBudget = 6
    Attempts = 2
    Crashes = 1
    \* RequestChunker
    MaxSegments = 3
    SegmentSizes = {0, 1, 2, 5, 6, 8}
    MaxImages = 3
    ImageSizes = {1, 3, 9}
    Prompts = {1, 2, 5}
    Overhead = 1
    MaxRequest = 6
    \* NoteTask
    Submissions = {r1, r2}
    Polls = {k1, k2}
    MaxWorkers = 2
    MaxRestarts = 1
    MaxVersions = 4
    Extension = TRUE
    None = None
INVARIANT NoteCoversItsSource
INVARIANT RequestsHoldTheTranscript
INVARIANT ShownNotesAreComplete
CHECK_DEADLOCK FALSE
