SPECIFICATION Spec
CONSTANTS
    \* two threads of CodexPool and of TranscribeWorker
    Callers = {a, b}
    Nobody = Nobody
    \* CodexPool: one client, one machine slot
    Clients = {"client"}
    Home <- SameClient
    PoolSize = 2
    Capacity = 1
    MaxPoolCalls = 3
    MaxPoolDeaths = 1
    \* TranscribeWorker: one of two models is asked for
    Identities = {"m1", "m2"}
    MaxLines = 4
    MaxExits = 1
    MaxTimers = 2
    \* FaithfulEdition
    Requests <- ThreeRequests
    MaxJobs = 2
    \* KnowledgeCompiler: a request of six units, with projections of two
    Transcripts <- AllTranscripts
    MaxLength = 2
    Budget = 6
    Overhead = 1
    MapBase = 1
    ConsolidateBase = 2
    ComposeBase = 3
    Estimate = 2
    MapOut = 2
    MaxItems = 2
    MaxCovered = 3
    MaxOmitted = 1
    Workers = 2
    Observations = 1
SYMMETRY Symmetry
INVARIANT AnswersAreOwn
INVARIANT PublishedTextReviewed
INVARIANT KeptGroupsApproved
INVARIANT RootsAccounted
 
CHECK_DEADLOCK FALSE
