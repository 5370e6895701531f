SPECIFICATION PublicationSpec
CONSTANTS
    None = None
    Jobs = {j1, j2}
    Procs = {p1, p2, p3}
    Cancellable = {j1}
    MaxCrashes = 1
    MaxLapses = 1
    MaxFaults = 1
    SourceJobs = {1, 2, 3}
    MaxRollbacks = 1
    MaxLosses = 2
    MaxExecutions = 5
    MaxPowerLosses = 1
    MaxEvents = 3
SYMMETRY Symmetry
INVARIANT OneSourcePerIdentity
INVARIANT RecordedIsReusable
INVARIANT ProjectionCaughtUp
INVARIANT RecordedJobsSurvive
CHECK_DEADLOCK FALSE
