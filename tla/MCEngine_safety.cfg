SPECIFICATION EngineSpec
CONSTANTS
    \* ResourceLease: one resource, a holder, an heir and a competitor
    Owners = {o1, o2, o3}
    Nobody = Nobody
    Resources = {"resource"}
    Ttl = 2
    MaxDelay = 1
    MaxTime = 4
    MaxTickets = 2
    MaxToken = 2
    \* EngineHost: one client interrupted, one host killed
    Hosts = {h1, h2}
    Clients = {"client"}
    HostJobs = {"job"}
    MaxKills = 1
    MaxInterrupts = 1
    MaxScanFaults = 1
    \* EngineDispatcher: one Job answered once, the engine killed once
    DispatcherJobs = {1}
    Workspaces <- OneInstance
    Home <- OneHome
    MaxPending = 2
    MaxActive = 1
    PageSize = 2
    MaxLaunches = 2
    MaxStoreFaults = 0
    MaxTakes = 1
    MaxResponses = 1
    MaxCrashes = 1
    MaxLost = 0
SYMMETRY Symmetry
INVARIANT BelievedLeasesHold
INVARIANT LaunchBudgetHolds
INVARIANT ServingEngineIsFound
PROPERTY ImplementsExclusiveLease
PROPERTY AcceptedJobsAreKept
CHECK_DEADLOCK FALSE
