SPECIFICATION InstallationSpec
CONSTANTS
    Installers = {p1, p2, p3}
    Versions = {"v1", "v2"}
    LaterVersion = "v2"
    Digests = {a, b}
    Nobody = Nobody  Absent = Absent  Malformed = Malformed
    MaxInstalls = 4
    MaxFaults = 1
    MaxCrashes = 1
    MaxPowerLosses = 1
    MaxDamage = 1
    Workspaces = {"w1", "w2", "w3"}
    Readers = {a, b}
    Capacity = 2
    RegistryCalls = 5
    MaxReads = 3
    Callers = {a, b}
    Directories = {"raw", "wiki"}
    Names = {"n1", "n2"}
    InitCalls = 4
    InitFaults = 2
SYMMETRY Symmetry
CHECK_DEADLOCK FALSE
INVARIANT StableInstances
INVARIANT ResultsAgree
 
