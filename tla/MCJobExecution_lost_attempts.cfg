CONSTANTS
    j1 = j1  j2 = j2  w1 = w1  w2 = w2  w3 = w3  k1 = k1  k2 = k2
    p1 = p1  p2 = p2  c1 = c1  c2 = c2  r1 = r1
    Jobs = {j1}
    Steps = {"preflight", "compile", "commit"}
    Requests = {r1}
    Owners = {w1, w2}
    ClientIds = {}
    Attempts = {1, 2, 3, 4, 5}
    Operations = {p1}
    Challenges = {c1}
    Nobody = Nobody
    MaxGeneration = 3
    MaxLaunches = 0
    CallBudget = 2
SPECIFICATION ExecSpec
SYMMETRY Symmetry
CHECK_DEADLOCK FALSE
INVARIANTS
    LostAttemptsInterrupted
