CONSTANTS
    j1 = j1  j2 = j2  w1 = w1  w2 = w2  k1 = k1  k2 = k2
    p1 = p1  p2 = p2  p3 = p3  c1 = c1  c2 = c2  r1 = r1  s1 = s1
    Jobs = {j1, j2}
    Steps = {s1}
    Requests = {r1}
    Owners = {w1, w2}
    ClientIds = {k1, k2}
    Attempts = {1, 2, 3}
    Operations = {p1, p2, p3}
    Challenges = {c1, c2}
    Nobody = Nobody
    MaxGeneration = 3
    MaxLaunches = 1
    CallBudget = 2
SPECIFICATION FocusSpec
SYMMETRY Symmetry
CHECK_DEADLOCK FALSE
INVARIANT TypeOK
INVARIANT FencingTokensUnique
INVARIANT RunningAttemptsClaimed
INVARIANT TerminalJobsSettled
INVARIANT ChallengesCoherent
INVARIANT OneOpenOperation
INVARIANT CallsWithinBudget
INVARIANT SubmissionsIdempotent
PROPERTY FencedAttemptNeverCompletes
PROPERTY CancellationStopsWork
