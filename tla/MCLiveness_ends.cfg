CONSTANTS
    h1 = h1  h2 = h2  q1 = q1  q2 = q2  p1 = p1  p2 = p2
    t1 = t1  t2 = t2  codex = codex  Nobody = Nobody
SPECIFICATION Spec
CHECK_DEADLOCK FALSE
PROPERTY LaunchLockReturns
PROPERTY PublishedBecomesResult
 
