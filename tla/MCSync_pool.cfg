\* As many pulls as connections, and a push.
CONSTANTS
    j1 = j1
    j2 = j2
    a1 = a1
    p1 = p1
    p2 = p2
    p3 = p3
    Pushes = {p3}
    Pulls = {l1, l2}
    Actions <- AllActions
    Rows = {j1, j2, a1}
    Jobs = {j1, j2}
    Target <- Targets
    Taken <- Times
    Fate <- FatesHere
    Batch <- Batches
    MaxConns = 2
    MaxClock = 0
    MaxUpdates = 0
    MaxFaults = 0
SPECIFICATION FairSpec
CHECK_DEADLOCK FALSE
PROPERTY
    RequestsProceed
