\* An illegal-connection report that could not be sent at first.
CONSTANTS
    m1 = m1
    o1 = o1
    r1 = r1
    j1 = j1
    Items = {r1}
    Jobs = {j1}
    KindOf <- KindsHere
    JobOf <- JobsHere
    Passes = {s1}
    Lossy = TRUE
    MaxRetries = 5
    MaxReports = 9
    MaxEntries = 2
    MaxKills = 0
    NoItem = NoItem
SPECIFICATION Spec
CHECK_DEADLOCK FALSE
INVARIANT
    ReportsBounded
