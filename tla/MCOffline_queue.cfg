\* Any two of a submission, an outcome and a report of one job, two passes,
\* lost calls, one kill.
CONSTANTS
    m1 = m1
    o1 = o1
    r1 = r1
    j1 = j1
    Items = {m1, o1, r1}
    Jobs = {j1}
    KindOf <- KindsHere
    JobOf <- JobsHere
    Passes = {s1, s2}
    Lossy = TRUE
    MaxRetries = 1
    MaxReports = 1
    MaxEntries = 2
    MaxKills = 1
    NoItem = NoItem
SPECIFICATION FairSpec
CHECK_DEADLOCK FALSE
INVARIANTS
    TypeOK
    ShownSurvives
    RequestsBounded
    LocalStatusBacked
PROPERTIES
    ImplementsOutbox
    PassEnds
