\* A submission over a network that loses nothing; the app is not killed.
CONSTANTS
    m1 = m1
    o1 = o1
    r1 = r1
    j1 = j1
    Items = {m1}
    Jobs = {j1}
    KindOf <- KindsHere
    JobOf <- JobsHere
    Passes = {s1}
    Lossy = FALSE
    MaxRetries = 2
    MaxReports = 1
    MaxEntries = 2
    MaxKills = 0
    NoItem = NoItem
SPECIFICATION Spec
CHECK_DEADLOCK FALSE
INVARIANT
    SubmissionsSurvive
