\* One account and one bill, one run at a time.
CONSTANTS
    c1 = c1
    c2 = c2
    c3 = c3
    Accounts = {c1}
    Bills = {b1}
    AccountOf <- OnOneAccount
    Workers = {w1}
    Limit = 3
    MaxClock = 4
    MaxVersion <- Twice
    MaxRuns = 3
SPECIFICATION Spec
CHECK_DEADLOCK FALSE
INVARIANT
    ChangedBillsAreDue
