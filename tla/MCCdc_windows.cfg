\* Two overlapping runs over three accounts, two fetched at a time, and a bill.
CONSTANTS
    c1 = c1
    c2 = c2
    c3 = c3
    Accounts = {c1, c2, c3}
    Bills = {b1}
    AccountOf <- OnOneAccount
    Workers = {w1, w2}
    Limit = 2
    MaxClock = 2
    MaxVersion <- FirstTwice
    MaxRuns = 2
SYMMETRY Symmetry
SPECIFICATION Spec
CHECK_DEADLOCK FALSE
INVARIANTS
    TypeOK
    LossesExplained
    BillsHaveAccounts
PROPERTY
    OldVersionsOvertaken
