\* Two auditors race for a flag; two flags are visited, audited and signed.
CONSTANTS
    f1 = f1
    f2 = f2
    j1 = j1
    u1 = u1
    u2 = u2
    Flags = {f1, f2}
    Events = {e1, e2, e3}
    Audits = {a1}
    Jobs = {j1}
    Auditors = {u1, u2}
    InitialTypes <- DetectedTypes
    Outcomes <- VisitOutcomes
    Overrides <- AnyOverride
    Amounts = {1}
    JobFlag <- OneJob
    OperatorLinks = TRUE
    NoFlag = NoFlag
    NoJob = NoJob
    NoEvent = NoEvent
SPECIFICATION Spec
CONSTRAINT RaceOrSignature
CHECK_DEADLOCK FALSE
INVARIANTS
    TypeOK
    OneEventPerFlag
    AmountFollowsStatus
    GraSignedIsBacked
    VerifiedByVisit
PROPERTIES
    EventsBornFromConfirmedLeakage
    SigningSweepsEvents
    ImplementsLedger
