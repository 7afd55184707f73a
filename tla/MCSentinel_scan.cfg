\* Two scans of a district with an account in the wrong category and an
\* imbalance, which the schema refuses.
CONSTANTS
    phantom = phantom
    mismatch = mismatch
    imbalance = imbalance
    Scans = {s1, s2}
    Findings = {mismatch, imbalance}
    CheckOf <- Kinds
    Productions = {0, 10}
    Billings = {6}
    MaxFlags = 1
    MaxFaults = 2
SPECIFICATION FairSpec
INVARIANTS
    TypeOK
    FlagsWereFound
    ScansAreThorough
PROPERTIES
    FindingsResurface
    ZoneSettles
