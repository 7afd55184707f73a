\* Two scans of a district with a phantom meter and an account in the wrong category.
CONSTANTS
    phantom = phantom
    mismatch = mismatch
    imbalance = imbalance
    Scans = {s1, s2}
    Findings = {phantom, mismatch}
    CheckOf <- Kinds
    Productions = {0}
    Billings = {6}
    MaxFlags = 2
    MaxFaults = 0
SPECIFICATION Spec
INVARIANTS
    FlagsAreDeduplicated
