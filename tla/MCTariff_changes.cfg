\* The tiers are created, changed and ended, or the VAT is, under a calculation.
CONSTANTS
    r1 = r1
    r2 = r2
    r3 = r3
    Rates = {r1, r2, r3}
    SeedRates <- TwoTiers
    Offers <- NewTiers
    Tops = {1, 4}
    Dates = {1, 2}
    Changes = {c1, c2}
    Seed = Seed
    SeedFrom = 1
    Bills = {b1}
    Volumes <- Consumptions
    NoRow = NoRow
    NoMax = NoMax
    NoDate = NoDate
    NoChange = NoChange
SPECIFICATION Spec
CONSTRAINT OneTableAtATime
CHECK_DEADLOCK FALSE
INVARIANTS
    TypeOK
    WholeVolumeBilled
    EachVolumeInItsTier
    TwoVATsOverlapped
PROPERTIES
    VATOutageExplained
