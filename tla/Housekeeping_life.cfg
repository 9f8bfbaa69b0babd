SPECIFICATION FairSpec
CONSTANTS
    Versions = {1}
    PnLs = {5}
    PurgeAfterIdle = 1
    MaxDay = 2
    MaxFaults = 1
    MaxEvents = 2
INVARIANTS ReviewsSound CardTruthful DeleteLeavesOnlyInFlight ExitReviewed
PROPERTIES IdlePurged
