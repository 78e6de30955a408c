SPECIFICATION FairSpec
CONSTANTS
    Codes = {c1, c2}
    BufferSize = 1
    BatchSize = 2
    MaxLen = 1
    PageSize = 1
    Retries = 1
    Listings = {l1}
    MaxClicks = 2
INVARIANTS EveryEventAccountedFor StreamsOK CloseDrains ListingIsComplete
PROPERTIES WorkerGoesOn
CHECK_DEADLOCK FALSE
