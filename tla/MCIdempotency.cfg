CONSTANTS
    Clients = {c1, c2}
    Hashes = {h1, h2}
    NoHash = nohash
    SlowHandlers = FALSE
    MaxRuns = 3
    MaxErrors = 1
    MaxCrashes = 1
    MaxRetries = 1
SPECIFICATION KeySpec
INVARIANTS
    ClaimedOnce
    OwnResponse
PROPERTY Answered
CHECK_DEADLOCK FALSE
