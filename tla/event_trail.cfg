CONSTANTS
    Workers = {w1, w2}
    None = None
    ForeignTypes = {t1}
    MaxRequests = 2
    MaxForeign = 1
    MaxCodes = 2
SPECIFICATION TrailSpec
INVARIANTS TrailTypeOK RecordsAreTrue NothingForgotten EventsAccountedFor LastToldIsCurrent
CHECK_DEADLOCK FALSE
SYMMETRY WorkerSymmetry
