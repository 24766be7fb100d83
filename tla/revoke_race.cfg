CONSTANTS
    Passwords = {p1, p2}
    WeakPasswords = {}
    Unusable = Unusable
    Secrets = {s1}
    Names = {n1}
    Contacts = {}
    None = None
    Workers = {w1, w2}
    Ops <- RevokeRaceOps
    MaxFailedAttempts = 2
    LockoutTicks = 1
    MaxTime = 0
    MaxGuesses = 0
    MaxInterrupts = 0
    MaxCodes = 0
    MaxTokens = 2
    OpenSessions = 1
    HistoryLimit = 2
    MaxRecords = 1
    CodesPerUser = 1
    MaxSets = 0
SPECIFICATION Spec
PROPERTIES AllRevokedWhenDone
CHECK_DEADLOCK FALSE
SYMMETRY WorkerSymmetry
