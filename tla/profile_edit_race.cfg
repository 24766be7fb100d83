CONSTANTS
    Passwords = {p1, p2}
    WeakPasswords = {}
    Unusable = Unusable
    Secrets = {s1}
    Names = {n1, n2}
    Contacts = {}
    None = None
    Workers = {w1, w2}
    Ops <- EditRaceOps
    MaxFailedAttempts = 2
    LockoutTicks = 1
    MaxTime = 0
    MaxGuesses = 0
    MaxInterrupts = 0
    MaxCodes = 0
    MaxTokens = 1
    OpenSessions = 1
    HistoryLimit = 2
    MaxRecords = 3
    CodesPerUser = 1
    MaxSets = 0
SPECIFICATION Spec
PROPERTIES ProfileEditKeepsRest
CHECK_DEADLOCK FALSE
SYMMETRY WorkerSymmetry
