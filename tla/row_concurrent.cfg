CONSTANTS
    Passwords = {p1}
    WeakPasswords = {}
    Unusable = Unusable
    Secrets = {s1, s2}
    Names = {n1}
    Contacts = {}
    None = None
    Workers = {w1, w2}
    Ops <- RowOps
    MaxFailedAttempts = 2
    LockoutTicks = 1
    MaxTime = 0
    MaxGuesses = 2
    MaxInterrupts = 0
    MaxCodes = 0
    MaxTokens = 2
    OpenSessions = 1
    HistoryLimit = 2
    MaxRecords = 0
    CodesPerUser = 1
    MaxSets = 2
SPECIFICATION Spec
INVARIANTS TypeOK RowInv SecretConfirmed
CHECK_DEADLOCK FALSE
SYMMETRY WorkerSymmetry
