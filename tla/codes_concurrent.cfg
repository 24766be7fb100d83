CONSTANTS
    Passwords = {p1, p2}
    WeakPasswords = {}
    Unusable = Unusable
    Secrets = {s1}
    Names = {n1}
    Contacts = {}
    None = None
    Workers = {w1, w2}
    Ops <- CodeOps
    MaxFailedAttempts = 2
    LockoutTicks = 1
    MaxTime = 0
    MaxGuesses = 0
    MaxInterrupts = 1
    MaxCodes = 3
    MaxTokens = 1
    OpenSessions = 1
    HistoryLimit = 1
    MaxRecords = 3
    CodesPerUser = 1
    MaxSets = 0
SPECIFICATION Spec
INVARIANTS CodeReuseBounded HistoryPruned
PROPERTIES SpentCodeStaysSpent
CHECK_DEADLOCK FALSE
SYMMETRY WorkerSymmetry
