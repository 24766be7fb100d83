CONSTANTS
    Passwords = {p1}
    WeakPasswords = {}
    Unusable = Unusable
    Secrets = {s1}
    Names = {n1}
    Contacts = {}
    None = None
    Workers = {w1}
    Ops <- DeletionOps
    MaxFailedAttempts = 2
    LockoutTicks = 1
    MaxTime = 0
    MaxGuesses = 0
    MaxInterrupts = 0
    MaxCodes = 0
    MaxTokens = 1
    OpenSessions = 1
    HistoryLimit = 2
    MaxRecords = 0
    CodesPerUser = 1
    MaxSets = 0
SPECIFICATION Spec
PROPERTIES DeletionIsScheduled
CHECK_DEADLOCK FALSE
