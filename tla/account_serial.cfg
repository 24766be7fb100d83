CONSTANTS
    Passwords = {p1}
    WeakPasswords = {}
    Unusable = Unusable
    Secrets = {s1}
    Names = {n1}
    Contacts = {c1}
    None = None
    Workers = {w1}
    Ops <- AccountOps
    MaxFailedAttempts = 2
    LockoutTicks = 1
    MaxTime = 1
    MaxGuesses = 3
    MaxInterrupts = 1
    MaxCodes = 2
    MaxTokens = 1
    OpenSessions = 0
    HistoryLimit = 2
    MaxRecords = 0
    CodesPerUser = 1
    MaxSets = 1
SPECIFICATION Spec
INVARIANTS LockoutAfterMax SmsHasContact
PROPERTIES LockHeld AccountIsAtomic
CHECK_DEADLOCK FALSE
