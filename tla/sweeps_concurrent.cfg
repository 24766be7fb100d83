CONSTANTS
    Passwords = {p1}
    WeakPasswords = {}
    Unusable = Unusable
    Secrets = {s1}
    Names = {n1}
    Contacts = {}
    None = None
    Workers = {w1, w2}
    Ops <- SweepOps
    MaxFailedAttempts = 2
    LockoutTicks = 1
    MaxTime = 0
    MaxGuesses = 0
    MaxInterrupts = 1
    MaxCodes = 0
    MaxTokens = 3
    OpenSessions = 1
    HistoryLimit = 2
    MaxRecords = 0
    CodesPerUser = 1
    MaxSets = 3
SPECIFICATION Spec
INVARIANTS SweepComplete CodesRemain BackupReuseBounded SetsBounded
PROPERTIES ReplacedCodeIsDead
CHECK_DEADLOCK FALSE
SYMMETRY WorkerSymmetry
