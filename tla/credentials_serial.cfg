CONSTANTS
    Passwords = {p1, p2, p3}
    WeakPasswords = {p3}
    Unusable = Unusable
    Secrets = {s1}
    Names = {n1}
    Contacts = {}
    None = None
    Workers = {w1}
    Ops <- CredentialOps
    MaxFailedAttempts = 2
    LockoutTicks = 1
    MaxTime = 0
    MaxGuesses = 0
    MaxInterrupts = 1
    MaxCodes = 2
    MaxTokens = 2
    OpenSessions = 1
    HistoryLimit = 2
    MaxRecords = 3
    CodesPerUser = 1
    MaxSets = 2
SPECIFICATION Spec
INVARIANTS CodeReuseBounded BackupSingleUse OneSetOfCodes
PROPERTIES AllRevokedWhenDone NoReplacedReuse AccountIsAtomic
CHECK_DEADLOCK FALSE
