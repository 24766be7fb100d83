CONSTANTS
    Processes = {c1, c2}
    Emails = {root, bob}
    SeedEmail = root
    NoUser = NoUser
    Keys = {maintenance}
    MaintenanceKey = maintenance
    Fields = {name, enabled}
    NoFlag = NoFlag
    MaxEdits = 3
    MaxErrors = 1
SPECIFICATION BootSpec
INVARIANTS BootTypeOK CreatedOnce LossNeedsOverlap SeedNeverBlocked
PROPERTIES DeletedStaysDeleted RetriesSucceed
