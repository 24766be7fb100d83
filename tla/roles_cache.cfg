CONSTANTS
    Workers = {w1, w2}
    Absent = Absent
    Empty = Empty
    MaxChanges = 2
SPECIFICATION RolesSpec
INVARIANTS RolesTypeOK OnlyOverlapLeavesStale LoginRolesExcused
PROPERTIES StaleEntryEnds
