CONSTANTS
    Backlog = 2
    MaxConn = 4
    MaxBoots = 1
SPECIFICATION Spec
INVARIANT AlwaysResponds
CHECK_DEADLOCK FALSE
