CONSTANTS
    VM = {v1, v2, v3}
    NoVM = NoVM
    Profiles = {plain, other}
    Declared = plain
    NoProfile = NoProfile
    Plans <- CallPlans
    Debug = FALSE
SPECIFICATION Scheduled
PROPERTY TimeoutEnforced
CHECK_DEADLOCK FALSE
