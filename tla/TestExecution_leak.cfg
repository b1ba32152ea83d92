CONSTANTS
    VM = {v1, v2, v3}
    NoVM = NoVM
    Profiles = {plain, other}
    Declared = plain
    NoProfile = NoProfile
    Plans <- LaunchPlans
    Debug = FALSE
SPECIFICATION Spec
INVARIANT TornDownAlways
CHECK_DEADLOCK FALSE
