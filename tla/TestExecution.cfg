CONSTANTS
    VM = {v1, v2, v3, v4, v5}
    NoVM = NoVM
    Profiles = {plain, other}
    Declared = plain
    NoProfile = NoProfile
    Plans <- AllPlans
    Debug = TRUE
SPECIFICATION FairSpec
INVARIANTS IInv OneGuest TornDown VerdictSound SetupGate HandlerConfined
           GuestContinuity
PROPERTIES LaunchesCurrentProfile ImplementsContract Returns
CHECK_DEADLOCK FALSE
