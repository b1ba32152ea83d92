CONSTANTS
    Flash = 1
    MaxTcb = 2
    MaxRuns = 2
    NoReport = NoReport
SPECIFICATION Spec

PROPERTY FloorNeedsConsent
CHECK_DEADLOCK FALSE
