CONSTANTS
    Flash = 1
    MaxTcb = 2
    MaxRuns = 2
    NoReport = NoReport
SPECIFICATION Spec
INVARIANTS IInv PassRestsOnFreshReports OverrideCleared
PROPERTIES CommitBehindGate FreshEvidenceKeepsFloor
CHECK_DEADLOCK FALSE
