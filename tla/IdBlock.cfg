CONSTANTS
    MaxRuns = 2
    MaxFaults = 2
    NoReport = NoReport
    Hosts <- MCHosts
SPECIFICATION Spec
INVARIANTS IInv RefusedForItsCase PassMeansEnforced PassRestsOnThisGuest NoFalseAlarm ReportsDecodedRight
CHECK_DEADLOCK FALSE
