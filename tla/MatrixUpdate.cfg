SPECIFICATION Spec
CONSTANTS
    OSes = {"rocky"}
    Procs <- MCProcs
    Columns <- MCColumns
    Native <- MCNative
    ReadmeColumns <- MCReadme
    Certificates <- MCCertificates
    MaxIssues = 2
    MaxRetries = 3
    NoBranch = NoBranch
INVARIANTS IInv LandsWhenUndisturbed LatestInItsColumn NoDuplicateLeft
CHECK_DEADLOCK FALSE
