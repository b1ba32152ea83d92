SPECIFICATION Spec
CONSTANTS
    OSes = {"rocky"}
    Procs <- MCProcs
    Columns <- MCColumns
    Native <- MCNative
    ReadmeColumns <- MCReadme
    Certificates <- MCCertificates
    MaxIssues = 2
    MaxRetries = 2
    NoBranch = NoBranch
INVARIANTS ConcurrentUpdatesKept
CHECK_DEADLOCK FALSE
