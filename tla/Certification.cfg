CONSTANTS
    Levels <- MCLevels
    NoLevel = ""
    Releases <- MCReleases
    ReleaseOf <- MCReleaseOf
    Versions <- MCVersions
    VersionOf <- MCVersionOf
    Runs <- MCRuns
SPECIFICATION FairService
INVARIANTS ServiceInv CertifiedLevelEarned ReportConsistent ReportComplete
           PrereqsGate ExitZeroMeansPassed OnlyEarnedPublished AllWrittenPublished
PROPERTY HostFreed
CHECK_DEADLOCK FALSE
