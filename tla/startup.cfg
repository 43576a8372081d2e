\* Discovery: two runners, any mix of modes and files, every fault, three
\* launches each.  Jobs: every form of the keys and every error in them, three
\* launches, one child that fails.  Resuming: two runners, two jobs, three launches each, every
\* fault but those of the Parquet file, which no property here is about.
\* Verdicts: two machines, two writes, three received rows in one launch, or one
\* in each of two.  Cache: a spawn and a clock-sync log, three writes to them,
\* three calls of the tool, two versions of it, which may die anywhere.
CONSTANTS
    alice = alice
    bob = bob
    carol = carol
    Runners <- MCTwo
    Leader = alice
    Configs = {"this", "that"}
    OldFolders <- MCOldFolders
    Fresh <- MCFresh
    Faults = {"loss", "timeout", "sync", "crash"}
    MaxAttempts = 3
    ConfigFiles <- MCConfigFiles
    MaxStarts = 3
    MaxFailures = 1
    Machines <- MCTwo
    Rank <- MCRank
    NumJobs = 2
    LogFaults = {"stop", "link", "child"}
    MaxLaunches = 3
    Hosts <- MCHosts
    WritingHosts <- MCWritingHosts
    JobsOfInterest <- MCJobsOfInterest
    LastWrite = 2
    LeafCount <- MCLeafCount
    MaxRecords = 3
    MaxLaunched = 2
    VariantStems <- MCVariantStems
    SyncStems <- MCSyncStems
    CacheFaults = {"crash"}
    MaxWrites = 3
    MaxCalls = 3
    MaxVersions = 2
SPECIFICATION StartupSpec
CHECK_DEADLOCK FALSE
INVARIANTS
    StartupTypeOK
    OneRun
    LeaderKnownAtQuorum
    MatrixIsRun
    SkipSetsAgree
    SkippedIsCompleteEverywhere
    HonestReport
    NoFalseAlarm
    AnalysedIsCurrent
PROPERTIES
    AllMeet
    FinishedIsKept
