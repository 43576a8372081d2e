\* Two runners, one job, two launches each, every fault: a child killed after
\* the end-of-test marker and before its Parquet file.
CONSTANTS
    alice = alice
    bob = bob
    carol = carol
    Machines <- MCTwo
    Rank <- MCRank
    NumJobs = 1
    LogFaults = {"stop", "link", "child", "digest"}
    MaxLaunches = 2
SPECIFICATION LogsSpec
CHECK_DEADLOCK FALSE
INVARIANTS
    SkippedIsWhole
