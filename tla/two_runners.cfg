\* Two runners, three jobs of which the second is already complete and the others
\* share an effective name, every fault.
CONSTANTS
    alice = alice
    bob = bob
    carol = carol
    Runners <- MCTwo
    NumJobs = 3
    Skip = {2}
    JobName <- MCNamesApart
    Outcomes <- MCOutcomes
    Faults = {"timeout", "spawn", "crash", "link"}
    MaxLink = 1
SPECIFICATION FairSpec
CHECK_DEADLOCK FALSE
INVARIANTS
    TypeOK
    NobodyLeavesEarly
    NoFalseMatch
    LeaverIsHeard
    SummaryTruthful
    VerdictsAgree
PROPERTIES
    NoRunnerHangs
    ImplementsLockstep
