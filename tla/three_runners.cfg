\* Three runners, two jobs, no faults: 
\* everyone finishes.
CONSTANTS
    alice = alice
    bob = bob
    carol = carol
    Runners <- MCThree
    NumJobs = 2
    Skip = {}
    JobName <- MCNamesClash
    Outcomes <- MCSuccess
    Faults = {}
    MaxLink = 0
SPECIFICATION FairSpec
CHECK_DEADLOCK FALSE
PROPERTIES
    AllFinish
