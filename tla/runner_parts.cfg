\* Set-up: three runners that leave discovery within 150 ms, with the
\* program's own numbers (units of 5 ms).  Clock: three samples.  Spawn:
\* seconds.  Exchange: two jobs.  Addresses: three runners on two machines.
CONSTANTS
    Order <- ThreeRunners
    Starts = {0, 20, 30}
    NumSamples = 32
    InterSampleDelay = 1
    PerSampleTimeout = 20
    StartupBudget = 3000
    BarrierPoll = 5
    Thetas <- Differences
    Samples = 3
    SampleTimeout = 1
    OutlierFactor = 1
    Copies = 1
    MaxNow = 4
    StabilizeSecs = 1
    OperateSecs = 5
    SilentSecs = 1
    IdleSecs = 1
    WatchdogSecs = 3
    SpawnTimeout = 9
    MaxSpawnSecs = 8
    MaxCount = 1
    Nodes = {"alice", "bob"}
    SpawnNames <- TwoSpawns
    Publishers = {"bob"}
    MaxFrames = 1
    Hosted = {1, 2, 3}
    Machines = {1, 2}
    Interfaces = {1, 2}
    Layouts <- SomeLayouts
    MaxPort = 65535
SPECIFICATION PartsSpec
CHECK_DEADLOCK FALSE
INVARIANTS
    PartsTypeOK
    ConnectionsAreRight
    OffsetWithinRtt
    OutcomeIsEarned
    WatchdogTakesTheStuck
    AgreementIsTrue
PROPERTIES
    IdleAfterSilence
    SpawnsEnd
