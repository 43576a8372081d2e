\* Three runners with the program's own numbers (units of 5 ms); one may
\* leave discovery up to one broadcast interval (500 ms) after the others.
CONSTANTS
    Order <- ThreeRunners
    Starts = {0, 60, 100}
    NumSamples = 32
    InterSampleDelay = 1
    PerSampleTimeout = 20
    StartupBudget = 3000
    BarrierPoll = 5
SPECIFICATION SetupSpec
INVARIANT EveryoneIsMeasured
