\* Three nodes in Single mode, one of which is killed in the middle of a tick.
CONSTANTS
    HybridNames = {1, 2, 3}
    HybridSpawns <- OneIsKilled
    MaxTicks = 2
    MaxValues = 2
    SocketRoom = 1
    ChannelRoom = 1
SPECIFICATION HybridSpec
CHECK_DEADLOCK FALSE
INVARIANT SurvivorsGoOn
