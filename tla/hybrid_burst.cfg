\* Two nodes in Multi mode publish two messages in each of two ticks; a socket and a
\* channel hold one.
CONSTANTS
    HybridNames = {1, 2}
    HybridSpawns <- OnlyLongBurst
    MaxTicks = 2
    MaxValues = 2
    SocketRoom = 1
    ChannelRoom = 1
SPECIFICATION HybridSpec
CHECK_DEADLOCK FALSE
PROPERTIES
    BroadcastReturns
