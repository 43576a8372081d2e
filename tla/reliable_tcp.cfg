\* Two readers in Multi mode; the buffers hold a frame and a third, and a length
\* arrives in one piece.
CONSTANTS
    PeerCount = 2
    Threading = "multi"
    PrefixLen = 1
    FrameLen = 3
    BufferSize = 4
    Room = 4
    MaxWrites = 2
SPECIFICATION TcpSpec
CHECK_DEADLOCK FALSE
INVARIANT StreamStaysWhole
