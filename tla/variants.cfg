\* custom-udp: two nodes that write four messages each at QoS 1, 2 or 3, a
\* buffer of two.  websocket: a pair and a trio in both modes.  hybrid: a
\* pair in both modes, a trio in Single mode; a buffer holds one frame; at QoS 1
\* and 2 a writer of two messages, of which three datagrams arrive.  quic:
\* two nodes that write to each other, up to more than all buffers hold, one
\* that writes to one or to two, and datagrams; a buffer holds one message.
\* webrtc: both nodes write at QoS 4, or one of them at each of the others.
\* zenoh: both nodes publish at QoS 4, one at QoS 3 to a peer that is late, one at
\* QoS 1; two samples through zenohd while connections stall, one while something
\* dies.  Recording: each workload, two messages, a table of one peer.
CONSTANTS
    alice = alice
    bob = bob
    Nodes <- MCTwo
    Levels = {1, 2, 3}
    MaxSeq = 4
    BufferLimit = 2
    PathOf <- MCTwoPaths
    WsNames = {1, 2, 3}
    WsSpawns <- AllSpawns
    MaxWrites = 3
    Room = 1
    HybridNames = {1, 2, 3}
    HybridSpawns <- HybridRuns
    MaxTicks = 2
    MaxValues = 2
    SocketRoom = 1
    ChannelRoom = 1
    CastNames = {1, 2}
    Stranger = 0
    Casts <- HybridCasts
    MaxCast = 2
    MaxArrivals = 3
    CastPaths = 1
    BufferRoom = 1
    HubRoom = 1
    PollBudget = 1
    QuicNames = {1, 2, 3}
    QuicSpawns <- QuicTransfers
    MaxIssued = 8
    QueueRoom = 1
    SendRoom = 1
    WindowRoom = 1
    InboundRoom = 1
    PendingCap = 1
    RtcSpawns <- RtcCalls
    MaxWritten = 3
    Candidates = 1
    OutboxRoom = 1
    Threshold = 1
    SctpRoom = 2
    NumPaths = 2
    ZenohSpawns <- ZenohBursts
    MaxPuts = 4
    BridgeRoom = 1
    PutLimit = 2
    LinkRoom = 1
    FifoRoom = 1
    RestSpawns <- RestRuns
    MaxSamples = 2
    Works <- MCWorks
    Writers = {"bob", "carol"}
    MaxPeers = 1
SPECIFICATION VariantsSpec
CHECK_DEADLOCK FALSE
INVARIANTS
    VariantsTypeOK
    InOrder
    FreshestShown
    GapsAreAskedFor
    NoCircularWait
    StreamsHold
    HonestBackPressure
    DamageIsLocal
    FileTellsAll
PROPERTIES
    EveryWaitEnds
    EveryoneStarts
    DriversGetThrough
