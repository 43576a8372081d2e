\* Two nodes at QoS 3: what happens to a retransmitted message.
CONSTANTS
    alice = alice
    bob = bob
    Nodes <- MCTwo
    Levels = {3}
    MaxSeq = 3
    BufferLimit = 3
    PathOf <- MCTwoPaths
SPECIFICATION Spec
CHECK_DEADLOCK FALSE
INVARIANTS
    RecoveredIsDelivered
