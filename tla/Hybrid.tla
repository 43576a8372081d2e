------------------------------- MODULE Hybrid -------------------------------
(***************************************************************************)
(* The reliable path of the hybrid variant (variants/hybrid/src, tcp.rs,   *)
(* reader.rs and hybrid.rs): messages at QoS 3 and 4, written to every     *)
(* peer in turn over a TCP connection per direction.  A message must not   *)
(* be lost, so a full send buffer makes the writer wait.                   *)
(*                                                                         *)
(* In Single mode the writer that waits reads what has come in and keeps   *)
(* it in pending_drained.  In Multi mode a thread per connection reads and *)
(* pushes into a bounded channel, and a blocked writer just waits.  The    *)
(* driver publishes the values of a tick without a pause and polls         *)
(* afterwards.                                                             *)
(*                                                                         *)
(* socket[w][r] is what lies in the two socket buffers of the connection   *)
(* that w opened to r, the buffer of r's reader included; frames travel    *)
(* whole.  The connections are there from the start, and a connection in   *)
(* the listener's queue counts as accepted: the call that accepts it reads *)
(* it as well.  Which of several inbound connections that have something   *)
(* to read comes first is left open.                                       *)
(*                                                                         *)
(* A definition under the heading "Wrong on purpose" is the next one with  *)
(* a plausible bug; nothing uses it.                                       *)
(***************************************************************************)
EXTENDS Integers, Sequences, FiniteSets, Selection

CONSTANTS
    HybridNames,    \* the nodes; numbers, in the order of the configuration
    HybridSpawns,   \* the spawns of interest: 
                    \* [mode, names, ticks, values, ends, kill]
    MaxTicks,       \* bound: ticks of the operate phase, at most
    MaxValues,      \* bound: --values-per-tick, at most
    SocketRoom,     \* frames the socket buffers of a connection hold
    ChannelRoom     \* READER_CHANNEL_CAPACITY

ASSUME HybridNamesAssumption == HybridNames \subseteq Nat \ {0} /\ IsFiniteSet(HybridNames)
ASSUME HybridSpawnsAssumption ==
    HybridSpawns \subseteq
        [mode : {"single", "multi"}, names : SUBSET HybridNames, ticks : 0..MaxTicks,
         values : 1..MaxValues, ends : BOOLEAN, kill : BOOLEAN]
ASSUME HybridBoundAssumption ==
    /\ MaxTicks \in Nat
    /\ {MaxValues, SocketRoom, ChannelRoom} \subseteq Nat \ {0}

VARIABLES
    setting,    \* mode, nodes, ticks and values per tick, and, as bounds, whether
                \* anybody gets to its end and whether a child may be killed
    driver,     \* driver[n]: "operate", "silent", or how the process ended
    burst,      \* burst[n]: values of the tick that n has still to publish
    polled,     \* has the drain of this tick received anything?
    published,  \* published[n]: messages published, the current one included
    outbound,   \* outbound[n]: the peers n writes to, in order
    inbound,    \* inbound[n]: the peers n reads from
    turn,       \* i of broadcast_with_drain, or 0 when none is in progress
    targets,    \* its n, the length of outbound when it began
    failed,     \* its keep: the positions that are to go
    stalled,    \* the write has just returned WouldBlock (Single)
    socket,     \* socket[w][r]: frames from w that r has not read
    queued,     \* pending_drained, or the channel: [from, seq]
    got         \* got[r][w]: messages of w the driver of r has received

broadcastVars == <<outbound, turn, targets, failed, stalled>>
driverVars == <<driver, burst, polled, published>>
hybridVars == <<setting, driverVars, broadcastVars, inbound, socket, queued, got>>

Inline == setting.mode = "single"
Threaded == setting.mode = "multi"
MaxPublished == MaxTicks * MaxValues
Frames == [from : HybridNames, seq : 1..MaxPublished]
Alive == {"operate", "silent"}

HybridTypeOK ==
    /\ setting \in HybridSpawns
    /\ driver \in [HybridNames -> Alive \union {"left", "killed", "panicked", "failed"}]
    /\ burst \in [HybridNames -> 0..MaxValues]
    /\ polled \in [HybridNames -> BOOLEAN]
    /\ published \in [HybridNames -> 0..MaxPublished]
    /\ outbound \in [HybridNames -> Seq(HybridNames)]
    /\ inbound \in [HybridNames -> SUBSET HybridNames]
    /\ turn \in [HybridNames -> 0..Cardinality(HybridNames)]
    /\ targets \in [HybridNames -> 0..Cardinality(HybridNames)]
    /\ failed \in [HybridNames -> SUBSET (1..Cardinality(HybridNames))]
    /\ stalled \in [HybridNames -> BOOLEAN]
    /\ socket \in [HybridNames -> [HybridNames -> Seq(1..MaxPublished)]]
    /\ queued \in [HybridNames -> Seq(Frames)]
    /\ got \in [HybridNames -> [HybridNames -> Seq(1..MaxPublished)]]

\* The peers in the order of their names.
PeersInOrder(n) ==
    LET peers == setting.names \ {n}
        PlaceOf(p) == Cardinality({q \in peers : q <= p})
    IN  [i \in 1..Cardinality(peers) |-> CHOOSE p \in peers : PlaceOf(p) = i]

HybridInit ==
    /\ setting \in HybridSpawns
    /\ driver = [n \in HybridNames |-> "operate"]
    /\ burst = [n \in HybridNames |-> IF setting.ticks > 0 THEN setting.values ELSE 0]
    /\ polled = [n \in HybridNames |-> FALSE]
    /\ published = [n \in HybridNames |-> 0]
    /\ outbound = [n \in HybridNames |-> IF n \in setting.names THEN PeersInOrder(n) ELSE <<>>]
    /\ inbound = [n \in HybridNames |-> IF n \in setting.names THEN setting.names \ {n} ELSE {}]
    /\ turn = [n \in HybridNames |-> 0]
    /\ targets = [n \in HybridNames |-> 0]
    /\ failed = [n \in HybridNames |-> {}]
    /\ stalled = [n \in HybridNames |-> FALSE]
    /\ socket = [w \in HybridNames |-> [r \in HybridNames |-> <<>>]]
    /\ queued = [r \in HybridNames |-> <<>>]
    /\ got = [r \in HybridNames |-> [w \in HybridNames |-> <<>>]]

-----------------------------------------------------------------------------
(* The end of a process, and what its peers notice of it.                  *)

Departed(p) == driver[p] \notin Alive

\* What others have sent to n is lost; what n has sent can still be read.
Ends(n, how) ==
    /\ driver' = [driver EXCEPT ![n] = how]
    /\ queued' = [queued EXCEPT ![n] = <<>>]
    /\ socket' = [w \in HybridNames |-> [socket[w] EXCEPT ![n] = <<>>]]
    /\ turn' = [turn EXCEPT ![n] = 0]
    /\ stalled' = [stalled EXCEPT ![n] = FALSE]
    /\ UNCHANGED <<setting, burst, polled, published, outbound, targets, failed, inbound, got>>

\* The runner kills the child (a bound: one at most).
KillChild(n) ==
    /\ setting.kill /\ ~Departed(n)
    /\ \A p \in setting.names : driver[p] # "killed"
    /\ Ends(n, "killed")

-----------------------------------------------------------------------------
(* Reading in Single mode: poll_peer_set.                                  *)

Readable(n) == {w \in inbound[n] : socket[w][n] # <<>>}
AtEof(n) == {w \in inbound[n] : Departed(w) /\ socket[w][n] = <<>>}

\* One frame of w is taken.  Connections that are looked at before that one
\* and turn out to be closed are dropped.
TakeFrame(n, w) ==
    /\ w \in Readable(n)
    /\ socket' = [socket EXCEPT ![w][n] = Tail(@)]
    /\ \E D \in SUBSET AtEof(n) : inbound' = [inbound EXCEPT ![n] = @ \ D]

\* Nothing to read: all connections were looked at, the outbound ones, on
\* which nothing but their end can be read, as well.
DropClosed(n) ==
    /\ inbound' = [inbound EXCEPT ![n] = @ \ AtEof(n)]
    /\ outbound' = [outbound EXCEPT ![n] = Only(@, {p \in HybridNames : ~Departed(p)})]

-----------------------------------------------------------------------------
(* Publishing: broadcast_with_drain.                                       *)

StartBroadcast(n) ==
    /\ driver[n] = "operate" /\ turn[n] = 0 /\ burst[n] > 0
    /\ burst' = [burst EXCEPT ![n] = @ - 1]
    /\ published' = [published EXCEPT ![n] = @ + 1]
    /\ turn' = [turn EXCEPT ![n] = IF outbound[n] = <<>> THEN 0 ELSE 1]
    /\ targets' = [targets EXCEPT ![n] = Len(outbound[n])]
    /\ failed' = [failed EXCEPT ![n] = {}]
    /\ UNCHANGED <<setting, driver, polled, outbound, stalled, inbound, socket, queued, got>>

Writing(n) == turn[n] # 0 /\ ~stalled[n]
InBounds(n) == turn[n] <= Len(outbound[n])
Target(n) == outbound[n][turn[n]]

\* outbound without the positions in bad.
Survivors(n, bad) == AtPlaces(outbound[n], DOMAIN outbound[n] \ bad)

\* On to the next position, or the end of the call.
NextTarget(n, bad) ==
    IF turn[n] < targets[n]
    THEN /\ turn' = [turn EXCEPT ![n] = @ + 1]
         /\ failed' = [failed EXCEPT ![n] = bad]
         /\ UNCHANGED <<driver, outbound>>
    ELSE /\ turn' = [turn EXCEPT ![n] = 0]
         /\ failed' = [failed EXCEPT ![n] = {}]
         /\ outbound' = [outbound EXCEPT ![n] = Survivors(n, bad)]
         /\ driver' = IF bad # {} /\ Survivors(n, bad) = <<>> /\ inbound[n] = {}
                      THEN [driver EXCEPT ![n] = "failed"] ELSE driver

\* The socket takes the frame; that of a peer that has just left may.
WriteFrame(n) ==
    /\ Writing(n) /\ InBounds(n)
    /\ Departed(Target(n)) \/ Len(socket[n][Target(n)]) < SocketRoom
    /\ socket' = IF Departed(Target(n)) THEN socket
                 ELSE [socket EXCEPT ![n][Target(n)] = Append(@, published[n])]
    /\ NextTarget(n, failed[n])
    /\ UNCHANGED <<setting, burst, polled, published, targets, stalled, inbound, queued, got>>

\* Any other error than WouldBlock: the peer is dropped, at the end.
WriteFails(n) ==
    /\ Writing(n) /\ InBounds(n) /\ Departed(Target(n))
    /\ NextTarget(n, failed[n] \union {turn[n]})
    /\ UNCHANGED <<setting, burst, polled, published, targets, stalled, inbound, socket,
                   queued, got>>

\* WouldBlock.  In Multi mode nothing is done about it.
WouldBlock(n) ==
    /\ Inline /\ Writing(n) /\ InBounds(n)
    /\ ~Departed(Target(n)) /\ Len(socket[n][Target(n)]) >= SocketRoom
    /\ stalled' = [stalled EXCEPT ![n] = TRUE]
    /\ UNCHANGED <<setting, driverVars, outbound, turn, targets, failed, inbound, socket, queued,
                   got>>

\* Wrong on purpose: a blocked writer just waits.
DrainableNothing(n) == {}

Drainable(n) == Readable(n)

\* inline_drain_into_pending, frame by frame.
InlineDrain(n) ==
    /\ stalled[n]
    /\ \E w \in Drainable(n) :
        /\ TakeFrame(n, w)
        /\ queued' = [queued EXCEPT ![n] = Append(@, [from |-> w, seq |-> Head(socket[w][n])])]
    /\ UNCHANGED <<setting, driverVars, broadcastVars, got>>

\* It ends when there is nothing to read; 64 frames do not lie in the sockets.
EndInlineDrain(n) ==
    /\ stalled[n] /\ Drainable(n) = {}
    /\ DropClosed(n)
    /\ stalled' = [stalled EXCEPT ![n] = FALSE]
    /\ UNCHANGED <<setting, driverVars, turn, targets, failed, socket, queued, got>>

\* self.outbound[i] with i past the end.
Panic(n) ==
    /\ Writing(n) /\ ~InBounds(n)
    /\ Ends(n, "panicked")

-----------------------------------------------------------------------------
(* Reading in Multi mode: tcp_reader_loop and push_data_or_block.          *)

\* Wrong on purpose: the frame is dropped when the channel is full.
PushedOrDropped(r, f) ==
    queued' = IF Len(queued[r]) < ChannelRoom THEN [queued EXCEPT ![r] = Append(@, f)] ELSE queued

Pushed(r, f) ==
    /\ Len(queued[r]) < ChannelRoom
    /\ queued' = [queued EXCEPT ![r] = Append(@, f)]

ReaderPush(r, w) ==
    /\ Threaded /\ ~Departed(r) /\ socket[w][r] # <<>>
    /\ Pushed(r, [from |-> w, seq |-> Head(socket[w][r])])
    /\ socket' = [socket EXCEPT ![w][r] = Tail(@)]
    /\ UNCHANGED <<setting, driverVars, broadcastVars, inbound, got>>

-----------------------------------------------------------------------------
(* The driver: the drain at the end of a tick, and the silent phase.       *)

Draining(n) == driver[n] = "operate" /\ turn[n] = 0 /\ burst[n] = 0
Polling(n) == Draining(n) \/ driver[n] = "silent"

Receive(n, w, seq) ==
    /\ got' = [got EXCEPT ![n][w] = Append(@, seq)]
    /\ polled' = [polled EXCEPT ![n] = TRUE]
    /\ UNCHANGED <<setting, driver, burst, published, broadcastVars>>

\* Wrong on purpose: new frames before those of the inline drain.
QueueFirstNot(n) == queued[n] # <<>> /\ Readable(n) = {}

QueueFirst(n) == queued[n] # <<>>

\* pending_drained comes first; in Multi mode the channel is all there is.
PollQueued(n) ==
    /\ Polling(n) /\ queued[n] # <<>> /\ (Inline => QueueFirst(n))
    /\ Receive(n, Head(queued[n]).from, Head(queued[n]).seq)
    /\ queued' = [queued EXCEPT ![n] = Tail(@)]
    /\ UNCHANGED <<inbound, socket>>

PollSocket(n) ==
    /\ Inline /\ Polling(n) /\ ~QueueFirst(n)
    /\ \E w \in Readable(n) : TakeFrame(n, w) /\ Receive(n, w, Head(socket[w][n]))
    /\ UNCHANGED queued

\* The next tick, or the silent phase when there is none.
NextTick(n) ==
    /\ polled' = [polled EXCEPT ![n] = FALSE]
    /\ IF published[n] < setting.ticks * setting.values
       THEN burst' = [burst EXCEPT ![n] = setting.values] /\ UNCHANGED driver
       ELSE driver' = [driver EXCEPT ![n] = "silent"] /\ UNCHANGED burst

\* poll_receive returns None.
PollNothing(n) ==
    /\ Polling(n) /\ queued[n] = <<>> /\ (Inline => Readable(n) = {})
    /\ IF Inline THEN DropClosed(n) ELSE UNCHANGED <<inbound, outbound>>
    /\ IF Draining(n) THEN NextTick(n) ELSE UNCHANGED <<driver, burst, polled>>
    /\ UNCHANGED <<setting, published, turn, targets, failed, stalled, socket, queued, got>>

\* The drain has used up its time or its number of messages, at least one.
DrainBudgetSpent(n) ==
    /\ Draining(n) /\ polled[n]
    /\ NextTick(n)
    /\ UNCHANGED <<setting, published, broadcastVars, inbound, socket, queued, got>>

\* stop_reader_threads and disconnect.
LeaveSpawn(n) == setting.ends /\ driver[n] = "silent" /\ Ends(n, "left")

-----------------------------------------------------------------------------

DriverStep(n) ==
    \/ StartBroadcast(n) \/ WriteFrame(n) \/ WriteFails(n) \/ WouldBlock(n)
    \/ InlineDrain(n) \/ EndInlineDrain(n) \/ Panic(n)
    \/ PollQueued(n) \/ PollSocket(n) \/ PollNothing(n) \/ DrainBudgetSpent(n)
    \/ LeaveSpawn(n)

HybridNext ==
    \E n \in setting.names :
        \/ DriverStep(n)
        \/ \E p \in setting.names \ {n} : ReaderPush(n, p)
        \/ KillChild(n)

\* A driver that can go on does, and so does some reader thread as long as
\* one can.
HybridReaders == \E n, p \in setting.names : n # p /\ ReaderPush(n, p)

HybridDriver(n) == n \in setting.names /\ DriverStep(n)

HybridFairness ==
    /\ \A n \in HybridNames : WF_hybridVars(HybridDriver(n))
    /\ WF_hybridVars(HybridReaders)

HybridSpec == HybridInit /\ [][HybridNext]_hybridVars /\ HybridFairness
-----------------------------------------------------------------------------

\* What r has received of w, has read, or can still read.
Course(w, r) == got[r][w] \o SeqsFrom(queued[r], w) \o socket[w][r]

(* Back-pressure costs no message and changes no order, through the socket,
   the queue filled by a blocked writer or the channel filled by a thread:
   what a node has and will receive of another are its messages from the
   first one on, and all of them when it is not in the middle of one. *)
StreamsAreIntact ==
    \A r, w \in setting.names :
        r # w /\ ~Departed(r) =>
            /\ \A i \in 1..Len(Course(w, r)) : Course(w, r)[i] = i
            /\ ~Departed(w) /\ turn[w] = 0 => Len(Course(w, r)) = published[w]

\* The write of n waits for room that only a poll of p's driver can make: p's
\* socket and channel are full, and the thread between them waits as well.
WaitsForPoll(n, p) ==
    /\ Threaded /\ Writing(n) /\ InBounds(n) /\ Target(n) = p /\ ~Departed(p)
    /\ Len(socket[n][p]) >= SocketRoom /\ Len(queued[p]) >= ChannelRoom

\* Drivers whose writes wait for one another's polls: none of them gets to one.
Jammed ==
    \E S \in (SUBSET setting.names) \ {{}} :
        \A n \in S : \E p \in S : WaitsForPoll(n, p)

(* A publish that is waiting for room comes back, even if all nodes are
   writing to one another and all their buffers are full (hybrid.rs,
   try_publish: "safe without deadlocking under symmetric saturation"). *)
BroadcastReturns ==
    \A n \in HybridNames : turn[n] # 0 ~> turn[n] = 0

(* A peer that leaves or is killed takes nobody with it: a broadcast goes on
   with the survivors (tcp.rs, "Per-peer fault tolerance"). *)
SurvivorsGoOn ==
    \A n \in HybridNames : driver[n] # "panicked"

=============================================================================
