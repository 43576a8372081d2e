-------------------------------- MODULE Quic --------------------------------
(***************************************************************************)
(* The quic variant (variants/quic/src/quic.rs).  Every node dials every   *)
(* other one and sends only on the connections it has dialled: at QoS 3    *)
(* and 4 on one stream per connection, at QoS 1 and 2 as datagrams.        *)
(*                                                                         *)
(* A reliable message passes through bounded places in a row: the channel  *)
(* to the send loop, the send buffer of the stream, the receive window of  *)
(* the peer, the hands of the peer's reader task, the inbound channel and  *)
(* the deque from which the driver polls.  Each waits for the next, so     *)
(* that a full one delays the writer and costs no message.  At the end of  *)
(* a spawn disconnect empties them in the same order.                      *)
(*                                                                         *)
(* quinn is not in the repository.  What is assumed of it: a stream keeps  *)
(* order and loses nothing while both ends live, its end is acknowledged   *)
(* when the receive window has taken all that was written, and what has    *)
(* reached the receive window can be read after the writer has gone.  The  *)
(* order of datagrams is left as it is: no property depends on it.         *)
(*                                                                         *)
(* A definition under the heading "Wrong on purpose" is the next one with  *)
(* a plausible bug; nothing uses it.                                       *)
(***************************************************************************)
EXTENDS Integers, Sequences, FiniteSets, Selection

CONSTANTS
    QuicNames,     \* the nodes; numbers, in the order of the configuration
    QuicSpawns,    \* the spawns of interest:
                   \* [names, writers, reliable, ticks, values, late, ends];
                   \* that not all nodes write, or that none ends, is a bound
    MaxIssued,     \* bound: messages a node publishes, at most
    QueueRoom,     \* RELIABLE_SEND_CHANNEL_BOUND
    SendRoom,      \* frames in the send buffer of a stream, or datagrams in that
                   \* of a connection
    WindowRoom,    \* frames in STREAM_RECEIVE_WINDOW_BYTES
    InboundRoom,   \* INBOUND_CHANNEL_BOUND
    PendingCap     \* PENDING_DATA_CAP

ASSUME QuicNamesAssumption == QuicNames \subseteq Nat \ {0} /\ IsFiniteSet(QuicNames)
ASSUME QuicSpawnsAssumption ==
    \A s \in QuicSpawns :
        /\ s.names \subseteq QuicNames /\ s.writers \subseteq s.names
        /\ {s.reliable, s.late, s.ends} \subseteq BOOLEAN
        /\ s.values \in Nat \ {0} /\ s.ticks \in Nat \ {0} /\ s.ticks * s.values <= MaxIssued
ASSUME QuicBoundAssumption ==
    {MaxIssued, QueueRoom, SendRoom, WindowRoom, InboundRoom, PendingCap} \subseteq Nat \ {0}

VARIABLES
    quic,       \* nodes, kind, ticks and values per tick; whether a node may come up
                \* too late to be dialled, and whether the silent phase ends
    life,       \* life[n]: how far the process is
    dialled,    \* peers it has tried to connect to
    conns,      \* conns[n]: self.connections, in the order of the peers
    pause,      \* "publish", or "drain" once the values of the tick are published
    issued,     \* messages the driver has published
    hasPolled,  \* the drain of this tick has received something
    sendQueue,  \* the channel to the send loop
    frame,      \* the message the send loop is writing, or 0
    slot,       \* the connection it is at
    unsent,     \* unsent[w][r]: frames in w's send buffer
    unread,     \* unread[w][r]: frames in r's receive window
    hand,       \* hand[r][w]: the frame a reader task waits to push, or 0
    channel,    \* channel[r]: the inbound channel, [from, seq]
    pending,    \* pending[r]: pending_data
    seen,       \* seen[r][w]: messages of w the driver of r has received
    cut,        \* cut[n]: peers that did not acknowledge the end of the stream
    evicted     \* datagrams thrown out to make room (history)

quicDriverVars == <<life, pause, issued, hasPolled>>
loopVars == <<frame, slot, cut>>
intakeVars == <<hand, channel, pending, seen>>
quicVars == <<quic, dialled, conns, quicDriverVars, sendQueue, loopVars, unsent, unread,
              intakeVars, evicted>>

Issues == 1..MaxIssued
Inbound == [from : QuicNames, seq : Issues]
Up == {"dialling", "operate", "silent", "draining", "finishing"}

QuicTypeOK ==
    /\ quic \in QuicSpawns
    /\ life \in [QuicNames -> Up \union {"down", "left"}]
    /\ pause \in [QuicNames -> {"publish", "drain"}]
    /\ issued \in [QuicNames -> 0..MaxIssued] /\ hasPolled \in [QuicNames -> BOOLEAN]
    /\ \A n \in QuicNames :
        /\ dialled[n] \subseteq QuicNames /\ conns[n] \in Seq(QuicNames)
        /\ sendQueue[n] \in Seq(Issues) /\ Len(sendQueue[n]) <= QueueRoom
        /\ channel[n] \in Seq(Inbound) /\ Len(channel[n]) <= InboundRoom
        /\ pending[n] \in Seq(Inbound) /\ Len(pending[n]) <= PendingCap
        /\ cut[n] \subseteq QuicNames
        /\ \A p \in QuicNames :
            /\ unsent[n][p] \in Seq(Issues) /\ Len(unsent[n][p]) <= SendRoom
            /\ unread[n][p] \in Seq(Issues) /\ Len(unread[n][p]) <= WindowRoom
            /\ hand[n][p] \in Issues \union {0} /\ seen[n][p] \in Seq(Issues)
    /\ frame \in [QuicNames -> Issues \union {0}]
    /\ slot \in [QuicNames -> 1..Cardinality(QuicNames) + 1]
    /\ evicted \subseteq QuicNames \X QuicNames \X Issues

QuicInit ==
    /\ quic \in QuicSpawns
    /\ life = [n \in QuicNames |-> IF quic.late THEN "down" ELSE "dialling"]
    /\ dialled = [n \in QuicNames |-> {}] /\ conns = [n \in QuicNames |-> <<>>]
    /\ pause = [n \in QuicNames |-> "publish"]
    /\ issued = [n \in QuicNames |-> 0] /\ hasPolled = [n \in QuicNames |-> FALSE]
    /\ sendQueue = [n \in QuicNames |-> <<>>]
    /\ frame = [n \in QuicNames |-> 0] /\ slot = [n \in QuicNames |-> 1]
    /\ unsent = [w \in QuicNames |-> [r \in QuicNames |-> <<>>]] /\ unread = unsent
    /\ hand = [r \in QuicNames |-> [w \in QuicNames |-> 0]]
    /\ channel = [r \in QuicNames |-> <<>>] /\ pending = channel
    /\ seen = [r \in QuicNames |-> [w \in QuicNames |-> <<>>]]
    /\ cut = [n \in QuicNames |-> {}]
    /\ evicted = {}

-----------------------------------------------------------------------------
(* connect: the endpoint is bound, then the peers are dialled in turn.  A   *)
(* peer that does not answer in time is left out, with a warning.          *)

Others(n) == quic.names \ {n}
Undialled(n) == Others(n) \ dialled[n]
NextPeer(n) == CHOOSE p \in Undialled(n) : \A q \in Undialled(n) : p <= q

BindEndpoint(n) ==
    /\ life[n] = "down"
    /\ life' = [life EXCEPT ![n] = "dialling"]
    /\ UNCHANGED <<quic, dialled, conns, pause, issued, hasPolled, sendQueue, loopVars, unsent,
                   unread, intakeVars, evicted>>

Dialled(n, cs) ==
    /\ dialled' = [dialled EXCEPT ![n] = @ \union {NextPeer(n)}]
    /\ conns' = [conns EXCEPT ![n] = cs]
    /\ UNCHANGED <<quic, quicDriverVars, sendQueue, loopVars, unsent, unread, intakeVars,
                   evicted>>

Dial(n) ==
    /\ life[n] = "dialling" /\ Undialled(n) # {} /\ life[NextPeer(n)] \in Up
    /\ Dialled(n, Append(conns[n], NextPeer(n)))

DialFails(n) ==
    /\ life[n] = "dialling" /\ Undialled(n) # {} /\ life[NextPeer(n)] \notin Up
    /\ Dialled(n, conns[n])

EndConnect(n) ==
    /\ life[n] = "dialling" /\ Undialled(n) = {}
    /\ life' = [life EXCEPT ![n] = IF n \in quic.writers THEN "operate" ELSE "silent"]
    /\ UNCHANGED <<quic, dialled, conns, pause, issued, hasPolled, sendQueue, loopVars, unsent,
                   unread, intakeVars, evicted>>

-----------------------------------------------------------------------------
(* try_publish and publish.                                                *)

Issue(n) ==
    /\ life[n] = "operate" /\ pause[n] = "publish"
    /\ issued' = [issued EXCEPT ![n] = @ + 1]
    /\ pause' = [pause EXCEPT ![n] =
                     IF (issued[n] + 1) % quic.values = 0 THEN "drain" ELSE "publish"]
    /\ UNCHANGED <<quic, life, dialled, conns, hasPolled, loopVars, unread, intakeVars>>

\* blocking_send waits for room.
PublishReliable(n) ==
    /\ quic.reliable /\ Len(sendQueue[n]) < QueueRoom
    /\ Issue(n)
    /\ sendQueue' = [sendQueue EXCEPT ![n] = Append(@, issued[n] + 1)]
    /\ UNCHANGED <<unsent, evicted>>

Connected(n) == {conns[n][i] : i \in DOMAIN conns[n]}

\* Wrong on purpose: the room is not looked at.
RoomyAlways(n) == Connected(n)

\* The connections with datagram_send_buffer_space for it.  When there is none,
\* the driver is told to skip the message.
Roomy(n) == {p \in Connected(n) : Len(unsent[n][p]) < SendRoom}

\* A connection may also refuse the datagram (TooLarge, ConnectionLost); one
\* without room throws its oldest out.
PublishDatagram(n) ==
    /\ ~quic.reliable
    /\ Issue(n)
    /\ \E taken \in SUBSET Roomy(n) :
        LET full == {p \in taken : Len(unsent[n][p]) = SendRoom}
        IN  /\ unsent' = [unsent EXCEPT ![n] = [p \in QuicNames |->
                  IF p \notin taken THEN @[p]
                  ELSE Append(IF p \in full THEN Tail(@[p]) ELSE @[p], issued[n] + 1)]]
            /\ evicted' = evicted \union {<<n, p, Head(unsent[n][p])>> : p \in full}
    /\ UNCHANGED sendQueue

-----------------------------------------------------------------------------
(* send_loop and send_reliable_frame, and the shutdown in disconnect.      *)

Here(n) == conns[n][slot[n]]
LastSlot(n) == slot[n] = Len(conns[n])

Forwarding(n) == life[n] \in Up \ {"finishing"}

TakeMessage(n) ==
    /\ Forwarding(n) /\ frame[n] = 0 /\ sendQueue[n] # <<>>
    /\ sendQueue' = [sendQueue EXCEPT ![n] = Tail(@)]
    /\ frame' = [frame EXCEPT ![n] = IF conns[n] = <<>> THEN 0 ELSE Head(sendQueue[n])]
    /\ UNCHANGED <<quic, dialled, conns, quicDriverVars, slot, cut, unsent, unread, intakeVars,
                   evicted>>

\* write_all waits for room; on a connection that is lost it fails and the
\* message is not sent there.
WriteStream(n) ==
    /\ Forwarding(n) /\ frame[n] # 0
    /\ IF life[Here(n)] = "left" THEN UNCHANGED unsent
       ELSE /\ Len(unsent[n][Here(n)]) < SendRoom
            /\ unsent' = [unsent EXCEPT ![n][Here(n)] = Append(@, frame[n])]
    /\ slot' = [slot EXCEPT ![n] = IF LastSlot(n) THEN 1 ELSE @ + 1]
    /\ frame' = [frame EXCEPT ![n] = IF LastSlot(n) THEN 0 ELSE @]
    /\ UNCHANGED <<quic, dialled, conns, quicDriverVars, sendQueue, cut, unread, intakeVars,
                   evicted>>

\* Wrong on purpose: disconnect does not wait for the send loop.
SendLoopDoneAtOnce(n) == TRUE

\* The channel is closed and all it held is written.
SendLoopDone(n) == sendQueue[n] = <<>> /\ frame[n] = 0

FinishStreams(n) ==
    /\ life[n] = "draining" /\ SendLoopDone(n)
    /\ life' = [life EXCEPT ![n] = "finishing"]
    /\ UNCHANGED <<quic, dialled, conns, pause, issued, hasPolled, sendQueue, loopVars, unsent,
                   unread, intakeVars, evicted>>

\* stopped() of one stream after the other.  It returns when the peer has taken
\* all of it or is gone, or after RELIABLE_STREAM_DRAIN_TIMEOUT.
AwaitStopped(n) ==
    /\ life[n] = "finishing" /\ slot[n] <= Len(conns[n])
    /\ slot' = [slot EXCEPT ![n] = @ + 1]
    /\ cut' = [cut EXCEPT ![n] =
                   IF unsent[n][Here(n)] = <<>> THEN @ ELSE @ \union {Here(n)}]
    /\ UNCHANGED <<quic, dialled, conns, quicDriverVars, sendQueue, frame, unsent, unread,
                   intakeVars, evicted>>

\* The runtime is shut down: what has not left n, and what it has not polled,
\* is lost.
Leave(n) ==
    /\ life[n] = "finishing" /\ slot[n] > Len(conns[n])
    /\ life' = [life EXCEPT ![n] = "left"]
    /\ unsent' = [w \in QuicNames |-> IF w = n THEN [r \in QuicNames |-> <<>>]
                                      ELSE [unsent[w] EXCEPT ![n] = <<>>]]
    /\ unread' = [w \in QuicNames |-> [unread[w] EXCEPT ![n] = <<>>]]
    /\ hand' = [hand EXCEPT ![n] = [w \in QuicNames |-> 0]]
    /\ channel' = [channel EXCEPT ![n] = <<>>]
    /\ pending' = [pending EXCEPT ![n] = <<>>]
    /\ UNCHANGED <<quic, dialled, conns, pause, issued, hasPolled, sendQueue, loopVars, seen,
                   evicted>>

-----------------------------------------------------------------------------
(* The way to the peer, and handle_connection there.                       *)

\* Frames wait for the window to open; a datagram may get lost.
Transmit(w, r) ==
    /\ unsent[w][r] # <<>>
    /\ unsent' = [unsent EXCEPT ![w][r] = Tail(@)]
    /\ \/ /\ Len(unread[w][r]) < WindowRoom
          /\ unread' = [unread EXCEPT ![w][r] = Append(@, Head(unsent[w][r]))]
       \/ ~quic.reliable /\ UNCHANGED unread
    /\ UNCHANGED <<quic, dialled, conns, quicDriverVars, sendQueue, loopVars, intakeVars,
                   evicted>>

ReadReliableStream(r, w) ==
    /\ unread[w][r] # <<>> /\ hand[r][w] = 0
    /\ unread' = [unread EXCEPT ![w][r] = Tail(@)]
    /\ hand' = [hand EXCEPT ![r][w] = Head(unread[w][r])]
    /\ UNCHANGED <<quic, dialled, conns, quicDriverVars, sendQueue, loopVars, unsent, channel,
                   pending, seen, evicted>>

\* Wrong on purpose: a full channel costs the frame (try_send).
ForwardedOrDropped(r, f) ==
    channel' = IF Len(channel[r]) < InboundRoom THEN [channel EXCEPT ![r] = Append(@, f)]
               ELSE channel

\* tx.send(..).await.
Forwarded(r, f) ==
    /\ Len(channel[r]) < InboundRoom
    /\ channel' = [channel EXCEPT ![r] = Append(@, f)]

DispatchDecoded(r, w) ==
    /\ hand[r][w] # 0
    /\ Forwarded(r, [from |-> w, seq |-> hand[r][w]])
    /\ hand' = [hand EXCEPT ![r][w] = 0]
    /\ UNCHANGED <<quic, dialled, conns, quicDriverVars, sendQueue, loopVars, unsent, unread,
                   pending, seen, evicted>>

-----------------------------------------------------------------------------
(* The driver: poll_receive, the drain of a tick and the silent phase.     *)

InDrain(n) == life[n] = "operate" /\ pause[n] = "drain"

\* Wrong on purpose: one less than there is room for.
HeadroomLess(n) == PendingCap - 1 - Len(pending[n])

Headroom(n) == PendingCap - Len(pending[n])

Pumped(n) == IF Headroom(n) < Len(channel[n]) THEN Headroom(n) ELSE Len(channel[n])

\* pump_inbound, and then the oldest of pending_data.
Staged(n) == pending[n] \o SubSeq(channel[n], 1, Pumped(n))

PollReceive(n) ==
    /\ InDrain(n) \/ life[n] = "silent"
    /\ Staged(n) # <<>>
    /\ channel' = [channel EXCEPT ![n] = SubSeq(@, Pumped(n) + 1, Len(@))]
    /\ pending' = [pending EXCEPT ![n] = Tail(Staged(n))]
    /\ seen' = [seen EXCEPT ![n][Head(Staged(n)).from] = Append(@, Head(Staged(n)).seq)]
    /\ hasPolled' = [hasPolled EXCEPT ![n] = TRUE]
    /\ UNCHANGED <<quic, dialled, conns, life, pause, issued, sendQueue, loopVars, unsent, unread,
                   hand, evicted>>

\* The drain ends when there is nothing to poll, or when it has used up its
\* time or its number of messages, at least one.
EndDrain(n) ==
    /\ InDrain(n) /\ (Staged(n) = <<>> \/ hasPolled[n])
    /\ hasPolled' = [hasPolled EXCEPT ![n] = FALSE]
    /\ IF issued[n] < quic.ticks * quic.values
       THEN pause' = [pause EXCEPT ![n] = "publish"] /\ UNCHANGED life
       ELSE life' = [life EXCEPT ![n] = "silent"] /\ UNCHANGED pause
    /\ UNCHANGED <<quic, dialled, conns, issued, sendQueue, loopVars, unsent, unread, intakeVars,
                   evicted>>

\* disconnect drops send_tx.
EndSilent(n) ==
    /\ quic.ends /\ life[n] = "silent"
    /\ life' = [life EXCEPT ![n] = "draining"]
    /\ UNCHANGED <<quic, dialled, conns, pause, issued, hasPolled, sendQueue, loopVars, unsent,
                   unread, intakeVars, evicted>>

-----------------------------------------------------------------------------

QuicDriver(n) ==
    \/ BindEndpoint(n) \/ Dial(n) \/ DialFails(n) \/ EndConnect(n)
    \/ PublishReliable(n) \/ PublishDatagram(n)
    \/ PollReceive(n) \/ EndDrain(n) \/ EndSilent(n)
    \/ FinishStreams(n) \/ AwaitStopped(n) \/ Leave(n)

\* The tasks of the runtimes, and quinn.
QuicTasks ==
    \/ \E n \in quic.names : TakeMessage(n) \/ WriteStream(n)
    \/ \E w, r \in quic.names : Transmit(w, r) \/ ReadReliableStream(r, w) \/ DispatchDecoded(r, w)

QuicNext == (\E n \in quic.names : QuicDriver(n)) \/ QuicTasks

\* Some driver or task takes a step as long as one can.
QuicFairness == WF_quicVars(QuicNext)

QuicSpec == QuicInit /\ [][QuicNext]_quicVars /\ QuicFairness

-----------------------------------------------------------------------------
(* Properties.                                                             *)

InHand(i) == IF i = 0 THEN <<>> ELSE <<i>>

\* What r has received of w and what is on its way there.
Arriving(w, r) == seen[r][w] \o SeqsFrom(pending[r] \o channel[r], w) \o InHand(hand[r][w])
                  \o unread[w][r] \o unsent[w][r]

\* What the send loop of w has still to write to r.
Unwritten(w, r) ==
    (IF frame[w] # 0 /\ \E i \in DOMAIN conns[w] : conns[w][i] = r /\ i >= slot[w]
     THEN <<frame[w]>> ELSE <<>>) \o sendQueue[w]

Counting(s) == \A i \in DOMAIN s : s[i] = i

(* At QoS 3 and 4 no bound between two drivers costs a message or changes the
   order, whichever of them is full and whoever is dialled late; and a node
   that leaves has handed over everything, except to a peer that did not take
   the end of the stream in time (quic.rs, "Drain order"). *)
ReliableStreamsHold ==
    quic.reliable =>
        \A w, r \in quic.names :
            w # r /\ r \in Connected(w) /\ life[r] # "left" =>
                /\ Counting(Arriving(w, r))
                /\ life[w] # "left" => Len(Arriving(w, r) \o Unwritten(w, r)) = issued[w]
                /\ life[w] = "left" /\ w \in quic.writers /\ r \notin cut[w] =>
                       Len(Arriving(w, r)) = quic.ticks * quic.values

(* A datagram never pushes out an older one: the driver hears of the lack of
   room and no receiver finds a gap it was not told of (quic.rs, "try_publish"). *)
NothingEvicted == evicted = {}

\* The driver of w waits in blocking_send, and everything from there to the
\* driver of r is full: the channel to the send loop, its hands, the two ends of
\* the stream, the hands of the reader task and the inbound channel.
WaitsForPump(w, r) ==
    /\ quic.reliable /\ life[w] = "operate" /\ pause[w] = "publish" /\ life[r] # "left"
    /\ Len(sendQueue[w]) = QueueRoom
    /\ frame[w] # 0 /\ Here(w) = r
    /\ Len(unsent[w][r]) = SendRoom /\ Len(unread[w][r]) = WindowRoom
    /\ hand[r][w] # 0 /\ Len(channel[r]) = InboundRoom

\* Drivers that wait for one another to pump: none of them gets to it.
Clogged ==
    \E S \in (SUBSET quic.names) \ {{}} :
        \A w \in S : \E r \in S : WaitsForPump(w, r)

(* Every node gets through its spawn: publishes that wait for room return, however
   many places are full, and the end of the spawn waits for nobody for ever.
   (Where two drivers write to each other it may fail: see Clogged.) *)
QuicSpawnEnded ==
    \A n \in quic.names : life[n] = IF quic.ends THEN "left" ELSE "silent"
QuicSpawnsEnd == <>QuicSpawnEnded
=============================================================================
