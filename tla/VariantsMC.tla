------------------------------ MODULE VariantsMC ------------------------------
(***************************************************************************)
(* The message paths of the variants in one state space: custom-udp at     *)
(* QoS 1 to 3 (ReliableUdp), websocket (WebSocket), hybrid at QoS 3 and 4  *)
(* (Hybrid) and at QoS 1 and 2 (HybridUdp), quic (Quic), webrtc (WebRtc),  *)
(* and zenoh in Multi mode (Zenoh) and in Single mode (ZenohRest); and     *)
(* what the child of any of them records (Recording).  They share no       *)
(* state.  "part" says which of them a behaviour is about; the others rest *)
(* in an initial state.                                                    *)
(***************************************************************************)
EXTENDS ReliableUdpMC, WebSocketMC, HybridMC, HybridUdp, Quic, WebRtc, Zenoh, ZenohRest,
        RecordingMC

-----------------------------------------------------------------------------
(* The spawns that are checked.                                            *)

Cast(mode, level, writers, absent, faults) ==
    [mode |-> mode, qos |-> level, writers |-> writers, absent |-> absent, faults |-> faults]

\* hybrid: one node writes, to one that reads, with a thread or without, or that
\* never comes up; a stray datagram in the group, a socket that breaks.
HybridCasts ==
    {Cast("single", 2, {1}, {}, {}), Cast("multi", 2, {1}, {}, {}),
     Cast("single", 1, {1}, {}, {"stray", "send"}), Cast("single", 1, {1}, {2}, {}),
     Cast("single", 1, {}, {}, {"stray", "recv"}), Cast("multi", 1, {}, {}, {"stray", "recv"})}

Transfer(names, writers, reliable, rounds, values, late, ends) ==
    [names |-> names, writers |-> writers, reliable |-> reliable, ticks |-> rounds,
     values |-> values, late |-> late, ends |-> ends]

\* quic: two nodes that write to each other, less than the six places between
\* them hold, and more; one that writes more than that, to one that may be late;
\* one that writes to two; datagrams.
QuicTransfers ==
    {Transfer({1, 2}, {1, 2}, TRUE, 1, 2, FALSE, TRUE),
     Transfer({1, 2}, {1, 2}, TRUE, 1, 7, FALSE, FALSE),
     Transfer({1, 2}, {2}, TRUE, 2, 4, TRUE, FALSE),
     Transfer({1, 2, 3}, {1}, TRUE, 1, 2, FALSE, FALSE),
     Transfer({1, 2}, {2}, FALSE, 1, 3, FALSE, TRUE)}

\* webrtc: both nodes write at QoS 4, or one of them, to a peer that may come too
\* late; one writes at QoS 2, or at QoS 1 where a node may be killed.
RtcCalls ==
    {[writers |-> {1, 2}, qos |-> 4, late |-> FALSE, dies |-> FALSE],
     [writers |-> {2}, qos |-> 3, late |-> TRUE, dies |-> FALSE],
     [writers |-> {1}, qos |-> 2, late |-> FALSE, dies |-> FALSE],
     [writers |-> {2}, qos |-> 1, late |-> FALSE, dies |-> TRUE]}

Burst(a, b, level, late, fails) ==
    [puts |-> <<a, b>>, qos |-> level, late |-> late, fails |-> fails]

\* zenoh: both nodes publish at QoS 4, one to a peer that may listen too late, one
\* with a publisher that cannot be declared; one publishes at QoS 1.
ZenohBursts ==
    {Burst(2, 2, 4, FALSE, FALSE), Burst(3, 0, 3, TRUE, TRUE), Burst(4, 0, 1, FALSE, FALSE)}

\* zenohd: PUTs stall; the stream stalls; a zenohd or a node dies.
RestRuns ==
    {[samples |-> 2, slowPuts |-> TRUE, slowStream |-> FALSE, dies |-> FALSE],
     [samples |-> 2, slowPuts |-> FALSE, slowStream |-> TRUE, dies |-> FALSE],
     [samples |-> 1, slowPuts |-> FALSE, slowStream |-> FALSE, dies |-> TRUE]}

-----------------------------------------------------------------------------
(* The composition.                                                        *)

VARIABLE part

variantsVars ==
    <<part, vars, wsVars, hybridVars, castVars, quicVars, rtcVars, zenVars, restVars, recVars>>

UdpRests == Init /\ qos = 1
WsRests == WsInit /\ spawn \in TrioSingle
HybridRests == HybridInit /\ setting.mode = "multi" /\ setting.kill
CastRests == CastInit /\ cast.absent # {}
QuicRests == QuicInit /\ ~quic.reliable
RtcRests == RtcInit /\ rtc.qos = 1
ZenohRests == ZenohInit /\ zen.qos = 1
ZenohRestRests == ZenohRestInit /\ rest.dies
RecordingRests == RecInit /\ work = Mixed

VariantsInit ==
    /\ part \in {"udp", "websocket", "hybrid", "hybrid-udp", "quic", "webrtc", "zenoh",
                "zenohd", "recording"}
    /\ IF part = "udp" THEN Init ELSE UdpRests
    /\ IF part = "websocket" THEN WsInit ELSE WsRests
    /\ IF part = "hybrid" THEN HybridInit ELSE HybridRests
    /\ IF part = "hybrid-udp" THEN CastInit ELSE CastRests
    /\ IF part = "quic" THEN QuicInit ELSE QuicRests
    /\ IF part = "webrtc" THEN RtcInit ELSE RtcRests
    /\ IF part = "zenoh" THEN ZenohInit ELSE ZenohRests
    /\ IF part = "zenohd" THEN ZenohRestInit ELSE ZenohRestRests
    /\ IF part = "recording" THEN RecInit ELSE RecordingRests

UdpPart ==
    /\ part = "udp" /\ Next
    /\ UNCHANGED <<part, wsVars, hybridVars, castVars, quicVars, rtcVars, zenVars,
                   restVars, recVars>>
WsPart ==
    /\ part = "websocket" /\ WsNext
    /\ UNCHANGED <<part, vars, hybridVars, castVars, quicVars, rtcVars, zenVars, restVars,
                   recVars>>
HybridPart ==
    /\ part = "hybrid" /\ HybridNext
    /\ UNCHANGED <<part, vars, wsVars, castVars, quicVars, rtcVars, zenVars, restVars, recVars>>
CastPart ==
    /\ part = "hybrid-udp" /\ CastNext
    /\ UNCHANGED <<part, vars, wsVars, hybridVars, quicVars, rtcVars, zenVars, restVars,
                   recVars>>
QuicPart ==
    /\ part = "quic" /\ QuicNext
    /\ UNCHANGED <<part, vars, wsVars, hybridVars, castVars, rtcVars, zenVars, restVars,
                   recVars>>
RtcPart ==
    /\ part = "webrtc" /\ RtcNext
    /\ UNCHANGED <<part, vars, wsVars, hybridVars, castVars, quicVars, zenVars, restVars,
                   recVars>>
ZenohPart ==
    /\ part = "zenoh" /\ ZenohNext
    /\ UNCHANGED <<part, vars, wsVars, hybridVars, castVars, quicVars, rtcVars, restVars,
                   recVars>>
ZenohdPart ==
    /\ part = "zenohd" /\ ZenohRestNext
    /\ UNCHANGED <<part, vars, wsVars, hybridVars, castVars, quicVars, rtcVars, zenVars,
                   recVars>>
RecordingPart ==
    /\ part = "recording" /\ RecNext
    /\ UNCHANGED <<part, vars, wsVars, hybridVars, castVars, quicVars, rtcVars, zenVars,
                   restVars>>

VariantsNext ==
    \/ UdpPart \/ WsPart \/ HybridPart \/ CastPart \/ QuicPart \/ RtcPart
    \/ ZenohPart \/ ZenohdPart \/ RecordingPart

\* The fairness of each module, where its part is the one that goes on; a child
\* that records may stop anywhere.
VariantsFairness ==
    /\ WF_wsVars(part = "websocket" /\ WsThreads)
    /\ \A n \in HybridNames : WF_hybridVars(part = "hybrid" /\ HybridDriver(n))
    /\ WF_hybridVars(part = "hybrid" /\ HybridReaders)
    /\ WF_castVars(part = "hybrid-udp" /\ CastNext)
    /\ WF_quicVars(part = "quic" /\ QuicNext)
    /\ WF_rtcVars(part = "webrtc" /\ RtcNext)
    /\ WF_zenVars(part = "zenoh" /\ ZenohNext)
    /\ WF_restVars(part = "zenohd" /\ ZenohRestNext)

VariantsSpec == VariantsInit /\ [][VariantsNext]_variantsVars /\ VariantsFairness

\* The types of the part that does not rest (the state described in its VARIABLES).
VariantsTypeOK ==
    CASE part = "udp" -> TypeOK
      [] part = "websocket" -> WsTypeOK
      [] part = "hybrid" -> HybridTypeOK
      [] part = "hybrid-udp" -> CastTypeOK
      [] part = "quic" -> QuicTypeOK
      [] part = "webrtc" -> WebRtcTypeOK
      [] part = "zenoh" -> ZenohTypeOK
      [] part = "zenohd" -> ZenohRestTypeOK
      [] part = "recording" -> RecordingTypeOK

(* At the QoS that promises it hybrid, quic, webrtc and zenoh lose, repeat and
   reorder no message, whichever of their queues, buffers and channels are full.
   Websocket repeats and reorders none and carries each to its reader; the reader
   logs it, unless it comes up in the drain of a blocked write of a Single-mode
   node with two or more peers, which throws it away (websocket.rs:627).  At QoS 2
   webrtc hands on the newest message of a path, and hybrid never goes back and
   passes over nothing that is not superseded (see the eight properties). *)
StreamsHold ==
    /\ NothingSkipped /\ StreamsAreIntact /\ ReliableStreamsHold
    /\ RtcStreamsHold /\ ZenohStreamsHold /\ RtcFreshest
    /\ CastNeverGoesBack /\ CastNothingVanishes

(* Of what a driver is told, these hold: quic never makes room for a datagram by
   throwing an older one out; the counter by which webrtc decides on a skip is
   exact; a message that zenoh or hybrid skips is on no way to the peer; and a PUT
   that returned Ok was taken.  That a webrtc message at QoS 1 or 2 is on its way
   when the driver is told Ok is not among them: a full queue drops it. *)
HonestBackPressure ==
    /\ NothingEvicted /\ InflightIsExact /\ ZenohSkipsAreHonest /\ PutsAreHonest
    /\ CastSkipsAreHonest

(* A websocket driver that waits for room goes on, however full the buffers of
   its peers are, and so does one of hybrid, but for one case: in Multi mode
   drivers wait for ever if they all write to one another and each socket and
   each channel between them is full (Jammed).  So no drain that stops too early
   and no thread that does not push holds anybody, and messages that fit into a
   socket and a channel never do.  A node writes a bounded number of times, so
   every wait ends if there comes a time after which nobody waits. *)
Waits(n) ==
    \/ part = "websocket" /\ sending[n] # NoPeer
    \/ part = "hybrid" /\ turn[n] # 0
EveryWaitEnds ==
    <>[](\A n \in WsNames \union HybridNames : Waits(n) => part = "hybrid" /\ Jammed)

(* Where nodes have to find one another first, the order in which they come up
   is no reason to wait for ever: all get to publish, or give up on a peer that
   is not there, and none goes back. *)
EveryoneStarts ==
    <>[](/\ part = "websocket" => EveryoneConnected
         /\ part = "webrtc" => RtcConnected)

(* All nodes get through a spawn of hybrid's datagrams, quic, webrtc or zenoh for good:
   they find one another or give up, publishes that wait for room return, the end
   of a spawn waits for nobody for ever, and no zenohd is left behind.  Only the
   drivers of quic may stop one another for ever, and only when both publish with
   each of the places between them full, in both directions (Clogged). *)
DriversGetThrough ==
    <>[](/\ part = "hybrid-udp" => CastEnded
         /\ part = "quic" => QuicSpawnEnded \/ Clogged
         /\ part = "webrtc" => RtcSpawnEnded
         /\ part = "zenoh" => ZenohSpawnEnded
         /\ part = "zenohd" => ZenohRestEnded)
=============================================================================
