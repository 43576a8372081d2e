------------------------------ MODULE WebRtc ------------------------------
(***************************************************************************)
(* The webrtc variant (variants/webrtc/src).  A spawn has two nodes.  The  *)
(* one with the lower name calls the other one's signalling socket, and    *)
(* they exchange descriptions and ICE candidates until both have said that *)
(* they are done.  When the four channels are open each node writes at one *)
(* QoS: through a bounded queue, the send loop and the buffer of SCTP to   *)
(* the callback on the other side, which passes on all it gets but stale   *)
(* messages of QoS 2.                                                      *)
(*                                                                         *)
(* webrtc-rs is not in the repository.  What is assumed of it: channels    *)
(* open once both descriptions are set and one side knows a candidate of   *)
(* the other; a candidate that comes before the remote description is      *)
(* refused; a reliable channel keeps order and loses nothing while both    *)
(* ends live; dc.send waits for room in the buffer.  Envelopes of the     *)
(* signalling socket are taken whole.                                      *)
(*                                                                         *)
(* A definition under the heading "Wrong on purpose" is the next one with  *)
(* a plausible bug; nothing uses it.                                       *)
(***************************************************************************)
EXTENDS Integers, Sequences, FiniteSets, SequencesExt

CONSTANTS
    RtcSpawns,     \* the spawns of interest: [writers, qos, late, dies]
    MaxWritten,    \* bound: messages of a writer
    Candidates,    \* bound: ICE candidates a node discovers
    OutboxRoom,    \* RELIABLE_CHANNEL_CAPACITY and UNRELIABLE_CHANNEL_CAPACITY
    Threshold,     \* messages in BACKPRESSURE_BYTES_THRESHOLD
    SctpRoom,      \* messages in the outbound buffer of SCTP
    NumPaths       \* bound: paths, written in turn

RtcNodes == {1, 2}
Initiator == 1
Responder == 2
Peer(n) == 3 - n

ASSUME RtcSpawnsAssumption ==
    \A s \in RtcSpawns :
        s.writers \subseteq RtcNodes /\ s.qos \in 1..4 /\ {s.late, s.dies} \subseteq BOOLEAN
ASSUME RtcBoundAssumption ==
    /\ {OutboxRoom, SctpRoom, NumPaths, MaxWritten, Candidates} \subseteq Nat \ {0}
    /\ Threshold \in Nat

VARIABLES
    rtc,           \* who writes, the QoS, whether a node may come up too late, and
                   \* whether one may be killed before it is connected
    rtcStage,      \* rtcStage[n]: how far the process is
    signals,       \* signals[n]: signalling frames on the way to n
    undiscovered,  \* candidates ICE has yet to find, once the local description is set
    local,         \* local_cand_rx: candidates to be sent
    known,         \* candidates of the peer that were added
    sdp,           \* sdp_exchanged
    doneSent,      \* local_done_sent
    doneSeen,      \* remote_done_seen
    written,       \* messages the driver has tried to publish
    outbox,        \* outbox[n]: the queue to the send loop
    sent,          \* the message in dc.send, or 0
    inflight,      \* the in-flight counter, in messages
    sctp,          \* sctp[n]: the outbound buffer of n's channel
    reached,       \* messages that have reached n's callback (history)
    latest,        \* latest[n]: latest_value, per path
    inbox,         \* recv_rx and pending_data
    received,      \* received[n]: messages n's driver has received
    given          \* given[n]: a deadline of disconnect has passed

signalVars == <<signals, undiscovered, local, known, sdp, doneSent, doneSeen>>
sendVars == <<written, outbox, sent, inflight>>
rtcIntakeVars == <<reached, latest, inbox, received>>
rtcVars == <<rtc, rtcStage, signalVars, sendVars, sctp, rtcIntakeVars, given>>

Written == 1..MaxWritten
Reliable == rtc.qos \in {3, 4}
PathOfMsg(m) == m % NumPaths
Envelopes == {"offer", "answer", "candidate", "done"}
Stages == {"down", "reaching", "signalling", "opening", "operate", "silent", "stopping",
           "flushing", "left", "failed"}

WebRtcTypeOK ==
    /\ rtc \in RtcSpawns
    /\ rtcStage \in [RtcNodes -> Stages]
    /\ signals \in [RtcNodes -> Seq(Envelopes)]
    /\ {undiscovered[n] : n \in RtcNodes} \union {local[n] : n \in RtcNodes}
           \union {known[n] : n \in RtcNodes} \subseteq 0..Candidates
    /\ {sdp, doneSent, doneSeen, given} \subseteq [RtcNodes -> BOOLEAN]
    /\ written \in [RtcNodes -> 0..MaxWritten]
    /\ sent \in [RtcNodes -> 0..MaxWritten]
    /\ inflight \in [RtcNodes -> 0..MaxWritten]
    /\ latest \in [RtcNodes -> [0..NumPaths - 1 -> 0..MaxWritten]]
    /\ reached \in [RtcNodes -> SUBSET Written]
    /\ \A n \in RtcNodes :
        /\ outbox[n] \in Seq(Written) /\ Len(outbox[n]) <= OutboxRoom
        /\ sctp[n] \in Seq(Written) /\ Len(sctp[n]) <= SctpRoom
        /\ inbox[n] \in Seq(Written) /\ received[n] \in Seq(Written)

RtcInit ==
    /\ rtc \in RtcSpawns
    /\ rtcStage = [n \in RtcNodes |-> IF rtc.late THEN "down" ELSE "reaching"]
    /\ signals = [n \in RtcNodes |-> <<>>]
    /\ undiscovered = [n \in RtcNodes |-> Candidates]
    /\ local = [n \in RtcNodes |-> 0] /\ known = [n \in RtcNodes |-> 0]
    /\ sdp = [n \in RtcNodes |-> FALSE] /\ doneSent = sdp /\ doneSeen = sdp /\ given = sdp
    /\ written = [n \in RtcNodes |-> 0] /\ sent = written /\ inflight = written
    /\ outbox = [n \in RtcNodes |-> <<>>] /\ sctp = outbox
    /\ inbox = outbox /\ received = outbox
    /\ reached = [n \in RtcNodes |-> {}]
    /\ latest = [n \in RtcNodes |-> [p \in 0..NumPaths - 1 |-> 0]]

-----------------------------------------------------------------------------
(* run_signaling: the call.                                                *)

AfterStage(n, s) ==
    /\ rtcStage' = [rtcStage EXCEPT ![n] = s]
    /\ UNCHANGED <<rtc, sendVars, sctp, rtcIntakeVars, given>>

ComeUp(n) ==
    /\ rtcStage[n] = "down"
    /\ AfterStage(n, "reaching")
    /\ UNCHANGED signalVars

\* The initiator retries until the responder listens; then it writes its offer.
Call ==
    /\ rtcStage[Initiator] = "reaching" /\ rtcStage[Responder] = "reaching"
    /\ AfterStage(Initiator, "signalling")
    /\ signals' = [signals EXCEPT ![Responder] = Append(@, "offer")]
    /\ UNCHANGED <<undiscovered, local, known, sdp, doneSent, doneSeen>>

AcceptCall ==
    /\ rtcStage[Responder] = "reaching" /\ rtcStage[Initiator] = "signalling"
    /\ AfterStage(Responder, "signalling")
    /\ UNCHANGED signalVars

\* SIGNALING_CONNECT_TIMEOUT, or that of accept: the other one is not there.
NobodyThere(n) ==
    /\ rtcStage[n] = "reaching" /\ rtcStage[Peer(n)] \in {"down", "failed"}
    /\ AfterStage(n, "failed")
    /\ UNCHANGED signalVars

-----------------------------------------------------------------------------
(* drive_signaling.                                                        *)

InLoop(n) ==
    rtcStage[n] = "signalling" /\ ~(doneSeen[n] /\ doneSent[n] /\ sdp[n])

\* set_local_description starts the search: the initiator's before its offer,
\* the responder's with its answer.
Searching(n) == rtcStage[n] = "signalling" /\ (n = Initiator \/ sdp[n])

Discover(n) ==
    /\ Searching(n) /\ undiscovered[n] > 0
    /\ undiscovered' = [undiscovered EXCEPT ![n] = @ - 1]
    /\ local' = [local EXCEPT ![n] = @ + 1]
    /\ UNCHANGED <<rtc, rtcStage, signals, known, sdp, doneSent, doneSeen, sendVars, sctp,
                   rtcIntakeVars, given>>

\* select! is biased: the socket is read when no local candidate waits.
ForwardCandidate(n) ==
    /\ InLoop(n) /\ local[n] > 0
    /\ local' = [local EXCEPT ![n] = @ - 1]
    /\ signals' = [signals EXCEPT ![Peer(n)] = Append(@, "candidate")]
    /\ UNCHANGED <<rtc, rtcStage, undiscovered, known, sdp, doneSent, doneSeen, sendVars, sctp,
                   rtcIntakeVars, given>>

\* What is written in reply to a frame.
Answered(n, f) ==
    CASE f = "offer" -> <<"answer">>
      [] f = "done" -> IF sdp[n] /\ ~doneSent[n] THEN <<"done">> ELSE <<>>
      [] OTHER -> <<>>

ReadEnvelope(n) ==
    /\ InLoop(n) /\ local[n] = 0 /\ signals[n] # <<>>
    /\ LET f == Head(signals[n])
       IN  /\ signals' = [signals EXCEPT ![n] = Tail(@), ![Peer(n)] = @ \o Answered(n, f)]
           /\ sdp' = [sdp EXCEPT ![n] = @ \/ f \in {"offer", "answer"}]
           /\ known' = [known EXCEPT ![n] = IF f = "candidate" /\ sdp[n] THEN @ + 1 ELSE @]
           /\ doneSeen' = [doneSeen EXCEPT ![n] = @ \/ f = "done"]
           /\ doneSent' = [doneSent EXCEPT ![n] = @ \/ "done" \in Range(Answered(n, f))]
    /\ UNCHANGED <<rtc, rtcStage, undiscovered, local, sendVars, sctp, rtcIntakeVars, given>>

HungUp(n) == rtcStage[n] \notin {"down", "reaching", "signalling"}

\* Wrong on purpose: a closed socket says nothing about the peer.
NothingMore(n) == doneSeen[n]

\* "Peer closed; treat as remote done."
TreatedAsDone(n) == TRUE

ReadHungUp(n) ==
    /\ InLoop(n) /\ local[n] = 0 /\ signals[n] = <<>> /\ HungUp(Peer(n))
    /\ doneSeen' = [doneSeen EXCEPT ![n] = TreatedAsDone(n)]
    /\ doneSent' = [doneSent EXCEPT ![n] = TRUE]
    /\ UNCHANGED <<rtc, rtcStage, signals, undiscovered, local, known, sdp, sendVars, sctp,
                   rtcIntakeVars, given>>

\* The peer was killed: its end resets the socket when a frame is written to it,
\* and may do so before all it had written is read.
SignalingFails(n) ==
    /\ InLoop(n) /\ rtcStage[Peer(n)] = "failed"
    /\ local[n] > 0 \/ signals[n] # <<>>
    /\ AfterStage(n, "failed")
    /\ UNCHANGED signalVars

\* 500 ms without anything to send or to read.  The search for candidates, which
\* are those of the host only, takes less.
GraceTimer(n) ==
    /\ InLoop(n) /\ sdp[n] /\ ~doneSent[n] /\ local[n] = 0
    /\ \A m \in RtcNodes : undiscovered[m] = 0
    /\ signals' = [signals EXCEPT ![Peer(n)] = Append(@, "done")]
    /\ doneSent' = [doneSent EXCEPT ![n] = TRUE]
    /\ UNCHANGED <<rtc, rtcStage, undiscovered, local, known, sdp, doneSeen, sendVars, sctp,
                   rtcIntakeVars, given>>

EndSignaling(n) ==
    /\ rtcStage[n] = "signalling" /\ ~InLoop(n)
    /\ AfterStage(n, "opening")
    /\ UNCHANGED signalVars

\* handle_peer_pair has seen the four channels open; connect returns.
Open(n) ==
    /\ rtcStage[n] = "opening" /\ sdp[Peer(n)] /\ rtcStage[Peer(n)] # "failed"
    /\ known[n] > 0 \/ known[Peer(n)] > 0
    /\ AfterStage(n, IF n \in rtc.writers THEN "operate" ELSE "silent")
    /\ UNCHANGED signalVars

\* CONNECT_TIMEOUT.
NeverOpens(n) ==
    /\ rtcStage[n] = "opening" /\ rtcStage[Peer(n)] = "failed"
    /\ AfterStage(n, "failed")
    /\ UNCHANGED signalVars

Die(n) ==
    /\ rtc.dies /\ rtcStage[n] \in {"signalling", "opening"} /\ rtcStage[Peer(n)] # "failed"
    /\ AfterStage(n, "failed")
    /\ UNCHANGED signalVars

-----------------------------------------------------------------------------
(* try_publish and publish.                                                *)

Issuing(n) ==
    /\ rtcStage[n] = "operate" /\ written[n] < MaxWritten
    /\ written' = [written EXCEPT ![n] = @ + 1]
    /\ UNCHANGED <<rtc, rtcStage, signalVars, sent, sctp, rtcIntakeVars, given>>

RoomLeft(n) == Len(outbox[n]) < OutboxRoom

Enqueue(n) ==
    /\ RoomLeft(n)
    /\ outbox' = [outbox EXCEPT ![n] = Append(@, written[n] + 1)]
    /\ inflight' = [inflight EXCEPT ![n] = @ + 1]

\* blocking_send waits for room.
RtcPublish(n) == Reliable /\ Issuing(n) /\ Enqueue(n)

\* Over the threshold the driver is told to skip the message.
OverThreshold(n) == inflight[n] > Threshold

\* Wrong on purpose: the counter is not rolled back.
OverflowedKept(n) == inflight' = [inflight EXCEPT ![n] = @ + 1]

\* The queue is full: the message is dropped, the counter is as it was, and
\* the driver is told that the message was published.
Overflowed(n) == UNCHANGED inflight

RtcTryPublish(n) ==
    /\ ~Reliable /\ Issuing(n)
    /\ \/ OverThreshold(n) /\ UNCHANGED <<outbox, inflight>>
       \/ ~OverThreshold(n) /\ Enqueue(n)
       \/ ~OverThreshold(n) /\ ~RoomLeft(n) /\ Overflowed(n) /\ UNCHANGED outbox

-----------------------------------------------------------------------------
(* send_loop_for_channel.                                                  *)

LoopRuns(n) == rtcStage[n] \in {"operate", "silent", "stopping", "flushing"}

TakeOut(n) ==
    /\ LoopRuns(n) /\ sent[n] = 0 /\ outbox[n] # <<>>
    /\ sent' = [sent EXCEPT ![n] = Head(outbox[n])]
    /\ outbox' = [outbox EXCEPT ![n] = Tail(@)]
    /\ UNCHANGED <<rtc, rtcStage, signalVars, written, inflight, sctp, rtcIntakeVars, given>>

\* It fails when the peer has closed the connection.
SendOn(n) ==
    /\ LoopRuns(n) /\ sent[n] # 0
    /\ IF rtcStage[Peer(n)] \in {"left", "failed"} THEN UNCHANGED sctp
       ELSE Len(sctp[n]) < SctpRoom /\ sctp' = [sctp EXCEPT ![n] = Append(@, sent[n])]
    /\ sent' = [sent EXCEPT ![n] = 0]
    /\ inflight' = [inflight EXCEPT ![n] = @ - 1]
    /\ UNCHANGED <<rtc, rtcStage, signalVars, written, outbox, rtcIntakeVars, given>>

-----------------------------------------------------------------------------
(* The way to the peer, and the callback there (wire_data_channel).        *)

\* QoS 1 and 2 are sent unordered and without retransmission.
Arrives(n, i) == IF Reliable THEN i = 1 ELSE TRUE

\* Wrong on purpose: one watermark for all paths.
StaleOfAny(n, m) == rtc.qos = 2 /\ \E p \in DOMAIN latest[n] : m < latest[n][p]

Outdated(n, m) == rtc.qos = 2 /\ m < latest[n][PathOfMsg(m)]

OnMessage(n, m) ==
    /\ reached' = [reached EXCEPT ![n] = @ \union {m}]
    /\ IF Outdated(n, m) THEN UNCHANGED <<latest, inbox>>
       ELSE /\ latest' = [latest EXCEPT ![n][PathOfMsg(m)] = IF rtc.qos = 2 THEN m ELSE @]
            /\ inbox' = [inbox EXCEPT ![n] = Append(@, m)]

Listens(n) == rtcStage[n] \in {"signalling", "opening"} \/ LoopRuns(n)

Carry(w, r) ==
    /\ \E i \in DOMAIN sctp[w] :
        /\ Arrives(w, i)
        /\ sctp' = [sctp EXCEPT ![w] = RemoveAt(@, i)]
        /\ IF Listens(r) THEN OnMessage(r, sctp[w][i])
           ELSE UNCHANGED <<reached, latest, inbox>>
    /\ Reliable => Listens(r)
    /\ UNCHANGED <<rtc, rtcStage, signalVars, sendVars, received, given>>

LoseMessage(w) ==
    /\ ~Reliable
    /\ \E i \in DOMAIN sctp[w] : sctp' = [sctp EXCEPT ![w] = RemoveAt(@, i)]
    /\ UNCHANGED <<rtc, rtcStage, signalVars, sendVars, rtcIntakeVars, given>>

-----------------------------------------------------------------------------
(* The driver's polls, and disconnect.                                     *)

RtcPoll(n) ==
    /\ rtcStage[n] \in {"operate", "silent"} /\ inbox[n] # <<>>
    /\ received' = [received EXCEPT ![n] = Append(@, Head(inbox[n]))]
    /\ inbox' = [inbox EXCEPT ![n] = Tail(@)]
    /\ UNCHANGED <<rtc, rtcStage, signalVars, sendVars, sctp, reached, latest, given>>

EndOperate(n) ==
    /\ rtcStage[n] = "operate" /\ written[n] = MaxWritten
    /\ AfterStage(n, "silent")
    /\ UNCHANGED signalVars

DropSenders(n) ==
    /\ rtcStage[n] = "silent"
    /\ AfterStage(n, "stopping")
    /\ UNCHANGED signalVars

\* Wrong on purpose: the queue is empty, but a message may be in dc.send.
LoopsEndedEarly(n) == outbox[n] = <<>>

\* The send loop of the channel has returned.
LoopsEnded(n) == outbox[n] = <<>> /\ sent[n] = 0

\* Stage 2 and stage 3 each wait until DRAIN_DEADLINE; stage 3 only for the
\* reliable channels.
AwaitLoops(n) ==
    /\ rtcStage[n] = "stopping"
    /\ rtcStage' = [rtcStage EXCEPT ![n] = "flushing"]
    /\ given' = [given EXCEPT ![n] = ~LoopsEnded(n)]
    /\ UNCHANGED <<rtc, signalVars, sendVars, sctp, rtcIntakeVars>>

Close(n) ==
    /\ rtcStage[n] = "flushing"
    /\ rtcStage' = [rtcStage EXCEPT ![n] = "left"]
    /\ given' = [given EXCEPT ![n] = @ \/ (Reliable /\ sctp[n] # <<>>)]
    /\ outbox' = [outbox EXCEPT ![n] = <<>>] /\ sent' = [sent EXCEPT ![n] = 0]
    /\ inflight' = [inflight EXCEPT ![n] = 0]
    /\ sctp' = [sctp EXCEPT ![n] = <<>>, ![Peer(n)] = <<>>]
    /\ inbox' = [inbox EXCEPT ![n] = <<>>]
    /\ UNCHANGED <<rtc, signalVars, written, reached, latest, received>>

-----------------------------------------------------------------------------

RtcNext ==
    \/ Call \/ AcceptCall
    \/ \E n \in RtcNodes :
        \/ ComeUp(n) \/ NobodyThere(n) \/ Discover(n) \/ ForwardCandidate(n)
        \/ ReadEnvelope(n) \/ ReadHungUp(n) \/ SignalingFails(n) \/ GraceTimer(n)
        \/ EndSignaling(n) \/ Open(n) \/ NeverOpens(n) \/ Die(n)
        \/ RtcPublish(n) \/ RtcTryPublish(n) \/ TakeOut(n) \/ SendOn(n)
        \/ Carry(n, Peer(n)) \/ LoseMessage(n)
        \/ RtcPoll(n) \/ EndOperate(n) \/ DropSenders(n) \/ AwaitLoops(n) \/ Close(n)

\* Some task takes a step as long as one can.
RtcFairness == WF_rtcVars(RtcNext)

RtcSpec == RtcInit /\ [][RtcNext]_rtcVars /\ RtcFairness

-----------------------------------------------------------------------------
(* Properties.                                                             *)

\* What is on its way from w to the other node, the oldest first.
OnTheWay(w) == sctp[w] \o (IF sent[w] = 0 THEN <<>> ELSE <<sent[w]>>) \o outbox[w]
HasCome(r) == received[r] \o inbox[r]

(* At QoS 3 and 4 what a node has published is, in this order, received, on its
   way or queued, however full the queues are; and a node that leaves before
   its deadlines has handed over everything (webrtc.rs, "strict-delivery drain
   protocol"). *)
RtcStreamsHold ==
    Reliable =>
        \A w \in RtcNodes :
            LET r == Peer(w) IN
            rtcStage[r] \notin {"left", "failed"} /\ (rtcStage[w] = "left" => ~given[w]) =>
                HasCome(r) \o OnTheWay(w) = [i \in 1..written[w] |-> i]

(* QoS 2 never goes back on a path, and the newest message of a path that has
   reached a node is the last one of that path it hands on. *)
RtcFreshest ==
    rtc.qos = 2 =>
        \A n \in RtcNodes :
            LET s == HasCome(n) IN
            /\ \A i, j \in DOMAIN s :
                   i < j /\ PathOfMsg(s[i]) = PathOfMsg(s[j]) => s[i] < s[j]
            /\ rtcStage[n] # "left" => \A m \in reached[n] :
                   \E i \in DOMAIN s : PathOfMsg(s[i]) = PathOfMsg(m) /\ s[i] >= m

(* The counter that decides whether a message is skipped is the number of
   messages that are in the queue or being sent: it never drifts, whatever is
   dropped or fails (webrtc.rs, send_loop_for_channel). *)
InflightIsExact ==
    \A n \in RtcNodes :
        inflight[n] = Len(outbox[n]) + (IF sent[n] = 0 THEN 0 ELSE 1)

\* The peer was killed before the descriptions were exchanged: every turn of the
\* loop reads the end of the stream, and no turn ends the loop.
SpinsOnClosed(n) ==
    /\ rtcStage[n] = "signalling" /\ ~sdp[n] /\ signals[n] = <<>>
    /\ rtcStage[Peer(n)] = "failed"

(* Signalling leaves nobody waiting: two nodes that are up both get connected,
   and one whose peer comes too late or is killed gives up.  Only a node whose
   peer is killed before the descriptions are exchanged reads the closed socket
   for ever. *)
RtcConnected ==
    \A n \in RtcNodes :
        \/ rtcStage[n] \notin {"down", "reaching", "signalling", "opening", "failed"}
        \/ (rtc.late \/ rtc.dies) /\ rtcStage[n] = "failed"
        \/ SpinsOnClosed(n)
RtcConnects == <>RtcConnected

(* Every node that gets connected gets through its spawn: a write that waits for
   room in a queue returns. *)
RtcSpawnEnded ==
    \A n \in RtcNodes : rtcStage[n] \in {"left", "failed"} \/ SpinsOnClosed(n)
RtcSpawnsEnd == <>RtcSpawnEnded
=============================================================================
