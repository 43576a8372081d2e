------------------------------ MODULE WebSocket ------------------------------
(***************************************************************************)
(* The websocket variant (variants/websocket/src/websocket.rs): one TCP    *)
(* connection per pair of nodes, messages at QoS 3 and 4 that go to every  *)
(* peer in turn, and a full send buffer that must delay the writer and     *)
(* never cost a message.                                                   *)
(*                                                                         *)
(* In Single mode one thread does everything: a blocked send is given up   *)
(* every 100 ms to read what has arrived, and taken up again.  In Multi    *)
(* mode a thread per peer reads, and a blocked send just waits.            *)
(*                                                                         *)
(* A frame is the number of its message.  wire[w][r] is what lies in the   *)
(* two socket buffers between w and r; a frame that is only partly written *)
(* counts as not written.  Names are numbers: the code compares them.      *)
(*                                                                         *)
(* self.peers is a set here, links[n], in the order in which the           *)
(* connections were made: broadcast_binary takes the list apart from its   *)
(* end and puts the survivors back in the old order, everything else goes  *)
(* through it from its beginning.  A node makes its connections one after  *)
(* the other, and both ends of one make it at the same time.               *)
(*                                                                         *)
(* A definition under the heading "Wrong on purpose" is the next one with  *)
(* a plausible bug; nothing uses it.                                       *)
(***************************************************************************)
EXTENDS Integers, Sequences, FiniteSets

CONSTANTS
    WsNames,        \* the names of the nodes
    WsSpawns,       \* the spawns of interest: [mode, names, writes, ends]
    MaxWrites,      \* bound: messages a node writes, at most
    Room            \* frames the socket buffers of one direction hold

NoPeer == 0

ASSUME WsNamesAssumption == WsNames \subseteq Nat \ {NoPeer} /\ IsFiniteSet(WsNames)
ASSUME WsSpawnsAssumption ==
    WsSpawns \subseteq
        [mode : {"single", "multi"}, names : SUBSET WsNames, writes : 0..MaxWrites,
         ends : BOOLEAN]
ASSUME WsBoundAssumption == MaxWrites \in Nat /\ Room \in Nat \ {0}

VARIABLES
    spawn,      \* mode, nodes and writes of the spawn, and whether it ends (a bound)
    stage,      \* where the driver of a node is
    dialing,    \* dialing[n]: peers n has still to connect to
    awaiting,   \* awaiting[n]: peers whose connections n has still to accept
    made,       \* the number of connections made so far (history)
    place,      \* place[n][p]: which of them is the one of n and p, or 0
    links,      \* links[n]: the peers in self.peers
    kept,       \* kept[n]: survivors of the broadcast in progress
    sending,    \* sending[n]: the peer it is writing to, or NoPeer
    wrote,      \* wrote[n]: messages n has published, the current one included
    wire,       \* wire[w][r]: frames from w that r has not read
    logged,     \* logged[r][w]: messages of w in r's log
    unlogged,   \* unlogged[r][w]: messages r read and forgot (history)
    reader,     \* reader[r][w]: the thread of r that reads from w (Multi mode)
    notices     \* notices[n]: PeerDropped items in the channel to the driver

connectVars == <<spawn, dialing, awaiting, made, place>>
wsVars == <<connectVars, stage, links, kept, sending, wrote, wire, logged, unlogged, reader,
            notices>>

Single == spawn.mode = "single"
Multi == spawn.mode = "multi"

\* The lower name connects, the higher one listens.
ServersOf(n) == {p \in spawn.names : n < p}

\* Wrong on purpose: the accept loop waits for every peer.
ClientsAll(n) == spawn.names \ {n}

ClientsOf(n) == {p \in spawn.names : p < n}

Messages == 1..MaxWrites

WsTypeOK ==
    /\ spawn \in WsSpawns
    /\ stage \in [WsNames -> {"connecting", "running", "stopping", "left"}]
    /\ dialing \in [WsNames -> SUBSET WsNames]
    /\ awaiting \in [WsNames -> SUBSET WsNames]
    /\ made \in Nat
    /\ place \in [WsNames -> [WsNames -> 0..made]]
    /\ links \in [WsNames -> SUBSET WsNames]
    /\ kept \in [WsNames -> SUBSET WsNames]
    /\ sending \in [WsNames -> WsNames \union {NoPeer}]
    /\ wrote \in [WsNames -> 0..MaxWrites]
    /\ wire \in [WsNames -> [WsNames -> Seq(Messages)]]
    /\ logged \in [WsNames -> [WsNames -> Seq(Messages)]]
    /\ unlogged \in [WsNames -> [WsNames -> SUBSET Messages]]
    /\ reader \in [WsNames -> [WsNames -> {"none", "reading", "ended"}]]
    /\ notices \in [WsNames -> SUBSET WsNames]

WsInit ==
    /\ spawn \in WsSpawns
    /\ stage = [n \in WsNames |-> "connecting"]
    /\ dialing = [n \in WsNames |-> ServersOf(n)]
    /\ awaiting = [n \in WsNames |-> ClientsOf(n)]
    /\ made = 0
    /\ place = [n \in WsNames |-> [p \in WsNames |-> 0]]
    /\ links = [n \in WsNames |-> {}]
    /\ kept = [n \in WsNames |-> {}]
    /\ sending = [n \in WsNames |-> NoPeer]
    /\ wrote = [n \in WsNames |-> 0]
    /\ wire = [w \in WsNames |-> [r \in WsNames |-> <<>>]]
    /\ logged = [r \in WsNames |-> [w \in WsNames |-> <<>>]]
    /\ unlogged = [r \in WsNames |-> [w \in WsNames |-> {}]]
    /\ reader = [r \in WsNames |-> [w \in WsNames |-> "none"]]
    /\ notices = [n \in WsNames |-> {}]

-----------------------------------------------------------------------------
(* Connecting.                                                             *)

\* A node connects to its servers one after the other in the order of their
\* names, and accepts when it is through; each handshake needs both sides.
Handshake(n, p) ==
    /\ p \in dialing[n] /\ \A q \in dialing[n] : p <= q
    /\ dialing[p] = {} /\ n \in awaiting[p]
    /\ dialing' = [dialing EXCEPT ![n] = @ \ {p}]
    /\ awaiting' = [awaiting EXCEPT ![p] = @ \ {n}]
    /\ links' = [links EXCEPT ![n] = @ \union {p}, ![p] = @ \union {n}]
    /\ made' = made + 1
    /\ place' = [place EXCEPT ![n][p] = made + 1, ![p][n] = made + 1]
    /\ UNCHANGED <<spawn, stage, kept, sending, wrote, wire, logged, unlogged, reader, notices>>

\* connect returns; start_reader_threads.
Start(n) ==
    /\ stage[n] = "connecting" /\ dialing[n] = {} /\ awaiting[n] = {}
    /\ stage' = [stage EXCEPT ![n] = "running"]
    /\ reader' = IF Multi
                 THEN [reader EXCEPT ![n] = [w \in WsNames |->
                          IF w \in links[n] THEN "reading" ELSE "none"]]
                 ELSE reader
    /\ UNCHANGED <<connectVars, links, kept, sending, wrote, wire, logged, unlogged, notices>>

-----------------------------------------------------------------------------
(* Reading in Single mode: poll_peers_once_single.                         *)

Gone(p) == stage[p] = "left"
Ready(n) == {p \in links[n] : wire[p][n] # <<>>}
ComesBefore(n, p, q) == place[n][p] < place[n][q]
\* The first peer in the list that has sent something.
Hit(n, p) == p \in Ready(n) /\ \A q \in Ready(n) : ~ComesBefore(n, q, p)
\* A closed connection met on the way to it is dropped.
Closed(n) == {p \in links[n] : Gone(p) /\ \A q \in Ready(n) : ComesBefore(n, p, q)}

\* poll_receive: one frame, which the driver logs.
Poll(n) ==
    /\ Single /\ stage[n] = "running" /\ sending[n] = NoPeer
    /\ links' = [links EXCEPT ![n] = @ \ Closed(n)]
    /\ logged' = [logged EXCEPT ![n] = [w \in WsNames |->
                     IF Hit(n, w) THEN Append(@[w], Head(wire[w][n])) ELSE @[w]]]
    /\ wire' = [w \in WsNames |-> [wire[w] EXCEPT ![n] = IF Hit(n, w) THEN Tail(@) ELSE @]]
    /\ UNCHANGED <<connectVars, stage, kept, sending, wrote, unlogged, reader, notices>>

-----------------------------------------------------------------------------
(* Writing: broadcast_binary and send_to_peer_with_retry.                  *)

\* Wrong on purpose: every node begins with the one before it, to spread the
\* load.
Upward(n, p) == IF p > n THEN p ELSE p + Cardinality(WsNames)
LastAfterOwn(n, left, p) == p \in left /\ \A q \in left : Upward(n, q) <= Upward(n, p)

LastOf(n, left, p) == p \in left /\ \A q \in left : ~ComesBefore(n, p, q)

\* The next peer of the broadcast is the last one in the list; when there is
\* none, the survivors are the list again.
Advance(n, left, done) ==
    IF left = {}
    THEN /\ links' = [links EXCEPT ![n] = done]
         /\ kept' = [kept EXCEPT ![n] = {}]
         /\ sending' = [sending EXCEPT ![n] = NoPeer]
    ELSE \E p \in left :
         /\ LastOf(n, left, p)
         /\ links' = [links EXCEPT ![n] = left \ {p}]
         /\ kept' = [kept EXCEPT ![n] = done]
         /\ sending' = [sending EXCEPT ![n] = p]

PublishFrame(n) ==
    /\ stage[n] = "running" /\ sending[n] = NoPeer /\ wrote[n] < spawn.writes
    /\ wrote' = [wrote EXCEPT ![n] = @ + 1]
    /\ Advance(n, links[n], {})
    /\ UNCHANGED <<connectVars, stage, wire, logged, unlogged, reader, notices>>

HasRoom(n, p) == Len(wire[n][p]) < Room

\* The frame goes into the buffers; those of a peer that has just left are
\* read by nobody.
Send(n) ==
    LET p == sending[n] IN
    /\ p # NoPeer /\ (HasRoom(n, p) \/ Gone(p))
    /\ wire' = IF Gone(p) THEN wire ELSE [wire EXCEPT ![n][p] = Append(@, wrote[n])]
    /\ Advance(n, links[n], kept[n] \union {p})
    /\ UNCHANGED <<connectVars, stage, wrote, logged, unlogged, reader, notices>>

\* A write error that is not transient: the peer is dropped.
SendFails(n) ==
    /\ sending[n] # NoPeer /\ Gone(sending[n])
    /\ Advance(n, links[n], kept[n])
    /\ UNCHANGED <<connectVars, stage, wrote, wire, logged, unlogged, reader, notices>>

\* Wrong on purpose: the peer itself is not drained.
DrainedNothing(n, w) == <<>>

\* drain_current_peer_into_logger reads all there is of the peer it writes to.
Drained(n, w) == IF w = sending[n] THEN wire[w][n] ELSE <<>>

\* Wrong on purpose: nothing is logged.
LogNothing(n, w) == logged[n][w]

LogDrained(n, w) == logged[n][w] \o Drained(n, w)

\* The send has timed out: drain the peer, and poll the peers still in the
\* list once; what that returns is thrown away.
Retry(n) ==
    /\ Single /\ sending[n] # NoPeer
    /\ ~HasRoom(n, sending[n]) /\ ~Gone(sending[n])
    /\ logged' = [logged EXCEPT ![n] = [w \in WsNames |-> LogDrained(n, w)]]
    /\ wire' = [w \in WsNames |-> [wire[w] EXCEPT ![n] =
                   IF Drained(n, w) # <<>> THEN <<>> ELSE IF Hit(n, w) THEN Tail(@) ELSE @]]
    /\ unlogged' = [unlogged EXCEPT ![n] = [w \in WsNames |->
                       IF Hit(n, w) THEN @[w] \union {Head(wire[w][n])} ELSE @[w]]]
    /\ links' = [links EXCEPT ![n] = @ \ Closed(n)]
    /\ UNCHANGED <<connectVars, stage, kept, sending, wrote, reader, notices>>

-----------------------------------------------------------------------------
(* Reading in Multi mode.                                                  *)

\* The thread waits inside read() without a timeout (the one set in connect
\* is cleared through the other handle of the socket), logs what it reads and
\* looks at the flag only after a frame.
ReadFrame(r, w) ==
    /\ reader[r][w] = "reading" /\ wire[w][r] # <<>>
    /\ logged' = [logged EXCEPT ![r][w] = Append(@, Head(wire[w][r]))]
    /\ wire' = [wire EXCEPT ![w][r] = Tail(@)]
    /\ reader' = IF stage[r] = "running" THEN reader ELSE [reader EXCEPT ![r][w] = "ended"]
    /\ UNCHANGED <<connectVars, stage, links, kept, sending, wrote, unlogged, notices>>

\* The other side has closed, or disconnect has shut the socket down.
ReadClosed(r, w) ==
    /\ reader[r][w] = "reading" /\ wire[w][r] = <<>>
    /\ Gone(w) \/ Gone(r)
    /\ reader' = [reader EXCEPT ![r][w] = "ended"]
    /\ notices' = IF Gone(r) THEN notices ELSE [notices EXCEPT ![r] = @ \union {w}]
    /\ UNCHANGED <<connectVars, stage, links, kept, sending, wrote, wire, logged, unlogged>>

\* poll_receive: the driver forgets the peers whose threads have ended.
PollNotices(n) ==
    /\ Multi /\ stage[n] = "running" /\ sending[n] = NoPeer
    /\ links' = [links EXCEPT ![n] = @ \ notices[n]]
    /\ notices' = [notices EXCEPT ![n] = {}]
    /\ UNCHANGED <<connectVars, stage, kept, sending, wrote, wire, logged, unlogged, reader>>

-----------------------------------------------------------------------------
(* The end of the spawn.                                                   *)

\* The driver is through with its phases; stop_reader_threads sets the flags.
Stop(n) ==
    /\ spawn.ends
    /\ stage[n] = "running" /\ sending[n] = NoPeer /\ wrote[n] = spawn.writes
    /\ stage' = [stage EXCEPT ![n] = "stopping"]
    /\ UNCHANGED <<connectVars, links, kept, sending, wrote, wire, logged, unlogged, reader,
                   notices>>

\* The threads have ended, or each has been waited for for two seconds.  In
\* Single mode disconnect reads what is left and throws it away.
Disconnect(n) ==
    /\ stage[n] = "stopping"
    /\ stage' = [stage EXCEPT ![n] = "left"]
    /\ links' = [links EXCEPT ![n] = {}]
    /\ notices' = [notices EXCEPT ![n] = {}]
    /\ wire' = IF Single THEN [w \in WsNames |-> [wire[w] EXCEPT ![n] = <<>>]] ELSE wire
    /\ UNCHANGED <<connectVars, kept, sending, wrote, logged, unlogged, reader>>

WsDriver(n) ==
    Send(n) \/ SendFails(n) \/ Retry(n) \/ Poll(n) \/ PollNotices(n) \/ Disconnect(n)

WsReader(r, w) == ReadFrame(r, w) \/ ReadClosed(r, w)

WsNext ==
    \E n \in spawn.names :
        \/ \E p \in spawn.names : Handshake(n, p) \/ WsReader(n, p)
        \/ Start(n)
        \/ PublishFrame(n)
        \/ Stop(n)
        \/ WsDriver(n)

\* As long as some thread can go on, one does; nobody has to publish or to
\* stop.
WsThreads ==
    \E n \in spawn.names :
        \/ Start(n) \/ WsDriver(n)
        \/ \E p \in spawn.names : Handshake(n, p) \/ WsReader(n, p)

WsFairness == WF_wsVars(WsThreads)

WsSpec == WsInit /\ [][WsNext]_wsVars /\ WsFairness
-----------------------------------------------------------------------------

\* What r has or will have logged of w.
Stream(w, r) == logged[r][w] \o wire[w][r]

(* A full buffer changes no order and costs no message but those that the poll
   of a blocked sender reads and forgets, which takes a third node: as long as
   both take part, the log of r and what is still on the way to it are
   messages of w in their order, with the forgotten ones they are all from
   the first one on, and none is missing once the broadcast has ended. *)
NothingSkipped ==
    \A r, w \in spawn.names :
        r # w /\ stage[r] \in {"connecting", "running"} /\ ~Gone(w) =>
            LET stream == Stream(w, r)
                read == {stream[i] : i \in DOMAIN stream}
            IN  /\ \A i, j \in DOMAIN stream : i < j => stream[i] < stream[j]
                /\ \E k \in 0..wrote[w] :
                    /\ read \union unlogged[r][w] = 1..k
                    /\ sending[w] = NoPeer => k = wrote[w]
                /\ read \intersect unlogged[r][w] = {}
                /\ (Multi \/ Cardinality(spawn.names) <= 2) => unlogged[r][w] = {}

(* Where nodes wait for one another in a circle, there is always one that is
   read by the node it waits for.  The drain leaves out the peers the current
   broadcast has already served; that these do not make up the whole circle
   is because all nodes serve their peers in the order of the connections. *)
NoCircularWait ==
    \A S \in (SUBSET spawn.names) \ {{}} :
        (\A n \in S : sending[n] \in S) => \E n \in S : n \notin kept[sending[n]]

(* Back-pressure ends: whoever waits for room in a buffer gets it, or finds
   out that the peer has left, even if all of them are waiting. *)
EveryWriteReturns ==
    \A n \in WsNames : sending[n] # NoPeer ~> sending[n] = NoPeer

(* Who connects in which order is no reason to wait for ever: every node gets
   to the point where it publishes. *)
EveryoneConnected == \A n \in spawn.names : stage[n] # "connecting"
EveryoneConnects == <>EveryoneConnected

=============================================================================
