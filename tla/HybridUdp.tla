------------------------------ MODULE HybridUdp ------------------------------
(***************************************************************************)
(* A spawn of the hybrid variant at QoS 1 or 2 (variants/hybrid/src,       *)
(* hybrid.rs, udp.rs and reader.rs): it sets up its sockets, dials the     *)
(* listeners of its peers, and sends its messages to a multicast group     *)
(* that all nodes have joined, itself included.  A datagram may be lost,   *)
(* doubled or overtaken.                                                   *)
(*                                                                         *)
(* In Single mode the driver reads the socket.  In Multi mode a thread     *)
(* reads a second socket, opened when the inbound connections are there,   *)
(* and pushes into a channel; what finds the channel full is dropped.  At  *)
(* QoS 2 a message that is not newer than the newest of its writer and     *)
(* path is passed over, by the driver, in both modes.                      *)
(*                                                                         *)
(* The TCP connections are dialled, whatever the QoS, and carry nothing    *)
(* here (Hybrid has what they carry at QoS 3 and 4).  The control frames   *)
(* of older versions are left out.                                         *)
(*                                                                         *)
(* A definition under the heading "Wrong on purpose" is the next one with  *)
(* a plausible bug; nothing uses it.                                       *)
(***************************************************************************)
EXTENDS Integers, Sequences, FiniteSets

CONSTANTS
    CastNames,   \* the nodes
    Stranger,    \* a program that happens to use the group
    Casts,       \* the spawns of interest: [mode, qos, writers, absent, faults]
    MaxCast,     \* bound: messages of a writer
    MaxArrivals, \* bound: datagrams that arrive, over all nodes
    CastPaths,   \* bound: paths, written in turn
    BufferRoom,  \* datagrams in SO_RCVBUF
    HubRoom,     \* READER_CHANNEL_CAPACITY
    PollBudget   \* POLL_BUDGET

ASSUME CastNamesAssumption == Stranger \notin CastNames
ASSUME CastsAssumption ==
    Casts \subseteq [mode : {"single", "multi"}, qos : {1, 2}, writers : SUBSET CastNames,
                     absent : SUBSET CastNames, faults : SUBSET {"stray", "send", "recv"}]
ASSUME CastBoundAssumption ==
    /\ {MaxCast, MaxArrivals} \subseteq Nat
    /\ {CastPaths, BufferRoom, HubRoom, PollBudget} \subseteq Nat \ {0}

VARIABLES
    cast,        \* mode, QoS, who writes, and, as bounds, who never comes up and
                 \* what may go wrong
    castStage,   \* castStage[n]: how far the process is
    castPeers,   \* castPeers[n]: the peers n has a connection to
    castIssued,  \* castIssued[n]: messages the driver has given to try_publish
    accepted,    \* accepted[n]: those for which it returned true (history)
    draining,    \* the drain of this tick goes on
    spent,       \* frames the poll in progress has passed over
    castSent,    \* datagrams the network has been given
    arrivals,    \* how many have arrived
    rcvbuf,      \* rcvbuf[r]: those in the buffer of the socket that r reads
    reading,     \* the reader thread runs (Multi)
    hub,         \* hub[r]: the channel (Multi)
    newest,      \* newest[r]: latest_seq, per writer and path
    castKept,    \* castKept[r]: messages that were read and not dropped (history)
    handed       \* handed[r]: messages the driver of r has received

castSender == <<castIssued, accepted, draining, spent>>
castWays == <<castSent, arrivals, rcvbuf, reading, hub>>
castIntake == <<newest, handed>>
castVars == <<cast, castStage, castPeers, castSender, castWays, castIntake, castKept>>

CastMessages == [from : CastNames, seq : 1..MaxCast]
Stray == [from |-> Stranger, seq |-> 0]
CastDatagrams == CastMessages \union {Stray}
CastPathOf(m) == m.seq % CastPaths
CastKeys == CastNames \X (0..CastPaths - 1)
KeyOf(m) == <<m.from, CastPathOf(m)>>
NoneYet == [k \in CastKeys |-> 0]
CastUp == {"dialling", "accepting", "operate", "silent", "stopping"}

CastTypeOK ==
    /\ cast \in Casts
    /\ castStage \in [CastNames -> CastUp \union {"down", "left", "failed"}]
    /\ castPeers \in [CastNames -> SUBSET CastNames]
    /\ castIssued \in [CastNames -> 0..MaxCast]
    /\ accepted \in [CastNames -> SUBSET (1..MaxCast)]
    /\ draining \in [CastNames -> BOOLEAN]
    /\ spent \in [CastNames -> 0..PollBudget]
    /\ castSent \subseteq CastDatagrams
    /\ arrivals \in 0..MaxArrivals
    /\ rcvbuf \in [CastNames -> Seq(CastDatagrams)]
    /\ reading \in [CastNames -> BOOLEAN]
    /\ hub \in [CastNames -> Seq(CastMessages)]
    /\ newest \in [CastNames -> [CastKeys -> 0..MaxCast]]
    /\ castKept \in [CastNames -> SUBSET CastMessages]
    /\ handed \in [CastNames -> Seq(CastMessages)]

CastInit ==
    /\ cast \in Casts
    /\ castStage = [n \in CastNames |-> "down"]
    /\ castPeers = [n \in CastNames |-> {}]
    /\ castIssued = [n \in CastNames |-> 0]
    /\ accepted = [n \in CastNames |-> {}]
    /\ draining = [n \in CastNames |-> FALSE]
    /\ spent = [n \in CastNames |-> 0]
    /\ castSent = IF "stray" \in cast.faults THEN {Stray} ELSE {}
    /\ arrivals = 0
    /\ rcvbuf = [n \in CastNames |-> <<>>]
    /\ reading = [n \in CastNames |-> FALSE]
    /\ hub = [n \in CastNames |-> <<>>]
    /\ newest = [n \in CastNames |-> NoneYet]
    /\ castKept = [n \in CastNames |-> {}]
    /\ handed = [n \in CastNames |-> <<>>]

ReadsItself == cast.mode = "single"

-----------------------------------------------------------------------------
(* connect and start_reader_threads.                                       *)

CastGoes(n, s) ==
    /\ castStage' = [castStage EXCEPT ![n] = s]
    /\ UNCHANGED <<cast, castSender, castIntake, castKept>>

\* It joins the group and binds its listener before it dials anybody.
Join(n) ==
    /\ castStage[n] = "down" /\ n \notin cast.absent
    /\ CastGoes(n, "dialling")
    /\ UNCHANGED <<castPeers, castWays>>

\* Wrong on purpose: a peer must have been dialled itself before it accepts.
ListensLate(p) == castStage[p] \in CastUp \ {"dialling"}

\* The listener takes a connection from the moment it is bound.
ListensAt(p) == castStage[p] \in CastUp

\* In the order of --peers, which is left open.
CastDial(n) ==
    /\ castStage[n] = "dialling"
    /\ \E p \in CastNames \ ({n} \union castPeers[n]) :
        /\ ListensAt(p)
        /\ castPeers' = [castPeers EXCEPT ![n] = @ \union {p}]
    /\ CastGoes(n, "dialling")
    /\ UNCHANGED castWays

\* ConnectionRefused for 30 seconds.
CastDialFails(n) ==
    /\ castStage[n] = "dialling"
    /\ \E p \in CastNames \ ({n} \union castPeers[n]) :
        p \in cast.absent \/ castStage[p] \in {"left", "failed"}
    /\ CastGoes(n, "failed")
    /\ UNCHANGED <<castPeers, castWays>>

ConnectReturns(n) ==
    /\ castStage[n] = "dialling" /\ castPeers[n] = CastNames \ {n}
    /\ CastGoes(n, IF ReadsItself THEN "operate" ELSE "accepting")
    /\ UNCHANGED <<castPeers, castWays>>

\* It waits for the inbound connections, for 5 seconds at most.
StartReaders(n) ==
    /\ castStage[n] = "accepting"
    /\ CastGoes(n, "operate")
    /\ reading' = [reading EXCEPT ![n] = TRUE]
    /\ UNCHANGED <<castPeers, castSent, arrivals, rcvbuf, hub>>

-----------------------------------------------------------------------------
(* try_publish.                                                            *)

CastIssues(n) ==
    /\ castStage[n] = "operate" /\ ~draining[n]
    /\ n \in cast.writers /\ castIssued[n] < MaxCast
    /\ castIssued' = [castIssued EXCEPT ![n] = @ + 1]
    /\ draining' = [draining EXCEPT ![n] = TRUE]
    /\ UNCHANGED <<cast, castPeers, spent, arrivals, rcvbuf, reading, hub, castIntake, castKept>>

Issued(n) == [from |-> n, seq |-> castIssued[n] + 1]

\* The kernel takes the datagram.
TrySend(n) ==
    /\ CastIssues(n)
    /\ castSent' = castSent \union {Issued(n)}
    /\ accepted' = [accepted EXCEPT ![n] = @ \union {castIssued[n] + 1}]
    /\ UNCHANGED castStage

\* Wrong on purpose: the datagram is on its way and reported as skipped.
SendSkips(n) == castSent' = castSent \union {Issued(n)}

\* WouldBlock: the driver notes that the message was skipped.
SendBlocks(n) == UNCHANGED castSent

SendWouldBlock(n) ==
    /\ CastIssues(n)
    /\ SendBlocks(n)
    /\ UNCHANGED <<castStage, accepted>>

SendBreaks(n) ==
    /\ "send" \in cast.faults /\ CastIssues(n)
    /\ castStage' = [castStage EXCEPT ![n] = "failed"]
    /\ UNCHANGED <<accepted, castSent>>

-----------------------------------------------------------------------------
(* The way of a datagram, and udp_reader_loop.                             *)

\* The socket it would be read from has joined the group.
CastJoined(r) == IF ReadsItself THEN castStage[r] \in CastUp ELSE reading[r]

\* The network brings whatever it was given, once, again, late or never.
CastArrive(r) ==
    /\ arrivals < MaxArrivals /\ arrivals' = arrivals + 1
    /\ CastJoined(r) /\ Len(rcvbuf[r]) < BufferRoom
    /\ \E d \in castSent : rcvbuf' = [rcvbuf EXCEPT ![r] = Append(@, d)]
    /\ UNCHANGED <<cast, castStage, castPeers, castSender, castSent, reading, hub, castIntake,
                   castKept>>

\* push_data_or_drop; a datagram that cannot be decoded is dropped.
CastPush(r, m) ==
    IF m # Stray /\ Len(hub[r]) < HubRoom
    THEN /\ hub' = [hub EXCEPT ![r] = Append(@, m)]
         /\ castKept' = [castKept EXCEPT ![r] = @ \union {m}]
    ELSE UNCHANGED <<hub, castKept>>

ReadAndPush(r) ==
    /\ reading[r] /\ rcvbuf[r] # <<>>
    /\ CastPush(r, Head(rcvbuf[r]))
    /\ rcvbuf' = [rcvbuf EXCEPT ![r] = Tail(@)]
    /\ UNCHANGED <<cast, castStage, castPeers, castSender, castSent, arrivals, reading,
                   castIntake>>

\* The thread ends; the driver is not told.
ReaderBreaks(r) ==
    /\ "recv" \in cast.faults /\ reading[r]
    /\ reading' = [reading EXCEPT ![r] = FALSE]
    /\ UNCHANGED <<cast, castStage, castPeers, castSender, castSent, arrivals, rcvbuf, hub,
                   castIntake, castKept>>

-----------------------------------------------------------------------------
(* The driver's drain: poll_receive, poll_receive_multi, is_stale_qos2.    *)

\* In a tick after the messages, where a node that writes none always is.
PollsCast(n) ==
    \/ castStage[n] = "silent"
    \/ castStage[n] = "operate" /\ (draining[n] \/ n \notin cast.writers)

Queue(n) == IF ReadsItself THEN rcvbuf[n] ELSE hub[n]

\* The first of the queue is taken.
Takes(n) ==
    /\ PollsCast(n) /\ Queue(n) # <<>> /\ spent[n] < PollBudget
    /\ IF ReadsItself THEN rcvbuf' = [rcvbuf EXCEPT ![n] = Tail(@)] /\ UNCHANGED hub
                      ELSE hub' = [hub EXCEPT ![n] = Tail(@)] /\ UNCHANGED rcvbuf
    /\ UNCHANGED <<cast, castPeers, castIssued, accepted, draining, castSent, arrivals, reading>>

\* Wrong on purpose: a message that is as new as the newest one is not stale.
CastStaleIfOlder(n, m) == cast.qos = 2 /\ m.seq < newest[n][KeyOf(m)]

CastStale(n, m) == cast.qos = 2 /\ m.seq <= newest[n][KeyOf(m)]

KeptHere(n, m) ==
    castKept' = IF ReadsItself THEN [castKept EXCEPT ![n] = @ \union {m}] ELSE castKept

PollStale(n) ==
    /\ Takes(n) /\ Head(Queue(n)) # Stray /\ CastStale(n, Head(Queue(n)))
    /\ spent' = [spent EXCEPT ![n] = @ + 1]
    /\ KeptHere(n, Head(Queue(n)))
    /\ UNCHANGED <<castStage, castIntake>>

PollFresh(n) ==
    /\ Takes(n) /\ Head(Queue(n)) # Stray /\ ~CastStale(n, Head(Queue(n)))
    /\ LET m == Head(Queue(n)) IN
        /\ handed' = [handed EXCEPT ![n] = Append(@, m)]
        /\ newest' = IF cast.qos = 2 THEN [newest EXCEPT ![n][KeyOf(m)] = m.seq] ELSE newest
        /\ KeptHere(n, m)
    /\ spent' = [spent EXCEPT ![n] = 0]
    /\ UNCHANGED castStage

\* A datagram that cannot be decoded ends the child: in Single mode, where
\* poll_receive returns the error.
PollGarbled(n) ==
    /\ Takes(n) /\ Head(Queue(n)) = Stray
    /\ castStage' = [castStage EXCEPT ![n] = "failed"]
    /\ UNCHANGED <<spent, castIntake, castKept>>

\* Nothing left to read, or POLL_BUDGET frames passed over: no message.
PollNone(n) ==
    /\ PollsCast(n) /\ (Queue(n) = <<>> \/ spent[n] = PollBudget)
    /\ draining' = [draining EXCEPT ![n] = FALSE]
    /\ spent' = [spent EXCEPT ![n] = 0]
    /\ UNCHANGED <<cast, castStage, castPeers, castIssued, accepted, castWays, castIntake,
                   castKept>>

\* The drain has used up its time or its number of messages.
DrainEnds(n) ==
    /\ castStage[n] = "operate" /\ draining[n] /\ spent[n] = 0
    /\ draining' = [draining EXCEPT ![n] = FALSE]
    /\ UNCHANGED <<cast, castStage, castPeers, castIssued, accepted, spent, castWays,
                   castIntake, castKept>>

PollBreaks(n) ==
    /\ "recv" \in cast.faults /\ ReadsItself /\ PollsCast(n)
    /\ CastGoes(n, "failed")
    /\ UNCHANGED <<castPeers, castWays>>

-----------------------------------------------------------------------------
(* The end: stop_reader_threads and disconnect.                            *)

\* Its time is over, or it is idle.
EndOperateCast(n) ==
    /\ castStage[n] = "operate" /\ ~draining[n]
    /\ CastGoes(n, "silent")
    /\ UNCHANGED <<castPeers, castWays>>

StopReading(n) ==
    /\ castStage[n] = "silent"
    /\ CastGoes(n, "stopping")
    /\ UNCHANGED <<castPeers, castWays>>

\* The thread sees the flag within UDP_READER_TIMEOUT.
ReaderStops(n) ==
    /\ castStage[n] = "stopping" /\ reading[n]
    /\ CastGoes(n, "stopping")
    /\ reading' = [reading EXCEPT ![n] = FALSE]
    /\ UNCHANGED <<castPeers, castSent, arrivals, rcvbuf, hub>>

CastDisconnect(n) ==
    /\ castStage[n] = "stopping" /\ ~reading[n]
    /\ castStage' = [castStage EXCEPT ![n] = "left"]
    /\ rcvbuf' = [rcvbuf EXCEPT ![n] = <<>>]
    /\ hub' = [hub EXCEPT ![n] = <<>>]
    /\ newest' = [newest EXCEPT ![n] = NoneYet]
    /\ UNCHANGED <<cast, castPeers, castSender, castSent, arrivals, reading, handed, castKept>>

-----------------------------------------------------------------------------

CastStep(n) ==
    \/ Join(n) \/ CastDial(n) \/ CastDialFails(n) \/ ConnectReturns(n) \/ StartReaders(n)
    \/ TrySend(n) \/ SendWouldBlock(n) \/ SendBreaks(n)
    \/ CastArrive(n) \/ ReadAndPush(n) \/ ReaderBreaks(n)
    \/ PollStale(n) \/ PollFresh(n) \/ PollGarbled(n) \/ PollNone(n)
    \/ DrainEnds(n) \/ PollBreaks(n)
    \/ EndOperateCast(n) \/ StopReading(n) \/ ReaderStops(n) \/ CastDisconnect(n)

CastNext == \E n \in CastNames : CastStep(n)

CastSpec == CastInit /\ [][CastNext]_castVars /\ WF_castVars(CastNext)
-----------------------------------------------------------------------------
(* Properties.                                                             *)

(* At QoS 2 no driver goes back: of one writer and path it receives newer
   messages only, in whatever order, and however often, the datagrams come. *)
CastNeverGoesBack ==
    cast.qos = 2 =>
        \A r \in CastNames :
            \A i, j \in DOMAIN handed[r] :
                i < j /\ KeyOf(handed[r][i]) = KeyOf(handed[r][j]) =>
                    handed[r][i].seq < handed[r][j].seq

(* A message that was read and fitted the channel is received, or waits to be,
   unless, at QoS 2, one at least as new has been received: the filter takes
   nothing that is not superseded. *)
CastNothingVanishes ==
    \A r \in CastNames :
        castStage[r] # "left" =>
            \A m \in castKept[r] :
                \/ \E i \in DOMAIN hub[r] : hub[r][i] = m
                \/ \E i \in DOMAIN handed[r] :
                    \/ handed[r][i] = m
                    \/ /\ cast.qos = 2 /\ KeyOf(handed[r][i]) = KeyOf(m)
                       /\ handed[r][i].seq >= m.seq

(* The driver is not told that a message was skipped which somebody receives. *)
CastSkipsAreHonest ==
    \A r \in CastNames :
        \A i \in DOMAIN handed[r] : handed[r][i].seq \in accepted[handed[r][i].from]

\* All nodes have come to their end.
CastEnded == \A n \in CastNames : castStage[n] \in {"left", "failed"} \/ n \in cast.absent
=============================================================================
