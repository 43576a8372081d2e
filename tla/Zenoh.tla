-------------------------------- MODULE Zenoh --------------------------------
(***************************************************************************)
(* The zenoh variant in Multi mode (variants/zenoh/src/zenoh.rs).  The     *)
(* driver pushes into a bounded bridge channel; publisher_task takes the   *)
(* messages out and puts them, one after the other at QoS 3 and 4, each in *)
(* a task of its own at QoS 1 and 2.  A sample goes to the link to the     *)
(* peer and, as a node subscribes to what it publishes, to its own FIFO.   *)
(* subscriber_task empties the FIFO, throws its own samples away and       *)
(* writes the others to the log, once the driver has attached one.         *)
(*                                                                         *)
(* The zenoh crate is not in the repository.  What is assumed of it: a put *)
(* with CongestionControl::Block waits for room in the link and one with   *)
(* Drop does not; a link keeps its order; a full FIFO holds up what is to  *)
(* go into it; a put goes nowhere while the writer does not know that the  *)
(* peer subscribes.  A tokio runtime that is shut down drops its tasks     *)
(* where they next wait.                                                   *)
(*                                                                         *)
(* A definition under the heading "Wrong on purpose" is the next one with  *)
(* a plausible bug; nothing uses it.                                       *)
(***************************************************************************)
EXTENDS Integers, Sequences, FiniteSets, SequencesExt, Selection

CONSTANTS
    ZenohSpawns,   \* the spawns of interest: [puts, qos, late, fails]
    MaxPuts,       \* bound: messages of a node
    BridgeRoom,    \* PUBLISH_CHANNEL_CAPACITY
    PutLimit,      \* PUBLISH_INFLIGHT_LIMIT
    LinkRoom,      \* samples in the transmission queue of the link
    FifoRoom       \* SUBSCRIBER_FIFO_CAPACITY

ZenohNodes == {1, 2}
OtherOf(n) == 3 - n

ASSUME ZenohSpawnsAssumption ==
    \A s \in ZenohSpawns :
        /\ s.puts \in [ZenohNodes -> 0..MaxPuts] /\ s.qos \in 1..4
        /\ {s.late, s.fails} \subseteq BOOLEAN
ASSUME ZenohBoundAssumption ==
    {MaxPuts, BridgeRoom, PutLimit, LinkRoom, FifoRoom} \subseteq Nat \ {0}

VARIABLES
    zen,        \* how many messages each node publishes, the QoS, whether a node may
                \* start before the other one listens, whether a declaration may fail
    zenStage,   \* zenStage[n]: how far the process is
    reaches,    \* reaches[n]: n knows that the other one subscribes
    tried,      \* messages the driver has tried to publish
    skipped,    \* those it was told to skip
    bridge,     \* bridge[n]: send_tx
    putting,    \* the put publisher_task waits for, or 0
    spawned,    \* puts that run in tasks of their own
    link,       \* link[n]: samples on the way from n to the other node
    fifo,       \* fifo[n]: the channel to subscriber_task, [from, seq]
    recorded,   \* recorded[n]: messages of the other node in n's log
    missed      \* messages of n that were lost before (history)

putVars == <<bridge, putting, spawned, link>>
zenVars == <<zen, zenStage, reaches, tried, skipped, putVars, fifo, recorded, missed>>

Puts == 1..MaxPuts
InOrderOnly == zen.qos \in {3, 4}
ZenohStages == {"down", "connected", "attached", "operate", "silent", "closing", "left"}

ZenohTypeOK ==
    /\ zen \in ZenohSpawns
    /\ zenStage \in [ZenohNodes -> ZenohStages]
    /\ reaches \in [ZenohNodes -> BOOLEAN]
    /\ tried \in [ZenohNodes -> 0..MaxPuts] /\ putting \in [ZenohNodes -> 0..MaxPuts]
    /\ {skipped, spawned, missed} \subseteq [ZenohNodes -> SUBSET Puts]
    /\ \A n \in ZenohNodes :
        /\ bridge[n] \in Seq(Puts) /\ Len(bridge[n]) <= BridgeRoom
        /\ Cardinality(spawned[n]) <= PutLimit
        /\ link[n] \in Seq(Puts) /\ Len(link[n]) <= LinkRoom
        /\ fifo[n] \in Seq([from : ZenohNodes, seq : Puts]) /\ Len(fifo[n]) <= FifoRoom
        /\ recorded[n] \in Seq(Puts)

ZenohInit ==
    /\ zen \in ZenohSpawns
    /\ zenStage = [n \in ZenohNodes |-> "down"]
    /\ reaches = [n \in ZenohNodes |-> FALSE]
    /\ tried = [n \in ZenohNodes |-> 0] /\ putting = tried
    /\ skipped = [n \in ZenohNodes |-> {}] /\ spawned = skipped /\ missed = skipped
    /\ bridge = [n \in ZenohNodes |-> <<>>] /\ link = bridge /\ fifo = bridge
    /\ recorded = bridge

-----------------------------------------------------------------------------
(* connect, attach_logger and the driver's stabilize phase.                *)

EnterStage(n, s) == zenStage' = [zenStage EXCEPT ![n] = s]

Before(n, from, to) ==
    /\ zenStage[n] = from /\ EnterStage(n, to)
    /\ UNCHANGED <<zen, reaches, tried, skipped, putVars, fifo, recorded, missed>>

\* The session is open, both kinds of publishers are declared, the tasks run.
OpenSession(n) == Before(n, "down", "connected")

AttachLogger(n) == Before(n, "connected", "attached")

Attached(n) == zenStage[n] \in {"attached", "operate", "silent"}
Running(n) == zenStage[n] = "connected" \/ Attached(n)

\* The declarations of the other node arrive.
LearnInterest(n) ==
    /\ ~reaches[n] /\ Running(n) /\ Running(OtherOf(n))
    /\ reaches' = [reaches EXCEPT ![n] = TRUE]
    /\ UNCHANGED <<zen, zenStage, tried, skipped, putVars, fifo, recorded, missed>>

\* The stabilize phase is a fixed time.  Where the spawn is not late it is enough
\* for the first that starts, and so for the other one.
Started(n) == zenStage[n] \notin {"down", "connected", "attached"}
StartOperate(n) ==
    /\ \/ zen.late \/ Started(OtherOf(n))
       \/ \A m \in ZenohNodes : Attached(m) /\ reaches[m]
    /\ Before(n, "attached", "operate")

-----------------------------------------------------------------------------
(* try_publish and publish.                                                *)

Trying(n) ==
    /\ zenStage[n] = "operate" /\ tried[n] < zen.puts[n]
    /\ tried' = [tried EXCEPT ![n] = @ + 1]
    /\ UNCHANGED <<zen, zenStage, reaches, putting, spawned, link, fifo, recorded, missed>>

Bridged(n) ==
    /\ Len(bridge[n]) < BridgeRoom
    /\ bridge' = [bridge EXCEPT ![n] = Append(@, tried[n] + 1)]
    /\ UNCHANGED skipped

\* blocking_send waits for room.
ZenPublish(n) == InOrderOnly /\ Trying(n) /\ Bridged(n)

\* A full bridge is told to the driver at once.
ZenTryPublish(n) ==
    /\ ~InOrderOnly /\ Trying(n)
    /\ \/ Bridged(n)
       \/ /\ Len(bridge[n]) = BridgeRoom
          /\ skipped' = [skipped EXCEPT ![n] = @ \union {tried[n] + 1}]
          /\ UNCHANGED bridge

-----------------------------------------------------------------------------
(* publisher_task.                                                         *)

Publishing(n) == Running(n) \/ zenStage[n] = "closing"

\* Wrong on purpose: every put in a task of its own.
AwaitsNoPut == FALSE

\* A put is awaited before the next message is taken.
AwaitsPut == InOrderOnly

TakeFromBridge(n) ==
    /\ Publishing(n) /\ bridge[n] # <<>> /\ putting[n] = 0
    /\ bridge' = [bridge EXCEPT ![n] = Tail(@)]
    /\ IF AwaitsPut THEN putting' = [putting EXCEPT ![n] = Head(bridge[n])] /\ UNCHANGED spawned
       ELSE /\ Cardinality(spawned[n]) < PutLimit
            /\ spawned' = [spawned EXCEPT ![n] = @ \union {Head(bridge[n])}]
            /\ UNCHANGED putting
    /\ UNCHANGED <<zen, zenStage, reaches, tried, skipped, link, fifo, recorded, missed>>

\* A publisher that could not be declared before connect returned cannot be
\* declared now: the message is left out, and only the trace tells.
DeclareFails(n) ==
    /\ zen.fails /\ Publishing(n) /\ bridge[n] # <<>> /\ putting[n] = 0
    /\ bridge' = [bridge EXCEPT ![n] = Tail(@)]
    /\ missed' = [missed EXCEPT ![n] = @ \union {Head(bridge[n])}]
    /\ UNCHANGED <<zen, zenStage, reaches, tried, skipped, putting, spawned, link, fifo,
                   recorded>>

\* The sample goes to the node's own subscriber, while there is one, ...
ToItself(n, m) ==
    IF ~Running(n) THEN UNCHANGED fifo
    ELSE /\ Len(fifo[n]) < FifoRoom
         /\ fifo' = [fifo EXCEPT ![n] = Append(@, [from |-> n, seq |-> m])]

\* ... and to the peer.
ToPeer(n, m) ==
    \/ /\ reaches[n] /\ Len(link[n]) < LinkRoom
       /\ link' = [link EXCEPT ![n] = Append(@, m)]
       /\ UNCHANGED missed
    \/ /\ ~reaches[n] \/ (~InOrderOnly /\ Len(link[n]) = LinkRoom)
       /\ missed' = [missed EXCEPT ![n] = @ \union {m}]
       /\ UNCHANGED link

PutEnds(n) ==
    /\ Publishing(n)
    /\ \/ /\ putting[n] # 0 /\ ToItself(n, putting[n]) /\ ToPeer(n, putting[n])
          /\ putting' = [putting EXCEPT ![n] = 0] /\ UNCHANGED spawned
       \/ \E m \in spawned[n] :
            /\ ToItself(n, m) /\ ToPeer(n, m)
            /\ spawned' = [spawned EXCEPT ![n] = @ \ {m}] /\ UNCHANGED putting
    /\ UNCHANGED <<zen, zenStage, reaches, tried, skipped, bridge, recorded>>

-----------------------------------------------------------------------------
(* The link and subscriber_task.                                           *)

\* The routing thread of the other node waits for room in the FIFO.
RouteSample(w) ==
    LET r == OtherOf(w) IN
    /\ Running(r) /\ link[w] # <<>> /\ Len(fifo[r]) < FifoRoom
    /\ link' = [link EXCEPT ![w] = Tail(@)]
    /\ fifo' = [fifo EXCEPT ![r] = Append(@, [from |-> w, seq |-> Head(link[w])])]
    /\ UNCHANGED <<zen, zenStage, reaches, tried, skipped, bridge, putting, spawned, recorded,
                   missed>>

\* Wrong on purpose: what a node has published itself is not told apart.
IsOwnNever(n, s) == FALSE

IsOwn(n, s) == s.from = n

ReceiveSample(n) ==
    /\ Running(n) /\ fifo[n] # <<>>
    /\ LET s == Head(fifo[n])
       IN  CASE IsOwn(n, s) -> UNCHANGED <<recorded, missed>>
             [] ~IsOwn(n, s) /\ Attached(n) ->
                  /\ recorded' = [recorded EXCEPT ![n] = Append(@, s.seq)]
                  /\ UNCHANGED missed
             [] OTHER ->
                  /\ missed' = [missed EXCEPT ![s.from] = @ \union {s.seq}]
                  /\ UNCHANGED recorded
    /\ fifo' = [fifo EXCEPT ![n] = Tail(@)]
    /\ UNCHANGED <<zen, zenStage, reaches, tried, skipped, putVars>>

-----------------------------------------------------------------------------
(* disconnect.                                                             *)

EndPublishing(n) ==
    /\ tried[n] = zen.puts[n]
    /\ Before(n, "operate", "silent")

\* Both subscribers are told to end and the sender is dropped: publisher_task
\* would empty the bridge, ...
LeaveSession(n) ==
    /\ zenStage[n] = "silent"
    /\ EnterStage(n, "closing")
    /\ fifo' = [fifo EXCEPT ![n] = <<>>]
    /\ UNCHANGED <<zen, reaches, tried, skipped, putVars, recorded, missed>>

\* ... but shutdown_timeout drops it where it waits, with what it has not put.
\* What is in the link may or may not get out.
ShutDown(n) ==
    /\ zenStage[n] = "closing"
    /\ EnterStage(n, "left")
    /\ bridge' = [bridge EXCEPT ![n] = <<>>] /\ putting' = [putting EXCEPT ![n] = 0]
    /\ spawned' = [spawned EXCEPT ![n] = {}]
    /\ \E rest \in {link[n], <<>>} :
        link' = [link EXCEPT ![n] = rest, ![OtherOf(n)] = <<>>]
    /\ reaches' = [m \in ZenohNodes |-> FALSE]
    /\ UNCHANGED <<zen, tried, skipped, fifo, recorded, missed>>

-----------------------------------------------------------------------------

ZenohNext ==
    \E n \in ZenohNodes :
        \/ OpenSession(n) \/ AttachLogger(n) \/ LearnInterest(n) \/ StartOperate(n)
        \/ ZenPublish(n) \/ ZenTryPublish(n)
        \/ TakeFromBridge(n) \/ DeclareFails(n) \/ PutEnds(n)
        \/ RouteSample(n) \/ ReceiveSample(n)
        \/ EndPublishing(n) \/ LeaveSession(n) \/ ShutDown(n)

\* Some task takes a step as long as one can.
ZenohFairness == WF_zenVars(ZenohNext)

ZenohSpec == ZenohInit /\ [][ZenohNext]_zenVars /\ ZenohFairness

-----------------------------------------------------------------------------
(* Properties.                                                             *)

\* What has come from w, in its log or on the way to it, and what w still has.
CameFrom(w) == recorded[OtherOf(w)] \o SeqsFrom(fifo[OtherOf(w)], w) \o link[w]
AllFrom(w) == CameFrom(w) \o (IF putting[w] = 0 THEN <<>> ELSE <<putting[w]>>) \o bridge[w]

TriedOf(w) == [i \in 1..tried[w] |-> i]
ToCome(w) == Only(TriedOf(w), Puts \ missed[w])

(* At QoS 3 and 4 the log of a node holds what its peer has published, in order
   and nothing twice or left out, whichever of the bridge, the link and the
   FIFOs are full: only what was published before the peer listened, or on a
   path whose publisher cannot be declared, is missing (T16.10 and T19.X in
   zenoh.rs).  A node that leaves takes what it has not put with it. *)
ZenohStreamsHold ==
    InOrderOnly =>
        \A w \in ZenohNodes : zenStage[OtherOf(w)] \notin {"closing", "left"} =>
            /\ IF zenStage[w] = "left" THEN IsPrefix(CameFrom(w), ToCome(w))
               ELSE AllFrom(w) = ToCome(w)
            /\ ~zen.late /\ ~zen.fails => missed[w] = {}

\* The places where a message of w is.
Spots(s, x) == {i \in DOMAIN s : s[i] = x}
Whereabouts(w, m) ==
    LET r == OtherOf(w) IN
    {<<"skipped", 0>> : x \in skipped[w] \intersect {m}}
        \union {<<"missed", 0>> : x \in missed[w] \intersect {m}}
        \union {<<"task", 0>> : x \in spawned[w] \intersect {m}}
        \union ({"bridge"} \X Spots(bridge[w], m)) \union ({"link"} \X Spots(link[w], m))
        \union ({"fifo"} \X Spots(fifo[r], [from |-> w, seq |-> m]))
        \union ({"log"} \X Spots(recorded[r], m))

(* At QoS 1 and 2 each message is in one place: skipped with the knowledge of the
   driver, dropped on the way, on its way or in the log, once. *)
ZenohSkipsAreHonest ==
    ~InOrderOnly =>
        \A w \in ZenohNodes, m \in Puts :
            /\ \A p, q \in Whereabouts(w, m) : p = q
            /\ Whereabouts(w, m) # {} => m <= tried[w]
            /\ m <= tried[w] /\ (\A n \in ZenohNodes : zenStage[n] \notin {"closing", "left"}) =>
                 Whereabouts(w, m) # {}

(* Every node gets through its spawn, whichever channels are full on both sides:
   a put waits for a FIFO that its own subscriber empties. *)
ZenohSpawnEnded == \A n \in ZenohNodes : zenStage[n] = "left"
ZenohSpawnsEnd == <>ZenohSpawnEnded
=============================================================================
