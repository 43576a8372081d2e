----------------------------- MODULE ReliableUdp -----------------------------
(***************************************************************************)
(* The multicast path of the custom-udp variant at QoS 1, 2 and 3          *)
(* (variants/custom-udp/src/udp.rs and qos.rs): publishing with a          *)
(* retransmission buffer, the stale filter of QoS 2, and the gap detector, *)
(* NACKs and retransmissions of QoS 3.                                     *)
(*                                                                         *)
(* Every node is a writer and a reader.  net[r] holds the datagrams on     *)
(* their way to r: they arrive in any order, and a lost one is one that is *)
(* never received.  The reader thread and the two channels of Multi mode,  *)
(* where NACKs overtake data, add nothing to that.  A datagram a node      *)
(* would drop unread (multicast loopback of its own message, a NACK for    *)
(* another writer) is not put into its net.  A copy of a message is marked *)
(* with the node whose NACK it answers, so that copies stay distinct; the  *)
(* code does not look at the sender of a NACK.                             *)
(*                                                                         *)
(* A definition under the heading "Wrong on purpose" is the next one with  *)
(* a plausible bug; nothing uses it.                                       *)
(***************************************************************************)
EXTENDS Integers, Sequences, FiniteSets, Functions

CONSTANTS
    Nodes,          \* the runners that take part in the spawn
    Levels,         \* the QoS levels of interest, a subset of 1..3
    MaxSeq,         \* bound: messages a writer publishes (or skips)
    BufferLimit,    \* messages kept for retransmission (10000 in the code)
    PathOf          \* PathOf[s]: the path the s-th write of a node goes to

Seqs == 1..MaxSeq
Original == "original"

ASSUME NodesAssumption == Original \notin Nodes
ASSUME LevelsAssumption == Levels \subseteq 1..3
ASSUME BoundAssumption == MaxSeq \in Nat /\ BufferLimit \in Nat \ {0}
ASSUME PathAssumption == DOMAIN PathOf = Seqs

VARIABLES
    qos,        \* --qos of the spawn, the same on every node
    counter,    \* counter[w]: the last sequence number w has used
    buffer,     \* buffer[w]: sequence numbers in w's send_buffer
    net,        \* net[r]: datagrams on their way to r
    expected,   \* GapDetector: next expected number per writer, 0 if none
    highest,    \* LatestValueTracker: highest number per writer and path, or 0
    delivered,  \* what r has handed to its driver, per writer
    asked,      \* how often r has sent a NACK for a message (history)
    arrived     \* the messages that have reached r's socket (history)

vars == <<qos, counter, buffer, net, expected, highest, delivered, asked, arrived>>

Paths == {PathOf[s] : s \in Seqs}

Data(w, s, answers) == [kind |-> "data", writer |-> w, seq |-> s, copy |-> answers]
Nack(w, s, from) == [kind |-> "nack", writer |-> w, seq |-> s, copy |-> from]
Datagrams ==
    [kind : {"data", "nack"}, writer : Nodes, seq : Seqs, copy : Nodes \union {Original}]

TypeOK ==
    /\ qos \in Levels
    /\ counter \in [Nodes -> 0..MaxSeq]
    /\ buffer \in [Nodes -> SUBSET Seqs]
    /\ net \in [Nodes -> SUBSET Datagrams]
    /\ expected \in [Nodes -> [Nodes -> 0..MaxSeq + 1]]
    /\ highest \in [Nodes -> [Nodes -> [Paths -> 0..MaxSeq]]]
    /\ delivered \in [Nodes -> [Nodes -> Seq(Seqs)]]
    /\ asked \in [Nodes -> [Nodes -> [Seqs -> Nat]]]
    /\ arrived \in [Nodes -> [Nodes -> SUBSET Seqs]]

Init ==
    /\ qos \in Levels
    /\ counter = [w \in Nodes |-> 0]
    /\ buffer = [w \in Nodes |-> {}]
    /\ net = [r \in Nodes |-> {}]
    /\ expected = [r \in Nodes |-> [w \in Nodes |-> 0]]
    /\ highest = [r \in Nodes |-> [w \in Nodes |-> [p \in Paths |-> 0]]]
    /\ delivered = [r \in Nodes |-> [w \in Nodes |-> <<>>]]
    /\ asked = [r \in Nodes |-> [w \in Nodes |-> [s \in Seqs |-> 0]]]
    /\ arrived = [r \in Nodes |-> [w \in Nodes |-> {}]]

-----------------------------------------------------------------------------
(* Writing.                                                                *)

\* Wrong on purpose: the cutoff is one too high.
RetainedTooFew(b, s) ==
    IF Cardinality(b \union {s}) > BufferLimit /\ s > BufferLimit
    THEN {k \in b \union {s} : k > s - BufferLimit + 1}
    ELSE b \union {s}

\* send_buffer.insert, then retain the newest BufferLimit messages.
Retained(b, s) ==
    IF Cardinality(b \union {s}) > BufferLimit /\ s > BufferLimit
    THEN {k \in b \union {s} : k > s - BufferLimit}
    ELSE b \union {s}

Multicast(w, d) == [r \in Nodes |-> IF r = w THEN net[r] ELSE net[r] \union {d}]

\* The driver takes the next number and the datagram goes out; at QoS 3
\* publish_encoded spins until the socket takes it and then buffers it.
Publish(w) ==
    /\ counter[w] < MaxSeq
    /\ counter' = [counter EXCEPT ![w] = @ + 1]
    /\ net' = Multicast(w, Data(w, counter[w] + 1, Original))
    /\ buffer' = IF qos = 3
                 THEN [buffer EXCEPT ![w] = Retained(@, counter[w] + 1)]
                 ELSE buffer
    /\ UNCHANGED <<qos, expected, highest, delivered, asked, arrived>>

\* QoS 1 and 2: the socket would block.  try_publish gives up and the
\* sequence number is spent.
SkipsOnBackpressure == qos \in {1, 2}

Skip(w) ==
    /\ SkipsOnBackpressure
    /\ counter[w] < MaxSeq
    /\ counter' = [counter EXCEPT ![w] = @ + 1]
    /\ UNCHANGED <<qos, buffer, net, expected, highest, delivered, asked, arrived>>

-----------------------------------------------------------------------------
(* Receiving: process_received_message.                                    *)

\* GapCheckResult: the first number seen from a writer is taken as it is.
Expects(r, m) == IF expected[r][m.writer] = 0 THEN m.seq ELSE expected[r][m.writer]
\* Wrong on purpose: only a repetition of the newest message is a duplicate.
DuplicateOfNewest(r, m) == m.seq = Expects(r, m) - 1

Duplicate(r, m) == m.seq < Expects(r, m)
\* Wrong on purpose: the range of the gap starts one late.
MissingTooFew(r, m) == Expects(r, m) + 1..m.seq - 1

Missing(r, m) == Expects(r, m)..m.seq - 1
\* Wrong on purpose: a gap does not move the expectation.
NextExpectedInOrderOnly(r, m) == IF Missing(r, m) = {} THEN m.seq + 1 ELSE Expects(r, m)

NextExpected(r, m) == m.seq + 1

\* Wrong on purpose: keyed by the writer alone; storing the number after the
\* one accepted.
TrackedPerWriter(r, m) == [p \in Paths |-> m.seq]
TrackedNext(r, m) == [highest[r][m.writer] EXCEPT ![PathOf[m.seq]] = m.seq + 1]

\* LatestValueTracker: what it remembers for r once m is accepted.
Tracked(r, m) == [highest[r][m.writer] EXCEPT ![PathOf[m.seq]] = m.seq]

\* Wrong on purpose: only a repetition is stale.
StaleIfRepeated(r, m) == m.seq = highest[r][m.writer][PathOf[m.seq]]

Stale(r, m) == m.seq <= highest[r][m.writer][PathOf[m.seq]]

Discarded(r, m) ==
    \/ qos = 2 /\ Stale(r, m)
    \/ qos = 3 /\ Duplicate(r, m)

Received(r, m) == arrived' = [arrived EXCEPT ![r][m.writer] = @ \union {m.seq}]

Discard(r, m) ==
    /\ m.kind = "data"
    /\ Discarded(r, m)
    /\ net' = [net EXCEPT ![r] = @ \ {m}]
    /\ Received(r, m)
    /\ UNCHANGED <<qos, counter, buffer, expected, highest, delivered, asked>>

\* QoS 1 and 2: into the pending queue.
Accept(r, m) ==
    /\ m.kind = "data"
    /\ qos \in {1, 2}
    /\ ~Discarded(r, m)
    /\ net' = [net EXCEPT ![r] = @ \ {m}]
    /\ highest' = IF qos = 2
                  THEN [highest EXCEPT ![r][m.writer] = Tracked(r, m)]
                  ELSE highest
    /\ delivered' = [delivered EXCEPT ![r][m.writer] = Append(@, m.seq)]
    /\ Received(r, m)
    /\ UNCHANGED <<qos, counter, buffer, expected, asked>>

\* QoS 3: one NACK for every number between the expected one and this one,
\* and the message itself into the pending queue.
AcceptReliable(r, m) ==
    /\ m.kind = "data"
    /\ qos = 3
    /\ ~Discarded(r, m)
    /\ net' = [q \in Nodes |->
                  (IF q = r THEN net[q] \ {m} ELSE net[q]) \union
                  (IF q = m.writer THEN {Nack(q, s, r) : s \in Missing(r, m)} ELSE {})]
    /\ expected' = [expected EXCEPT ![r][m.writer] = NextExpected(r, m)]
    /\ asked' = [asked EXCEPT ![r][m.writer] =
                    [s \in Seqs |-> IF s \in Missing(r, m) THEN @[s] + 1 ELSE @[s]]]
    /\ delivered' = [delivered EXCEPT ![r][m.writer] = Append(@, m.seq)]
    /\ Received(r, m)
    /\ UNCHANGED <<qos, counter, buffer, highest>>

\* handle_nack: retransmit to the whole group if the message is buffered.
HandleNack(w, m) ==
    /\ m.kind = "nack"
    /\ net' = [r \in Nodes |->
                  IF r = w THEN net[w] \ {m}
                  ELSE IF m.seq \in buffer[w]
                       THEN net[r] \union {Data(w, m.seq, m.copy)}
                       ELSE net[r]]
    /\ UNCHANGED <<qos, counter, buffer, expected, highest, delivered, asked, arrived>>

Next ==
    \E n \in Nodes :
        \/ Publish(n)
        \/ Skip(n)
        \/ \E m \in net[n] :
              Discard(n, m) \/ Accept(n, m) \/ AcceptReliable(n, m) \/ HandleNack(n, m)

Spec == Init /\ [][Next]_vars

-----------------------------------------------------------------------------

Ascending(s) == \A i, j \in 1..Len(s) : i < j => s[i] < s[j]
AscendingPerPath(s) ==
    \A i, j \in 1..Len(s) : i < j /\ PathOf[s[i]] = PathOf[s[j]] => s[i] < s[j]

(* QoS 3 hands the messages of a writer to the driver in the order they were
   written, and none twice, however they were reordered or retransmitted. *)
InOrder ==
    qos = 3 => \A r, w \in Nodes : Ascending(delivered[r][w])

(* QoS 2 never goes back to an older value of a path. *)
NeverStale ==
    qos = 2 => \A r, w \in Nodes : AscendingPerPath(delivered[r][w])

(* QoS 2 drops a message only for a newer one of the same path: the newest
   value of every path that has reached a node is the one it shows. *)
LatestWins ==
    qos = 2 => \A r, w \in Nodes : \A s \in arrived[r][w] :
        \E t \in Range(delivered[r][w]) : PathOf[t] = PathOf[s] /\ t >= s

(* What QoS 2 shows of a path is the newest value that has reached the node,
   and it has never gone back to get there. *)
FreshestShown == NeverStale /\ LatestWins

(* QoS 3 asks for a message at most once: losses cannot set off a storm of
   NACKs for the same message. *)
AskedOnce ==
    \A r, w \in Nodes, s \in Seqs : asked[r][w][s] <= 1

(* QoS 3 overlooks no gap: whatever lies between the first message a node got
   from a writer and the newest one has been delivered or asked for. *)
NoGapOverlooked ==
    qos = 3 => \A r, w \in Nodes : \A s, t \in Range(delivered[r][w]) :
        \A k \in s..t : k \in Range(delivered[r][w]) \/ asked[r][w][k] > 0

(* A NACK is never in vain when the loss is recent: the writer still has the
   message in its buffer if it is one of the last BufferLimit it wrote. *)
Answerable ==
    \A w \in Nodes : \A m \in net[w] :
        m.kind = "nack" =>
            /\ m.seq <= counter[w]
            /\ m.seq > counter[w] - BufferLimit => m.seq \in buffer[w]

(* Every gap in a QoS 3 stream is asked for exactly once, in a NACK that the
   writer can answer as long as the loss is recent. *)
GapsAreAskedFor == AskedOnce /\ NoGapOverlooked /\ Answerable

(* A message that a node missed, asked for and then got is delivered: the
   stream of QoS 3 lags while a gap is recovered, and the gap is filled. *)
RecoveredIsDelivered ==
    \A r, w \in Nodes, s \in Seqs :
        asked[r][w][s] > 0 /\ s \in arrived[r][w] => s \in Range(delivered[r][w])

=============================================================================
