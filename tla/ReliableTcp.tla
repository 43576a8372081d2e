---------------------------- MODULE ReliableTcp ----------------------------
(***************************************************************************)
(* QoS 4 of the custom-udp variant (variants/custom-udp/src/udp.rs): the   *)
(* messages of a writer go to every peer over a TCP connection each, with  *)
(* a length in front.                                                      *)
(*                                                                         *)
(* What matters here is where a stream is cut.  A frame is FrameLen units, *)
(* the first PrefixLen of them its length; a unit is <<seq, place>>.  TCP  *)
(* moves units, as many at a time as it likes, and the buffers of a        *)
(* connection hold Room of them.  The writer's socket has a write timeout, *)
(* the reader's is non-blocking (Single) or has a read timeout (Multi).    *)
(*                                                                         *)
(* One writer and its readers are modelled: the two directions of a pair   *)
(* are different connections.                                              *)
(***************************************************************************)
EXTENDS Integers, Sequences, SequencesExt

CONSTANTS
    PeerCount,      \* the peers of the writer, 1, 2, ... in the order of the
                    \* configuration
    Threading,      \* "single" or "multi", of the readers
    PrefixLen,      \* units of a length
    FrameLen,       \* units of a frame, its length included
    BufferSize,     \* the configured buffer_size, the longest frame a reader takes
    Room,           \* units the buffers of a connection hold
    MaxWrites       \* bound: messages published

VARIABLES
    inbound,    \* the peer's end: "unbound", "listening", "queued" (not accepted
                \* yet), "open", or "dropped" by the reader
    outbound,   \* the writer's: "connecting", "missing", "open", "dropped"
    written,    \* messages published, the current one included
    todo,       \* the streams that publish_encoded has still to write it to
    sent,       \* units of it that write_all has handed over to the first of them
    pipe,       \* pipe[p]: the units on the way to p
    total,      \* total[p]: the length read, 0 before (tcp_reader_thread)
    body,       \* body[p]: the units of the frame read so far, after the length
    received    \* received[p]: what the decoder gave p, in order

writerVars == <<outbound, written, todo, sent>>
readerVars == <<total, body, received>>
tcpVars == <<inbound, writerVars, pipe, readerVars>>

Peers == 1..PeerCount
Units == (1..MaxWrites) \X (1..FrameLen)
Frame(f) == [i \in 1..FrameLen |-> <<f, i>>]
Garbled == 0    \* a frame that decodes and is none the writer sent

TcpTypeOK ==
    /\ inbound \in [Peers -> {"unbound", "listening", "queued", "open", "dropped"}]
    /\ outbound \in [Peers -> {"connecting", "missing", "open", "dropped"}]
    /\ written \in 0..MaxWrites /\ sent \in 0..(FrameLen - 1)
    /\ todo \in Seq(Peers) /\ pipe \in [Peers -> Seq(Units)]
    /\ total \in [Peers -> 0..BufferSize] /\ body \in [Peers -> Seq(Units)]
    /\ received \in [Peers -> Seq((1..MaxWrites) \union {Garbled})]

TcpInit ==
    /\ inbound = [p \in Peers |-> "unbound"]
    /\ outbound = [p \in Peers |-> "connecting"]
    /\ written = 0 /\ todo = <<>> /\ sent = 0
    /\ pipe = [p \in Peers |-> <<>>]
    /\ total = [p \in Peers |-> 0] /\ body = [p \in Peers |-> <<>>]
    /\ received = [p \in Peers |-> <<>>]
-----------------------------------------------------------------------------
(* Connections.  A connection that is refused for TCP_CONNECT_RETRY_BUDGET *)
(* is given up with a warning; the spawn goes on without that peer.        *)

Bind(p) ==
    /\ inbound[p] = "unbound"
    /\ inbound' = [inbound EXCEPT ![p] = "listening"]
    /\ UNCHANGED <<writerVars, pipe, readerVars>>

\* The streams are opened one after the other.
NextToConnect(p) ==
    /\ outbound[p] = "connecting"
    /\ \A q \in 1..(p - 1) : outbound[q] # "connecting"

Connect(p) ==
    /\ NextToConnect(p)
    /\ inbound[p] = "listening"
    /\ inbound' = [inbound EXCEPT ![p] = "queued"]
    /\ outbound' = [outbound EXCEPT ![p] = "open"]
    /\ UNCHANGED <<written, todo, sent, pipe, readerVars>>

ConnectGivesUp(p) ==
    /\ NextToConnect(p)
    /\ inbound[p] = "unbound"
    /\ outbound' = [outbound EXCEPT ![p] = "missing"]
    /\ UNCHANGED <<inbound, written, todo, sent, pipe, readerVars>>

Accept(p) ==
    /\ inbound[p] = "queued"
    /\ inbound' = [inbound EXCEPT ![p] = "open"]
    /\ UNCHANGED <<writerVars, pipe, readerVars>>
-----------------------------------------------------------------------------
(* publish_encoded, its QoS 4 arm.                                         *)

Publish ==
    /\ \A p \in Peers : outbound[p] # "connecting"
    /\ todo = <<>> /\ written < MaxWrites
    /\ written' = written + 1
    /\ todo' = SelectSeq([p \in Peers |-> p], LAMBDA p : outbound[p] = "open")
    /\ UNCHANGED <<inbound, outbound, sent, pipe, readerVars>>

Writing(p) == todo # <<>> /\ Head(todo) = p

\* The kernel takes n more units; with the last one write_all returns.
Hand(p, n) ==
    /\ Writing(p)
    /\ inbound[p] # "dropped"
    /\ sent + n <= FrameLen /\ Len(pipe[p]) + n <= Room
    /\ pipe' = [pipe EXCEPT ![p] = @ \o SubSeq(Frame(written), sent + 1, sent + n)]
    /\ IF sent + n = FrameLen
       THEN todo' = Tail(todo) /\ sent' = 0
       ELSE todo' = todo /\ sent' = sent + n
    /\ UNCHANGED <<inbound, outbound, written, readerVars>>

\* SO_SNDTIMEO fires on a full buffer: the loop calls write_all again, with
\* the whole message.
WriteTimesOut(p) ==
    /\ Writing(p)
    /\ inbound[p] # "dropped"
    /\ Len(pipe[p]) = Room
    /\ sent' = 0
    /\ UNCHANGED <<inbound, outbound, written, todo, pipe, readerVars>>

\* The peer has closed the connection; the error is fatal and the stream goes.
WriteFails(p) ==
    /\ Writing(p)
    /\ inbound[p] = "dropped"
    /\ outbound' = [outbound EXCEPT ![p] = "dropped"]
    /\ todo' = Tail(todo) /\ sent' = 0
    /\ UNCHANGED <<inbound, written, pipe, readerVars>>
-----------------------------------------------------------------------------
(* The readers.                                                            *)

\* What PrefixLen units say when they are read as a length.  Units that are
\* not a prefix are part of a payload and may say anything.
Lengths(units) ==
    IF \E f \in 1..MaxWrites : units = SubSeq(Frame(f), 1, PrefixLen)
    THEN {FrameLen} ELSE 0..(BufferSize + 1)
Acceptable(length) == length > PrefixLen /\ length <= BufferSize

\* What decode_frame makes of a frame that the writer did not send: an error, or
\* a message when only the payload is harmed.
Decoded(units) ==
    IF \E f \in 1..MaxWrites : units = Frame(f)
    THEN {<<units[1][1]>>} ELSE {<<>>, <<Garbled>>}

Log(p, units) == \E m \in Decoded(units) : received' = [received EXCEPT ![p] = @ \o m]

Drop(p) ==
    /\ inbound' = [inbound EXCEPT ![p] = "dropped"]
    /\ pipe' = [pipe EXCEPT ![p] = <<>>]
    /\ UNCHANGED <<writerVars, readerVars>>

Consume(p, n) == pipe' = [pipe EXCEPT ![p] = SubSeq(@, n + 1, Len(@))]

\* Multi, tcp_reader_thread: read_exact of the length.  Its timeout loses what
\* it has read of it.
ReadLength(p) ==
    /\ Threading = "multi" /\ inbound[p] = "open" /\ total[p] = 0
    /\ Len(pipe[p]) >= PrefixLen
    /\ \E length \in Lengths(SubSeq(pipe[p], 1, PrefixLen)) :
           \/ /\ ~Acceptable(length)
              /\ Drop(p)
           \/ /\ Acceptable(length)
              /\ total' = [total EXCEPT ![p] = length]
              /\ body' = [body EXCEPT ![p] = SubSeq(pipe[p], 1, PrefixLen)]
              /\ Consume(p, PrefixLen)
              /\ UNCHANGED <<inbound, writerVars, received>>

LengthTimesOut(p) ==
    /\ Threading = "multi" /\ inbound[p] = "open" /\ total[p] = 0
    /\ pipe[p] # <<>> /\ Len(pipe[p]) < PrefixLen
    /\ Consume(p, Len(pipe[p]))
    /\ UNCHANGED <<inbound, writerVars, readerVars>>

\* The rest is read as it comes; timeouts lose nothing.
ReadBody(p, n) ==
    /\ Threading = "multi" /\ inbound[p] = "open" /\ total[p] > 0
    /\ n <= Len(pipe[p]) /\ Len(body[p]) + n <= total[p]
    /\ Consume(p, n)
    /\ LET units == body[p] \o SubSeq(pipe[p], 1, n) IN
       IF Len(units) < total[p]
       THEN /\ body' = [body EXCEPT ![p] = units]
            /\ UNCHANGED <<total, received>>
       ELSE /\ Log(p, units)
            /\ total' = [total EXCEPT ![p] = 0] /\ body' = [body EXCEPT ![p] = <<>>]
    /\ UNCHANGED <<inbound, writerVars>>

\* Single, read_framed_message: two read_exact on a non-blocking socket.  When
\* the units run out in either, WouldBlock is returned and those read are gone.
ReadFrame(p) ==
    /\ Threading = "single" /\ inbound[p] = "open"
    /\ pipe[p] # <<>>
    /\ \/ /\ Len(pipe[p]) < PrefixLen
          /\ Consume(p, Len(pipe[p]))
          /\ UNCHANGED <<inbound, writerVars, readerVars>>
       \/ /\ Len(pipe[p]) >= PrefixLen
          /\ \E length \in Lengths(SubSeq(pipe[p], 1, PrefixLen)) :
                 \/ /\ ~Acceptable(length)
                    /\ Drop(p)
                 \/ /\ Acceptable(length) /\ length > Len(pipe[p])
                    /\ Consume(p, Len(pipe[p]))
                    /\ UNCHANGED <<inbound, writerVars, readerVars>>
                 \/ /\ Acceptable(length) /\ length <= Len(pipe[p])
                    /\ Consume(p, length)
                    /\ Log(p, SubSeq(pipe[p], 1, length))
                    /\ UNCHANGED <<inbound, writerVars, total, body>>
-----------------------------------------------------------------------------
TcpNext ==
    \/ Publish
    \/ \E p \in Peers :
           \/ Bind(p) \/ Connect(p) \/ ConnectGivesUp(p) \/ Accept(p)
           \/ \E n \in 1..FrameLen : Hand(p, n)
           \/ WriteTimesOut(p) \/ WriteFails(p)
           \/ ReadLength(p) \/ LengthTimesOut(p) \/ ReadFrame(p)
           \/ \E n \in 1..BufferSize : ReadBody(p, n)

TcpSpec == TcpInit /\ [][TcpNext]_tcpVars
-----------------------------------------------------------------------------
\* A peer that the writer reached receives the writer's messages, each once, in
\* order and unharmed, and never gives the connection up: back-pressure slows
\* the stream down but does not damage it (comment of publish_encoded: a gap
\* "would corrupt the per-peer receiver state; the only acceptable failure mode
\* under sustained overload is throughput collapse").
StreamStaysWhole ==
    \A p \in Peers :
        /\ inbound[p] # "dropped"
        /\ IsPrefix(received[p], [i \in 1..written |-> i])
=============================================================================
