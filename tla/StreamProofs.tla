---------------------------- MODULE StreamProofs ----------------------------
(***************************************************************************)
(* Proofs about the streams of custom-udp, of hybrid at QoS 3 and 4, and   *)
(* of zenohd's event stream, for any number of nodes and messages and      *)
(* every size of the queues and buffers.                                   *)
(*                                                                         *)
(* ReliableUdp.  At QoS 3 expected[r][w] lies above everything r has       *)
(* delivered from w and everything it has asked w for, so what is accepted *)
(* next is newer than both, and whatever it jumps over is asked for then   *)
(* and never again.  Numbers are not skipped at QoS 3, so the buffer of a  *)
(* writer is exactly the last BufferLimit numbers, and every number in     *)
(* flight is one the writer has used.  For QoS 2, the tracker holds for    *)
(* each path the newest number delivered, which is the newest one arrived. *)
(*                                                                         *)
(* Hybrid: StreamsAreIntact.  What r has got of w, what its reader holds   *)
(* and what is in the socket are, joined, 1, 2, ... up to the last message *)
(* w has written to r; that is what w has published, less the one that the *)
(* driver is still writing where the turn of r has not come.  What a       *)
(* channel mixes of many writers is told apart by a filter, hence the      *)
(* lemmas about Only and SeqsFrom: a filter of a join is the join of the   *)
(* filters, and a filter of a filter is one filter.                        *)
(*                                                                         *)
(* ZenohRest: DamageIsLocal.  zenohd takes a sample at most twice, so the  *)
(* numbers of the events suffice.  What is yet to be read is the rest of   *)
(* one event and then whole events, each with four lines and a number      *)
(* above those before; the event of the next line is the only one of them  *)
(* that a lost line can have spoilt.  Where a read times out or the        *)
(* connection ends, what is left there is spoilt: a filter by what is not  *)
(* spoilt gives, for what is logged and what is yet to come, what is due.  *)
(***************************************************************************)
EXTENDS VariantProofs

-----------------------------------------------------------------------------
(* ReliableUdp.                                                            *)

\* What holds of the messages d a reader has delivered from a writer at QoS 3,
\* the number e it expects and the counts a of what it has asked for.
ReaderOk(d, e, a) ==
    /\ Ascending(d)
    /\ \A s \in Range(d) : s < e
    /\ \A s \in Seqs : a[s] <= 1 /\ (a[s] > 0 => s < e)
    /\ \A s \in Range(d), k \in Seqs : s <= k /\ k < e => k \in Range(d) \/ a[k] > 0

ReadersOk ==
    qos = 3 => \A r, w \in Nodes :
        ReaderOk(delivered[r][w], expected[r][w], asked[r][w])

NothingAsked == qos # 3 => \A r, w \in Nodes, s \in Seqs : asked[r][w][s] = 0

\* The same at QoS 2, with the tracker h and the set g of what has arrived.
TrackerOk(d, h, g) ==
    /\ AscendingPerPath(d)
    /\ \A s \in Range(d) \union g : s <= h[PathOf[s]]
    /\ \A p \in Paths : h[p] = 0 \/ (h[p] \in Range(d) /\ PathOf[h[p]] = p)

TrackersOk ==
    qos = 2 => \A r, w \in Nodes :
        TrackerOk(delivered[r][w], highest[r][w], arrived[r][w])

\* Only numbers in use travel; NACKs go to the writer, and only at QoS 3.
InFlight ==
    \A r \in Nodes : \A m \in net[r] :
        /\ m.seq <= counter[m.writer]
        /\ m.kind = "nack" => qos = 3 /\ m.writer = r

Window(n) == {k \in Seqs : k <= n /\ k > n - BufferLimit}

BufferIsWindow == qos = 3 => \A w \in Nodes : buffer[w] = Window(counter[w])

UdpInv ==
    /\ TypeOK
    /\ ReadersOk
    /\ NothingAsked
    /\ TrackersOk
    /\ InFlight
    /\ BufferIsWindow

-----------------------------------------------------------------------------
(* The effect of the actions, one pair of nodes at a time.                 *)

LEMMA AcceptReliableEffect ==
    ASSUME TypeOK,
           NEW r \in Nodes, NEW m \in net[r], AcceptReliable(r, m)
    PROVE  /\ m.writer \in Nodes /\ m.seq \in Seqs /\ qos = 3
           /\ m.seq >= Expects(r, m)
           /\ delivered' \in [Nodes -> [Nodes -> Seq(Seqs)]]
           /\ delivered'[r][m.writer] = Append(delivered[r][m.writer], m.seq)
           /\ expected'[r][m.writer] = m.seq + 1
           /\ \A s \in Seqs : asked'[r][m.writer][s] =
                 IF s \in Missing(r, m) THEN asked[r][m.writer][s] + 1
                                        ELSE asked[r][m.writer][s]
           /\ \A q, w \in Nodes : ~(q = r /\ w = m.writer) =>
                 /\ delivered'[q][w] = delivered[q][w]
                 /\ expected'[q][w] = expected[q][w]
                 /\ asked'[q][w] = asked[q][w]
<1>1. m \in Datagrams BY DEF TypeOK
<1>2. m.writer \in Nodes /\ m.seq \in Seqs BY <1>1 DEF Datagrams
<1>3. qos = 3 /\ m.seq >= Expects(r, m)
    <2>1. Expects(r, m) \in Int BY <1>2 DEF TypeOK, Expects, Seqs
    <2> QED BY <1>2, <2>1 DEF AcceptReliable, Discarded, Duplicate, Seqs
<1>4. /\ delivered' \in [Nodes -> [Nodes -> Seq(Seqs)]]
      /\ delivered'[r][m.writer] = Append(delivered[r][m.writer], m.seq)
      /\ \A q, w \in Nodes : ~(q = r /\ w = m.writer) => delivered'[q][w] = delivered[q][w]
    <2> DEFINE longer == Append(delivered[r][m.writer], m.seq)
    <2>1. delivered \in [Nodes -> [Nodes -> Seq(Seqs)]] BY DEF TypeOK
    <2>2. longer \in Seq(Seqs) BY <1>2, <2>1
    <2>3. delivered' = [delivered EXCEPT ![r][m.writer] = longer] BY DEF AcceptReliable
    <2> HIDE DEF longer
    <2>4. /\ delivered' \in [Nodes -> [Nodes -> Seq(Seqs)]]
          /\ delivered'[r][m.writer] = longer
          /\ \A q, w \in Nodes : ~(q = r /\ w = m.writer) => delivered'[q][w] = delivered[q][w]
        BY <1>2, <2>1, <2>2, <2>3
    <2> QED BY <2>4 DEF longer
<1>5. /\ expected'[r][m.writer] = m.seq + 1
      /\ \A q, w \in Nodes : ~(q = r /\ w = m.writer) => expected'[q][w] = expected[q][w]
    BY <1>2 DEF AcceptReliable, TypeOK, NextExpected
<1>6. /\ asked'[r][m.writer] =
            [s \in Seqs |-> IF s \in Missing(r, m) THEN asked[r][m.writer][s] + 1
                                                   ELSE asked[r][m.writer][s]]
      /\ \A q, w \in Nodes : ~(q = r /\ w = m.writer) => asked'[q][w] = asked[q][w]
    BY <1>2 DEF AcceptReliable, TypeOK
<1> QED BY <1>2, <1>3, <1>4, <1>5, <1>6

LEMMA AcceptEffect ==
    ASSUME TypeOK,
           NEW r \in Nodes, NEW m \in net[r], Accept(r, m)
    PROVE  /\ m.writer \in Nodes /\ m.seq \in Seqs /\ qos # 3
           /\ delivered' \in [Nodes -> [Nodes -> Seq(Seqs)]]
           /\ delivered'[r][m.writer] = Append(delivered[r][m.writer], m.seq)
           /\ arrived'[r][m.writer] = arrived[r][m.writer] \union {m.seq}
           /\ qos = 2 =>
                 /\ m.seq > highest[r][m.writer][PathOf[m.seq]]
                 /\ \A p \in Paths : highest'[r][m.writer][p] =
                       IF p = PathOf[m.seq] THEN m.seq ELSE highest[r][m.writer][p]
           /\ \A q, w \in Nodes : ~(q = r /\ w = m.writer) =>
                 /\ delivered'[q][w] = delivered[q][w]
                 /\ arrived'[q][w] = arrived[q][w]
                 /\ highest'[q][w] = highest[q][w]
<1>1. m \in Datagrams BY DEF TypeOK
<1>2. m.writer \in Nodes /\ m.seq \in Seqs BY <1>1 DEF Datagrams
<1>3. qos # 3 BY DEF Accept
<1>4. /\ delivered' \in [Nodes -> [Nodes -> Seq(Seqs)]]
      /\ delivered'[r][m.writer] = Append(delivered[r][m.writer], m.seq)
      /\ \A q, w \in Nodes : ~(q = r /\ w = m.writer) => delivered'[q][w] = delivered[q][w]
    <2> DEFINE longer == Append(delivered[r][m.writer], m.seq)
    <2>1. delivered \in [Nodes -> [Nodes -> Seq(Seqs)]] BY DEF TypeOK
    <2>2. longer \in Seq(Seqs) BY <1>2, <2>1
    <2>3. delivered' = [delivered EXCEPT ![r][m.writer] = longer] BY DEF Accept
    <2> HIDE DEF longer
    <2>4. /\ delivered' \in [Nodes -> [Nodes -> Seq(Seqs)]]
          /\ delivered'[r][m.writer] = longer
          /\ \A q, w \in Nodes : ~(q = r /\ w = m.writer) => delivered'[q][w] = delivered[q][w]
        BY <1>2, <2>1, <2>2, <2>3
    <2> QED BY <2>4 DEF longer
<1>5. /\ arrived'[r][m.writer] = arrived[r][m.writer] \union {m.seq}
      /\ \A q, w \in Nodes : ~(q = r /\ w = m.writer) => arrived'[q][w] = arrived[q][w]
    BY <1>2 DEF Accept, Received, TypeOK
<1>6. PathOf[m.seq] \in Paths BY <1>2 DEF Paths
<1>7. \A q, w \in Nodes : ~(q = r /\ w = m.writer) => highest'[q][w] = highest[q][w]
    BY <1>2 DEF Accept, TypeOK
<1>8. ASSUME qos = 2
      PROVE  /\ m.seq > highest[r][m.writer][PathOf[m.seq]]
             /\ \A p \in Paths : highest'[r][m.writer][p] =
                   IF p = PathOf[m.seq] THEN m.seq ELSE highest[r][m.writer][p]
    <2>1. highest[r][m.writer][PathOf[m.seq]] \in Int BY <1>2, <1>6 DEF TypeOK
    <2>2. m.seq > highest[r][m.writer][PathOf[m.seq]]
        BY <1>2, <1>8, <2>1 DEF Accept, Discarded, Stale, Seqs
    <2>3. highest'[r][m.writer] = Tracked(r, m) BY <1>2, <1>8 DEF Accept, TypeOK
    <2>4. highest[r][m.writer] \in [Paths -> 0..MaxSeq]
        <3>1. highest \in [Nodes -> [Nodes -> [Paths -> 0..MaxSeq]]] BY DEF TypeOK
        <3> QED BY <1>2, <3>1
    <2>5. \A p \in Paths : Tracked(r, m)[p] =
             IF p = PathOf[m.seq] THEN m.seq ELSE highest[r][m.writer][p]
        BY <1>6, <2>4 DEF Tracked
    <2> QED BY <2>2, <2>3, <2>5
<1> QED BY <1>2, <1>3, <1>4, <1>5, <1>7, <1>8

LEMMA DiscardEffect ==
    ASSUME TypeOK,
           NEW r \in Nodes, NEW m \in net[r], Discard(r, m)
    PROVE  /\ m.writer \in Nodes /\ m.seq \in Seqs
           /\ qos = 2 => m.seq <= highest[r][m.writer][PathOf[m.seq]]
           /\ arrived'[r][m.writer] = arrived[r][m.writer] \union {m.seq}
           /\ \A q, w \in Nodes : ~(q = r /\ w = m.writer) => arrived'[q][w] = arrived[q][w]
<1>1. m \in Datagrams BY DEF TypeOK
<1>2. m.writer \in Nodes /\ m.seq \in Seqs BY <1>1 DEF Datagrams
<1>3. qos = 2 => m.seq <= highest[r][m.writer][PathOf[m.seq]]
    BY DEF Discard, Discarded, Stale
<1> QED BY <1>2, <1>3 DEF Discard, Received, TypeOK

-----------------------------------------------------------------------------
(* Types.                                                                  *)

LEMMA TypeStep == TypeOK /\ [Next]_vars => TypeOK'
<1> SUFFICES ASSUME TypeOK, [Next]_vars PROVE TypeOK' OBVIOUS
<1> USE BoundAssumption
<1>1. ASSUME NEW w \in Nodes, Publish(w) PROVE TypeOK'
    <2> DEFINE s == counter[w] + 1
    <2>1. s \in Seqs BY <1>1 DEF TypeOK, Publish, Seqs
    <2>2. counter' \in [Nodes -> 0..MaxSeq] BY <1>1, <2>1 DEF TypeOK, Publish, Seqs
    <2>3. Data(w, s, Original) \in Datagrams BY <2>1 DEF Data, Datagrams
    <2>4. net' \in [Nodes -> SUBSET Datagrams]
        BY <1>1, <2>3 DEF TypeOK, Publish, Multicast
    <2>5. Retained(buffer[w], s) \subseteq Seqs BY <2>1 DEF TypeOK, Retained
    <2>6. buffer' \in [Nodes -> SUBSET Seqs] BY <1>1, <2>5 DEF TypeOK, Publish
    <2> QED BY <1>1, <2>2, <2>4, <2>6 DEF TypeOK, Publish
<1>2. ASSUME NEW w \in Nodes, Skip(w) PROVE TypeOK'
    BY <1>2 DEF TypeOK, Skip
<1>3. ASSUME NEW r \in Nodes, NEW m \in net[r], Discard(r, m) PROVE TypeOK'
    <2>1. m.writer \in Nodes /\ m.seq \in Seqs BY <1>3, DiscardEffect
    <2> QED BY <1>3, <2>1 DEF TypeOK, Discard, Received
<1>4. ASSUME NEW r \in Nodes, NEW m \in net[r], Accept(r, m) PROVE TypeOK'
    <2>1. m.writer \in Nodes /\ m.seq \in Seqs BY <1>4, AcceptEffect
    <2>2. delivered' \in [Nodes -> [Nodes -> Seq(Seqs)]] BY <1>4, AcceptEffect
    <2>3. Tracked(r, m) \in [Paths -> 0..MaxSeq]
        <3>1. highest \in [Nodes -> [Nodes -> [Paths -> 0..MaxSeq]]] BY DEF TypeOK
        <3>2. highest[r][m.writer] \in [Paths -> 0..MaxSeq] BY <2>1, <3>1
        <3>3. m.seq \in 0..MaxSeq BY <2>1 DEF Seqs
        <3> QED BY <3>2, <3>3 DEF Tracked
    <2>4. highest' \in [Nodes -> [Nodes -> [Paths -> 0..MaxSeq]]]
        BY <1>4, <2>1, <2>3 DEF TypeOK, Accept
    <2>5. arrived' \in [Nodes -> [Nodes -> SUBSET Seqs]]
        BY <1>4, <2>1 DEF TypeOK, Accept, Received
    <2>6. net' \in [Nodes -> SUBSET Datagrams] BY <1>4 DEF TypeOK, Accept
    <2> QED BY <1>4, <2>2, <2>4, <2>5, <2>6 DEF TypeOK, Accept
<1>5. ASSUME NEW r \in Nodes, NEW m \in net[r], AcceptReliable(r, m) PROVE TypeOK'
    <2>1. m.writer \in Nodes /\ m.seq \in Seqs BY <1>5, AcceptReliableEffect
    <2>2. delivered' \in [Nodes -> [Nodes -> Seq(Seqs)]] BY <1>5, AcceptReliableEffect
    <2>3. expected[r][m.writer] \in 0..MaxSeq + 1 BY <2>1 DEF TypeOK
    <2>4. Missing(r, m) \subseteq Seqs
        BY <2>1, <2>3 DEF Missing, Expects, Seqs
    <2>5. {Nack(m.writer, s, r) : s \in Missing(r, m)} \subseteq Datagrams
        BY <2>1, <2>4 DEF Nack, Datagrams
    <2>6. net' \in [Nodes -> SUBSET Datagrams]
        BY <1>5, <2>1, <2>5 DEF TypeOK, AcceptReliable
    <2>7. expected' \in [Nodes -> [Nodes -> 0..MaxSeq + 1]]
        <3>1. NextExpected(r, m) \in 0..MaxSeq + 1 BY <2>1 DEF NextExpected, Seqs
        <3> QED BY <1>5, <2>1, <3>1 DEF TypeOK, AcceptReliable
    <2>8. asked' \in [Nodes -> [Nodes -> [Seqs -> Nat]]]
        <3> DEFINE row == [s \in Seqs |-> IF s \in Missing(r, m)
                                          THEN asked[r][m.writer][s] + 1
                                          ELSE asked[r][m.writer][s]]
        <3>1. asked[r][m.writer] \in [Seqs -> Nat] BY <2>1 DEF TypeOK
        <3>2. row \in [Seqs -> Nat] BY <3>1
        <3>3. asked' = [asked EXCEPT ![r][m.writer] = row] BY <1>5 DEF AcceptReliable
        <3> HIDE DEF row
        <3> QED BY <2>1, <3>2, <3>3 DEF TypeOK
    <2>9. arrived' \in [Nodes -> [Nodes -> SUBSET Seqs]]
        BY <1>5, <2>1 DEF TypeOK, AcceptReliable, Received
    <2> QED BY <1>5, <2>2, <2>6, <2>7, <2>8, <2>9 DEF TypeOK, AcceptReliable
<1>6. ASSUME NEW w \in Nodes, NEW m \in net[w], HandleNack(w, m) PROVE TypeOK'
    <2>1. m \in Datagrams BY DEF TypeOK
    <2>2. Data(w, m.seq, m.copy) \in Datagrams BY <2>1 DEF Data, Datagrams
    <2>3. net' \in [Nodes -> SUBSET Datagrams] BY <1>6, <2>2 DEF TypeOK, HandleNack
    <2> QED BY <1>6, <2>3 DEF TypeOK, HandleNack
<1>7. CASE UNCHANGED vars BY <1>7 DEF TypeOK, vars
<1> QED BY <1>1, <1>2, <1>3, <1>4, <1>5, <1>6, <1>7 DEF Next

-----------------------------------------------------------------------------
(* One reader and one writer.                                              *)

LEMMA RangeAppend ==
    ASSUME NEW d \in Seq(Seqs), NEW s \in Seqs
    PROVE  /\ Range(Append(d, s)) = Range(d) \union {s}
           /\ Range(d) \subseteq Seqs
           /\ Range(d) = {d[i] : i \in 1..Len(d)}
<1>1. /\ Append(d, s) \in Seq(Seqs)
      /\ Len(Append(d, s)) = Len(d) + 1
      /\ \A i \in 1..Len(d) : Append(d, s)[i] = d[i]
      /\ Append(d, s)[Len(d) + 1] = s
    BY AppendProperties
<1>2. Len(d) \in Nat /\ DOMAIN d = 1..Len(d) /\ \A i \in 1..Len(d) : d[i] \in Seqs
    BY LenProperties, ElementOfSeq
<1>3. DOMAIN Append(d, s) = 1..Len(d) + 1 BY <1>1, LenProperties
<1>4. 1..Len(d) + 1 = 1..Len(d) \union {Len(d) + 1} BY <1>2
<1> QED BY <1>1, <1>2, <1>3, <1>4 DEF Range

LEMMA AcceptedReader ==
    ASSUME NEW d \in Seq(Seqs), NEW e \in Nat, NEW a \in [Seqs -> Nat],
           NEW b \in [Seqs -> Nat], NEW s \in Seqs,
           ReaderOk(d, e, a),
           s >= e,
           \A k \in Seqs : b[k] = IF e # 0 /\ k >= e /\ k < s THEN a[k] + 1 ELSE a[k]
    PROVE  ReaderOk(Append(d, s), s + 1, b)
<1>1. /\ Range(Append(d, s)) = Range(d) \union {s}
      /\ Range(d) \subseteq Seqs
      /\ Range(d) = {d[i] : i \in 1..Len(d)}
    BY RangeAppend
<1>2. \A t \in Range(d) : t \in Nat /\ t < e BY <1>1, BoundAssumption DEF ReaderOk, Seqs
<1>3. s \in Nat /\ \A k \in Seqs : k \in Nat /\ k > 0 BY BoundAssumption DEF Seqs
<1>4. ASSUME NEW t \in Range(d) PROVE t \in Nat /\ t < s
    <2>1. t \in Nat /\ t < e BY <1>2
    <2> QED BY <1>3, <2>1
<1>5. Ascending(Append(d, s))
    <2>1. Ascending(d) BY DEF ReaderOk
    <2>2. /\ Len(Append(d, s)) = Len(d) + 1
          /\ \A i \in 1..Len(d) : Append(d, s)[i] = d[i]
          /\ Append(d, s)[Len(d) + 1] = s
        BY AppendProperties
    <2>3. \A i \in 1..Len(d) : d[i] < s BY <1>1, <1>4
    <2>4. Len(d) \in Nat BY LenProperties
    <2> QED BY <2>1, <2>2, <2>3, <2>4 DEF Ascending
<1>6. ASSUME NEW t \in Range(Append(d, s)) PROVE t < s + 1
    <2>1. t = s \/ t \in Range(d) BY <1>1
    <2> QED BY <1>3, <1>4, <2>1
<1>7. \A k \in Seqs : b[k] <= 1 /\ (b[k] > 0 => k < s + 1)
    BY <1>3 DEF ReaderOk
<1>8. ASSUME NEW t \in Range(Append(d, s)), NEW k \in Seqs, t <= k, k < s + 1
      PROVE  k \in Range(Append(d, s)) \/ b[k] > 0
    <2>1. CASE k = s BY <1>1, <2>1
    <2>2. CASE k # s
        <3>1. k < s /\ t # s /\ t \in Range(d) BY <1>1, <1>3, <1>8, <2>2
        <3>2. e # 0 BY <1>2, <1>3, <3>1
        <3>3. CASE k < e BY <1>1, <1>3, <1>8, <3>1, <3>3 DEF ReaderOk
        <3>4. CASE k >= e BY <1>3, <3>1, <3>2, <3>4
        <3> QED BY <1>3, <3>3, <3>4
    <2> QED BY <2>1, <2>2
<1> QED BY <1>5, <1>6, <1>7, <1>8 DEF ReaderOk

LEMMA AcceptedTracker ==
    ASSUME NEW d \in Seq(Seqs), NEW h \in [Paths -> 0..MaxSeq], NEW g \in SUBSET Seqs,
           NEW h2 \in [Paths -> 0..MaxSeq], NEW s \in Seqs,
           TrackerOk(d, h, g),
           s > h[PathOf[s]],
           \A p \in Paths : h2[p] = IF p = PathOf[s] THEN s ELSE h[p]
    PROVE  TrackerOk(Append(d, s), h2, g \union {s})
<1>1. /\ Range(Append(d, s)) = Range(d) \union {s}
      /\ Range(d) \subseteq Seqs
      /\ Range(d) = {d[i] : i \in 1..Len(d)}
    BY RangeAppend
<1>2. \A k \in Seqs : k \in Nat /\ PathOf[k] \in Paths BY BoundAssumption DEF Seqs, Paths
<1>3. \A p \in Paths : h[p] \in Nat /\ h2[p] \in Nat BY BoundAssumption
<1>4. \A t \in Range(d) \union g : t \in Seqs /\ t <= h[PathOf[t]] BY <1>1 DEF TrackerOk
<1>5. AscendingPerPath(Append(d, s))
    <2>1. AscendingPerPath(d) BY DEF TrackerOk
    <2>2. /\ Len(Append(d, s)) = Len(d) + 1
          /\ \A i \in 1..Len(d) : Append(d, s)[i] = d[i]
          /\ Append(d, s)[Len(d) + 1] = s
        BY AppendProperties
    <2>3. \A i \in 1..Len(d) : PathOf[d[i]] = PathOf[s] => d[i] < s
        BY <1>1, <1>2, <1>3, <1>4
    <2>4. Len(d) \in Nat BY LenProperties
    <2> QED BY <2>1, <2>2, <2>3, <2>4 DEF AscendingPerPath
<1>6. ASSUME NEW t \in Range(Append(d, s)) \union (g \union {s})
      PROVE  t <= h2[PathOf[t]]
    <2>1. CASE t = s BY <1>2, <2>1
    <2>2. CASE t # s
        <3>1. t \in Range(d) \union g BY <1>1, <2>2
        <3>2. t \in Seqs /\ t <= h[PathOf[t]] BY <1>4, <3>1
        <3>3. CASE PathOf[t] = PathOf[s]
            <4>1. h2[PathOf[t]] = s /\ t <= h[PathOf[s]] BY <1>2, <3>2, <3>3
            <4> QED BY <1>2, <1>3, <3>2, <4>1
        <3>4. CASE PathOf[t] # PathOf[s] BY <1>2, <3>2, <3>4
        <3> QED BY <3>3, <3>4
    <2> QED BY <2>1, <2>2
<1>7. \A p \in Paths : h2[p] = 0 \/ (h2[p] \in Range(Append(d, s)) /\ PathOf[h2[p]] = p)
    BY <1>1 DEF TrackerOk
<1> QED BY <1>5, <1>6, <1>7 DEF TrackerOk

-----------------------------------------------------------------------------
(* The invariant is preserved.                                             *)

\* All that the readers remember, and what each kind of step does to it.
readerState == <<qos, expected, highest, delivered, asked, arrived>>

LEMMA StepCases ==
    ASSUME [Next]_vars
    PROVE  \/ \E r \in Nodes : \E m \in net[r] : AcceptReliable(r, m)
           \/ \E r \in Nodes : \E m \in net[r] : Accept(r, m)
           \/ \E r \in Nodes : \E m \in net[r] : Discard(r, m)
           \/ UNCHANGED readerState
BY DEF Next, Publish, Skip, HandleNack, readerState, vars

LEMMA ReadersStep ==
    ASSUME TypeOK, ReadersOk, NothingAsked, [Next]_vars
    PROVE  ReadersOk' /\ NothingAsked'
<1>1. ASSUME NEW r \in Nodes, NEW m \in net[r], AcceptReliable(r, m)
      PROVE  ReadersOk' /\ NothingAsked'
    <2> DEFINE w == m.writer
    <2>1. w \in Nodes /\ m.seq \in Seqs /\ qos = 3 /\ m.seq >= Expects(r, m)
        BY <1>1, AcceptReliableEffect
    <2>2. /\ delivered'[r][w] = Append(delivered[r][w], m.seq)
          /\ expected'[r][w] = m.seq + 1
          /\ \A s \in Seqs : asked'[r][w][s] =
                IF s \in Missing(r, m) THEN asked[r][w][s] + 1 ELSE asked[r][w][s]
        BY <1>1, AcceptReliableEffect
    <2>3. \A q, v \in Nodes : ~(q = r /\ v = w) =>
                 /\ delivered'[q][v] = delivered[q][v]
                 /\ expected'[q][v] = expected[q][v]
                 /\ asked'[q][v] = asked[q][v]
        BY <1>1, AcceptReliableEffect
    <2>4. TypeOK' BY TypeStep
    <2>5. /\ delivered[r][w] \in Seq(Seqs) /\ expected[r][w] \in Nat
          /\ asked[r][w] \in [Seqs -> Nat] /\ asked'[r][w] \in [Seqs -> Nat]
        <3>1. /\ delivered \in [Nodes -> [Nodes -> Seq(Seqs)]]
              /\ expected \in [Nodes -> [Nodes -> 0..MaxSeq + 1]]
              /\ asked \in [Nodes -> [Nodes -> [Seqs -> Nat]]]
              /\ asked' \in [Nodes -> [Nodes -> [Seqs -> Nat]]]
            BY <2>4 DEF TypeOK
        <3>2. expected[r][w] \in 0..MaxSeq + 1 BY <2>1, <3>1
        <3> QED BY <2>1, <3>1, <3>2, BoundAssumption
    <2>6. m.seq >= expected[r][w]
        BY <2>1, <2>5, BoundAssumption DEF Expects, Seqs
    <2>7. \A k \in Seqs : asked'[r][w][k] =
             IF expected[r][w] # 0 /\ k >= expected[r][w] /\ k < m.seq
             THEN asked[r][w][k] + 1 ELSE asked[r][w][k]
        <3> SUFFICES ASSUME NEW k \in Seqs
                     PROVE  k \in Missing(r, m) <=>
                               (expected[r][w] # 0 /\ k >= expected[r][w] /\ k < m.seq)
            BY <2>2
        <3>1. k \in Nat /\ m.seq \in Nat BY <2>1, BoundAssumption DEF Seqs
        <3> QED BY <2>5, <3>1 DEF Missing, Expects
    <2>8. ReaderOk(delivered[r][w], expected[r][w], asked[r][w])
        BY <2>1 DEF ReadersOk
    <2>9. ReaderOk(Append(delivered[r][w], m.seq), m.seq + 1, asked'[r][w])
        <3> HIDE DEF w
        <3> QED BY <2>1, <2>5, <2>6, <2>7, <2>8, AcceptedReader
    <2>10. ASSUME NEW q \in Nodes, NEW v \in Nodes
           PROVE  ReaderOk(delivered'[q][v], expected'[q][v], asked'[q][v])
        <3>1. CASE q = r /\ v = w BY <2>2, <2>9, <3>1
        <3>2. CASE ~(q = r /\ v = w)
            <4>1. ReaderOk(delivered[q][v], expected[q][v], asked[q][v])
                BY <2>1 DEF ReadersOk
            <4>2. /\ delivered'[q][v] = delivered[q][v]
                  /\ expected'[q][v] = expected[q][v]
                  /\ asked'[q][v] = asked[q][v]
                BY <2>3, <3>2
            <4> QED BY <4>1, <4>2
        <3> QED BY <3>1, <3>2
    <2>11. qos' = 3 BY <1>1, <2>1 DEF AcceptReliable
    <2> QED BY <2>10, <2>11 DEF ReadersOk, NothingAsked
<1>2. ASSUME NEW r \in Nodes, NEW m \in net[r], Accept(r, m)
      PROVE  ReadersOk' /\ NothingAsked'
    BY <1>2 DEF Accept, ReadersOk, NothingAsked
<1>3. ASSUME NEW r \in Nodes, NEW m \in net[r], Discard(r, m)
      PROVE  ReadersOk' /\ NothingAsked'
    BY <1>3 DEF Discard, ReadersOk, NothingAsked
<1>4. CASE UNCHANGED readerState
    BY <1>4 DEF readerState, ReadersOk, NothingAsked
<1> QED BY <1>1, <1>2, <1>3, <1>4, StepCases

LEMMA TrackersStep ==
    ASSUME TypeOK, TrackersOk, [Next]_vars
    PROVE  TrackersOk'
<1>1. ASSUME NEW r \in Nodes, NEW m \in net[r], AcceptReliable(r, m)
      PROVE  TrackersOk'
    BY <1>1 DEF AcceptReliable, TrackersOk
<1>2. ASSUME NEW r \in Nodes, NEW m \in net[r], Accept(r, m), qos = 2
      PROVE  TrackersOk'
    <2> DEFINE w == m.writer
    <2>1. w \in Nodes /\ m.seq \in Seqs BY <1>2, AcceptEffect
    <2>2. /\ delivered'[r][w] = Append(delivered[r][w], m.seq)
          /\ arrived'[r][w] = arrived[r][w] \union {m.seq}
          /\ m.seq > highest[r][w][PathOf[m.seq]]
          /\ \A p \in Paths : highest'[r][w][p] =
                IF p = PathOf[m.seq] THEN m.seq ELSE highest[r][w][p]
        BY <1>2, AcceptEffect
    <2>3. \A q, v \in Nodes : ~(q = r /\ v = w) =>
                 /\ delivered'[q][v] = delivered[q][v]
                 /\ arrived'[q][v] = arrived[q][v]
                 /\ highest'[q][v] = highest[q][v]
        BY <1>2, AcceptEffect
    <2>4. TypeOK' BY TypeStep
    <2>5. /\ delivered[r][w] \in Seq(Seqs) /\ arrived[r][w] \in SUBSET Seqs
          /\ highest[r][w] \in [Paths -> 0..MaxSeq]
          /\ highest'[r][w] \in [Paths -> 0..MaxSeq]
        <3>1. /\ delivered \in [Nodes -> [Nodes -> Seq(Seqs)]]
              /\ arrived \in [Nodes -> [Nodes -> SUBSET Seqs]]
              /\ highest \in [Nodes -> [Nodes -> [Paths -> 0..MaxSeq]]]
              /\ highest' \in [Nodes -> [Nodes -> [Paths -> 0..MaxSeq]]]
            BY <2>4 DEF TypeOK
        <3> QED BY <2>1, <3>1
    <2>6. TrackerOk(delivered[r][w], highest[r][w], arrived[r][w])
        BY <1>2, <2>1 DEF TrackersOk
    <2>7. TrackerOk(Append(delivered[r][w], m.seq), highest'[r][w], arrived[r][w] \union {m.seq})
        <3> HIDE DEF w
        <3> QED BY <2>1, <2>2, <2>5, <2>6, AcceptedTracker
    <2>8. ASSUME NEW q \in Nodes, NEW v \in Nodes
          PROVE  TrackerOk(delivered'[q][v], highest'[q][v], arrived'[q][v])
        <3>1. CASE q = r /\ v = w BY <2>2, <2>7, <3>1
        <3>2. CASE ~(q = r /\ v = w)
            <4>1. TrackerOk(delivered[q][v], highest[q][v], arrived[q][v])
                BY <1>2 DEF TrackersOk
            <4>2. /\ delivered'[q][v] = delivered[q][v]
                  /\ arrived'[q][v] = arrived[q][v]
                  /\ highest'[q][v] = highest[q][v]
                BY <2>3, <3>2
            <4> QED BY <4>1, <4>2
        <3> QED BY <3>1, <3>2
    <2> QED BY <2>8 DEF TrackersOk
<1>3. ASSUME NEW r \in Nodes, NEW m \in net[r], Discard(r, m), qos = 2
      PROVE  TrackersOk'
    <2>1. /\ m.writer \in Nodes /\ m.seq \in Seqs
          /\ m.seq <= highest[r][m.writer][PathOf[m.seq]]
          /\ arrived'[r][m.writer] = arrived[r][m.writer] \union {m.seq}
          /\ \A q, w \in Nodes : ~(q = r /\ w = m.writer) => arrived'[q][w] = arrived[q][w]
        BY <1>3, DiscardEffect
    <2>2. \A q, w \in Nodes :
             TrackerOk(delivered[q][w], highest[q][w], arrived'[q][w])
        BY <1>3, <2>1 DEF TrackersOk, TrackerOk
    <2>3. delivered' = delivered /\ highest' = highest BY <1>3 DEF Discard
    <2> QED BY <2>2, <2>3 DEF TrackersOk
<1>4. ASSUME NEW r \in Nodes, NEW m \in net[r], Accept(r, m) \/ Discard(r, m), qos # 2
      PROVE  TrackersOk'
    BY <1>4 DEF Accept, Discard, TrackersOk
<1>5. CASE UNCHANGED readerState BY <1>5 DEF readerState, TrackersOk
<1> QED BY <1>1, <1>2, <1>3, <1>4, <1>5, StepCases

LEMMA IntervalSize ==
    ASSUME NEW a \in Int, NEW z \in Int, a <= z
    PROVE  Cardinality(a..z) = z - a + 1
BY FS_Interval

LEMMA RetainedWhenFull ==
    ASSUME NEW S, NEW s, Cardinality(S \union {s}) > BufferLimit, s > BufferLimit
    PROVE  Retained(S, s) = {k \in S \union {s} : k > s - BufferLimit}
BY Zenon DEF Retained

LEMMA RetainedIsWindow ==
    ASSUME NEW n \in Nat, n + 1 \in Seqs
    PROVE  Retained(Window(n), n + 1) = Window(n + 1)
<1>1. MaxSeq \in Nat /\ BufferLimit \in Nat /\ BufferLimit > 0 BY BoundAssumption
<1>2. CASE n + 1 <= BufferLimit
    <2>1. Retained(Window(n), n + 1) = Window(n) \union {n + 1}
        BY <1>1, <1>2 DEF Retained
    <2>2. \A k \in Seqs : k > n - BufferLimit /\ k > n + 1 - BufferLimit
        BY <1>1, <1>2 DEF Seqs
    <2> QED BY <1>1, <2>1, <2>2 DEF Window, Seqs
<1>3. CASE n + 1 > BufferLimit
    <2>1. Window(n) \union {n + 1} = (n + 1 - BufferLimit)..(n + 1)
        BY <1>1, <1>3 DEF Window, Seqs
    <2>2. /\ n + 1 - BufferLimit \in Int /\ n + 1 \in Int
          /\ n + 1 - BufferLimit <= n + 1
        BY <1>1
    <2>3. Cardinality((n + 1 - BufferLimit)..(n + 1)) = (n + 1) - (n + 1 - BufferLimit) + 1
        BY <2>2, IntervalSize
    <2>4. (n + 1) - (n + 1 - BufferLimit) + 1 > BufferLimit BY <1>1
    <2>5. Cardinality(Window(n) \union {n + 1}) > BufferLimit
        BY ONLY <2>1, <2>3, <2>4, Zenon
    <2> DEFINE S == Window(n)
               s == n + 1
               recent == {k \in S \union {s} : k > s - BufferLimit}
    <2>6. recent = Window(n + 1) BY <1>1, <1>3 DEF Window, Seqs
    <2>7. Cardinality(S \union {s}) > BufferLimit /\ s > BufferLimit BY <1>3, <2>5
    <2>8. Retained(Window(n), n + 1) = Retained(S, s) OBVIOUS
    <2>9. Retained(S, s) = recent
        <3> HIDE DEF S, s
        <3> QED BY <2>7, RetainedWhenFull
    <2> HIDE DEF S, s, recent
    <2> QED BY <2>6, <2>8, <2>9
<1> QED BY <1>1, <1>2, <1>3

LEMMA InFlightTyped ==
    ASSUME TypeOK, NEW r \in Nodes, NEW m \in net[r]
    PROVE  m.writer \in Nodes /\ m.seq \in Seqs /\ m.seq \in Nat
<1>1. m \in Datagrams BY DEF TypeOK
<1> QED BY <1>1, BoundAssumption DEF Datagrams, Seqs

LEMMA WritersStep ==
    ASSUME TypeOK, InFlight, BufferIsWindow, [Next]_vars
    PROVE  InFlight' /\ BufferIsWindow'
<1>1. ASSUME NEW w \in Nodes, Publish(w) PROVE InFlight' /\ BufferIsWindow'
    <2> DEFINE n == counter[w]
    <2>1. n \in Nat /\ n + 1 \in Seqs
        BY <1>1, BoundAssumption DEF TypeOK, Publish, Seqs
    <2>2. counter' = [counter EXCEPT ![w] = n + 1] BY <1>1 DEF Publish
    <2>3. \A v \in Nodes : counter[v] \in Nat /\ counter'[v] \in Nat /\ counter[v] <= counter'[v]
        BY <2>1, <2>2, BoundAssumption DEF TypeOK
    <2>4. counter'[w] = n + 1 BY <2>2 DEF TypeOK
    <2>5. ASSUME NEW r \in Nodes, NEW m \in net'[r]
          PROVE  m.seq <= counter'[m.writer] /\ (m.kind = "nack" => qos' = 3 /\ m.writer = r)
        <3>1. CASE m = Data(w, n + 1, Original)
            BY <2>1, <2>4, <3>1 DEF Data
        <3>2. CASE m # Data(w, n + 1, Original)
            <4>1. m \in net[r] BY <1>1, <3>2 DEF Publish, Multicast, TypeOK
            <4>2. m.writer \in Nodes /\ m.seq \in Nat
                BY <4>1, InFlightTyped
            <4>3. m.seq <= counter[m.writer] /\ (m.kind = "nack" => qos = 3 /\ m.writer = r)
                BY <4>1 DEF InFlight
            <4>4. qos' = qos BY <1>1 DEF Publish
            <4> QED BY <2>3, <4>2, <4>3, <4>4
        <3> QED BY <3>1, <3>2
    <2>6. InFlight' BY <2>5 DEF InFlight
    <2>7. ASSUME qos = 3, NEW v \in Nodes PROVE buffer'[v] = Window(counter'[v])
        <3>1. buffer' = [buffer EXCEPT ![w] = Retained(buffer[w], n + 1)]
            BY <1>1, <2>7 DEF Publish
        <3>2. buffer[v] = Window(counter[v]) BY <2>7 DEF BufferIsWindow
        <3>3. CASE v = w
            <4>1. buffer'[w] = Retained(Window(n), n + 1)
                BY <3>1, <3>2, <3>3 DEF TypeOK
            <4> QED BY <2>1, <2>4, <3>3, <4>1, RetainedIsWindow
        <3>4. CASE v # w BY <2>2, <3>1, <3>2, <3>4 DEF TypeOK
        <3> QED BY <3>3, <3>4
    <2>8. qos' = qos BY <1>1 DEF Publish
    <2> QED BY <2>6, <2>7, <2>8 DEF BufferIsWindow
<1>2. ASSUME NEW w \in Nodes, Skip(w) PROVE InFlight' /\ BufferIsWindow'
    <2>1. counter' = [counter EXCEPT ![w] = counter[w] + 1] /\ net' = net /\ qos' = qos /\ qos # 3
        BY <1>2 DEF Skip, SkipsOnBackpressure
    <2>2. \A v \in Nodes : counter[v] \in Nat /\ counter'[v] \in Nat /\ counter[v] <= counter'[v]
        BY <2>1, BoundAssumption DEF TypeOK
    <2>3. ASSUME NEW r \in Nodes, NEW m \in net[r]
          PROVE  m.seq <= counter'[m.writer] /\ (m.kind = "nack" => qos = 3 /\ m.writer = r)
        <3>1. m.writer \in Nodes /\ m.seq \in Nat BY InFlightTyped
        <3> QED BY <2>2, <3>1 DEF InFlight
    <2> QED BY <2>1, <2>3 DEF InFlight, BufferIsWindow
<1>3. ASSUME NEW r \in Nodes, NEW m \in net[r], Discard(r, m) \/ Accept(r, m)
      PROVE  InFlight' /\ BufferIsWindow'
    <2>1. /\ qos' = qos /\ counter' = counter /\ buffer' = buffer
          /\ net' = [net EXCEPT ![r] = net[r] \ {m}]
        BY <1>3 DEF Discard, Accept
    <2>2. \A q \in Nodes : net'[q] \subseteq net[q] BY <2>1 DEF TypeOK
    <2> QED BY <2>1, <2>2 DEF InFlight, BufferIsWindow
<1>4. ASSUME NEW r \in Nodes, NEW m \in net[r], AcceptReliable(r, m)
      PROVE  InFlight' /\ BufferIsWindow'
    <2>1. qos = 3 /\ qos' = qos /\ counter' = counter /\ buffer' = buffer
        BY <1>4 DEF AcceptReliable
    <2>2. m.writer \in Nodes /\ m.seq \in Nat /\ m.seq <= counter[m.writer]
        BY InFlightTyped DEF InFlight
    <2>3. counter[m.writer] \in Nat BY <2>2, BoundAssumption DEF TypeOK
    <2>4. ASSUME NEW q \in Nodes, NEW x \in net'[q]
          PROVE  x.seq <= counter[x.writer] /\ (x.kind = "nack" => qos = 3 /\ x.writer = q)
        <3>1. CASE x \in net[q] BY <3>1 DEF InFlight
        <3>2. CASE x \notin net[q]
            <4>1. q = m.writer /\ x \in {Nack(q, s, r) : s \in Missing(r, m)}
                BY <1>4, <3>2 DEF AcceptReliable
            <4>2. PICK s \in Missing(r, m) : x = Nack(q, s, r) BY <4>1
            <4>3. expected[r][m.writer] \in 0..MaxSeq + 1 BY <2>2 DEF TypeOK
            <4>4. s \in Int /\ s < m.seq
                BY <2>2, <4>3, BoundAssumption DEF Missing, Expects
            <4> QED BY <2>1, <2>2, <2>3, <4>1, <4>2, <4>4 DEF Nack
        <3> QED BY <3>1, <3>2
    <2> QED BY <2>1, <2>4 DEF InFlight, BufferIsWindow
<1>5. ASSUME NEW w \in Nodes, NEW m \in net[w], HandleNack(w, m)
      PROVE  InFlight' /\ BufferIsWindow'
    <2>1. qos' = qos /\ counter' = counter /\ buffer' = buffer BY <1>5 DEF HandleNack
    <2>2. m.seq <= counter[w] BY <1>5 DEF InFlight, HandleNack
    <2>3. ASSUME NEW q \in Nodes, NEW x \in net'[q]
          PROVE  x.seq <= counter[x.writer] /\ (x.kind = "nack" => qos = 3 /\ x.writer = q)
        <3>1. CASE x \in net[q] BY <3>1 DEF InFlight
        <3>2. CASE x \notin net[q]
            <4>1. x = Data(w, m.seq, m.copy) BY <1>5, <3>2 DEF HandleNack
            <4> QED BY <2>2, <4>1 DEF Data
        <3> QED BY <3>1, <3>2
    <2> QED BY <2>1, <2>3 DEF InFlight, BufferIsWindow
<1>6. CASE UNCHANGED vars BY <1>6 DEF vars, InFlight, BufferIsWindow
<1> QED BY <1>1, <1>2, <1>3, <1>4, <1>5, <1>6 DEF Next

LEMMA InitEstablishes == Init => UdpInv
<1> SUFFICES ASSUME Init PROVE UdpInv OBVIOUS
<1>1. TypeOK BY BoundAssumption DEF Init, TypeOK
<1>2. \A r, w \in Nodes : delivered[r][w] = <<>> /\ Len(delivered[r][w]) = 0 /\ Range(delivered[r][w]) = {}
    BY DEF Init, Range
<1>3. \A r, w \in Nodes : \A s \in Seqs : asked[r][w][s] = 0 BY DEF Init
<1>4. ReadersOk BY <1>2, <1>3 DEF ReadersOk, ReaderOk, Ascending
<1>5. TrackersOk BY <1>2 DEF Init, TrackersOk, TrackerOk, AscendingPerPath
<1>6. InFlight BY DEF Init, InFlight
<1>7. BufferIsWindow BY BoundAssumption DEF Init, BufferIsWindow, Window, Seqs
<1> QED BY <1>1, <1>3, <1>4, <1>5, <1>6, <1>7 DEF UdpInv, NothingAsked

(* The invariant the properties rest on holds in every state of every
   behaviour. *)
THEOREM UdpInvariant == Spec => []UdpInv
<1>1. UdpInv /\ [Next]_vars => UdpInv'
    BY TypeStep, ReadersStep, TrackersStep, WritersStep DEF UdpInv
<1> QED BY <1>1, InitEstablishes, PTL DEF Spec

-----------------------------------------------------------------------------
(* The properties.                                                         *)

(* The types are recent: in particular no number beyond the last one written
   is ever expected. *)
THEOREM UdpTypeCorrect == Spec => []TypeOK
BY UdpInvariant, PTL DEF UdpInv

(* QoS 3 delivers the messages of a writer in order and none twice. *)
THEOREM ReliableDeliveryInOrder == Spec => []InOrder
<1>1. UdpInv => InOrder BY DEF UdpInv, ReadersOk, ReaderOk, InOrder
<1> QED BY <1>1, UdpInvariant, PTL

(* QoS 3 never sends a second NACK for a message. *)
THEOREM AtMostOneNack == Spec => []AskedOnce
<1>1. UdpInv => AskedOnce
    <2> SUFFICES ASSUME UdpInv, NEW r \in Nodes, NEW w \in Nodes, NEW s \in Seqs
                 PROVE  asked[r][w][s] <= 1
        BY DEF AskedOnce
    <2>1. CASE qos = 3 BY <2>1 DEF UdpInv, ReadersOk, ReaderOk
    <2>2. CASE qos # 3
        <3>1. asked[r][w][s] = 0 BY <2>2 DEF UdpInv, NothingAsked
        <3> QED BY <3>1
    <2> QED BY <2>1, <2>2
<1> QED BY <1>1, UdpInvariant, PTL

(* QoS 3 notices every gap between two messages it has delivered. *)
THEOREM EveryGapNoticed == Spec => []NoGapOverlooked
<1>1. UdpInv => NoGapOverlooked
    <2> SUFFICES ASSUME UdpInv, qos = 3, NEW r \in Nodes, NEW w \in Nodes,
                        NEW s \in Range(delivered[r][w]), NEW t \in Range(delivered[r][w]),
                        NEW k \in s..t
                 PROVE  k \in Range(delivered[r][w]) \/ asked[r][w][k] > 0
        BY DEF NoGapOverlooked
    <2>1. ReaderOk(delivered[r][w], expected[r][w], asked[r][w])
        BY DEF UdpInv, ReadersOk
    <2>2. delivered[r][w] \in Seq(Seqs) /\ expected[r][w] \in 0..MaxSeq + 1
        BY DEF UdpInv, TypeOK
    <2>3. s \in Seqs /\ t \in Seqs
        <3>1. Range(delivered[r][w]) \subseteq Seqs BY <2>2, LenProperties, ElementOfSeq DEF Range
        <3> QED BY <3>1
    <2>4. k \in Seqs /\ s <= k /\ k <= t BY <2>3, BoundAssumption DEF Seqs
    <2>5. t < expected[r][w] BY <2>1 DEF ReaderOk
    <2>6. k < expected[r][w] BY <2>2, <2>3, <2>4, <2>5, BoundAssumption DEF Seqs
    <2> QED BY <2>1, <2>4, <2>6 DEF ReaderOk
<1> QED BY <1>1, UdpInvariant, PTL

(* A NACK that reaches the writer finds the message still buffered if it is
   one of the last BufferLimit it wrote. *)
THEOREM RecentNacksAreAnswerable == Spec => []Answerable
<1>1. UdpInv => Answerable
    <2> SUFFICES ASSUME UdpInv, NEW w \in Nodes, NEW m \in net[w], m.kind = "nack"
                 PROVE  /\ m.seq <= counter[w]
                        /\ m.seq > counter[w] - BufferLimit => m.seq \in buffer[w]
        BY DEF Answerable
    <2>1. m.seq <= counter[w] /\ qos = 3 BY DEF UdpInv, InFlight
    <2>2. m.seq \in Seqs BY DEF UdpInv, TypeOK, Datagrams
    <2>3. buffer[w] = Window(counter[w]) BY <2>1 DEF UdpInv, BufferIsWindow
    <2> QED BY <2>1, <2>2, <2>3 DEF Window
<1> QED BY <1>1, UdpInvariant, PTL

(* QoS 2 never hands the driver an older value of a path than before. *)
THEOREM PathsNeverGoBack == Spec => []NeverStale
<1>1. UdpInv => NeverStale BY DEF UdpInv, TrackersOk, TrackerOk, NeverStale
<1> QED BY <1>1, UdpInvariant, PTL

(* QoS 2 shows the newest value of every path that has reached the node. *)
THEOREM NewestValueShown == Spec => []LatestWins
<1>1. UdpInv => LatestWins
    <2> SUFFICES ASSUME UdpInv, qos = 2, NEW r \in Nodes, NEW w \in Nodes,
                        NEW s \in arrived[r][w]
                 PROVE  \E t \in Range(delivered[r][w]) : PathOf[t] = PathOf[s] /\ t >= s
        BY DEF LatestWins
    <2>1. TrackerOk(delivered[r][w], highest[r][w], arrived[r][w])
        BY DEF UdpInv, TrackersOk
    <2>2. s \in Seqs BY DEF UdpInv, TypeOK
    <2>3. PathOf[s] \in Paths /\ s \in Nat /\ s > 0 BY <2>2, BoundAssumption DEF Paths, Seqs
    <2>4. s <= highest[r][w][PathOf[s]] BY <2>1 DEF TrackerOk
    <2>5. highest[r][w][PathOf[s]] # 0 BY <2>3, <2>4
    <2>6. /\ highest[r][w][PathOf[s]] \in Range(delivered[r][w])
          /\ PathOf[highest[r][w][PathOf[s]]] = PathOf[s]
        BY <2>1, <2>3, <2>5 DEF TrackerOk
    <2>7. highest[r][w][PathOf[s]] \in Nat
        <3>1. highest \in [Nodes -> [Nodes -> [Paths -> 0..MaxSeq]]] BY DEF UdpInv, TypeOK
        <3> QED BY <2>3, <3>1, BoundAssumption
    <2> QED BY <2>3, <2>4, <2>6, <2>7
<1> QED BY <1>1, UdpInvariant, PTL

(* QoS 2 shows the newest value that has reached the node, and never goes back. *)
THEOREM NewestIsShown == Spec => []FreshestShown
BY PathsNeverGoBack, NewestValueShown, PTL DEF FreshestShown

(* Each gap of a QoS 3 stream is asked for once, and answerably when recent. *)
THEOREM EachGapIsAskedFor == Spec => []GapsAreAskedFor
BY AtMostOneNack, EveryGapNoticed, RecentNacksAreAnswerable, PTL DEF GapsAreAskedFor


-----------------------------------------------------------------------------
(* The numbers of a selection, and what a filter leaves of a sequence.     *)

LEMMA OnlyAppend ==
    ASSUME NEW T, NEW s \in Seq(T), NEW x \in T, NEW S
    PROVE  Only(Append(s, x), S) = IF x \in S THEN Append(Only(s, S), x) ELSE Only(s, S)
<1> DEFINE y == <<x>>
<1>1. y \in Seq(T) /\ Len(y) = 1 /\ \A i \in 1..1 : y[i] = x
  OBVIOUS
<1>2. Only(s, S) \in Seq(T)
  BY OnlyMembers
<1>3. Append(s, x) = s \o y /\ Append(Only(s, S), x) = Only(s, S) \o y
  BY <1>2, AppendIsConcat
<1> HIDE DEF y
<1>4. Only(s \o y, S) = Only(s, S) \o Only(y, S)
  BY <1>1, OnlyJoin
<1>5. CASE x \in S
  <2>1. Only(y, S) = y
    BY <1>1, <1>5, OnlyAll
  <2> QED BY <1>3, <1>4, <1>5, <2>1
<1>6. CASE x \notin S
  <2>1. Only(y, S) = <<>>
    BY <1>1, <1>6, OnlyNone
  <2>2. Only(s, S) \o <<>> = Only(s, S)
    BY <1>2, NothingJoined
  <2> QED BY <1>3, <1>4, <1>6, <2>1, <2>2
<1> QED BY <1>5, <1>6

LEMMA OnlyHead ==
    ASSUME NEW T, NEW s \in Seq(T), s # <<>>, NEW S
    PROVE  Only(s, S) = IF Head(s) \in S THEN <<Head(s)>> \o Only(Tail(s), S) ELSE Only(Tail(s), S)
<1> DEFINE x == Head(s)
<1>0. x \in T /\ Tail(s) \in Seq(T) /\ s = <<x>> \o Tail(s)
  BY HeadThenTail
<1> HIDE DEF x
<1> DEFINE y == <<x>>
<1>1. y \in Seq(T) /\ Len(y) = 1 /\ \A i \in 1..1 : y[i] = x
  BY <1>0
<1>2. Only(Tail(s), S) \in Seq(T)
  BY <1>0, OnlyMembers
<1>3. s = y \o Tail(s)
  BY <1>0
<1> HIDE DEF y
<1> DEFINE r == Tail(s)
<1>r. r \in Seq(T)
  BY <1>0
<1> HIDE DEF r
<1>j. Only(y \o r, S) = Only(y, S) \o Only(r, S)
  BY <1>1, <1>r, OnlyJoin
<1>4. Only(s, S) = Only(y, S) \o Only(Tail(s), S)
  BY <1>3, <1>j DEF r
<1>5. CASE x \in S
  <2>1. Only(y, S) = y
    BY <1>1, <1>5, OnlyAll
  <2> QED BY <1>4, <1>5, <2>1 DEF x, y
<1>6. CASE x \notin S
  <2>1. Only(y, S) = <<>>
    BY <1>1, <1>6, OnlyNone
  <2>2. <<>> \o Only(Tail(s), S) = Only(Tail(s), S)
    BY <1>2, NothingJoined
  <2> QED BY <1>4, <1>6, <2>1, <2>2 DEF x
<1> QED BY <1>5, <1>6

\* The places from which a filter takes its elements only go up.
LEMMA AtPlacesFurther ==
    ASSUME NEW T, NEW s \in Seq(T), NEW P \in SUBSET (1..Len(s))
    PROVE  /\ AtPlaces(s, P) \in Seq(T) /\ Len(AtPlaces(s, P)) <= Len(s)
           /\ \A k \in 1..Len(AtPlaces(s, P)) :
                \E i \in P : i >= k /\ AtPlaces(s, P)[k] = s[i]
           /\ \A i \in P : \E k \in 1..Len(AtPlaces(s, P)) : AtPlaces(s, P)[k] = s[i]
           /\ \A k, l \in 1..Len(AtPlaces(s, P)) : k # l =>
                \E i, j \in P : i # j /\ AtPlaces(s, P)[k] = s[i] /\ AtPlaces(s, P)[l] = s[j]
           /\ Len(AtPlaces(s, P)) = Len(s) => AtPlaces(s, P) = s
<1> DEFINE t == AtPlaces(s, P)
           m == Len(s)
<1>0. m \in Nat /\ P \in SUBSET Nat /\ P \in SUBSET (1..m)
  OBVIOUS
<1>e. PICK n \in Nat : \E e : Lists(e, n, P)
  BY <1>0, ListExists
<1>1. PICK e : Lists(e, n, P)
  BY <1>e
<1>2. t = [k \in 1..n |-> s[e[k]]]
  BY <1>0, <1>1, AtPlacesIs
<1>3. /\ \A k \in 1..n : e[k] \in P /\ e[k] \in 1..m
      /\ \A a, b \in 1..n : a < b => e[a] < e[b]
      /\ \A i \in P : \E k \in 1..n : e[k] = i
  BY <1>0, <1>1 DEF Lists
<1>4. \A k \in 1..n : s[e[k]] \in T
  BY <1>3
<1>5. t \in Seq(T) /\ Len(t) = n /\ \A k \in 1..n : t[k] = s[e[k]]
  BY <1>2, <1>4
<1> HIDE DEF t, m
<1> DEFINE Behind == {k \in Nat : k \in 1..n /\ ~(e[k] >= k)}
<1>6. Behind = {}
  <2> SUFFICES ASSUME Behind # {} PROVE FALSE
    OBVIOUS
  <2>1. PICK k \in Behind : \A j \in Behind : k <= j
    BY LeastPlaceExists
  <2>2. k \in 1..n /\ e[k] \in 1..m /\ ~(e[k] >= k) /\ k # 1
    BY <1>0, <1>3, <2>1
  <2>3. k - 1 \in 1..n /\ k - 1 \notin Behind /\ k - 1 < k
    BY <2>1, <2>2
  <2>4. e[k - 1] >= k - 1 /\ e[k - 1] < e[k] /\ e[k - 1] \in 1..m
    BY <1>3, <2>2, <2>3
  <2> QED BY <1>0, <2>2, <2>4
<1>7. \A k \in 1..n : e[k] >= k
  BY <1>6
<1>8. n <= m
  <2>1. CASE n = 0
    BY <1>0, <2>1
  <2>2. CASE n # 0
    <3>1. n \in 1..n
      BY <2>2
    <3>2. e[n] >= n /\ e[n] \in 1..m
      BY <1>3, <1>7, <3>1
    <3> QED BY <1>0, <3>2
  <2> QED BY <2>1, <2>2
<1>9. ASSUME n = m PROVE t = s
  <2> DEFINE Ahead == {k \in Nat : k \in 1..n /\ e[n + 1 - k] # n + 1 - k}
  <2>1. Ahead = {}
    <3> SUFFICES ASSUME Ahead # {} PROVE FALSE
      OBVIOUS
    <3>1. PICK k \in Ahead : \A j \in Ahead : k <= j
      BY LeastPlaceExists
    <3> DEFINE a == n + 1 - k
    <3>2. k \in 1..n /\ a \in 1..n /\ e[a] # a
      BY <3>1
    <3>3. e[a] >= a /\ e[a] \in 1..n
      BY <1>3, <1>7, <1>9, <3>2
    <3>4. CASE k = 1
      BY <3>2, <3>3, <3>4
    <3>5. CASE k # 1
      <4>4. k - 1 \in 1..n /\ n + 1 - (k - 1) = a + 1 /\ a + 1 \in 1..n /\ ~(k <= k - 1)
        BY <1>0, <3>2, <3>5
      <4>1. k - 1 \notin Ahead
        BY <3>1, <4>4
      <4>2. e[a + 1] = a + 1 /\ a < a + 1
        BY <4>1, <4>4
      <4>3. e[a] < a + 1
        BY <1>3, <3>2, <4>4, <4>2
      <4> QED BY <3>2, <3>3, <4>3
    <3> QED BY <3>4, <3>5
  <2>2. \A a \in 1..n : e[a] = a
    <3> SUFFICES ASSUME NEW a \in 1..n PROVE e[a] = a
      OBVIOUS
    <3> DEFINE k == n + 1 - a
    <3>1. k \in 1..n /\ k \in Nat /\ n + 1 - k = a
      OBVIOUS
    <3> HIDE DEF k
    <3>2. k \notin Ahead
      BY <2>1
    <3> QED BY <3>1, <3>2
  <2>3. \A a \in 1..n : t[a] = s[a]
    BY <1>5, <2>2
  <2>4. Len(s) = n
    BY <1>9 DEF m
  <2> QED BY <1>5, <2>3, <2>4, SeqEqual
<1>10. \A k \in 1..n : \E i \in P : i >= k /\ t[k] = s[i]
  BY <1>3, <1>5, <1>7
<1>11. \A i \in P : \E k \in 1..n : t[k] = s[i]
  <2> SUFFICES ASSUME NEW i \in P PROVE \E k \in 1..n : t[k] = s[i]
    OBVIOUS
  <2>1. PICK k \in 1..n : e[k] = i
    BY <1>3
  <2> QED BY <1>5, <2>1
<1>12. \A k, l \in 1..n : k # l => \E i, j \in P : i # j /\ t[k] = s[i] /\ t[l] = s[j]
  <2> SUFFICES ASSUME NEW k \in 1..n, NEW l \in 1..n, k # l
               PROVE  \E i, j \in P : i # j /\ t[k] = s[i] /\ t[l] = s[j]
    OBVIOUS
  <2>1. k < l \/ l < k
    OBVIOUS
  <2>2. e[k] # e[l] /\ e[k] \in P /\ e[l] \in P
    BY <1>0, <1>3, <2>1
  <2> QED BY <1>5, <2>2
<1> QED BY <1>5, <1>8, <1>9, <1>10, <1>11, <1>12 DEF t, m

LEMMA AtPlacesApart ==
    ASSUME NEW T, NEW s \in Seq(T), NEW P \in SUBSET (1..Len(s)),
           \A i, j \in DOMAIN s : s[i] = s[j] => i = j
    PROVE  \A k, l \in DOMAIN AtPlaces(s, P) : AtPlaces(s, P)[k] = AtPlaces(s, P)[l] => k = l
<1> DEFINE t == AtPlaces(s, P)
<1>1. /\ t \in Seq(T) /\ Len(t) <= Len(s)
      /\ \A k \in 1..Len(t) : \E i \in P : i >= k /\ t[k] = s[i]
      /\ \A i \in P : \E k \in 1..Len(t) : t[k] = s[i]
      /\ \A k, l \in 1..Len(t) : k # l => \E i, j \in P : i # j /\ t[k] = s[i] /\ t[l] = s[j]
      /\ Len(t) = Len(s) => t = s
  BY AtPlacesFurther
<1>5. \A k, l \in 1..Len(t) : k # l => \E i, j \in P : i # j /\ t[k] = s[i] /\ t[l] = s[j]
  BY <1>1
<1> HIDE DEF t
<1>2. DOMAIN t = 1..Len(t) /\ DOMAIN s = 1..Len(s)
  BY <1>1
<1> SUFFICES ASSUME NEW k \in DOMAIN t, NEW l \in DOMAIN t, t[k] = t[l], k # l PROVE FALSE
  BY DEF t
<1>3. PICK i \in P, j \in P : i # j /\ t[k] = s[i] /\ t[l] = s[j]
  BY <1>2, <1>5
<1>4. i \in DOMAIN s /\ j \in DOMAIN s /\ s[i] = s[j]
  BY <1>2, <1>3
<1> QED BY <1>3, <1>4

\* What f makes of the elements of s.
Mapped(s, f) == [k \in DOMAIN s |-> f[s[k]]]

MapsTo(f, T, Q) == f \in [T -> Q]

LEMMA MappedJoin ==
    ASSUME NEW T, NEW Q, NEW f, MapsTo(f, T, Q), NEW s \in Seq(T), NEW t \in Seq(T)
    PROVE  /\ Mapped(s, f) \in Seq(Q) /\ Mapped(t, f) \in Seq(Q) /\ Len(Mapped(s, f)) = Len(s)
           /\ Mapped(s \o t, f) = Mapped(s, f) \o Mapped(t, f)
<1> DEFINE n == Len(s)
           m == Len(t)
           w == s \o t
           a == Mapped(s, f)
           b == Mapped(t, f)
           c == Mapped(w, f)
<1>1. /\ n \in Nat /\ m \in Nat /\ w \in Seq(T) /\ Len(w) = n + m
      /\ \A k \in 1..n + m : w[k] = IF k <= n THEN s[k] ELSE t[k - n]
  BY ConcatProperties
<1> HIDE DEF w
<1>f. \A x \in T : f[x] \in Q
  BY DEF MapsTo
<1>2. \A k \in 1..n : s[k] \in T
  OBVIOUS
<1>3. \A k \in 1..m : t[k] \in T
  OBVIOUS
<1>4. \A k \in 1..n + m : w[k] \in T
  BY <1>1
<1>5. a \in Seq(Q) /\ Len(a) = n /\ \A k \in 1..n : a[k] = f[s[k]]
  <2>1. a = [k \in 1..n |-> f[s[k]]] /\ \A k \in 1..n : f[s[k]] \in Q
    BY <1>2, <1>f DEF Mapped
  <2> QED BY <1>1, <2>1
<1>6. b \in Seq(Q) /\ Len(b) = m /\ \A k \in 1..m : b[k] = f[t[k]]
  <2>1. b = [k \in 1..m |-> f[t[k]]] /\ \A k \in 1..m : f[t[k]] \in Q
    BY <1>3, <1>f DEF Mapped
  <2> QED BY <1>1, <2>1
<1>7. c \in Seq(Q) /\ Len(c) = n + m /\ \A k \in 1..n + m : c[k] = f[w[k]]
  BY <1>1, <1>4, <1>f DEF Mapped
<1> HIDE DEF a, b, c, n, m
<1>8. /\ a \o b \in Seq(Q) /\ Len(a \o b) = n + m
      /\ \A k \in 1..n + m : (a \o b)[k] = IF k <= n THEN a[k] ELSE b[k - n]
  <2>1. a \in Seq(Q) /\ b \in Seq(Q)
    BY <1>5, <1>6
  <2>2. /\ a \o b \in Seq(Q) /\ Len(a \o b) = Len(a) + Len(b)
        /\ \A k \in 1..Len(a) + Len(b) : (a \o b)[k] = IF k <= Len(a) THEN a[k] ELSE b[k - Len(a)]
    BY <2>1, ConcatProperties
  <2>3. Len(a) = n /\ Len(b) = m
    BY <1>5, <1>6
  <2> QED BY <2>2, <2>3
<1>9. \A k \in 1..n + m : c[k] = (a \o b)[k]
  <2> SUFFICES ASSUME NEW k \in 1..n + m PROVE c[k] = (a \o b)[k]
    OBVIOUS
  <2>1. CASE k <= n
    <3>1. k \in 1..n
      BY <1>1, <2>1
    <3>2. w[k] = s[k] /\ (a \o b)[k] = a[k] /\ a[k] = f[s[k]] /\ c[k] = f[w[k]]
      BY <1>1, <1>5, <1>7, <1>8, <2>1, <3>1
    <3> QED BY <3>2
  <2>2. CASE ~(k <= n)
    <3>1. k - n \in 1..m
      BY <1>1, <2>2
    <3>2. w[k] = t[k - n] /\ (a \o b)[k] = b[k - n] /\ b[k - n] = f[t[k - n]] /\ c[k] = f[w[k]]
      BY <1>1, <1>6, <1>7, <1>8, <2>2, <3>1
    <3> QED BY <3>2
  <2> QED BY <2>1, <2>2
<1>10. c = a \o b
  BY <1>7, <1>8, <1>9, SeqEqual
<1>11. a \in Seq(Q) /\ b \in Seq(Q) /\ Len(a) = Len(s)
  BY <1>5, <1>6 DEF n
<1> QED BY <1>10, <1>11 DEF a, b, c, w

LEMMA MappedStrung ==
    ASSUME NEW T, NEW Q, NEW f, NEW s, NEW t, MapsTo(f, T, Q) /\ s \in Seq(T) /\ t \in Seq(T)
    PROVE  Mapped(Strung(s, t), f) = Strung(Mapped(s, f), Mapped(t, f))
BY MappedJoin DEF Strung

Tagged(F, Q) == [from : F, seq : Q]
SeqField(F, Q) == [x \in Tagged(F, Q) |-> x.seq]
FromNode(F, Q, w) == {x \in Tagged(F, Q) : x.from = w}

LEMMA SeqsFromIs ==
    ASSUME NEW F, NEW Q, NEW s \in Seq(Tagged(F, Q)), NEW w
    PROVE  /\ MapsTo(SeqField(F, Q), Tagged(F, Q), Q)
           /\ Only(s, FromNode(F, Q, w)) \in Seq(Tagged(F, Q))
           /\ SeqsFrom(s, w) = Mapped(Only(s, FromNode(F, Q, w)), SeqField(F, Q))
<1> DEFINE T == Tagged(F, Q)
           S == FromNode(F, Q, w)
           P == {i \in DOMAIN s : s[i].from = w}
           a == AtPlaces(s, P)
<1>1. MapsTo(SeqField(F, Q), T, Q) /\ \A x \in T : SeqField(F, Q)[x] = x.seq
  BY DEF SeqField, Tagged, MapsTo
<1>2. \A i \in DOMAIN s : s[i] \in T
  OBVIOUS
<1>3. P = {i \in DOMAIN s : s[i] \in S}
  BY <1>2 DEF FromNode
<1>4. Only(s, S) = a
  BY <1>3 DEF Only
<1>5. Only(s, S) \in Seq(T)
  BY OnlyMembers
<1>6. SeqsFrom(s, w) = [k \in DOMAIN a |-> a[k].seq]
  BY DEF SeqsFrom
<1> HIDE DEF a, T
<1>7. \A k \in DOMAIN a : SeqField(F, Q)[a[k]] = a[k].seq
  BY <1>1, <1>4, <1>5
<1>8. SeqsFrom(s, w) = Mapped(a, SeqField(F, Q))
  BY <1>6, <1>7 DEF Mapped
<1> QED BY <1>1, <1>4, <1>5, <1>8 DEF T

LEMMA SeqsFromJoin ==
    ASSUME NEW F, NEW Q, NEW s \in Seq(Tagged(F, Q)), NEW t \in Seq(Tagged(F, Q)), NEW w
    PROVE  /\ SeqsFrom(s, w) \in Seq(Q) /\ SeqsFrom(t, w) \in Seq(Q)
           /\ SeqsFrom(s \o t, w) = SeqsFrom(s, w) \o SeqsFrom(t, w)
<1> DEFINE T == Tagged(F, Q)
           S == FromNode(F, Q, w)
           f == SeqField(F, Q)
           a == Only(s, S)
           b == Only(t, S)
           j == s \o t
<1> HIDE DEF T
<1>1. s \in Seq(T) /\ t \in Seq(T)
  BY DEF T
<1>2. j \in Seq(T)
  BY <1>1, JoinTyped
<1> HIDE DEF j
<1>3. MapsTo(f, T, Q) /\ a \in Seq(T) /\ SeqsFrom(s, w) = Mapped(a, f)
  BY SeqsFromIs DEF T
<1>4. b \in Seq(T) /\ SeqsFrom(t, w) = Mapped(b, f)
  BY SeqsFromIs DEF T
<1>5. SeqsFrom(j, w) = Mapped(Only(j, S), f)
  BY <1>2, SeqsFromIs DEF T
<1>6. Only(j, S) = a \o b
  BY <1>1, OnlyJoin DEF j
<1> HIDE DEF a, b, f
<1>t. MapsTo(f, T, Q) /\ a \in Seq(T) /\ b \in Seq(T)
  BY <1>3, <1>4
<1>7. Mapped(a, f) \in Seq(Q) /\ Mapped(b, f) \in Seq(Q)
  BY <1>t, MappedJoin
<1>8. Mapped(Strung(a, b), f) = Strung(Mapped(a, f), Mapped(b, f))
  BY <1>t, MappedStrung
<1> QED BY <1>3, <1>4, <1>5, <1>6, <1>7, <1>8 DEF j, Strung

LEMMA SeqsFromStrung ==
    ASSUME NEW F, NEW Q, NEW s, NEW t, NEW w,
           s \in Seq(Tagged(F, Q)) /\ t \in Seq(Tagged(F, Q))
    PROVE  SeqsFrom(Strung(s, t), w) = Strung(SeqsFrom(s, w), SeqsFrom(t, w))
BY SeqsFromJoin DEF Strung

LEMMA SeqsFromNothing ==
    ASSUME NEW F, NEW Q
    PROVE  \A w : SeqsFrom(<<>>, w) = <<>>
<1> SUFFICES ASSUME NEW w PROVE SeqsFrom(<<>>, w) = <<>>
  OBVIOUS
<1> DEFINE n == <<>>
<1>1. n \in Seq(Tagged(F, Q)) /\ Len(n) = 0
  OBVIOUS
<1> HIDE DEF n
<1>2. /\ Only(n, FromNode(F, Q, w)) \in Seq(Tagged(F, Q))
      /\ SeqsFrom(n, w) = Mapped(Only(n, FromNode(F, Q, w)), SeqField(F, Q))
  BY <1>1, SeqsFromIs
<1>3. Only(n, FromNode(F, Q, w)) = <<>>
  <2> DEFINE T == Tagged(F, Q)
             S == FromNode(F, Q, w)
  <2>1. n \in Seq(T) /\ \A i \in 1..Len(n) : n[i] \notin S
    BY <1>1
  <2> HIDE DEF S, T
  <2>2. Only(n, S) = <<>>
    BY <2>1, OnlyNone
  <2> QED BY <2>2 DEF S
<1>4. Mapped(<<>>, SeqField(F, Q)) = <<>>
  BY DEF Mapped
<1> QED BY <1>2, <1>3, <1>4 DEF n

LEMMA SeqsFromOne ==
    ASSUME NEW F, NEW Q, NEW x \in Tagged(F, Q), NEW w
    PROVE  /\ <<x>> \in Seq(Tagged(F, Q))
           /\ SeqsFrom(<<x>>, w) = IF x.from = w THEN <<x.seq>> ELSE <<>>
<1> DEFINE s == <<x>>
           S == FromNode(F, Q, w)
           f == SeqField(F, Q)
<1>1. s \in Seq(Tagged(F, Q)) /\ Len(s) = 1 /\ s[1] = x /\ \A i \in 1..1 : s[i] = x
  OBVIOUS
<1> HIDE DEF s
<1>2. SeqsFrom(s, w) = Mapped(Only(s, S), f)
  BY <1>1, SeqsFromIs
<1>3. CASE x.from = w
  <2>1. \A i \in 1..Len(s) : s[i] \in S
    BY <1>1, <1>3 DEF FromNode
  <2>2. Only(s, S) = s
    BY <1>1, <2>1, OnlyAll
  <2>3. DOMAIN s = 1..1 /\ f[x] = x.seq
    BY <1>1 DEF SeqField
  <2>4. Mapped(s, f) = [k \in 1..1 |-> x.seq]
    BY <1>1, <2>3 DEF Mapped
  <2>5. <<x.seq>> = [k \in 1..1 |-> x.seq]
    OBVIOUS
  <2> QED BY <1>1, <1>2, <1>3, <2>2, <2>4, <2>5 DEF s
<1>4. CASE x.from # w
  <2>1. \A i \in 1..Len(s) : s[i] \notin S
    BY <1>1, <1>4 DEF FromNode
  <2>2. Only(s, S) = <<>>
    BY <1>1, <2>1, OnlyNone
  <2>3. Mapped(<<>>, f) = <<>>
    BY DEF Mapped
  <2> QED BY <1>1, <1>2, <1>4, <2>2, <2>3 DEF s
<1> QED BY <1>3, <1>4

LEMMA SeqsFromAppend ==
    ASSUME NEW F, NEW Q, NEW s \in Seq(Tagged(F, Q)), NEW x \in Tagged(F, Q), NEW w
    PROVE  /\ SeqsFrom(s, w) \in Seq(Q) /\ x.seq \in Q
           /\ SeqsFrom(Append(s, x), w)
                 = IF x.from = w THEN Append(SeqsFrom(s, w), x.seq) ELSE SeqsFrom(s, w)
<1> DEFINE y == <<x>>
           a == SeqsFrom(s, w)
<1>1. y \in Seq(Tagged(F, Q)) /\ SeqsFrom(y, w) = IF x.from = w THEN <<x.seq>> ELSE <<>>
  BY SeqsFromOne
<1>2. Append(s, x) = s \o y
  BY AppendIsConcat
<1> HIDE DEF y
<1>t. a \in Seq(Q)
  BY <1>1, SeqsFromJoin
<1>3. SeqsFrom(Strung(s, y), w) = Strung(SeqsFrom(s, w), SeqsFrom(y, w))
  BY <1>1, SeqsFromStrung
<1>4. x.seq \in Q
  BY DEF Tagged
<1> HIDE DEF a
<1>5. a \o <<>> = a /\ Append(a, x.seq) = a \o <<x.seq>>
  BY <1>t, <1>4, NothingJoined, AppendIsConcat
<1> QED BY <1>1, <1>2, <1>3, <1>4, <1>5, <1>t DEF a, Strung

LEMMA SeqsFromHead ==
    ASSUME NEW F, NEW Q, NEW s \in Seq(Tagged(F, Q)), s # <<>>, NEW w
    PROVE  /\ Head(s) \in Tagged(F, Q) /\ Tail(s) \in Seq(Tagged(F, Q)) /\ Head(s).seq \in Q
           /\ SeqsFrom(Tail(s), w) \in Seq(Q)
           /\ SeqsFrom(s, w) = IF Head(s).from = w THEN <<Head(s).seq>> \o SeqsFrom(Tail(s), w)
                               ELSE SeqsFrom(Tail(s), w)
<1> DEFINE x == Head(s)
           r == Tail(s)
<1>1. x \in Tagged(F, Q) /\ r \in Seq(Tagged(F, Q)) /\ s = <<x>> \o r
  BY HeadThenTail
<1> HIDE DEF x, r
<1> DEFINE y == <<x>>
<1>2. y \in Seq(Tagged(F, Q)) /\ SeqsFrom(y, w) = IF x.from = w THEN <<x.seq>> ELSE <<>>
  BY <1>1, SeqsFromOne
<1> HIDE DEF y
<1>t. SeqsFrom(r, w) \in Seq(Q)
  BY <1>1, <1>2, SeqsFromJoin
<1>u. y \in Seq(Tagged(F, Q)) /\ r \in Seq(Tagged(F, Q))
  BY <1>1, <1>2
<1>3. SeqsFrom(Strung(y, r), w) = Strung(SeqsFrom(y, w), SeqsFrom(r, w))
  BY <1>u, SeqsFromStrung
<1>4. <<>> \o SeqsFrom(r, w) = SeqsFrom(r, w)
  BY <1>t, NothingJoined
<1>5. x.seq \in Q
  BY <1>1 DEF Tagged
<1>6. SeqsFrom(s, w) = IF x.from = w THEN <<x.seq>> \o SeqsFrom(r, w) ELSE SeqsFrom(r, w)
  BY <1>1, <1>2, <1>3, <1>4 DEF y, Strung
<1> QED BY <1>1, <1>t, <1>5, <1>6 DEF x, r

-----------------------------------------------------------------------------
(* Hybrid.                                                                 *)

\* The bursts of a spawn are whole ticks.
HybridCounts ==
    \A n \in HybridNames :
        \E k \in 0..setting.ticks : published[n] + burst[n] = k * setting.values

\* The peers a node writes to, and how far broadcast_with_drain has got with them.
TurnOf(n) ==
    /\ outbound[n] \in Seq(setting.names \ {n}) /\ inbound[n] \subseteq setting.names \ {n}
    /\ \A i, j \in DOMAIN outbound[n] : outbound[n][i] = outbound[n][j] => i = j
    /\ turn[n] <= targets[n]
    /\ turn[n] # 0 => Len(outbound[n]) <= targets[n] /\ published[n] >= 1
    /\ turn[n] # 0 /\ Len(outbound[n]) = targets[n] =>
        \A i \in failed[n] : i \in DOMAIN outbound[n] /\ Departed(outbound[n][i])
    /\ ~Departed(n) => \A p \in setting.names \ {n} :
        Departed(p) \/ \E i \in DOMAIN outbound[n] : outbound[n][i] = p

HybridTurns == \A n \in setting.names : TurnOf(n)

\* Whether the message that is being written has reached r.  Where outbound has
\* got shorter, the index may have passed over a peer; then it runs beyond the end.
HasReached(w, r) ==
    /\ Course(w, r) = FirstOnes(Len(Course(w, r)))
    /\ ~Departed(w) /\ turn[w] = 0 => Len(Course(w, r)) = published[w]
    /\ turn[w] # 0 =>
        \A i \in DOMAIN outbound[w] : outbound[w][i] = r =>
            /\ i >= turn[w] => Len(Course(w, r)) = published[w] - 1
            /\ i < turn[w] /\ Len(outbound[w]) = targets[w] =>
                   Len(Course(w, r)) = published[w]

HybridCourses == \A r, w \in setting.names : r # w /\ ~Departed(r) => HasReached(w, r)

HybridInv == HybridTypeOK /\ HybridCounts /\ HybridTurns /\ HybridCourses

HySeqs == 1..MaxPublished

LEMMA CellTyped ==
    ASSUME NEW A, NEW B, NEW S, NEW f \in [A -> [B -> S]], NEW a \in A, NEW b \in B, NEW x \in S
    PROVE  [f EXCEPT ![a][b] = x] \in [A -> [B -> S]]
OBVIOUS

LEMMA CellIn ==
    ASSUME NEW A, NEW B, NEW S, NEW f, f \in [A -> [B -> S]], NEW a \in A, NEW b \in B
    PROVE  f[a][b] \in S
OBVIOUS

LEMMA HySetting ==
    ASSUME HybridTypeOK
    PROVE  /\ setting.names \subseteq HybridNames /\ HybridNames \subseteq Nat \ {0}
           /\ IsFiniteSet(HybridNames) /\ Cardinality(HybridNames) \in Nat
           /\ setting.ticks \in 0..MaxTicks /\ setting.values \in 1..MaxValues
           /\ MaxTicks \in Nat /\ MaxValues \in Nat \ {0} /\ MaxPublished \in Nat
           /\ setting.mode \in {"single", "multi"}
<1>1. setting \in [mode : {"single", "multi"}, names : SUBSET HybridNames, ticks : 0..MaxTicks,
         values : 1..MaxValues, ends : BOOLEAN, kill : BOOLEAN]
  BY HybridSpawnsAssumption DEF HybridTypeOK
<1>2. IsFiniteSet(HybridNames) /\ HybridNames \subseteq Nat \ {0} /\ MaxTicks \in Nat
      /\ MaxValues \in Nat \ {0}
  BY HybridNamesAssumption, HybridBoundAssumption
<1>3. Cardinality(HybridNames) \in Nat
  BY <1>2, FS_CardinalityType
<1>4. MaxPublished \in Nat
  BY <1>2 DEF MaxPublished
<1>5. /\ setting.names \subseteq HybridNames /\ setting.ticks \in 0..MaxTicks
      /\ setting.values \in 1..MaxValues /\ setting.mode \in {"single", "multi"}
  BY <1>1
<1> QED BY <1>2, <1>3, <1>4, <1>5

LEMMA HyRow ==
    ASSUME HybridTypeOK, NEW n \in HybridNames
    PROVE  /\ burst[n] \in Nat /\ published[n] \in 0..MaxPublished
           /\ turn[n] \in 0..Cardinality(HybridNames) /\ targets[n] \in 0..Cardinality(HybridNames)
           /\ failed[n] \in SUBSET (1..Cardinality(HybridNames))
           /\ outbound[n] \in Seq(HybridNames) /\ inbound[n] \in SUBSET HybridNames
           /\ queued[n] \in Seq(Tagged(HybridNames, HySeqs))
           /\ \A m \in HybridNames : got[n][m] \in Seq(HySeqs) /\ socket[n][m] \in Seq(HySeqs)
<1>1. Frames = Tagged(HybridNames, HySeqs)
  BY DEF Frames, Tagged, HySeqs
<1>2. burst[n] \in Nat
  BY HySetting DEF HybridTypeOK
<1>3. queued[n] \in Seq(Tagged(HybridNames, HySeqs))
  BY <1>1 DEF HybridTypeOK
<1>4. /\ published[n] \in 0..MaxPublished /\ turn[n] \in 0..Cardinality(HybridNames)
      /\ targets[n] \in 0..Cardinality(HybridNames)
      /\ failed[n] \in SUBSET (1..Cardinality(HybridNames))
      /\ outbound[n] \in Seq(HybridNames) /\ inbound[n] \in SUBSET HybridNames
  BY DEF HybridTypeOK
<1>5. \A m \in HybridNames : got[n][m] \in Seq(HySeqs) /\ socket[n][m] \in Seq(HySeqs)
  <2>1. got \in [HybridNames -> [HybridNames -> Seq(HySeqs)]]
        /\ socket \in [HybridNames -> [HybridNames -> Seq(HySeqs)]]
    BY Zenon DEF HybridTypeOK, HySeqs
  <2> QED BY <2>1, CellIn
<1> QED BY <1>2, <1>3, <1>4, <1>5

\* A set of numbers from 1 on has a greatest one, or none.
LEMMA FiniteIsBounded ==
    ASSUME NEW S \in SUBSET (Nat \ {0}), IsFiniteSet(S)
    PROVE  \E m \in Nat : S \in SUBSET (1..m)
<1>1. PICK n \in Nat : ExistsBijection(1..n, S)
  BY FS_NatBijection
<1>2. PICK f \in Bijection(1..n, S) : TRUE
  BY <1>1 DEF ExistsBijection
<1>3. f \in [1..n -> S] /\ \A x \in S : \E k \in 1..n : f[k] = x
  BY <1>2 DEF Bijection, Injection, IsInjective, Surjection
<1> DEFINE Bounded(k) == \E b \in Nat : \A j \in 1..n : j <= k => f[j] <= b
           Bad == {k \in Nat : ~Bounded(k)}
<1>4. Bounded(0)
  OBVIOUS
<1>5. ASSUME NEW k \in Nat, Bounded(k) PROVE Bounded(k + 1)
  <2>1. PICK b \in Nat : \A j \in 1..n : j <= k => f[j] <= b
    BY <1>5
  <2>2. CASE k + 1 \in 1..n
    <3> DEFINE c == IF f[k + 1] <= b THEN b ELSE f[k + 1]
    <3>1. f[k + 1] \in Nat
      BY <1>3, <2>2
    <3>2. c \in Nat /\ b <= c /\ f[k + 1] <= c
      BY <3>1
    <3> HIDE DEF c
    <3>3. \A j \in 1..n : f[j] \in Nat
      BY <1>3
    <3>4. \A j \in 1..n : j <= k + 1 => f[j] <= c
      <4> SUFFICES ASSUME NEW j \in 1..n, j <= k + 1 PROVE f[j] <= c
        OBVIOUS
      <4>1. CASE j <= k
        BY <2>1, <3>2, <3>3, <4>1
      <4>2. CASE j = k + 1
        BY <3>2, <4>2
      <4> QED BY <4>1, <4>2
    <3> QED BY <3>2, <3>4
  <2>3. CASE k + 1 \notin 1..n
    <3>1. \A j \in 1..n : j <= k + 1 => j <= k
      BY <2>3
    <3> QED BY <2>1, <3>1
  <2> QED BY <2>2, <2>3
<1> HIDE DEF Bounded
<1>6. Bad = {}
  <2> SUFFICES ASSUME Bad # {} PROVE FALSE
    OBVIOUS
  <2>1. PICK k \in Bad : \A j \in Bad : k <= j
    BY LeastPlaceExists
  <2>2. k # 0 /\ k \in Nat
    BY <1>4
  <2>3. k - 1 \in Nat /\ k - 1 \notin Bad /\ k - 1 + 1 = k
    BY <2>1, <2>2
  <2> QED BY <1>5, <2>1, <2>3
<1>7. Bounded(n)
  BY <1>6
<1>8. PICK b \in Nat : \A j \in 1..n : j <= n => f[j] <= b
  BY <1>7 DEF Bounded
<1>9. \A x \in S : x \in 1..b
  <2> SUFFICES ASSUME NEW x \in S PROVE x \in 1..b
    OBVIOUS
  <2>1. PICK k \in 1..n : f[k] = x
    BY <1>3
  <2> QED BY <1>8, <2>1
<1> QED BY <1>9

\* PeersInOrder names each of the others once.
LEMMA PeersAreListed ==
    ASSUME HybridTypeOK, NEW n \in setting.names
    PROVE  /\ PeersInOrder(n) \in Seq(setting.names \ {n})
           /\ \A i, j \in DOMAIN PeersInOrder(n) : PeersInOrder(n)[i] = PeersInOrder(n)[j] => i = j
           /\ \A p \in setting.names \ {n} : \E i \in DOMAIN PeersInOrder(n) : PeersInOrder(n)[i] = p
<1> DEFINE P == setting.names \ {n}
           PlaceOf(p) == Cardinality({q \in P : q <= p})
<1>1. P \in SUBSET HybridNames
  BY HySetting
<1>2. P \in SUBSET (Nat \ {0}) /\ IsFiniteSet(P)
  BY <1>1, HySetting, FS_Subset
<1>3. PeersInOrder(n) = [i \in 1..Cardinality(P) |-> CHOOSE p \in P : PlaceOf(p) = i]
  BY DEF PeersInOrder
<1> HIDE DEF P
<1>4. PICK m \in Nat : P \in SUBSET (1..m)
  BY <1>2, FiniteIsBounded
<1>k. PICK k \in Nat : \E e : Lists(e, k, P)
  BY <1>4, ListExists
<1>5. PICK e : Lists(e, k, P)
  BY <1>k
<1>6. Cardinality(P) = k /\ \A i \in 1..k : PlaceOf(e[i]) = i
  <2>1. P \in SUBSET Nat
    BY <1>2
  <2> QED BY <1>5, <2>1, ListRanks
<1>7. /\ \A i \in 1..k : e[i] \in P
      /\ \A a, b \in 1..k : a < b => e[a] < e[b]
      /\ \A p \in P : \E i \in 1..k : e[i] = p
  BY <1>5 DEF Lists
<1> HIDE DEF PlaceOf
<1>8. \A i \in 1..k : (CHOOSE p \in P : PlaceOf(p) = i) = e[i]
  <2> SUFFICES ASSUME NEW i \in 1..k PROVE (CHOOSE p \in P : PlaceOf(p) = i) = e[i]
    OBVIOUS
  <2>1. e[i] \in P /\ PlaceOf(e[i]) = i
    BY <1>6, <1>7
  <2>2. \A p \in P : PlaceOf(p) = i => p = e[i]
    BY <1>6, <1>7
  <2> QED BY <2>1, <2>2
<1>9. PeersInOrder(n) = [i \in 1..k |-> e[i]]
  BY <1>3, <1>6, <1>8
<1> DEFINE s == PeersInOrder(n)
<1>10. s \in Seq(P) /\ DOMAIN s = 1..k /\ \A i \in 1..k : s[i] = e[i]
  BY <1>7, <1>9
<1> HIDE DEF s
<1>11. \A i, j \in 1..k : s[i] = s[j] => i = j
  <2> SUFFICES ASSUME NEW i \in 1..k, NEW j \in 1..k, s[i] = s[j], i # j PROVE FALSE
    OBVIOUS
  <2>1. i < j \/ j < i
    OBVIOUS
  <2>2. e[i] < e[j] \/ e[j] < e[i]
    BY <1>7, <2>1
  <2>3. e[i] \in Nat /\ e[j] \in Nat /\ e[i] = e[j]
    BY <1>2, <1>7, <1>10
  <2> QED BY <2>2, <2>3
<1>12. \A p \in P : \E i \in DOMAIN s : s[i] = p
  BY <1>7, <1>10
<1> QED BY <1>10, <1>11, <1>12 DEF s, P

\* A list in which nobody is named twice.
LEMMA NoLongerThanNames ==
    ASSUME HybridTypeOK, NEW s \in Seq(HybridNames), \A i, j \in DOMAIN s : s[i] = s[j] => i = j
    PROVE  Len(s) <= Cardinality(HybridNames)
<1>1. Len(s) \in Nat /\ DOMAIN s = 1..Len(s) /\ s \in [1..Len(s) -> HybridNames]
  OBVIOUS
<1>2. IsFiniteSet(1..Len(s)) /\ Cardinality(1..Len(s)) = Len(s)
  BY <1>1, FS_Interval
<1>3. IsFiniteSet(HybridNames) /\ Cardinality(HybridNames) \in Nat
  BY HySetting
<1>4. CASE Cardinality(HybridNames) < Len(s)
  <2> DEFINE D == 1..Len(s)
  <2>1. Cardinality(HybridNames) < Cardinality(D) /\ IsFiniteSet(D) /\ s \in [D -> HybridNames]
    BY <1>1, <1>2, <1>4
  <2> HIDE DEF D
  <2>2. \E x, y \in D : x # y /\ s[x] = s[y]
    BY <1>3, <2>1, FS_PigeonHole
  <2> QED BY <1>1, <2>2 DEF D
<1> QED BY <1>1, <1>3, <1>4

LEMMA LessIsOneMore ==
    ASSUME NEW k \in Nat, NEW t \in Nat, NEW v \in Nat, k * v < t * v
    PROVE  k + 1 <= t /\ (k + 1) * v = k * v + v
<1>1. (k + 1) * v = k * v + v
  OBVIOUS
<1>2. ASSUME ~(k + 1 <= t) PROVE FALSE
  <2> DEFINE d == k - t
  <2>1. d \in Nat /\ k = t + d
    BY <1>2
  <2> HIDE DEF d
  <2>2. (t + d) * v = t * v + d * v /\ d * v \in Nat /\ t * v \in Nat
    BY <2>1
  <2> QED BY <2>1, <2>2
<1> QED BY <1>1, <1>2

LEMMA NoMoreThanProduct ==
    ASSUME NEW k \in Nat, NEW t \in Nat, NEW v \in Nat, k <= t
    PROVE  k * v <= t * v
<1> DEFINE d == t - k
<1>1. d \in Nat /\ t = k + d
  OBVIOUS
<1> HIDE DEF d
<1>2. (k + d) * v = k * v + d * v /\ d * v \in Nat /\ k * v \in Nat
  BY <1>1
<1> QED BY <1>1, <1>2

LEMMA HyStartTyped == ASSUME HybridInit PROVE HybridTypeOK
<1>1. /\ setting \in HybridSpawns
      /\ setting \in [mode : {"single", "multi"}, names : SUBSET HybridNames, ticks : 0..MaxTicks,
                      values : 1..MaxValues, ends : BOOLEAN, kill : BOOLEAN]
  BY HybridSpawnsAssumption DEF HybridInit
<1>2. /\ setting.names \subseteq HybridNames /\ setting.values \in 1..MaxValues
      /\ HybridNames \subseteq Nat \ {0} /\ IsFiniteSet(HybridNames)
      /\ MaxTicks \in Nat /\ MaxValues \in Nat \ {0} /\ MaxPublished \in Nat
      /\ Cardinality(HybridNames) \in Nat
  BY <1>1, HybridNamesAssumption, HybridBoundAssumption, FS_CardinalityType DEF MaxPublished
<1>3. ASSUME NEW n \in setting.names PROVE PeersInOrder(n) \in Seq(HybridNames)
  <2> DEFINE P == setting.names \ {n}
             PlaceOf(p) == Cardinality({q \in P : q <= p})
             k == Cardinality(P)
  <2>1. P \in SUBSET (Nat \ {0}) /\ IsFiniteSet(P)
    BY <1>2, FS_Subset
  <2>2. PeersInOrder(n) = [i \in 1..k |-> CHOOSE p \in P : PlaceOf(p) = i]
    BY DEF PeersInOrder
  <2>3. P \subseteq HybridNames
    BY <1>2
  <2> HIDE DEF P, PlaceOf
  <2>4. PICK m \in Nat : P \in SUBSET (1..m)
    BY <2>1, FiniteIsBounded
  <2>e. PICK j \in Nat : \E e : Lists(e, j, P)
    BY <2>4, ListExists
  <2>5. PICK e : Lists(e, j, P)
    BY <2>e
  <2>6. k = j /\ k \in Nat /\ \A i \in 1..j : PlaceOf(e[i]) = i /\ e[i] \in P
    <3>1. P \in SUBSET Nat
      BY <2>1
    <3>2. Cardinality(P) = j /\ \A i \in 1..j : Cardinality({q \in P : q <= e[i]}) = i
      BY <2>5, <3>1, ListRanks
    <3> QED BY <2>5, <3>2 DEF PlaceOf, Lists
  <2>7. \A i \in 1..k : (CHOOSE p \in P : PlaceOf(p) = i) \in P
    BY <2>6
  <2>8. \A i \in 1..k : (CHOOSE p \in P : PlaceOf(p) = i) \in HybridNames
    BY <2>3, <2>7
  <2> HIDE DEF k
  <2> QED BY <2>2, <2>6, <2>8
<1>4. outbound \in [HybridNames -> Seq(HybridNames)]
  BY <1>2, <1>3 DEF HybridInit
<1>5. /\ inbound \in [HybridNames -> SUBSET HybridNames]
      /\ driver \in [HybridNames -> Alive \union {"left", "killed", "panicked", "failed"}]
      /\ burst \in [HybridNames -> 0..MaxValues] /\ polled \in [HybridNames -> BOOLEAN]
      /\ published \in [HybridNames -> 0..MaxPublished]
      /\ turn \in [HybridNames -> 0..Cardinality(HybridNames)]
      /\ targets \in [HybridNames -> 0..Cardinality(HybridNames)]
      /\ failed \in [HybridNames -> SUBSET (1..Cardinality(HybridNames))]
      /\ stalled \in [HybridNames -> BOOLEAN]
  BY <1>2 DEF HybridInit, Alive
<1>6. /\ socket \in [HybridNames -> [HybridNames -> Seq(1..MaxPublished)]]
      /\ queued \in [HybridNames -> Seq(Frames)]
      /\ got \in [HybridNames -> [HybridNames -> Seq(1..MaxPublished)]]
  BY DEF HybridInit
<1> QED BY <1>1, <1>4, <1>5, <1>6 DEF HybridTypeOK

LEMMA HybridInitHolds == HybridInit => HybridInv
<1> SUFFICES ASSUME HybridInit PROVE HybridInv
  OBVIOUS
<1>1. HybridTypeOK
  BY HyStartTyped
<1>2. /\ setting.names \subseteq HybridNames /\ setting.ticks \in Nat
      /\ setting.values \in Nat
  BY <1>1, HySetting
<1>3. HybridCounts
  <2> SUFFICES ASSUME NEW n \in HybridNames
               PROVE  \E k \in 0..setting.ticks : published[n] + burst[n] = k * setting.values
    BY DEF HybridCounts
  <2>1. published[n] = 0 /\ burst[n] = IF setting.ticks > 0 THEN setting.values ELSE 0
    BY DEF HybridInit
  <2>2. CASE setting.ticks > 0
    <3>1. 1 \in 0..setting.ticks /\ 1 * setting.values = setting.values
      BY <1>2, <2>2
    <3> QED BY <1>2, <2>1, <2>2, <3>1
  <2>3. CASE ~(setting.ticks > 0)
    <3>1. 0 \in 0..setting.ticks /\ 0 * setting.values = 0
      BY <1>2
    <3> QED BY <2>1, <2>3, <3>1
  <2> QED BY <2>2, <2>3
<1>4. HybridTurns
  <2> SUFFICES ASSUME NEW n \in setting.names PROVE TurnOf(n)
    BY DEF HybridTurns
  <2>1. /\ outbound[n] = PeersInOrder(n) /\ inbound[n] = setting.names \ {n}
        /\ turn[n] = 0 /\ targets[n] = 0
    BY <1>2 DEF HybridInit
  <2> DEFINE s == PeersInOrder(n)
  <2>2. /\ s \in Seq(setting.names \ {n}) /\ \A i, j \in DOMAIN s : s[i] = s[j] => i = j
        /\ \A p \in setting.names \ {n} : \E i \in DOMAIN s : s[i] = p
    BY <1>1, PeersAreListed
  <2> HIDE DEF s
  <2> QED BY <2>1, <2>2 DEF TurnOf, s
<1>5. HybridCourses
  <2> SUFFICES ASSUME NEW r \in setting.names, NEW w \in setting.names PROVE HasReached(w, r)
    BY DEF HybridCourses
  <2>1. /\ got[r][w] = <<>> /\ queued[r] = <<>> /\ socket[w][r] = <<>> /\ turn[w] = 0
        /\ published[w] = 0
    BY <1>2 DEF HybridInit
  <2>2. SeqsFrom(<<>>, w) = <<>>
    BY SeqsFromNothing
  <2>3. Course(w, r) = <<>> \o <<>> \o <<>>
    BY <2>1, <2>2 DEF Course
  <2>4. <<>> \o <<>> \o <<>> = <<>>
    OBVIOUS
  <2>5. Course(w, r) = <<>> /\ Len(<<>>) = 0
    BY <2>3, <2>4
  <2>6. FirstOnes(0) = <<>>
    BY DEF FirstOnes
  <2> QED BY <2>1, <2>5, <2>6 DEF HasReached
<1> QED BY <1>1, <1>3, <1>4, <1>5 DEF HybridInv

\* The types, action by action.
LEMMA EndsTyped == ASSUME HybridTypeOK, NEW n \in setting.names, NEW how, Ends(n, how),
                          how \in {"left", "killed", "panicked", "failed"}
                   PROVE  HybridTypeOK'
<1>1. n \in HybridNames /\ Cardinality(HybridNames) \in Nat
  BY HySetting
<1>2. /\ driver' \in [HybridNames -> Alive \union {"left", "killed", "panicked", "failed"}]
      /\ turn' \in [HybridNames -> 0..Cardinality(HybridNames)]
      /\ stalled' \in [HybridNames -> BOOLEAN]
  BY <1>1 DEF HybridTypeOK, Ends
<1>3. queued' \in [HybridNames -> Seq(Frames)]
  BY <1>1 DEF HybridTypeOK, Ends
<1>4. socket' \in [HybridNames -> [HybridNames -> Seq(1..MaxPublished)]]
  <2> DEFINE T == Seq(1..MaxPublished)
  <2>1. socket \in [HybridNames -> [HybridNames -> T]] /\ <<>> \in T
    BY DEF HybridTypeOK
  <2>2. socket' = [w \in HybridNames |-> [socket[w] EXCEPT ![n] = <<>>]]
    BY DEF Ends
  <2> HIDE DEF T
  <2>3. \A w \in HybridNames : [socket[w] EXCEPT ![n] = <<>>] \in [HybridNames -> T]
    BY <1>1, <2>1
  <2>4. socket' \in [HybridNames -> [HybridNames -> T]]
    BY <2>2, <2>3
  <2> QED BY <2>4 DEF T
<1>5. UNCHANGED <<setting, burst, polled, published, outbound, targets, failed, inbound, got>>
  BY DEF Ends
<1> QED BY <1>2, <1>3, <1>4, <1>5 DEF HybridTypeOK

LEMMA TakeTyped ==
    ASSUME HybridTypeOK, NEW n \in setting.names, NEW w, TakeFrame(n, w)
    PROVE  /\ w \in HybridNames /\ Head(socket[w][n]) \in HySeqs
           /\ socket' \in [HybridNames -> [HybridNames -> Seq(1..MaxPublished)]]
           /\ inbound' \in [HybridNames -> SUBSET HybridNames]
           /\ socket[w][n] # <<>>
<1>1. n \in HybridNames /\ w \in HybridNames /\ socket[w][n] # <<>>
  <2>1. inbound[n] \in SUBSET HybridNames /\ n \in HybridNames
    BY HySetting, HyRow
  <2> QED BY <2>1 DEF TakeFrame, Readable
<1>2. socket[w][n] \in Seq(HySeqs)
  BY <1>1, HyRow
<1>3. Head(socket[w][n]) \in HySeqs /\ Tail(socket[w][n]) \in Seq(HySeqs)
  BY <1>1, <1>2, HeadThenTail
<1>4. socket' = [socket EXCEPT ![w][n] = Tail(socket[w][n])]
  BY DEF TakeFrame
<1>5. socket' \in [HybridNames -> [HybridNames -> Seq(1..MaxPublished)]]
  <2> DEFINE T == Seq(1..MaxPublished)
             x == Tail(socket[w][n])
  <2>1. socket \in [HybridNames -> [HybridNames -> T]] /\ x \in T
    BY <1>3 DEF HybridTypeOK, HySeqs
  <2> HIDE DEF T, x
  <2>2. [socket EXCEPT ![w][n] = x] \in [HybridNames -> [HybridNames -> T]]
    BY <1>1, <2>1, CellTyped
  <2> QED BY <1>4, <2>2 DEF T, x
<1>6. inbound' \in [HybridNames -> SUBSET HybridNames]
  <2>1. PICK D \in SUBSET AtEof(n) : inbound' = [inbound EXCEPT ![n] = @ \ D]
    BY DEF TakeFrame
  <2>2. inbound \in [HybridNames -> SUBSET HybridNames]
    BY DEF HybridTypeOK
  <2> QED BY <1>1, <2>1, <2>2
<1> QED BY <1>1, <1>3, <1>5, <1>6

LEMMA DropTyped ==
    ASSUME HybridTypeOK, NEW n \in setting.names, DropClosed(n)
    PROVE  /\ inbound' \in [HybridNames -> SUBSET HybridNames]
           /\ outbound' \in [HybridNames -> Seq(HybridNames)]
<1>1. n \in HybridNames /\ outbound[n] \in Seq(HybridNames)
  BY HySetting, HyRow
<1> DEFINE S == {p \in HybridNames : ~Departed(p)}
           T == Seq(HybridNames)
           x == Only(outbound[n], S)
<1> HIDE DEF S
<1>2. x \in T
  BY <1>1, OnlyMembers
<1>3. outbound' = [outbound EXCEPT ![n] = x]
  BY DEF DropClosed, S
<1>4. outbound \in [HybridNames -> T]
  BY DEF HybridTypeOK
<1>5. outbound' \in [HybridNames -> T]
  <2> HIDE DEF T, x
  <2> QED BY <1>1, <1>2, <1>3, <1>4, RowTyped
<1>6. inbound' \in [HybridNames -> SUBSET HybridNames]
  BY <1>1 DEF HybridTypeOK, DropClosed
<1> QED BY <1>5, <1>6

LEMMA QueueTyped ==
    ASSUME HybridTypeOK, NEW n \in HybridNames, NEW w \in HybridNames, NEW k \in HySeqs,
           queued' = [queued EXCEPT ![n] = Append(queued[n], [from |-> w, seq |-> k])]
    PROVE  queued' \in [HybridNames -> Seq(Frames)]
<1> DEFINE T == Seq(Frames)
           x == Append(queued[n], [from |-> w, seq |-> k])
<1>1. [from |-> w, seq |-> k] \in Frames
  BY DEF Frames, HySeqs
<1>2. queued \in [HybridNames -> T]
  BY DEF HybridTypeOK
<1>3. x \in T
  BY <1>1, <1>2, AppendProperties
<1> HIDE DEF T, x
<1>4. queued' \in [HybridNames -> T]
  BY <1>2, <1>3, RowTyped DEF x
<1> QED BY <1>4 DEF T

LEMMA ReceiveTyped ==
    ASSUME HybridTypeOK, NEW n \in HybridNames, NEW w \in HybridNames, NEW k \in HySeqs,
           Receive(n, w, k)
    PROVE  /\ got' \in [HybridNames -> [HybridNames -> Seq(1..MaxPublished)]]
           /\ polled' \in [HybridNames -> BOOLEAN]
<1> DEFINE T == Seq(1..MaxPublished)
           x == Append(got[n][w], k)
<1>0. got \in [HybridNames -> [HybridNames -> T]]
  BY Zenon DEF HybridTypeOK
<1>1. got \in [HybridNames -> [HybridNames -> T]] /\ got[n][w] \in T
  <2> HIDE DEF T
  <2> QED BY <1>0, CellIn
<1>2. x \in T
  BY <1>1, AppendProperties DEF HySeqs
<1>3. got' = [got EXCEPT ![n][w] = x]
  BY DEF Receive
<1> HIDE DEF T, x
<1>4. got' \in [HybridNames -> [HybridNames -> T]]
  BY <1>1, <1>2, <1>3, CellTyped
<1>5. polled' \in [HybridNames -> BOOLEAN]
  BY DEF Receive, HybridTypeOK
<1> QED BY <1>4, <1>5 DEF T

LEMMA NextTargetTyped ==
    ASSUME HybridTypeOK, NEW n \in setting.names, turn[n] # 0, turn[n] <= targets[n],
           NEW bad \in SUBSET (1..Cardinality(HybridNames)), NextTarget(n, bad)
    PROVE  /\ turn' \in [HybridNames -> 0..Cardinality(HybridNames)]
           /\ failed' \in [HybridNames -> SUBSET (1..Cardinality(HybridNames))]
           /\ outbound' \in [HybridNames -> Seq(HybridNames)]
           /\ driver' \in [HybridNames -> Alive \union {"left", "killed", "panicked", "failed"}]
<1>1. /\ n \in HybridNames /\ outbound[n] \in Seq(HybridNames)
      /\ turn[n] \in 0..Cardinality(HybridNames) /\ targets[n] \in 0..Cardinality(HybridNames)
      /\ Cardinality(HybridNames) \in Nat
  BY HySetting, HyRow
<1> DEFINE T == Seq(HybridNames)
           F == SUBSET (1..Cardinality(HybridNames))
           D == Alive \union {"left", "killed", "panicked", "failed"}
           K == 0..Cardinality(HybridNames)
           x == Survivors(n, bad)
<1>2. /\ outbound \in [HybridNames -> T] /\ driver \in [HybridNames -> D]
      /\ turn \in [HybridNames -> K] /\ failed \in [HybridNames -> F] /\ bad \in F /\ {} \in F
      /\ 0 \in K /\ "failed" \in D
  BY <1>1 DEF HybridTypeOK
<1>3. x \in T
  <2>1. DOMAIN outbound[n] \ bad \in SUBSET (1..Len(outbound[n]))
    BY <1>1
  <2> QED BY <1>1, <2>1, AtPlacesFurther DEF Survivors
<1>4. CASE turn[n] < targets[n]
  <2>1. /\ turn' = [turn EXCEPT ![n] = turn[n] + 1] /\ failed' = [failed EXCEPT ![n] = bad]
        /\ driver' = driver /\ outbound' = outbound
    BY <1>4 DEF NextTarget
  <2>2. turn[n] + 1 \in K
    BY <1>1, <1>4
  <2> HIDE DEF T, F, D, K
  <2>3. turn' \in [HybridNames -> K] /\ failed' \in [HybridNames -> F]
        /\ outbound' \in [HybridNames -> T] /\ driver' \in [HybridNames -> D]
    BY <1>1, <1>2, <2>1, <2>2
  <2> QED BY <2>3 DEF T, F, D, K
<1>5. CASE ~(turn[n] < targets[n])
  <2>1. /\ turn' = [turn EXCEPT ![n] = 0] /\ failed' = [failed EXCEPT ![n] = {}]
        /\ outbound' = [outbound EXCEPT ![n] = x]
        /\ driver' = driver \/ driver' = [driver EXCEPT ![n] = "failed"]
    BY <1>5 DEF NextTarget
  <2> HIDE DEF T, F, D, K, x
  <2>2. turn' \in [HybridNames -> K] /\ failed' \in [HybridNames -> F]
    BY <1>1, <1>2, <2>1
  <2>3. outbound' \in [HybridNames -> T]
    BY <1>1, <1>2, <1>3, <2>1
  <2>4. driver' \in [HybridNames -> D]
    BY <1>1, <1>2, <2>1
  <2> QED BY <2>2, <2>3, <2>4 DEF T, F, D, K
<1> QED BY <1>4, <1>5

\* What a node has published and has still to publish of the tick.
LEMMA CountsBound ==
    ASSUME HybridTypeOK, HybridCounts, NEW n \in HybridNames
    PROVE  published[n] + burst[n] \in 0..MaxPublished
<1>1. /\ setting.ticks \in 0..MaxTicks /\ setting.values \in 1..MaxValues
      /\ MaxTicks \in Nat /\ MaxValues \in Nat
  BY HySetting
<1>2. PICK k \in 0..setting.ticks : published[n] + burst[n] = k * setting.values
  BY DEF HybridCounts
<1>3. k * setting.values <= MaxTicks * setting.values
  BY <1>1, NoMoreThanProduct
<1>4. setting.values * MaxTicks <= MaxValues * MaxTicks
  BY <1>1, NoMoreThanProduct
<1>5. /\ setting.values * MaxTicks = MaxTicks * setting.values
      /\ MaxValues * MaxTicks = MaxTicks * MaxValues
      /\ k * setting.values \in Nat /\ MaxTicks * setting.values \in Nat
      /\ MaxTicks * MaxValues \in Nat
  BY <1>1
<1> DEFINE a == k * setting.values
           b == MaxTicks * setting.values
           c == MaxTicks * MaxValues
<1>6. a \in Nat /\ b \in Nat /\ c \in Nat /\ a <= b /\ b <= c /\ published[n] + burst[n] = a
  BY <1>2, <1>3, <1>4, <1>5
<1> HIDE DEF a, b, c
<1>7. MaxPublished = c
  BY DEF MaxPublished, c
<1> QED BY <1>6, <1>7

LEMMA NextTickTyped ==
    ASSUME HybridTypeOK, NEW n \in setting.names, NextTick(n)
    PROVE  /\ polled' \in [HybridNames -> BOOLEAN] /\ burst' \in [HybridNames -> 0..MaxValues]
           /\ driver' \in [HybridNames -> Alive \union {"left", "killed", "panicked", "failed"}]
<1>1. n \in HybridNames /\ setting.values \in 0..MaxValues
  BY HySetting
<1> QED BY <1>1 DEF HybridTypeOK, NextTick, Alive

LEMMA HybridTypeStep ==
    ASSUME HybridInv, [HybridNext]_hybridVars
    PROVE  HybridTypeOK'
<1>1. HybridTypeOK /\ HybridCounts
  BY DEF HybridInv
<1>2. ASSUME UNCHANGED hybridVars PROVE HybridTypeOK'
  BY <1>1, <1>2 DEF HybridTypeOK, hybridVars, driverVars, broadcastVars, Alive, Frames, MaxPublished
<1>3. ASSUME NEW n \in setting.names, KillChild(n) \/ LeaveSpawn(n) \/ Panic(n) PROVE HybridTypeOK'
  BY <1>1, <1>3, EndsTyped DEF KillChild, LeaveSpawn, Panic
<1>n. \A n \in setting.names : n \in HybridNames /\ TurnOf(n)
  BY <1>1, HySetting DEF HybridInv, HybridTurns
<1>4. ASSUME NEW n \in setting.names, StartBroadcast(n) PROVE HybridTypeOK'
  <2>1. n \in HybridNames /\ published[n] + burst[n] \in 0..MaxPublished /\ burst[n] \in Nat
        /\ published[n] \in 0..MaxPublished /\ outbound[n] \in Seq(HybridNames)
    BY <1>1, <1>n, CountsBound, HyRow
  <2>2. published[n] + 1 \in 0..MaxPublished
    <3>1. burst[n] > 0 /\ MaxPublished \in Nat
      BY <1>1, <1>4, HySetting DEF StartBroadcast
    <3> QED BY <2>1, <3>1
  <2>3. Len(outbound[n]) \in 0..Cardinality(HybridNames)
    <3>1. \A i, j \in DOMAIN outbound[n] : outbound[n][i] = outbound[n][j] => i = j
      BY <1>n DEF TurnOf
    <3>2. Len(outbound[n]) <= Cardinality(HybridNames)
      BY <1>1, <2>1, <3>1, NoLongerThanNames
    <3>3. Cardinality(HybridNames) \in Nat /\ Len(outbound[n]) \in Nat
      BY <1>1, <2>1, HySetting
    <3> QED BY <3>2, <3>3
  <2>4. outbound[n] # <<>> => 1 \in 0..Cardinality(HybridNames)
    <3>1. outbound[n] # <<>> => Len(outbound[n]) # 0
      BY <2>1
    <3> QED BY <1>1, <2>3, <3>1, HySetting
  <2>5. /\ burst' \in [HybridNames -> 0..MaxValues]
        /\ published' \in [HybridNames -> 0..MaxPublished]
    <3>1. burst[n] - 1 \in 0..MaxValues
      <4>1. burst[n] \in 0..MaxValues /\ burst[n] > 0 /\ MaxValues \in Nat
        BY <1>1, <1>4, <2>1, HySetting DEF HybridTypeOK, StartBroadcast
      <4> QED BY <4>1
    <3> QED BY <1>1, <1>4, <2>1, <2>2, <3>1 DEF HybridTypeOK, StartBroadcast
  <2>6. /\ turn' \in [HybridNames -> 0..Cardinality(HybridNames)]
        /\ targets' \in [HybridNames -> 0..Cardinality(HybridNames)]
        /\ failed' \in [HybridNames -> SUBSET (1..Cardinality(HybridNames))]
    <3>1. (IF outbound[n] = <<>> THEN 0 ELSE 1) \in 0..Cardinality(HybridNames)
      BY <1>1, <2>4, HySetting
    <3>2. /\ turn' = [turn EXCEPT ![n] = IF outbound[n] = <<>> THEN 0 ELSE 1]
          /\ targets' = [targets EXCEPT ![n] = Len(outbound[n])]
          /\ failed' = [failed EXCEPT ![n] = {}]
      BY <1>4 DEF StartBroadcast
    <3>3. /\ turn \in [HybridNames -> 0..Cardinality(HybridNames)]
          /\ targets \in [HybridNames -> 0..Cardinality(HybridNames)]
          /\ failed \in [HybridNames -> SUBSET (1..Cardinality(HybridNames))]
      BY <1>1 DEF HybridTypeOK
    <3> QED BY <2>1, <2>3, <3>1, <3>2, <3>3
  <2>7. UNCHANGED <<setting, driver, polled, outbound, stalled, inbound, socket, queued, got>>
    BY <1>4 DEF StartBroadcast
  <2> QED BY <1>1, <2>5, <2>6, <2>7 DEF HybridTypeOK
<1>5. ASSUME NEW n \in setting.names, WriteFrame(n) \/ WriteFails(n) PROVE HybridTypeOK'
  <2>1. /\ n \in HybridNames /\ outbound[n] \in Seq(HybridNames)
        /\ turn[n] \in 0..Cardinality(HybridNames)
        /\ failed[n] \in SUBSET (1..Cardinality(HybridNames)) /\ published[n] \in 0..MaxPublished
    BY <1>1, <1>n, HyRow
  <2>2. turn[n] # 0 /\ turn[n] <= Len(outbound[n]) /\ turn[n] <= targets[n] /\ published[n] >= 1
    BY <1>5, <1>n DEF WriteFrame, WriteFails, Writing, InBounds, TurnOf
  <2>3. turn[n] \in 1..Cardinality(HybridNames) /\ Target(n) \in HybridNames /\ published[n] \in HySeqs
    <3>1. MaxPublished \in Nat /\ Cardinality(HybridNames) \in Nat
      BY <1>1, HySetting
    <3>2. turn[n] \in 1..Len(outbound[n])
      BY <2>1, <2>2, <3>1
    <3> QED BY <2>1, <2>2, <3>1, <3>2 DEF Target, HySeqs
  <2>4. PICK bad \in SUBSET (1..Cardinality(HybridNames)) : NextTarget(n, bad)
    BY <1>5, <2>1, <2>3 DEF WriteFrame, WriteFails
  <2>5. /\ turn' \in [HybridNames -> 0..Cardinality(HybridNames)]
        /\ failed' \in [HybridNames -> SUBSET (1..Cardinality(HybridNames))]
        /\ outbound' \in [HybridNames -> Seq(HybridNames)]
        /\ driver' \in [HybridNames -> Alive \union {"left", "killed", "panicked", "failed"}]
    BY <1>1, <2>2, <2>4, NextTargetTyped
  <2>6. socket' \in [HybridNames -> [HybridNames -> Seq(1..MaxPublished)]]
    <3> DEFINE T == Seq(1..MaxPublished)
               p == Target(n)
               x == Append(socket[n][p], published[n])
    <3>4. p \in HybridNames /\ n \in HybridNames
      BY <2>1, <2>3
    <3>7. socket \in [HybridNames -> [HybridNames -> T]]
      BY <1>1, Zenon DEF HybridTypeOK
    <3>1. socket \in [HybridNames -> [HybridNames -> T]] /\ socket[n][p] \in T
      <4> HIDE DEF p, T
      <4> QED BY <3>4, <3>7, CellIn
    <3>2. x \in T
      BY <2>3, <3>1, AppendProperties DEF HySeqs
    <3>3. socket' = socket \/ socket' = [socket EXCEPT ![n][p] = x]
      BY <1>5 DEF WriteFrame, WriteFails
    <3> HIDE DEF T, x, p
    <3>6. [socket EXCEPT ![n][p] = x] \in [HybridNames -> [HybridNames -> T]]
      BY <3>1, <3>2, <3>4, CellTyped
    <3>5. socket' \in [HybridNames -> [HybridNames -> T]]
      BY <3>1, <3>3, <3>6
    <3> QED BY <3>5 DEF T
  <2>7. UNCHANGED <<setting, burst, polled, published, targets, stalled, inbound, queued, got>>
    BY <1>5 DEF WriteFrame, WriteFails
  <2> QED BY <1>1, <2>5, <2>6, <2>7 DEF HybridTypeOK
<1>6. ASSUME NEW n \in setting.names, WouldBlock(n) PROVE HybridTypeOK'
  BY <1>1, <1>6, <1>n DEF HybridTypeOK, WouldBlock, driverVars
<1>7. ASSUME NEW n \in setting.names, InlineDrain(n) PROVE HybridTypeOK'
  <2>1. PICK w \in Drainable(n) :
            /\ TakeFrame(n, w)
            /\ queued' = [queued EXCEPT ![n] = Append(queued[n], [from |-> w, seq |-> Head(socket[w][n])])]
    BY <1>7 DEF InlineDrain
  <2>2. /\ w \in HybridNames /\ Head(socket[w][n]) \in HySeqs /\ n \in HybridNames
        /\ socket' \in [HybridNames -> [HybridNames -> Seq(1..MaxPublished)]]
        /\ inbound' \in [HybridNames -> SUBSET HybridNames]
    BY <1>1, <1>n, <2>1, TakeTyped
  <2>3. queued' \in [HybridNames -> Seq(Frames)]
    BY <1>1, <2>1, <2>2, QueueTyped
  <2>4. UNCHANGED <<setting, driver, burst, polled, published, outbound, turn, targets, failed,
                    stalled, got>>
    BY <1>7 DEF InlineDrain, driverVars, broadcastVars
  <2> QED BY <1>1, <2>2, <2>3, <2>4 DEF HybridTypeOK
<1>8. ASSUME NEW n \in setting.names, EndInlineDrain(n) PROVE HybridTypeOK'
  <2>1. /\ inbound' \in [HybridNames -> SUBSET HybridNames]
        /\ outbound' \in [HybridNames -> Seq(HybridNames)]
    BY <1>1, <1>8, DropTyped DEF EndInlineDrain
  <2>2. stalled' \in [HybridNames -> BOOLEAN]
    BY <1>1, <1>8, <1>n DEF EndInlineDrain, HybridTypeOK
  <2>3. UNCHANGED <<setting, driver, burst, polled, published, turn, targets, failed, socket,
                    queued, got>>
    BY <1>8 DEF EndInlineDrain, driverVars
  <2> QED BY <1>1, <2>1, <2>2, <2>3 DEF HybridTypeOK
<1>9. ASSUME NEW n \in setting.names, NEW w \in setting.names, ReaderPush(n, w) PROVE HybridTypeOK'
  <2>1. n \in HybridNames /\ w \in HybridNames /\ socket[w][n] # <<>>
    BY <1>9, <1>n DEF ReaderPush
  <2>2. socket[w][n] \in Seq(HySeqs)
    BY <1>1, <2>1, HyRow
  <2>3. Head(socket[w][n]) \in HySeqs /\ Tail(socket[w][n]) \in Seq(HySeqs)
    BY <2>1, <2>2, HeadThenTail
  <2>4. queued' \in [HybridNames -> Seq(Frames)]
    <3>1. queued' = [queued EXCEPT ![n] = Append(queued[n], [from |-> w, seq |-> Head(socket[w][n])])]
      BY <1>9 DEF ReaderPush, Pushed
    <3> QED BY <1>1, <2>1, <2>3, <3>1, QueueTyped
  <2>5. socket' \in [HybridNames -> [HybridNames -> Seq(1..MaxPublished)]]
    <3> DEFINE T == Seq(1..MaxPublished)
               x == Tail(socket[w][n])
    <3>1. socket \in [HybridNames -> [HybridNames -> T]] /\ x \in T
      BY <1>1, <2>3 DEF HybridTypeOK, HySeqs
    <3>2. socket' = [socket EXCEPT ![w][n] = x]
      BY <1>9 DEF ReaderPush
    <3> HIDE DEF T, x
    <3>3. socket' \in [HybridNames -> [HybridNames -> T]]
      BY <2>1, <3>1, <3>2, CellTyped
    <3> QED BY <3>3 DEF T
  <2>6. UNCHANGED <<setting, driver, burst, polled, published, outbound, turn, targets, failed,
                    stalled, inbound, got>>
    BY <1>9 DEF ReaderPush, driverVars, broadcastVars
  <2> QED BY <1>1, <2>4, <2>5, <2>6 DEF HybridTypeOK
<1>10. ASSUME NEW n \in setting.names, PollQueued(n) PROVE HybridTypeOK'
  <2>1. n \in HybridNames /\ queued[n] # <<>> /\ queued[n] \in Seq(Tagged(HybridNames, HySeqs))
    BY <1>1, <1>10, <1>n, HyRow DEF PollQueued
  <2>2. /\ Head(queued[n]) \in Tagged(HybridNames, HySeqs)
        /\ Tail(queued[n]) \in Seq(Tagged(HybridNames, HySeqs))
    BY <2>1, HeadThenTail
  <2>3. Head(queued[n]).from \in HybridNames /\ Head(queued[n]).seq \in HySeqs
    BY <2>2 DEF Tagged
  <2>4. /\ got' \in [HybridNames -> [HybridNames -> Seq(1..MaxPublished)]]
        /\ polled' \in [HybridNames -> BOOLEAN]
    BY <1>1, <1>10, <2>1, <2>3, ReceiveTyped DEF PollQueued
  <2>5. queued' \in [HybridNames -> Seq(Frames)]
    <3> DEFINE T == Seq(Frames)
               x == Tail(queued[n])
    <3>1. x \in T /\ queued \in [HybridNames -> T]
      BY <1>1, <2>2 DEF HybridTypeOK, Frames, Tagged, HySeqs
    <3>2. queued' = [queued EXCEPT ![n] = x]
      BY <1>10 DEF PollQueued
    <3> HIDE DEF T, x
    <3>3. queued' \in [HybridNames -> T]
      BY <2>1, <3>1, <3>2
    <3> QED BY <3>3 DEF T
  <2>6. UNCHANGED <<setting, driver, burst, published, outbound, turn, targets, failed,
                    stalled, inbound, socket>>
    BY <1>10 DEF PollQueued, Receive, broadcastVars
  <2> QED BY <1>1, <2>4, <2>5, <2>6 DEF HybridTypeOK
<1>11. ASSUME NEW n \in setting.names, PollSocket(n) PROVE HybridTypeOK'
  <2>1. PICK w \in Readable(n) : TakeFrame(n, w) /\ Receive(n, w, Head(socket[w][n]))
    BY <1>11 DEF PollSocket
  <2>2. /\ w \in HybridNames /\ Head(socket[w][n]) \in HySeqs /\ n \in HybridNames
        /\ socket' \in [HybridNames -> [HybridNames -> Seq(1..MaxPublished)]]
        /\ inbound' \in [HybridNames -> SUBSET HybridNames]
    BY <1>1, <1>n, <2>1, TakeTyped
  <2>3. /\ got' \in [HybridNames -> [HybridNames -> Seq(1..MaxPublished)]]
        /\ polled' \in [HybridNames -> BOOLEAN]
    BY <1>1, <2>1, <2>2, ReceiveTyped
  <2>4. UNCHANGED <<setting, driver, burst, published, outbound, turn, targets, failed,
                    stalled, queued>>
    BY <1>11, <2>1 DEF PollSocket, Receive, broadcastVars
  <2> QED BY <1>1, <2>2, <2>3, <2>4 DEF HybridTypeOK
<1>12. ASSUME NEW n \in setting.names, PollNothing(n) \/ DrainBudgetSpent(n) PROVE HybridTypeOK'
  <2>1. /\ inbound' \in [HybridNames -> SUBSET HybridNames]
        /\ outbound' \in [HybridNames -> Seq(HybridNames)]
    <3>1. DropClosed(n) \/ (inbound' = inbound /\ outbound' = outbound)
      BY <1>12 DEF PollNothing, DrainBudgetSpent, broadcastVars
    <3>2. inbound \in [HybridNames -> SUBSET HybridNames] /\ outbound \in [HybridNames -> Seq(HybridNames)]
      BY <1>1 DEF HybridTypeOK
    <3> QED BY <1>1, <3>1, <3>2, DropTyped
  <2>2. /\ polled' \in [HybridNames -> BOOLEAN] /\ burst' \in [HybridNames -> 0..MaxValues]
        /\ driver' \in [HybridNames -> Alive \union {"left", "killed", "panicked", "failed"}]
    <3>1. NextTick(n) \/ (driver' = driver /\ burst' = burst /\ polled' = polled)
      BY <1>12 DEF PollNothing, DrainBudgetSpent
    <3> QED BY <1>1, <3>1, NextTickTyped DEF HybridTypeOK
  <2>3. UNCHANGED <<setting, published, turn, targets, failed, stalled, socket, queued, got>>
    BY <1>12 DEF PollNothing, DrainBudgetSpent, broadcastVars
  <2> QED BY <1>1, <2>1, <2>2, <2>3 DEF HybridTypeOK
<1> QED BY <1>2, <1>3, <1>4, <1>5, <1>6, <1>7, <1>8, <1>9, <1>10, <1>11, <1>12
       DEF HybridNext, DriverStep

LEMMA HybridCountsStep ==
    ASSUME HybridInv, [HybridNext]_hybridVars
    PROVE  HybridCounts'
<1>1. HybridTypeOK /\ HybridCounts
  BY DEF HybridInv
<1>0. /\ setting.names \subseteq HybridNames /\ setting.ticks \in Nat /\ setting.values \in Nat
      /\ \A m \in HybridNames : published[m] \in Nat /\ burst[m] \in Nat
      /\ published \in [HybridNames -> 0..MaxPublished] /\ burst \in [HybridNames -> 0..MaxValues]
  <2>1. \A m \in HybridNames : published[m] \in 0..MaxPublished /\ burst[m] \in Nat
    BY <1>1, HyRow
  <2>2. setting.names \subseteq HybridNames /\ setting.ticks \in Nat /\ setting.values \in Nat
    BY <1>1, HySetting
  <2> QED BY <1>1, <2>1, <2>2 DEF HybridTypeOK
<1>2. ASSUME UNCHANGED <<setting, burst, published>> PROVE HybridCounts'
  BY <1>1, <1>2 DEF HybridCounts
<1>3. ASSUME NEW n \in setting.names, StartBroadcast(n) PROVE HybridCounts'
  <2>1. /\ burst' = [burst EXCEPT ![n] = burst[n] - 1] /\ setting' = setting
        /\ published' = [published EXCEPT ![n] = published[n] + 1] /\ burst[n] > 0
    BY <1>3 DEF StartBroadcast
  <2>2. n \in HybridNames
    BY <1>0
  <2>3. \A m \in HybridNames : published'[m] + burst'[m] = published[m] + burst[m]
    BY <1>0, <2>1, <2>2
  <2> QED BY <1>1, <2>1, <2>3 DEF HybridCounts
<1>4. ASSUME NEW n \in setting.names, NextTick(n), burst[n] = 0, UNCHANGED <<setting, published>>
      PROVE  HybridCounts'
  <2>1. n \in HybridNames
    BY <1>0
  <2>2. CASE published[n] < setting.ticks * setting.values
    <3>1. burst' = [burst EXCEPT ![n] = setting.values]
      BY <1>4, <2>2 DEF NextTick
    <3>2. PICK k \in 0..setting.ticks : published[n] + burst[n] = k * setting.values
      BY <1>1, <2>1 DEF HybridCounts
    <3>3. published[n] = k * setting.values /\ k \in Nat
      BY <1>0, <1>4, <2>1, <3>2
    <3>4. k + 1 <= setting.ticks /\ (k + 1) * setting.values = k * setting.values + setting.values
      BY <1>0, <2>2, <3>3, LessIsOneMore
    <3>5. k + 1 \in 0..setting.ticks
      BY <1>0, <3>3, <3>4
    <3> SUFFICES ASSUME NEW m \in HybridNames
                 PROVE  \E j \in 0..setting.ticks : published[m] + burst'[m] = j * setting.values
      BY <1>4 DEF HybridCounts
    <3>6. CASE m = n
      <4>1. published[m] + burst'[m] = (k + 1) * setting.values
        BY <1>0, <2>1, <3>1, <3>3, <3>4, <3>6
      <4> QED BY <3>5, <4>1
    <3>7. CASE m # n
      <4>1. burst'[m] = burst[m]
        BY <1>0, <3>1, <3>7
      <4> QED BY <1>1, <4>1 DEF HybridCounts
    <3> QED BY <3>6, <3>7
  <2>3. CASE ~(published[n] < setting.ticks * setting.values)
    <3>1. burst' = burst
      BY <1>4, <2>3 DEF NextTick
    <3> QED BY <1>2, <1>4, <3>1
  <2> QED BY <2>2, <2>3
<1>5. ASSUME NEW n \in setting.names, PollNothing(n) \/ DrainBudgetSpent(n) PROVE HybridCounts'
  <2>1. (NextTick(n) /\ Draining(n)) \/ UNCHANGED burst
    BY <1>5 DEF PollNothing, DrainBudgetSpent
  <2>2. UNCHANGED <<setting, published>>
    BY <1>5 DEF PollNothing, DrainBudgetSpent
  <2> QED BY <1>2, <1>4, <2>1, <2>2 DEF Draining
<1>6. ASSUME NEW n \in setting.names,
             WriteFrame(n) \/ WriteFails(n) \/ WouldBlock(n) \/ InlineDrain(n) \/ EndInlineDrain(n)
      PROVE  HybridCounts'
  BY <1>2, <1>6 DEF WriteFrame, WriteFails, WouldBlock, InlineDrain, EndInlineDrain, driverVars
<1>7. ASSUME NEW n \in setting.names,
             Panic(n) \/ PollQueued(n) \/ PollSocket(n) \/ LeaveSpawn(n) \/ KillChild(n)
      PROVE  HybridCounts'
  BY <1>2, <1>7 DEF Panic, PollQueued, PollSocket, LeaveSpawn, KillChild, Ends, Receive
<1>8. ASSUME NEW n \in setting.names, NEW p \in setting.names, ReaderPush(n, p) PROVE HybridCounts'
  BY <1>2, <1>8 DEF ReaderPush, driverVars
<1>9. ASSUME UNCHANGED hybridVars PROVE HybridCounts'
  BY <1>2, <1>9 DEF hybridVars, driverVars
<1> QED BY <1>3, <1>5, <1>6, <1>7, <1>8, <1>9 DEF HybridNext, DriverStep

\* Nobody comes back.
LEMMA GoneForGood ==
    ASSUME HybridTypeOK, [HybridNext]_hybridVars
    PROVE  /\ setting' = setting /\ \A p \in setting.names : Departed(p) => Departed(p)'
<1>0. driver \in [HybridNames -> Alive \union {"left", "killed", "panicked", "failed"}]
      /\ setting.names \subseteq HybridNames
  BY HySetting DEF HybridTypeOK
<1>1. ASSUME NEW n \in setting.names, NEW how, Ends(n, how), how \notin Alive
      PROVE  setting' = setting /\ \A p \in setting.names : Departed(p) => Departed(p)'
  BY <1>0, <1>1 DEF Ends, Departed
<1>2. ASSUME UNCHANGED driver
      PROVE  \A p \in setting.names : Departed(p) => Departed(p)'
  BY <1>2 DEF Departed
<1>3. ASSUME NEW n \in setting.names, NextTick(n), ~Departed(n)
      PROVE  \A p \in setting.names : Departed(p) => Departed(p)'
  <2>1. \A p \in setting.names : p # n => driver'[p] = driver[p]
    BY <1>0, <1>3 DEF NextTick
  <2> QED BY <1>3, <2>1 DEF Departed
<1>4. ASSUME NEW n \in setting.names, NEW bad, NextTarget(n, bad)
      PROVE  \A p \in setting.names : Departed(p) => Departed(p)'
  <2>1. driver' = driver \/ driver' = [driver EXCEPT ![n] = "failed"]
    BY <1>4 DEF NextTarget
  <2> QED BY <1>0, <2>1 DEF Departed, Alive
<1>5. ASSUME NEW n \in setting.names, KillChild(n) \/ LeaveSpawn(n) \/ Panic(n)
      PROVE  setting' = setting /\ \A p \in setting.names : Departed(p) => Departed(p)'
  BY <1>1, <1>5 DEF KillChild, LeaveSpawn, Panic, Alive
<1>6. ASSUME NEW n \in setting.names, WriteFrame(n) \/ WriteFails(n)
      PROVE  setting' = setting /\ \A p \in setting.names : Departed(p) => Departed(p)'
  BY <1>4, <1>6 DEF WriteFrame, WriteFails
<1>7. ASSUME NEW n \in setting.names, PollNothing(n) \/ DrainBudgetSpent(n)
      PROVE  setting' = setting /\ \A p \in setting.names : Departed(p) => Departed(p)'
  <2>1. (NextTick(n) /\ Draining(n)) \/ UNCHANGED driver
    BY <1>7 DEF PollNothing, DrainBudgetSpent
  <2>2. Draining(n) => ~Departed(n)
    BY DEF Draining, Departed, Alive
  <2> QED BY <1>2, <1>3, <1>7, <2>1, <2>2 DEF PollNothing, DrainBudgetSpent
<1>8. ASSUME NEW n \in setting.names,
             \/ StartBroadcast(n) \/ WouldBlock(n) \/ InlineDrain(n) \/ EndInlineDrain(n)
             \/ PollQueued(n) \/ PollSocket(n) \/ \E p \in setting.names : ReaderPush(n, p)
      PROVE  setting' = setting /\ driver' = driver
  BY <1>8 DEF StartBroadcast, WouldBlock, InlineDrain, EndInlineDrain, PollQueued, PollSocket, ReaderPush,
     driverVars, Receive
<1>9. ASSUME UNCHANGED hybridVars PROVE setting' = setting /\ driver' = driver
  BY <1>9 DEF hybridVars, driverVars
<1> QED BY <1>2, <1>5, <1>6, <1>7, <1>8, <1>9 DEF HybridNext, DriverStep

\* Departed(x) after the step, where x is what it is before it.
GoneNext(x) == driver'[x] \notin Alive

LEMMA TurnStays ==
    ASSUME NEW m \in setting.names, TurnOf(m), setting' = setting,
           outbound'[m] = outbound[m], turn'[m] = turn[m], targets'[m] = targets[m],
           failed'[m] = failed[m], published'[m] = published[m], inbound'[m] \subseteq inbound[m],
           \A p \in setting.names : Departed(p) => GoneNext(p)
    PROVE  TurnOf(m)'
<1>1. \A i \in DOMAIN outbound[m] : outbound[m][i] \in setting.names
  BY DEF TurnOf
<1>2. turn[m] # 0 /\ Len(outbound[m]) = targets[m] =>
        \A i \in failed[m] : i \in DOMAIN outbound[m] /\ GoneNext(outbound[m][i])
  BY <1>1 DEF TurnOf
<1>3. ~GoneNext(m) => \A p \in setting.names \ {m} :
        GoneNext(p) \/ \E i \in DOMAIN outbound[m] : outbound[m][i] = p
  BY DEF TurnOf
<1>4. inbound'[m] \subseteq setting.names \ {m}
  BY DEF TurnOf
<1>5. \A x : GoneNext(x) <=> driver'[x] \notin Alive
  BY DEF GoneNext
<1>6. /\ outbound[m] \in Seq(setting.names \ {m})
      /\ \A i, j \in DOMAIN outbound[m] : outbound[m][i] = outbound[m][j] => i = j
      /\ turn[m] <= targets[m]
      /\ turn[m] # 0 => Len(outbound[m]) <= targets[m] /\ published[m] >= 1
  BY DEF TurnOf
<1> QED BY <1>2, <1>3, <1>4, <1>5, <1>6 DEF TurnOf, Departed

\* The list without some who are gone.
LEMMA TurnShorter ==
    ASSUME NEW m \in setting.names, TurnOf(m), setting' = setting,
           NEW P \in SUBSET DOMAIN outbound[m],
           \A i \in DOMAIN outbound[m] : i \in P \/ GoneNext(outbound[m][i]),
           outbound'[m] = AtPlaces(outbound[m], P), turn'[m] = turn[m], targets'[m] = targets[m],
           failed'[m] = failed[m], published'[m] = published[m], inbound'[m] \subseteq inbound[m],
           \A p \in setting.names : Departed(p) => GoneNext(p), targets[m] \in Nat
    PROVE  TurnOf(m)'
<1> DEFINE T == setting.names \ {m}
           s == outbound[m]
           t == AtPlaces(s, P)
<1>1. /\ s \in Seq(T) /\ P \in SUBSET (1..Len(s)) /\ DOMAIN s = 1..Len(s) /\ Len(s) \in Nat
      /\ \A i, j \in DOMAIN s : s[i] = s[j] => i = j
  BY DEF TurnOf
<1> HIDE DEF T, s
<1>2. /\ t \in Seq(T) /\ Len(t) <= Len(s)
      /\ \A k \in 1..Len(t) : \E i \in P : i >= k /\ t[k] = s[i]
      /\ \A i \in P : \E k \in 1..Len(t) : t[k] = s[i]
      /\ \A k, l \in 1..Len(t) : k # l => \E i, j \in P : i # j /\ t[k] = s[i] /\ t[l] = s[j]
      /\ Len(t) = Len(s) => t = s
  BY <1>1, AtPlacesFurther
<1>3. Len(t) \in Nat /\ DOMAIN t = 1..Len(t)
  BY <1>2
<1>4. outbound'[m] = t
  BY DEF s
<1> HIDE DEF t
<1>5. /\ outbound'[m] \in Seq(setting'.names \ {m}) /\ inbound'[m] \subseteq setting'.names \ {m}
  <2>1. inbound[m] \subseteq T
    BY DEF TurnOf, T
  <2>2. setting'.names \ {m} = T
    BY DEF T
  <2> QED BY <1>2, <1>4, <2>1, <2>2
<1>6. \A k, l \in DOMAIN t : t[k] = t[l] => k = l
  BY <1>1, AtPlacesApart DEF t
<1>7. turn[m] # 0 => Len(t) <= targets[m] /\ published[m] >= 1
  BY <1>1, <1>2, <1>3 DEF TurnOf, s
<1>8. ASSUME turn[m] # 0, Len(t) = targets[m], NEW i \in failed[m]
      PROVE  i \in DOMAIN t /\ GoneNext(t[i])
  <2>1. Len(s) <= targets[m]
    BY <1>8 DEF TurnOf, s
  <2>2. Len(t) = Len(s)
    BY <1>1, <1>2, <1>3, <1>8, <2>1
  <2>3. t = s /\ i \in DOMAIN s /\ Departed(s[i])
    BY <1>2, <1>8, <2>2 DEF TurnOf, s
  <2>4. s[i] \in setting.names
    BY <1>1, <2>3 DEF T
  <2> QED BY <2>3, <2>4
<1>9. ASSUME ~GoneNext(m), NEW p \in T PROVE GoneNext(p) \/ \E k \in DOMAIN t : t[k] = p
  <2>1. Departed(p) \/ \E i \in DOMAIN s : s[i] = p
    BY <1>9 DEF TurnOf, s, T
  <2>2. p \in setting.names
    BY DEF T
  <2>3. CASE Departed(p)
    BY <2>2, <2>3
  <2>4. CASE \E i \in DOMAIN s : s[i] = p
    <3>1. PICK i \in DOMAIN s : s[i] = p
      BY <2>4
    <3>2. i \in P \/ GoneNext(p)
      BY <3>1 DEF s
    <3> QED BY <1>2, <1>3, <3>1, <3>2
  <2> QED BY <2>1, <2>3, <2>4
<1>10. \A x : GoneNext(x) <=> driver'[x] \notin Alive
  BY DEF GoneNext
<1>11. turn[m] <= targets[m] /\ T = setting.names \ {m}
  BY DEF TurnOf, T
<1>12. turn'[m] # 0 /\ Len(outbound'[m]) = targets'[m] =>
         \A i \in failed'[m] : i \in DOMAIN outbound'[m] /\ driver'[outbound'[m][i]] \notin Alive
  BY <1>4, <1>8, <1>10
<1>13. driver'[m] \in Alive => \A p \in setting'.names \ {m} :
         driver'[p] \notin Alive \/ \E i \in DOMAIN outbound'[m] : outbound'[m][i] = p
  BY <1>4, <1>9, <1>10, <1>11
<1>14. \A i, j \in DOMAIN outbound'[m] : outbound'[m][i] = outbound'[m][j] => i = j
  BY <1>4, <1>6
<1>15. turn'[m] <= targets'[m] /\ (turn'[m] # 0 => Len(outbound'[m]) <= targets'[m] /\ published'[m] >= 1)
  BY <1>4, <1>7, <1>11
<1> QED BY <1>5, <1>12, <1>13, <1>14, <1>15 DEF TurnOf, Departed

\* The end of what a node sees closed.
LEMMA TurnDrops ==
    ASSUME HybridTypeOK, NEW n \in setting.names, TurnOf(n), DropClosed(n), setting' = setting,
           turn'[n] = turn[n], targets'[n] = targets[n], failed'[n] = failed[n],
           published'[n] = published[n], \A p \in setting.names : Departed(p) => GoneNext(p)
    PROVE  TurnOf(n)'
<1> DEFINE S == {p \in HybridNames : ~Departed(p)}
           P == {i \in DOMAIN outbound[n] : outbound[n][i] \in S}
<1>1. /\ n \in HybridNames /\ setting.names \subseteq HybridNames /\ targets[n] \in Nat
      /\ outbound \in [HybridNames -> Seq(HybridNames)]
      /\ inbound \in [HybridNames -> SUBSET HybridNames]
  <2>1. n \in HybridNames /\ setting.names \subseteq HybridNames /\ Cardinality(HybridNames) \in Nat
    BY HySetting
  <2> QED BY <2>1 DEF HybridTypeOK
<1>2. outbound'[n] = Only(outbound[n], S) /\ inbound'[n] = inbound[n] \ AtEof(n)
  BY <1>1 DEF DropClosed
<1>3. outbound'[n] = AtPlaces(outbound[n], P) /\ P \in SUBSET DOMAIN outbound[n]
  BY <1>2 DEF Only
<1>4. \A i \in DOMAIN outbound[n] : outbound[n][i] \in setting.names
  BY DEF TurnOf
<1>5. \A i \in DOMAIN outbound[n] : i \in P \/ GoneNext(outbound[n][i])
  BY <1>1, <1>4
<1>6. inbound'[n] \subseteq inbound[n]
  BY <1>2
<1> HIDE DEF P
<1> QED BY <1>1, <1>3, <1>5, <1>6, TurnShorter

LEMMA TurnStarts ==
    ASSUME HybridTypeOK, NEW n \in setting.names, TurnOf(n), StartBroadcast(n)
    PROVE  TurnOf(n)'
<1>1. /\ n \in HybridNames /\ outbound[n] \in Seq(HybridNames) /\ published[n] \in Nat
      /\ Len(outbound[n]) \in Nat
  <2>1. n \in HybridNames
    BY HySetting
  <2> QED BY <2>1, HyRow
<1>2. /\ outbound'[n] = outbound[n] /\ inbound'[n] = inbound[n] /\ driver' = driver
      /\ setting' = setting /\ published'[n] = published[n] + 1
      /\ turn'[n] = (IF outbound[n] = <<>> THEN 0 ELSE 1) /\ targets'[n] = Len(outbound[n])
      /\ failed'[n] = {}
  BY <1>1 DEF StartBroadcast, HybridTypeOK
<1>3. /\ outbound[n] \in Seq(setting.names \ {n}) /\ inbound[n] \subseteq setting.names \ {n}
      /\ \A i, j \in DOMAIN outbound[n] : outbound[n][i] = outbound[n][j] => i = j
      /\ ~Departed(n) => \A p \in setting.names \ {n} :
            Departed(p) \/ \E i \in DOMAIN outbound[n] : outbound[n][i] = p
  BY DEF TurnOf
<1>4. outbound[n] # <<>> => 1 <= Len(outbound[n])
  BY <1>1
<1> QED BY <1>1, <1>2, <1>3, <1>4 DEF TurnOf, Departed

LEMMA TurnAdvances ==
    ASSUME HybridTypeOK, NEW n \in setting.names, TurnOf(n), turn[n] # 0, InBounds(n),
           NEW bad, bad = failed[n] \/ (bad = failed[n] \union {turn[n]} /\ Departed(Target(n))),
           NextTarget(n, bad),
           UNCHANGED <<setting, published, targets, inbound>>,
           \A p \in setting.names : Departed(p) => GoneNext(p)
    PROVE  TurnOf(n)'
<1>1. /\ n \in HybridNames /\ turn[n] \in Nat /\ targets[n] \in Nat
      /\ turn \in [HybridNames -> 0..Cardinality(HybridNames)]
      /\ failed \in [HybridNames -> SUBSET (1..Cardinality(HybridNames))]
      /\ outbound \in [HybridNames -> Seq(HybridNames)] /\ outbound[n] \in Seq(HybridNames)
  <2>1. n \in HybridNames /\ Cardinality(HybridNames) \in Nat
    BY HySetting
  <2> QED BY <2>1, HyRow DEF HybridTypeOK
<1> DEFINE T == setting.names \ {n}
           s == outbound[n]
<1>2. /\ s \in Seq(T) /\ DOMAIN s = 1..Len(s) /\ Len(s) \in Nat
      /\ \A i, j \in DOMAIN s : s[i] = s[j] => i = j
      /\ turn[n] <= targets[n] /\ Len(s) <= targets[n] /\ published[n] >= 1
      /\ turn[n] \in 1..Len(s) /\ inbound[n] \subseteq T
  BY <1>1 DEF TurnOf, InBounds
<1>3. ASSUME Len(s) = targets[n], NEW i \in bad PROVE i \in DOMAIN s /\ Departed(s[i]) /\ GoneNext(s[i])
  <2>1. i \in DOMAIN s /\ Departed(s[i])
    <3>1. CASE i \in failed[n]
      BY <1>3, <3>1 DEF TurnOf
    <3>2. CASE i = turn[n] /\ Departed(Target(n))
      BY <1>2, <1>3, <3>2 DEF Target
    <3> QED BY <1>3, <3>1, <3>2
  <2>2. s[i] \in setting.names
    BY <1>2, <2>1
  <2> QED BY <2>1, <2>2
<1>4. ASSUME ~GoneNext(n), NEW p \in T PROVE GoneNext(p) \/ \E i \in DOMAIN s : s[i] = p
  <2>1. p \in setting.names /\ ~Departed(n)
    BY <1>4
  <2> QED BY <2>1, <1>4 DEF TurnOf
<1>5. CASE turn[n] < targets[n]
  <2>1. /\ turn'[n] = turn[n] + 1 /\ failed'[n] = bad /\ outbound'[n] = s
    BY <1>1, <1>5 DEF NextTarget
  <2>2. turn'[n] <= targets[n]
    BY <1>1, <1>5, <2>1
  <2>3. Len(s) = targets[n] => \A i \in bad : i \in DOMAIN s /\ GoneNext(s[i])
    BY <1>3
  <2>4. ~GoneNext(n) => \A p \in T : GoneNext(p) \/ \E i \in DOMAIN s : s[i] = p
    BY <1>4
  <2>5. \A x : GoneNext(x) <=> driver'[x] \notin Alive
    BY DEF GoneNext
  <2>6. targets'[n] = targets[n] /\ published'[n] = published[n] /\ inbound'[n] = inbound[n]
        /\ setting' = setting
    OBVIOUS
  <2> HIDE DEF s
  <2> QED BY <1>2, <2>1, <2>2, <2>3, <2>4, <2>5, <2>6 DEF TurnOf, Departed
<1>6. CASE ~(turn[n] < targets[n])
  <2> DEFINE P == DOMAIN s \ bad
             t == AtPlaces(s, P)
  <2>1. /\ turn'[n] = 0 /\ failed'[n] = {} /\ outbound'[n] = t
    BY <1>1, <1>6 DEF NextTarget, Survivors
  <2>2. P \in SUBSET (1..Len(s))
    BY <1>2
  <2>3. Len(s) = targets[n]
    BY <1>1, <1>2, <1>6
  <2>g. \A i \in DOMAIN s : i \in P \/ GoneNext(s[i])
    BY <1>3, <2>3
  <2> HIDE DEF s, T, P
  <2>4. /\ t \in Seq(T) /\ Len(t) <= Len(s)
        /\ \A i \in P : \E k \in 1..Len(t) : t[k] = s[i]
        /\ \A k, l \in 1..Len(t) : k # l => \E i, j \in P : i # j /\ t[k] = s[i] /\ t[l] = s[j]
    BY <1>2, <2>2, AtPlacesFurther, Zenon
  <2>6. \A k, l \in DOMAIN t : t[k] = t[l] => k = l
    BY <1>2, <2>2, AtPlacesApart
  <2> HIDE DEF t
  <2>5. DOMAIN t = 1..Len(t)
    BY <2>4
  <2>7. ASSUME ~GoneNext(n), NEW p \in T PROVE GoneNext(p) \/ \E k \in DOMAIN t : t[k] = p
    <3>1. GoneNext(p) \/ \E i \in DOMAIN s : s[i] = p
      BY <1>4, <2>7
    <3>2. CASE \E i \in DOMAIN s : s[i] = p
      <4>1. PICK i \in DOMAIN s : s[i] = p
        BY <3>2
      <4>2. i \in P \/ GoneNext(p)
        BY <2>g, <4>1
      <4> QED BY <2>4, <2>5, <4>1, <4>2
    <3> QED BY <3>1, <3>2
  <2>8. T = setting.names \ {n} /\ setting' = setting /\ targets'[n] = targets[n]
        /\ inbound'[n] = inbound[n]
    BY DEF T
  <2>9. \A x : GoneNext(x) <=> driver'[x] \notin Alive
    BY DEF GoneNext
  <2> QED BY <1>1, <1>2, <2>1, <2>4, <2>6, <2>7, <2>8, <2>9 DEF TurnOf, Departed
<1> QED BY <1>5, <1>6

\* A step of n changes nothing in the row of another node.
LEMMA OtherRows ==
    ASSUME HybridTypeOK, NEW n \in setting.names, NEW m \in setting.names, m # n,
           \/ DriverStep(n) \/ KillChild(n) \/ \E p \in setting.names \ {n} : ReaderPush(n, p)
    PROVE  /\ outbound'[m] = outbound[m] /\ turn'[m] = turn[m] /\ targets'[m] = targets[m]
           /\ failed'[m] = failed[m] /\ published'[m] = published[m] /\ inbound'[m] = inbound[m]
           /\ driver'[m] = driver[m]
<1>1. n \in HybridNames /\ m \in HybridNames
  BY HySetting
<1> DEFINE Row == /\ outbound'[m] = outbound[m] /\ turn'[m] = turn[m] /\ targets'[m] = targets[m]
                  /\ failed'[m] = failed[m] /\ published'[m] = published[m]
                  /\ inbound'[m] = inbound[m] /\ driver'[m] = driver[m]
<1>2. ASSUME NEW how, Ends(n, how) PROVE Row
  BY <1>1, <1>2 DEF Ends, HybridTypeOK
<1>3. ASSUME DropClosed(n) PROVE outbound'[m] = outbound[m] /\ inbound'[m] = inbound[m]
  BY <1>1, <1>3 DEF DropClosed, HybridTypeOK
<1>4. ASSUME NEW w, TakeFrame(n, w) PROVE inbound'[m] = inbound[m]
  BY <1>1, <1>4 DEF TakeFrame, HybridTypeOK
<1>5. ASSUME NextTick(n) PROVE driver'[m] = driver[m]
  BY <1>1, <1>5 DEF NextTick, HybridTypeOK
<1>6. ASSUME NEW bad, NextTarget(n, bad)
      PROVE  driver'[m] = driver[m] /\ turn'[m] = turn[m] /\ failed'[m] = failed[m]
             /\ outbound'[m] = outbound[m]
  <2>1. /\ turn' = [turn EXCEPT ![n] = turn[n] + 1] \/ turn' = [turn EXCEPT ![n] = 0]
        /\ failed' = [failed EXCEPT ![n] = bad] \/ failed' = [failed EXCEPT ![n] = {}]
        /\ outbound' = [outbound EXCEPT ![n] = Survivors(n, bad)] \/ outbound' = outbound
        /\ driver' = [driver EXCEPT ![n] = "failed"] \/ driver' = driver
    BY <1>6 DEF NextTarget
  <2> QED BY <1>1, <2>1 DEF HybridTypeOK
<1>7. CASE KillChild(n) \/ LeaveSpawn(n) \/ Panic(n)
  BY <1>2, <1>7 DEF KillChild, LeaveSpawn, Panic
<1>8. CASE WriteFrame(n) \/ WriteFails(n)
  BY <1>6, <1>8 DEF WriteFrame, WriteFails
<1>9. CASE PollNothing(n) \/ DrainBudgetSpent(n)
  <2>1. NextTick(n) \/ driver' = driver
    BY <1>9 DEF PollNothing, DrainBudgetSpent
  <2>2. DropClosed(n) \/ (inbound' = inbound /\ outbound' = outbound)
    BY <1>9 DEF PollNothing, DrainBudgetSpent, broadcastVars
  <2>3. UNCHANGED <<published, turn, targets, failed>>
    BY <1>9 DEF PollNothing, DrainBudgetSpent, broadcastVars
  <2> QED BY <1>3, <1>5, <2>1, <2>2, <2>3
<1>10. CASE EndInlineDrain(n)
  BY <1>3, <1>10 DEF EndInlineDrain, driverVars
<1>11. CASE InlineDrain(n)
  <2>1. PICK w : TakeFrame(n, w)
    BY <1>11 DEF InlineDrain
  <2> QED BY <1>4, <1>11, <2>1 DEF InlineDrain, driverVars, broadcastVars
<1>12. CASE PollSocket(n)
  <2>1. PICK w : TakeFrame(n, w) /\ Receive(n, w, Head(socket[w][n]))
    BY <1>12 DEF PollSocket
  <2> QED BY <1>4, <2>1 DEF Receive, broadcastVars
<1>13. CASE StartBroadcast(n)
  BY <1>1, <1>13 DEF StartBroadcast, HybridTypeOK
<1>14. CASE WouldBlock(n) \/ PollQueued(n) \/ \E p \in setting.names \ {n} : ReaderPush(n, p)
  BY <1>14 DEF WouldBlock, PollQueued, ReaderPush, Receive, driverVars, broadcastVars
<1> HIDE DEF Row
<1>15. Row
  BY <1>7, <1>8, <1>9, <1>10, <1>11, <1>12, <1>13, <1>14 DEF DriverStep, Row
<1> QED BY <1>15 DEF Row

LEMMA HybridTurnsStep ==
    ASSUME HybridInv, [HybridNext]_hybridVars
    PROVE  HybridTurns'
<1>1. HybridTypeOK /\ HybridTurns
  BY DEF HybridInv
<1>2. /\ setting' = setting /\ (\A p \in setting.names : Departed(p) => GoneNext(p))
      /\ setting.names \subseteq HybridNames
  <2>1. setting' = setting /\ \A p \in setting.names : Departed(p) => Departed(p)'
    BY <1>1, GoneForGood
  <2> QED BY <1>1, <2>1, HySetting DEF Departed, GoneNext
<1>3. SUFFICES ASSUME NEW m \in setting.names PROVE TurnOf(m)'
  BY <1>2 DEF HybridTurns
<1>4. TurnOf(m) /\ m \in HybridNames
  BY <1>1, <1>2 DEF HybridTurns
<1>s. ASSUME outbound'[m] = outbound[m], turn'[m] = turn[m], targets'[m] = targets[m],
             failed'[m] = failed[m], published'[m] = published[m], inbound'[m] \subseteq inbound[m]
      PROVE  TurnOf(m)'
  BY <1>2, <1>4, <1>s, TurnStays
<1>5. CASE UNCHANGED hybridVars
  BY <1>5, <1>s DEF hybridVars, broadcastVars, driverVars
<1>6. ASSUME NEW n \in setting.names, n # m,
             DriverStep(n) \/ KillChild(n) \/ \E p \in setting.names \ {n} : ReaderPush(n, p)
      PROVE  TurnOf(m)'
  BY <1>1, <1>6, <1>s, OtherRows
<1>7. CASE KillChild(m) \/ LeaveSpawn(m) \/ Panic(m)
  <2>1. PICK how : Ends(m, how)
    BY <1>7 DEF KillChild, LeaveSpawn, Panic
  <2>2. turn'[m] = 0 /\ driver'[m] = how /\ outbound'[m] = outbound[m] /\ targets'[m] = targets[m]
        /\ inbound'[m] = inbound[m] /\ published'[m] = published[m]
    BY <1>1, <1>4, <2>1 DEF Ends, HybridTypeOK
  <2>3. targets[m] \in Nat
    BY <1>1, <1>4, HySetting, HyRow
  <2>5. driver'[m] \notin Alive
    BY <1>1, <1>4, <1>7 DEF KillChild, LeaveSpawn, Panic, Ends, Alive, HybridTypeOK
  <2> QED BY <1>2, <1>4, <2>2, <2>3, <2>5 DEF TurnOf, Departed
<1>8. CASE WriteFrame(m) \/ WriteFails(m)
  <2>1. turn[m] # 0 /\ InBounds(m) /\ UNCHANGED <<setting, published, targets, inbound>>
    BY <1>8 DEF WriteFrame, WriteFails, Writing
  <2>2. PICK bad : /\ NextTarget(m, bad)
                   /\ bad = failed[m] \/ (bad = failed[m] \union {turn[m]} /\ Departed(Target(m)))
    BY <1>8 DEF WriteFrame, WriteFails
  <2> QED BY <1>1, <1>2, <1>4, <2>1, <2>2, TurnAdvances
<1>9. CASE PollNothing(m) \/ EndInlineDrain(m)
  <2>1. DropClosed(m) \/ (inbound' = inbound /\ outbound' = outbound)
    BY <1>9 DEF PollNothing, EndInlineDrain
  <2>2. UNCHANGED <<published, turn, targets, failed>>
    BY <1>9 DEF PollNothing, EndInlineDrain, driverVars
  <2>3. CASE DropClosed(m)
    BY <1>1, <1>2, <1>4, <2>2, <2>3, TurnDrops
  <2> QED BY <1>s, <2>1, <2>2, <2>3
<1>10. CASE InlineDrain(m)
  <2>1. PICK w : TakeFrame(m, w)
    BY <1>10 DEF InlineDrain
  <2>2. inbound'[m] \subseteq inbound[m]
    BY <1>1, <1>4, <2>1 DEF TakeFrame, HybridTypeOK
  <2> QED BY <1>s, <1>10, <2>2 DEF InlineDrain, driverVars, broadcastVars
<1>11. CASE PollSocket(m)
  <2>1. PICK w : TakeFrame(m, w) /\ Receive(m, w, Head(socket[w][m]))
    BY <1>11 DEF PollSocket
  <2>2. inbound'[m] \subseteq inbound[m]
    BY <1>1, <1>4, <2>1 DEF TakeFrame, HybridTypeOK
  <2> QED BY <1>s, <2>1, <2>2 DEF Receive, broadcastVars
<1>12. CASE StartBroadcast(m)
  BY <1>1, <1>4, <1>12, TurnStarts
<1>13. CASE WouldBlock(m) \/ PollQueued(m) \/ DrainBudgetSpent(m)
            \/ \E p \in setting.names \ {m} : ReaderPush(m, p)
  BY <1>s, <1>13 DEF WouldBlock, PollQueued, DrainBudgetSpent, ReaderPush, Receive, driverVars,
     broadcastVars
<1> QED BY <1>5, <1>6, <1>7, <1>8, <1>9, <1>10, <1>11, <1>12, <1>13 DEF HybridNext, DriverStep

LEMMA CellSet ==
    ASSUME NEW A, NEW B, NEW S, NEW f \in [A -> [B -> S]], NEW a \in A, NEW b \in B, NEW y, NEW c \in B
    PROVE  [f EXCEPT ![a][b] = y][a][c] = IF b = c THEN y ELSE f[a][c]
OBVIOUS

LEMMA CellApart ==
    ASSUME NEW A, NEW B, NEW S, NEW f \in [A -> [B -> S]], NEW x, NEW b, NEW a \in A, NEW c \in B, b # c, NEW y
    PROVE  [f EXCEPT ![x][b] = y][a][c] = f[a][c]
OBVIOUS

\* What is between two nodes, in three parts.
LEMMA CourseTyped ==
    ASSUME HybridTypeOK, NEW w \in HybridNames, NEW r \in HybridNames
    PROVE  /\ got[r][w] \in Seq(HySeqs) /\ SeqsFrom(queued[r], w) \in Seq(HySeqs)
           /\ socket[w][r] \in Seq(HySeqs) /\ queued[r] \in Seq(Tagged(HybridNames, HySeqs))
           /\ Course(w, r) = Strung(Strung(got[r][w], SeqsFrom(queued[r], w)), socket[w][r])
           /\ Course(w, r) \in Seq(HySeqs) /\ published[w] \in Nat
<1> DEFINE a == got[r][w]
           q == queued[r]
           b == SeqsFrom(q, w)
           c == socket[w][r]
<1>1. a \in Seq(HySeqs) /\ c \in Seq(HySeqs) /\ q \in Seq(Tagged(HybridNames, HySeqs))
      /\ published[w] \in Nat
  <2>1. published[w] \in 0..MaxPublished
    BY HyRow
  <2> QED BY <2>1, HyRow
<1>2. Course(w, r) = Strung(Strung(a, b), c)
  BY DEF Course, Strung
<1> HIDE DEF a, c, q
<1>3. b \in Seq(HySeqs)
  BY <1>1, SeqsFromJoin
<1> HIDE DEF b
<1>4. Strung(a, b) \in Seq(HySeqs)
  BY <1>1, <1>3, StrungTyped
<1>5. Strung(Strung(a, b), c) \in Seq(HySeqs)
  BY <1>1, <1>4, StrungTyped
<1> QED BY <1>1, <1>2, <1>3, <1>5 DEF a, b, c, q

\* A frame goes from the socket to the end of the queue.
LEMMA CoursePulled ==
    ASSUME HybridTypeOK, NEW w \in HybridNames, NEW r \in HybridNames, NEW x \in HybridNames,
           socket[x][r] # <<>>, socket' = [socket EXCEPT ![x][r] = Tail(socket[x][r])],
           queued' = [queued EXCEPT ![r] =
                         Append(queued[r], [from |-> x, seq |-> Head(socket[x][r])])],
           got' = got
    PROVE  Course(w, r)' = Course(w, r)
<1> DEFINE a == got[r][w]
           q == queued[r]
           b == SeqsFrom(q, w)
           c == socket[w][r]
           h == Head(socket[x][r])
           e == [from |-> x, seq |-> h]
<1>1. /\ a \in Seq(HySeqs) /\ b \in Seq(HySeqs) /\ c \in Seq(HySeqs)
      /\ q \in Seq(Tagged(HybridNames, HySeqs)) /\ Course(w, r) = Strung(Strung(a, b), c)
  BY CourseTyped
<1>2. h \in HySeqs
  <2>1. socket[x][r] \in Seq(HySeqs)
    BY CourseTyped
  <2> QED BY <2>1, HeadThenTail
<1>3. e \in Tagged(HybridNames, HySeqs) /\ e.from = x /\ e.seq = h
  BY <1>2 DEF Tagged
<1>4. /\ queued'[r] = Append(q, e) /\ got'[r][w] = a
      /\ socket'[w][r] = IF w = x THEN Tail(c) ELSE c
  BY DEF HybridTypeOK
<1>5. Course(w, r)' = Strung(Strung(a, SeqsFrom(Append(q, e), w)), socket'[w][r])
  BY <1>4 DEF Course, Strung
<1>6. w = x => c # <<>> /\ h = Head(c)
  OBVIOUS
<1> HIDE DEF a, q, c, h, e
<1>7. SeqsFrom(Append(q, e), w) = IF e.from = w THEN Append(SeqsFrom(q, w), e.seq) ELSE SeqsFrom(q, w)
  BY <1>1, <1>3, SeqsFromAppend
<1>8. CASE w = x
  <2>1. SeqsFrom(Append(q, e), w) = Append(b, Head(c)) /\ socket'[w][r] = Tail(c)
    BY <1>3, <1>4, <1>6, <1>7, <1>8
  <2> HIDE DEF b
  <2>2. Head(c) \in HySeqs /\ Tail(c) \in Seq(HySeqs)
    BY <1>1, <1>6, <1>8, HeadThenTail
  <2>3. Strung(a, Append(b, Head(c))) = Append(Strung(a, b), Head(c))
    BY <1>1, <2>2, StrungEnd
  <2>4. Strung(a, b) \in Seq(HySeqs)
    BY <1>1, StrungTyped
  <2> DEFINE ab == Strung(a, b)
  <2> HIDE DEF ab
  <2>5. ab \in Seq(HySeqs) /\ c \in Seq(HySeqs) /\ c # <<>>
    BY <1>1, <1>6, <1>8, <2>4 DEF ab
  <2>6. Strung(Append(ab, Head(c)), Tail(c)) = Strung(ab, c)
    BY <2>5, StrungHead
  <2> QED BY <1>1, <1>5, <2>1, <2>3, <2>6 DEF ab
<1>9. CASE w # x
  BY <1>1, <1>3, <1>4, <1>5, <1>7, <1>9
<1> QED BY <1>8, <1>9

\* The driver takes the first of the queue.
LEMMA CourseOfQueue ==
    ASSUME HybridTypeOK, NEW w \in HybridNames, NEW r \in HybridNames, queued[r] # <<>>,
           got' = [got EXCEPT ![r][Head(queued[r]).from] = Append(@, Head(queued[r]).seq)],
           queued' = [queued EXCEPT ![r] = Tail(queued[r])], socket' = socket
    PROVE  Course(w, r)' = Course(w, r)
<1> DEFINE a == got[r][w]
           q == queued[r]
           h == Head(q)
           t == Tail(q)
           b == SeqsFrom(q, w)
           c == socket[w][r]
           d == SeqsFrom(t, w)
<1>1. /\ a \in Seq(HySeqs) /\ b \in Seq(HySeqs) /\ c \in Seq(HySeqs)
      /\ q \in Seq(Tagged(HybridNames, HySeqs)) /\ Course(w, r) = Strung(Strung(a, b), c)
  BY CourseTyped
<1>2. queued'[r] = t /\ socket'[w][r] = c
  BY DEF HybridTypeOK
<1>s. q # <<>>
  OBVIOUS
<1> HIDE DEF q
<1>3. /\ h \in Tagged(HybridNames, HySeqs) /\ t \in Seq(Tagged(HybridNames, HySeqs))
      /\ h.seq \in HySeqs /\ d \in Seq(HySeqs)
      /\ b = IF h.from = w THEN <<h.seq>> \o d ELSE d
  BY <1>1, <1>s, SeqsFromHead
<1>4. got'[r][w] = IF h.from = w THEN Append(a, h.seq) ELSE a
  <2>1. h.from \in HybridNames
    BY <1>3 DEF Tagged
  <2>2. got' = [got EXCEPT ![r][h.from] = Append(@, h.seq)]
    BY DEF q
  <2>3. got \in [HybridNames -> [HybridNames -> Seq(1..MaxPublished)]]
    BY DEF HybridTypeOK
  <2> DEFINE x == h.from
             k == h.seq
  <2>4. got' = [got EXCEPT ![r][x] = Append(got[r][x], k)] /\ x \in HybridNames
    BY <2>1, <2>2
  <2> DEFINE y == Append(got[r][x], k)
             T == Seq(1..MaxPublished)
  <2> HIDE DEF h, x, k, y, T
  <2>5. got \in [HybridNames -> [HybridNames -> T]] /\ got' = [got EXCEPT ![r][x] = y]
    BY <2>3, <2>4 DEF T, y
  <2>6. [got EXCEPT ![r][x] = y][r][w] = IF x = w THEN y ELSE got[r][w]
    BY <2>4, <2>5, CellSet
  <2> QED BY <2>5, <2>6 DEF x, k, y
<1>5. Course(w, r)' = Strung(Strung(got'[r][w], d), c)
  BY <1>2, Zenon DEF Course, Strung
<1>6. CASE h.from = w
  <2> DEFINE y == <<h.seq>>
  <2>1. y \in Seq(HySeqs)
    BY <1>3
  <2>2. Append(a, h.seq) = Strung(a, y)
    BY <1>1, <1>3, AppendIsConcat DEF Strung
  <2>3. b = Strung(y, d)
    BY <1>3, <1>6 DEF Strung
  <2> HIDE DEF y, a, d
  <2>4. Strung(Strung(a, y), d) = Strung(a, Strung(y, d))
    BY <1>1, <1>3, <2>1, StrungTwice DEF a, d
  <2> QED BY <1>1, <1>4, <1>5, <1>6, <2>2, <2>3, <2>4
<1>7. CASE h.from # w
  BY <1>1, <1>3, <1>4, <1>5, <1>7
<1> QED BY <1>6, <1>7

\* The driver takes a frame from the socket, with nothing in the queue.
LEMMA CourseOfSocket ==
    ASSUME HybridTypeOK, NEW w \in HybridNames, NEW r \in HybridNames, NEW x \in HybridNames,
           queued[r] = <<>>, socket[x][r] # <<>>,
           socket' = [socket EXCEPT ![x][r] = Tail(socket[x][r])], queued' = queued,
           got' = [got EXCEPT ![r][x] = Append(@, Head(socket[x][r]))]
    PROVE  Course(w, r)' = Course(w, r)
<1> DEFINE a == got[r][w]
           b == SeqsFrom(queued[r], w)
           c == socket[w][r]
<1>1. /\ a \in Seq(HySeqs) /\ c \in Seq(HySeqs) /\ Course(w, r) = Strung(Strung(a, b), c)
  BY CourseTyped
<1>2. /\ got'[r][w] = (IF w = x THEN Append(a, Head(c)) ELSE a)
      /\ socket'[w][r] = IF w = x THEN Tail(c) ELSE c
  BY DEF HybridTypeOK
<1>3. b = <<>>
  BY SeqsFromNothing
<1>4. Course(w, r)' = Strung(Strung(got'[r][w], b), socket'[w][r])
  BY DEF Course, Strung
<1>5. CASE w = x
  <2>1. c # <<>>
    BY <1>5
  <2> HIDE DEF a, b, c
  <2>2. Head(c) \in HySeqs
    BY <1>1, <2>1, HeadThenTail
  <2>3. Append(a, Head(c)) \in Seq(HySeqs)
    BY <1>1, <2>2, AppendProperties
  <2>4. Strung(a, b) = a /\ Strung(Append(a, Head(c)), b) = Append(a, Head(c))
    BY <1>1, <1>3, <2>3, NothingJoined DEF Strung
  <2>5. Strung(Append(a, Head(c)), Tail(c)) = Strung(a, c)
    BY <1>1, <2>1, StrungHead
  <2> QED BY <1>1, <1>2, <1>4, <1>5, <2>4, <2>5
<1>6. CASE w # x
  BY <1>1, <1>2, <1>4, <1>6
<1> QED BY <1>5, <1>6

\* The driver, the reader thread or the end of another node.
LEMMA CourseOfOthers ==
    ASSUME HybridTypeOK, NEW n \in setting.names, NEW w \in setting.names, NEW r \in setting.names,
           \/ InlineDrain(n) \/ PollQueued(n) \/ PollSocket(n)
           \/ \E p \in setting.names \ {n} : ReaderPush(n, p)
    PROVE  Course(w, r)' = Course(w, r)
<1>0. n \in HybridNames /\ w \in HybridNames /\ r \in HybridNames
      /\ inbound[n] \in SUBSET HybridNames
  BY HySetting, HyRow
<1>1. CASE r = n
  <2>1. CASE InlineDrain(n)
    <3>1. PICK x : /\ TakeFrame(n, x) /\ got' = got
                   /\ queued' = [queued EXCEPT ![n] =
                                    Append(@, [from |-> x, seq |-> Head(socket[x][n])])]
      BY <2>1 DEF InlineDrain
    <3>2. x \in HybridNames /\ socket[x][n] # <<>>
          /\ socket' = [socket EXCEPT ![x][n] = Tail(socket[x][n])]
      BY <1>0, <3>1 DEF TakeFrame, Readable
    <3> QED BY <1>0, <1>1, <3>1, <3>2, CoursePulled
  <2>2. CASE \E p \in setting.names \ {n} : ReaderPush(n, p)
    <3>1. PICK x \in setting.names : ReaderPush(n, x)
      BY <2>2
    <3>2. /\ x \in HybridNames /\ socket[x][n] # <<>> /\ got' = got
          /\ socket' = [socket EXCEPT ![x][n] = Tail(socket[x][n])]
          /\ queued' = [queued EXCEPT ![n] = Append(@, [from |-> x, seq |-> Head(socket[x][n])])]
      BY <3>1, HySetting DEF ReaderPush, Pushed
    <3> QED BY <1>0, <1>1, <3>2, CoursePulled
  <2>3. CASE PollQueued(n)
    <3>1. /\ queued[n] # <<>> /\ queued' = [queued EXCEPT ![n] = Tail(queued[n])]
          /\ socket' = socket
          /\ got' = [got EXCEPT ![n][Head(queued[n]).from] = Append(@, Head(queued[n]).seq)]
      BY <2>3 DEF PollQueued, Receive
    <3> QED BY <1>0, <1>1, <3>1, CourseOfQueue
  <2>4. CASE PollSocket(n)
    <3>1. PICK x : TakeFrame(n, x) /\ Receive(n, x, Head(socket[x][n]))
      BY <2>4 DEF PollSocket
    <3>2. x \in HybridNames /\ socket[x][n] # <<>>
          /\ socket' = [socket EXCEPT ![x][n] = Tail(socket[x][n])]
      BY <1>0, <3>1 DEF TakeFrame, Readable
    <3>3. queued[n] = <<>> /\ queued' = queued
          /\ got' = [got EXCEPT ![n][x] = Append(@, Head(socket[x][n]))]
      BY <2>4, <3>1 DEF PollSocket, QueueFirst, Receive
    <3> QED BY <1>0, <1>1, <3>2, <3>3, CourseOfSocket
  <2> QED BY <2>1, <2>2, <2>3, <2>4
<1>2. CASE r # n
  <2>1. got'[r][w] = got[r][w]
    <3>1. got' = got \/ \E x, k : got' = [got EXCEPT ![n][x] = Append(@, k)]
      BY Zenon DEF InlineDrain, PollQueued, PollSocket, ReaderPush, Receive
    <3> QED BY <1>0, <1>2, <3>1, Zenon DEF HybridTypeOK
  <2>2. queued'[r] = queued[r]
    <3>1. queued' = queued \/ \E q : queued' = [queued EXCEPT ![n] = q]
      BY DEF InlineDrain, PollQueued, PollSocket, ReaderPush, Pushed
    <3> QED BY <1>0, <1>2, <3>1 DEF HybridTypeOK
  <2>3. socket'[w][r] = socket[w][r]
    <3>1. socket' = socket \/ \E x : socket' = [socket EXCEPT ![x][n] = Tail(@)]
      BY DEF InlineDrain, PollQueued, PollSocket, ReaderPush, TakeFrame
    <3>2. socket \in [HybridNames -> [HybridNames -> Seq(1..MaxPublished)]]
      BY DEF HybridTypeOK
    <3>3. ASSUME NEW x, socket' = [socket EXCEPT ![x][n] = Tail(@)] PROVE socket'[w][r] = socket[w][r]
      <4> DEFINE y == Tail(socket[x][n])
                 T == Seq(1..MaxPublished)
      <4>1. socket' = [socket EXCEPT ![x][n] = y] /\ socket \in [HybridNames -> [HybridNames -> T]]
        BY <3>2, <3>3
      <4> HIDE DEF y, T
      <4>2. [socket EXCEPT ![x][n] = y][w][r] = socket[w][r]
        BY <1>0, <1>2, <4>1, CellApart
      <4> QED BY <4>1, <4>2
    <3> QED BY <3>1, <3>3
  <2> QED BY <2>1, <2>2, <2>3 DEF Course
<1> QED BY <1>1, <1>2

LEMMA ReachedStays ==
    ASSUME NEW w \in setting.names, NEW r \in setting.names, HasReached(w, r),
           Course(w, r)' = Course(w, r), outbound'[w] = outbound[w], turn'[w] = turn[w],
           targets'[w] = targets[w], published'[w] = published[w], Departed(w) => GoneNext(w)
    PROVE  HasReached(w, r)'
BY DEF HasReached, Departed, GoneNext

\* The writer is gone, or ends.
LEMMA ReachedAtEnd ==
    ASSUME NEW w \in setting.names, NEW r \in setting.names, HasReached(w, r),
           Course(w, r)' = Course(w, r), GoneNext(w), turn'[w] = 0
    PROVE  HasReached(w, r)'
BY DEF HasReached, Departed, GoneNext

\* outbound gets shorter; an index that passed over somebody is now past the end.
LEMMA ReachedShorter ==
    ASSUME NEW w \in setting.names, NEW r \in setting.names, HasReached(w, r), TurnOf(w),
           Course(w, r)' = Course(w, r), NEW P \in SUBSET DOMAIN outbound[w],
           outbound'[w] = AtPlaces(outbound[w], P), turn'[w] = turn[w], targets'[w] = targets[w],
           published'[w] = published[w], Departed(w) => GoneNext(w), targets[w] \in Nat, turn[w] \in Nat
    PROVE  HasReached(w, r)'
<1> DEFINE T == setting.names \ {w}
           s == outbound[w]
           t == AtPlaces(s, P)
           n == Len(Course(w, r))
<1>1. s \in Seq(T) /\ P \in SUBSET (1..Len(s)) /\ DOMAIN s = 1..Len(s) /\ Len(s) \in Nat
      /\ (turn[w] # 0 => Len(s) <= targets[w])
  BY DEF TurnOf
<1>0. outbound'[w] = t
  OBVIOUS
<1>s. turn[w] # 0 => \A i \in DOMAIN s : s[i] = r =>
         /\ i >= turn[w] => n = published[w] - 1
         /\ i < turn[w] /\ Len(s) = targets[w] => n = published[w]
  BY DEF HasReached
<1> HIDE DEF T, s
<1>2. /\ t \in Seq(T) /\ Len(t) <= Len(s)
      /\ \A k \in 1..Len(t) : \E i \in P : i >= k /\ t[k] = s[i]
      /\ \A i \in P : \E k \in 1..Len(t) : t[k] = s[i]
      /\ \A k, l \in 1..Len(t) : k # l => \E i, j \in P : i # j /\ t[k] = s[i] /\ t[l] = s[j]
      /\ Len(t) = Len(s) => t = s
  BY <1>1, AtPlacesFurther
<1> HIDE DEF t, n
<1>3. DOMAIN t = 1..Len(t) /\ Len(t) \in Nat
  BY <1>2
<1>4. ASSUME turn[w] # 0, NEW k \in DOMAIN t, t[k] = r
      PROVE  /\ k >= turn[w] => n = published[w] - 1
             /\ k < turn[w] /\ Len(t) = targets[w] => n = published[w]
  <2>1. CASE k >= turn[w]
    <3>1. PICK i \in P : i >= k /\ t[k] = s[i]
      BY <1>2, <1>3, <1>4
    <3>2. i \in DOMAIN s /\ s[i] = r /\ i >= turn[w]
      BY <1>1, <1>3, <1>4, <2>1, <3>1
    <3>3. n = published[w] - 1
      BY <1>4, <1>s, <3>2
    <3> QED BY <1>3, <2>1, <3>3
  <2>2. CASE k < turn[w]
    <3>1. ASSUME Len(t) = targets[w] PROVE n = published[w]
      <4>1. Len(t) = Len(s) /\ t = s
        BY <1>1, <1>2, <1>3, <1>4, <3>1
      <4> QED BY <1>4, <1>s, <2>2, <3>1, <4>1
    <3> QED BY <1>3, <2>2, <3>1
  <2> QED BY <1>3, <2>1, <2>2
<1>5. turn'[w] # 0 => \A i \in DOMAIN outbound'[w] : outbound'[w][i] = r =>
         /\ i >= turn'[w] => n = published'[w] - 1
         /\ i < turn'[w] /\ Len(outbound'[w]) = targets'[w] => n = published'[w]
  BY <1>0, <1>4
<1>6. /\ Course(w, r) = FirstOnes(n)
      /\ driver'[w] \in Alive /\ turn[w] = 0 => n = published[w]
  BY DEF HasReached, Departed, GoneNext, n
<1>7. Len(Course(w, r)') = n
  BY DEF n
<1> QED BY <1>5, <1>6, <1>7 DEF HasReached, Departed

LEMMA ReachedStarts ==
    ASSUME HybridTypeOK, NEW w \in setting.names, NEW r \in setting.names, r # w, ~Departed(r),
           HasReached(w, r), TurnOf(w), StartBroadcast(w)
    PROVE  HasReached(w, r)'
<1>1. /\ w \in HybridNames /\ r \in HybridNames /\ outbound[w] \in Seq(HybridNames)
      /\ published[w] \in Nat
  <2>1. w \in HybridNames /\ r \in HybridNames
    BY HySetting
  <2> QED BY <2>1, HyRow
<1>2. /\ outbound'[w] = outbound[w] /\ published'[w] = published[w] + 1
      /\ turn'[w] = (IF outbound[w] = <<>> THEN 0 ELSE 1) /\ turn[w] = 0 /\ ~Departed(w)
      /\ got' = got /\ queued' = queued /\ socket' = socket
  BY <1>1 DEF StartBroadcast, HybridTypeOK, Departed, Alive
<1>3. Course(w, r)' = Course(w, r)
  BY <1>2 DEF Course
<1>4. \E i \in DOMAIN outbound[w] : outbound[w][i] = r
  BY <1>2 DEF TurnOf
<1>5. turn'[w] = 1
  BY <1>1, <1>2, <1>4
<1>6. Len(Course(w, r)) = published'[w] - 1 /\ Course(w, r) = FirstOnes(Len(Course(w, r)))
  BY <1>1, <1>2 DEF HasReached
<1>7. \A i \in DOMAIN outbound[w] : ~(i < 1)
  BY <1>1
<1> QED BY <1>2, <1>3, <1>5, <1>6, <1>7 DEF HasReached

\* One peer is done, or the call.
LEMMA ReachedNext ==
    ASSUME HybridTypeOK, NEW w \in setting.names, NEW r \in setting.names, r # w, ~Departed(r),
           HasReached(w, r), TurnOf(w), WriteFrame(w) \/ WriteFails(w), Departed(w) => GoneNext(w)
    PROVE  HasReached(w, r)'
<1> DEFINE k == turn[w]
           s == outbound[w]
           C == Course(w, r)
           N == published[w]
<1>1. /\ w \in HybridNames /\ r \in HybridNames /\ s \in Seq(HybridNames)
      /\ N \in Nat /\ k \in Nat /\ targets[w] \in Nat /\ k # 0 /\ k <= Len(s)
      /\ turn \in [HybridNames -> 0..Cardinality(HybridNames)]
  <2>1. w \in HybridNames /\ r \in HybridNames /\ Cardinality(HybridNames) \in Nat
    BY HySetting
  <2>2. k # 0 /\ InBounds(w)
    BY DEF WriteFrame, WriteFails, Writing
  <2>3. turn[w] \in 0..Cardinality(HybridNames) /\ targets[w] \in 0..Cardinality(HybridNames)
        /\ published[w] \in 0..MaxPublished /\ s \in Seq(HybridNames)
    BY <2>1, HyRow
  <2>4. turn \in [HybridNames -> 0..Cardinality(HybridNames)]
    BY DEF HybridTypeOK
  <2> QED BY <2>1, <2>2, <2>3, <2>4 DEF InBounds
<1>2. /\ DOMAIN s = 1..Len(s) /\ Len(s) \in Nat /\ k \in DOMAIN s
      /\ k <= targets[w] /\ Len(s) <= targets[w] /\ N >= 1
      /\ \A i, j \in DOMAIN s : s[i] = s[j] => i = j
  BY <1>1 DEF TurnOf
<1>3. PICK bad : NextTarget(w, bad)
  BY DEF WriteFrame, WriteFails
<1>4. /\ published' = published /\ targets' = targets /\ queued' = queued /\ got' = got
  BY DEF WriteFrame, WriteFails
<1>5. C \in Seq(HySeqs) /\ C = FirstOnes(Len(C))
  BY <1>1, CourseTyped DEF HasReached
<1>6. \A i \in DOMAIN s : s[i] = r => /\ i >= k => Len(C) = N - 1
                                      /\ i < k /\ Len(s) = targets[w] => Len(C) = N
  BY <1>1 DEF HasReached
<1>7. CASE s[k] = r
  <2>1. WriteFrame(w) /\ socket' = [socket EXCEPT ![w][r] = Append(socket[w][r], N)]
    BY <1>7 DEF WriteFrame, WriteFails, Target
  <2>2. socket'[w][r] = Append(socket[w][r], N)
    BY <1>1, <2>1 DEF HybridTypeOK
  <2>3. /\ Strung(got[r][w], SeqsFrom(queued[r], w)) \in Seq(HySeqs) /\ socket[w][r] \in Seq(HySeqs)
        /\ C = Strung(Strung(got[r][w], SeqsFrom(queued[r], w)), socket[w][r])
    <3>1. got[r][w] \in Seq(HySeqs) /\ SeqsFrom(queued[r], w) \in Seq(HySeqs)
      BY <1>1, CourseTyped
    <3> QED BY <1>1, <3>1, CourseTyped, StrungTyped
  <2>4. N \in HySeqs
    <3>1. N \in 0..MaxPublished
      BY <1>1, HyRow
    <3> QED BY <1>2, <3>1, HySetting DEF HySeqs
  <2>5. C' = Strung(Strung(got[r][w], SeqsFrom(queued[r], w)), Append(socket[w][r], N))
    BY <1>4, <2>2 DEF Course, Strung
  <2>6. C' = Append(C, N)
    <3> DEFINE ab == Strung(got[r][w], SeqsFrom(queued[r], w))
               c == socket[w][r]
    <3>1. ab \in Seq(HySeqs) /\ c \in Seq(HySeqs) /\ N \in HySeqs
      BY <2>3, <2>4
    <3> HIDE DEF ab, c, N
    <3>2. Strung(ab, Append(c, N)) = Append(Strung(ab, c), N)
      BY <3>1, StrungEnd
    <3> QED BY <2>3, <2>5, <3>2 DEF ab, c
  <2>7. Len(C) = N - 1 /\ N - 1 \in Nat
    BY <1>1, <1>2, <1>6, <1>7
  <2>8. C' = FirstOnes(N) /\ Len(C') = N
    <3>1. N - 1 + 1 = N
      BY <1>1
    <3>2. FirstOnes(N - 1 + 1) = Append(FirstOnes(N - 1), N - 1 + 1)
      BY <2>7, OneMore
    <3>3. C' = FirstOnes(N)
      BY <1>5, <2>6, <2>7, <3>1, <3>2
    <3> QED BY <1>1, <3>3 DEF FirstOnes
  <2>9. ASSUME turn'[w] # 0 PROVE \A i \in DOMAIN outbound'[w] : outbound'[w][i] = r => ~(i >= turn'[w])
    <3>1. turn'[w] = k + 1 /\ outbound' = outbound
      BY <1>1, <1>3, <2>9 DEF NextTarget
    <3> QED BY <1>2, <1>7, <3>1
  <2> HIDE DEF C, N
  <2>10. N = published'[w]
    BY <1>4 DEF N
  <2>11. Course(w, r)' = C'
    BY DEF C
  <2> QED BY <2>8, <2>9, <2>10, <2>11 DEF HasReached
<1>8. CASE s[k] # r
  <2>1. C' = C
    <3>1. socket' = socket \/ socket' = [socket EXCEPT ![w][s[k]] = Append(@, N)]
      BY Zenon DEF WriteFrame, WriteFails, Target
    <3>2. socket'[w][r] = socket[w][r]
      <4> DEFINE x == s[k]
                 y == Append(socket[w][x], N)
                 T == Seq(1..MaxPublished)
      <4>3. x \in HybridNames /\ x # r
        BY <1>1, <1>2, <1>8
      <4>4. socket \in [HybridNames -> [HybridNames -> T]]
        BY DEF HybridTypeOK
      <4>5. socket' = socket \/ socket' = [socket EXCEPT ![w][x] = y]
        BY <3>1, Zenon
      <4>1. x \in HybridNames /\ socket \in [HybridNames -> [HybridNames -> T]] /\ x # r
            /\ (socket' = socket \/ socket' = [socket EXCEPT ![w][x] = y])
        BY <4>3, <4>4, <4>5, Zenon
      <4> HIDE DEF x, y, T
      <4>2. [socket EXCEPT ![w][x] = y][w][r] = IF x = r THEN y ELSE socket[w][r]
        BY <1>1, <4>1, CellSet
      <4> QED BY <4>1, <4>2
    <3> QED BY <1>4, <3>2 DEF Course
  <2>2. CASE k < targets[w]
    <3>1. turn'[w] = k + 1 /\ outbound' = outbound
      BY <1>1, <1>3, <2>2 DEF NextTarget
    <3>2. \A i \in DOMAIN s : s[i] = r => /\ i >= k + 1 => Len(C) = N - 1
                                          /\ i < k + 1 /\ Len(s) = targets[w] => Len(C) = N
      <4> SUFFICES ASSUME NEW i \in DOMAIN s, s[i] = r
                   PROVE  /\ i >= k + 1 => Len(C) = N - 1
                          /\ i < k + 1 /\ Len(s) = targets[w] => Len(C) = N
        OBVIOUS
      <4>1. i # k /\ i \in Nat /\ (i >= k + 1 => i >= k) /\ (i < k + 1 => i < k)
        BY <1>1, <1>2, <1>8
      <4> QED BY <1>6, <4>1
    <3>3. turn'[w] # 0
      BY <1>1, <3>1
    <3> QED BY <1>4, <1>5, <2>1, <3>1, <3>2, <3>3 DEF HasReached
  <2>3. CASE ~(k < targets[w])
    <3>1. turn'[w] = 0
      BY <1>1, <1>3, <2>3 DEF NextTarget
    <3>2. k = targets[w] /\ Len(s) = targets[w]
      BY <1>1, <1>2, <2>3
    <3>3. ASSUME ~GoneNext(w) PROVE Len(C) = N
      <4>1. PICK i \in DOMAIN s : s[i] = r
        BY <3>3 DEF TurnOf
      <4>2. i # k /\ i < k
        BY <1>1, <1>2, <1>8, <3>2, <4>1
      <4> QED BY <1>6, <3>2, <4>1, <4>2
    <3>4. driver'[w] \in Alive => Len(C) = N
      BY <3>3 DEF GoneNext
    <3> QED BY <1>4, <1>5, <2>1, <3>1, <3>4 DEF HasReached, Departed
  <2> QED BY <2>2, <2>3
<1> QED BY <1>7, <1>8

LEMMA HybridCoursesStep ==
    ASSUME HybridInv, [HybridNext]_hybridVars
    PROVE  HybridCourses'
<1>1. HybridTypeOK /\ HybridTurns /\ HybridCourses
  BY DEF HybridInv
<1>2. /\ setting' = setting /\ setting.names \subseteq HybridNames
      /\ \A p \in setting.names : Departed(p) => GoneNext(p)
  <2>1. setting' = setting /\ \A p \in setting.names : Departed(p) => Departed(p)'
    BY <1>1, GoneForGood
  <2> QED BY <1>1, <2>1, HySetting DEF Departed, GoneNext
<1>3. SUFFICES ASSUME NEW r \in setting.names, NEW w \in setting.names, r # w, ~GoneNext(r)
               PROVE  HasReached(w, r)'
  BY <1>2 DEF HybridCourses, Departed, GoneNext
<1>4. /\ HasReached(w, r) /\ TurnOf(w) /\ ~Departed(r) /\ r \in HybridNames /\ w \in HybridNames
      /\ (Departed(w) => GoneNext(w))
  BY <1>1, <1>2, <1>3 DEF HybridCourses, HybridTurns
<1>5. ASSUME Course(w, r)' = Course(w, r), outbound'[w] = outbound[w], turn'[w] = turn[w],
             targets'[w] = targets[w], published'[w] = published[w]
      PROVE  HasReached(w, r)'
  BY <1>4, <1>5, ReachedStays
<1>6. CASE UNCHANGED hybridVars
  <2>1. Course(w, r)' = Course(w, r)
    BY <1>6 DEF hybridVars, Course
  <2> QED BY <1>5, <1>6, <2>1 DEF hybridVars, broadcastVars, driverVars
<1>7. ASSUME NEW n \in setting.names, KillChild(n) \/ LeaveSpawn(n) \/ Panic(n)
      PROVE  HasReached(w, r)'
  <2>1. PICK how : Ends(n, how) /\ how \notin Alive
    BY <1>7 DEF KillChild, LeaveSpawn, Panic, Alive
  <2>2. n \in HybridNames
    BY <1>2
  <2>3. driver'[n] = how /\ turn'[n] = 0
    BY <2>1, <2>2, <1>1 DEF Ends, HybridTypeOK
  <2>4. r # n
    BY <1>3, <2>1, <2>3 DEF GoneNext
  <2>5. got' = got /\ queued'[r] = queued[r] /\ socket'[w][r] = socket[w][r]
    BY <1>1, <1>4, <2>1, <2>4 DEF Ends, HybridTypeOK
  <2>6. Course(w, r)' = Course(w, r)
    BY <2>5 DEF Course
  <2>7. CASE w = n
    BY <1>4, <2>1, <2>3, <2>6, <2>7, ReachedAtEnd DEF GoneNext
  <2>8. CASE w # n
    <3>1. KillChild(n) \/ DriverStep(n)
      BY <1>7 DEF DriverStep
    <3> QED BY <1>1, <1>5, <2>6, <2>8, <3>1, OtherRows
  <2> QED BY <2>7, <2>8
<1>8. ASSUME NEW n \in setting.names,
             \/ InlineDrain(n) \/ PollQueued(n) \/ PollSocket(n)
             \/ \E p \in setting.names \ {n} : ReaderPush(n, p)
      PROVE  HasReached(w, r)'
  <2>1. Course(w, r)' = Course(w, r)
    BY <1>1, <1>8, CourseOfOthers
  <2>2. UNCHANGED <<outbound, turn, targets, published>>
    BY <1>8, Zenon DEF InlineDrain, PollQueued, PollSocket, ReaderPush, Receive, broadcastVars, driverVars
  <2> QED BY <1>5, <2>1, <2>2
<1>9. ASSUME NEW n \in setting.names, PollNothing(n) \/ EndInlineDrain(n) \/ DrainBudgetSpent(n)
                 \/ WouldBlock(n)
      PROVE  HasReached(w, r)'
  <2>1. UNCHANGED <<socket, queued, got, turn, targets, published>>
    BY <1>9 DEF PollNothing, EndInlineDrain, DrainBudgetSpent, WouldBlock, broadcastVars, driverVars
  <2>2. Course(w, r)' = Course(w, r)
    BY <2>1 DEF Course
  <2>3. DropClosed(n) \/ outbound' = outbound
    BY <1>9 DEF PollNothing, EndInlineDrain, DrainBudgetSpent, WouldBlock, broadcastVars
  <2>4. CASE outbound'[w] = outbound[w]
    BY <1>5, <2>1, <2>2, <2>4
  <2>5. CASE DropClosed(n) /\ w = n
    <3> DEFINE P == {i \in DOMAIN outbound[w] : outbound[w][i] \in {p \in HybridNames : ~Departed(p)}}
    <3>1. outbound'[w] = AtPlaces(outbound[w], P) /\ P \in SUBSET DOMAIN outbound[w]
      BY <1>1, <1>4, <2>5 DEF DropClosed, Only, HybridTypeOK
    <3> HIDE DEF P
    <3>2. targets[w] \in Nat /\ turn[w] \in Nat
      BY <1>1, <1>4, HySetting, HyRow
    <3> QED BY <1>4, <2>1, <2>2, <3>1, <3>2, ReachedShorter
  <2>6. CASE DropClosed(n) /\ w # n
    <3>1. outbound'[w] = outbound[w]
      BY <1>1, <1>4, <2>6 DEF DropClosed, HybridTypeOK
    <3> QED BY <2>4, <3>1
  <2> QED BY <2>3, <2>4, <2>5, <2>6
<1>10. ASSUME NEW n \in setting.names, StartBroadcast(n) PROVE HasReached(w, r)'
  <2>1. CASE w = n
    BY <1>1, <1>3, <1>4, <1>10, <2>1, ReachedStarts
  <2>2. CASE w # n
    <3>1. Course(w, r)' = Course(w, r)
      BY <1>10 DEF StartBroadcast, Course
    <3>2. DriverStep(n)
      BY <1>10 DEF DriverStep
    <3> QED BY <1>1, <1>5, <2>2, <3>1, <3>2, OtherRows
  <2> QED BY <2>1, <2>2
<1>11. ASSUME NEW n \in setting.names, WriteFrame(n) \/ WriteFails(n) PROVE HasReached(w, r)'
  <2>1. CASE w = n
    BY <1>1, <1>3, <1>4, <1>11, <2>1, ReachedNext
  <2>2. CASE w # n
    <3>1. n \in HybridNames
      BY <1>2
    <3>2. \E x, y : socket' = socket \/ socket' = [socket EXCEPT ![n][x] = y]
      BY <1>11 DEF WriteFrame, WriteFails
    <3>3. socket'[w] = socket[w]
      BY <1>1, <1>4, <2>2, <3>1, <3>2 DEF HybridTypeOK
    <3>4. queued' = queued /\ got' = got
      BY <1>11 DEF WriteFrame, WriteFails
    <3>5. Course(w, r)' = Course(w, r)
      BY <3>3, <3>4 DEF Course
    <3>6. DriverStep(n)
      BY <1>11 DEF DriverStep
    <3> QED BY <1>1, <1>5, <2>2, <3>5, <3>6, OtherRows
  <2> QED BY <2>1, <2>2
<1> QED BY <1>6, <1>7, <1>8, <1>9, <1>10, <1>11 DEF HybridNext, DriverStep

LEMMA HybridStep == HybridInv /\ [HybridNext]_hybridVars => HybridInv'
BY HybridTypeStep, HybridCountsStep, HybridTurnsStep, HybridCoursesStep DEF HybridInv

LEMMA HybridIsIntact == HybridInv => StreamsAreIntact
<1> SUFFICES ASSUME HybridInv, NEW r \in setting.names, NEW w \in setting.names, r # w, ~Departed(r)
             PROVE  /\ \A i \in 1..Len(Course(w, r)) : Course(w, r)[i] = i
                    /\ ~Departed(w) /\ turn[w] = 0 => Len(Course(w, r)) = published[w]
  BY DEF StreamsAreIntact
<1> DEFINE C == Course(w, r)
<1>1. C = FirstOnes(Len(C)) /\ (~Departed(w) /\ turn[w] = 0 => Len(C) = published[w])
  BY DEF HybridInv, HybridCourses, HasReached
<1> HIDE DEF C
<1>2. \A i \in 1..Len(C) : FirstOnes(Len(C))[i] = i
  BY DEF FirstOnes
<1> QED BY <1>1, <1>2 DEF C

LEMMA HybridInvariant == VariantsSpec => []HybridInv
<1>1. VariantsInit => HybridInv
  <2>1. VariantsInit => HybridInit
    BY DEF VariantsInit, HybridRests
  <2> QED BY <2>1, HybridInitHolds
<1>2. [VariantsNext]_variantsVars => [HybridNext]_hybridVars
  BY DEF VariantsNext, variantsVars, UdpPart, WsPart, HybridPart, CastPart, QuicPart, RtcPart,
     ZenohPart, ZenohdPart, RecordingPart
<1> QED BY <1>1, <1>2, HybridStep, PTL DEF VariantsSpec

(* hybrid at QoS 3 and 4: what a node has got, reads or has in its socket of a
   writer is everything that the writer has written to it, in order, for any
   number of nodes, whichever sockets are full. *)
THEOREM HybridStreamsAreIntact == VariantsSpec => []StreamsAreIntact
BY HybridInvariant, HybridIsIntact, PTL


-----------------------------------------------------------------------------
(* ZenohRest: what is damaged on the stream stays one event.               *)

\* The lines that are yet to be read, and the events that end in them.
Unread == incoming \o owed
Blanks == {"blank"} \X Events
EventNumber == [x \in Pieces |-> x[2]]
EndingIn(L) == Mapped(Only(L, Blanks), EventNumber)

LEMMA PieceParts ==
    /\ \A x \in Pieces : /\ x[1] \in {"event", "data1", "data2", "blank"} /\ x[2] \in Events
                         /\ x = <<x[1], x[2]>> /\ (x \in Blanks <=> x[1] = "blank")
    /\ \A k \in Events : \A p \in {"event", "data1", "data2", "blank"} :
          <<p, k>> \in Pieces /\ <<p, k>>[1] = p /\ <<p, k>>[2] = k
    /\ MapsTo(EventNumber, Pieces, Events)
BY DEF Pieces, Blanks, EventNumber, MapsTo

LEMMA EndingJoin ==
    ASSUME NEW s \in Seq(Pieces), NEW t \in Seq(Pieces)
    PROVE  /\ EndingIn(s) \in Seq(Events) /\ EndingIn(t) \in Seq(Events)
           /\ EndingIn(s \o t) = EndingIn(s) \o EndingIn(t)
<1>1. Only(s, Blanks) \in Seq(Pieces) /\ Only(t, Blanks) \in Seq(Pieces)
  BY OnlyMembers
<1>2. Only(s \o t, Blanks) = Only(s, Blanks) \o Only(t, Blanks)
  BY OnlyJoin
<1> DEFINE a == Only(s, Blanks)
           b == Only(t, Blanks)
<1>3. MapsTo(EventNumber, Pieces, Events)
  BY PieceParts
<1>4. a \in Seq(Pieces) /\ b \in Seq(Pieces)
  BY <1>1
<1> HIDE DEF a, b
<1>5. /\ Mapped(a, EventNumber) \in Seq(Events) /\ Mapped(b, EventNumber) \in Seq(Events)
      /\ Mapped(a \o b, EventNumber) = Mapped(a, EventNumber) \o Mapped(b, EventNumber)
  BY <1>3, <1>4, MappedJoin
<1> QED BY <1>2, <1>5 DEF EndingIn, a, b

LEMMA EndingOne ==
    ASSUME NEW x \in Pieces
    PROVE  /\ <<x>> \in Seq(Pieces)
           /\ EndingIn(<<x>>) = IF x[1] = "blank" THEN <<x[2]>> ELSE <<>>
           /\ EndingIn(<<>>) = <<>>
<1> DEFINE s == <<x>>
<1>1. s \in Seq(Pieces) /\ Len(s) = 1 /\ s[1] = x /\ \A i \in 1..Len(s) : s[i] = x
  OBVIOUS
<1>2. x \in Blanks <=> x[1] = "blank"
  BY PieceParts
<1>3. EventNumber[x] = x[2]
  BY DEF EventNumber
<1> HIDE DEF s
<1>4. ASSUME x[1] = "blank" PROVE EndingIn(s) = <<x[2]>>
  <2>1. Only(s, Blanks) = s
    BY <1>1, <1>2, <1>4, OnlyAll
  <2>2. EndingIn(s) = [k \in DOMAIN s |-> EventNumber[s[k]]]
    BY <2>1 DEF EndingIn, Mapped
  <2>3. DOMAIN s = 1..1 /\ [k \in DOMAIN s |-> EventNumber[s[k]]] = [k \in 1..1 |-> x[2]]
    BY <1>1, <1>3
  <2>4. [k \in 1..1 |-> x[2]] = <<x[2]>>
    OBVIOUS
  <2> QED BY <2>2, <2>3, <2>4
<1>5. ASSUME x[1] # "blank" PROVE EndingIn(s) = <<>>
  <2>1. Only(s, Blanks) = <<>>
    <3>1. \A i \in 1..Len(s) : s[i] \notin Blanks
      BY <1>1, <1>2, <1>5
    <3> QED BY <1>1, <3>1, OnlyNone
  <2>2. Mapped(<<>>, EventNumber) = <<>>
    BY DEF Mapped
  <2> QED BY <2>1, <2>2 DEF EndingIn
<1>6. EndingIn(<<>>) = <<>>
  <2>1. Only(<<>>, Blanks) = <<>>
    <3>1. <<>> \in Seq(Pieces) /\ \A i \in 1..Len(<<>>) : <<>>[i] \notin Blanks
      OBVIOUS
    <3> QED BY <3>1, OnlyNone
  <2>2. Mapped(<<>>, EventNumber) = <<>>
    BY DEF Mapped
  <2> QED BY <2>1, <2>2 DEF EndingIn
<1> QED BY <1>1, <1>4, <1>5, <1>6 DEF s

LEMMA EventLinesAre ==
    ASSUME NEW k \in Events
    PROVE  /\ EventLines(k) \in Seq(Pieces) /\ Len(EventLines(k)) = 4
           /\ EventLines(k)[1] = <<"event", k>> /\ EventLines(k)[2] = <<"data1", k>>
           /\ EventLines(k)[3] = <<"data2", k>> /\ EventLines(k)[4] = <<"blank", k>>
<1>1. <<"event", k>> \in Pieces /\ <<"data1", k>> \in Pieces /\ <<"data2", k>> \in Pieces
      /\ <<"blank", k>> \in Pieces
  BY PieceParts
<1> QED BY <1>1 DEF EventLines

LEMMA EndingOfEvent ==
    ASSUME NEW k \in Events
    PROVE  EventLines(k) \in Seq(Pieces) /\ EndingIn(EventLines(k)) = <<k>>
<1> DEFINE s == EventLines(k)
           d == <<"blank", k>>
           t == <<d>>
           e == [n \in 1..1 |-> 4]
<1>1. s \in Seq(Pieces) /\ d \in Pieces /\ d[1] = "blank" /\ d[2] = k
  BY PieceParts, EventLinesAre
<1>2. PlacesIn(s, Blanks) = {4} /\ s[4] = d
  <2>1. DOMAIN s = 1..4
    BY EventLinesAre
  <2>2. \A i \in 1..4 : s[i] \in Blanks <=> i = 4
    <3>1. ASSUME NEW p \in {"event", "data1", "data2", "blank"}
          PROVE  <<p, k>> \in Blanks <=> p = "blank"
      <4>1. <<p, k>> \in Pieces /\ <<p, k>>[1] = p
        BY PieceParts
      <4> QED BY <4>1, PieceParts
    <3>2. /\ s[1] = <<"event", k>> /\ s[2] = <<"data1", k>>
          /\ s[3] = <<"data2", k>> /\ s[4] = <<"blank", k>>
      BY EventLinesAre
    <3> HIDE DEF s
    <3>3. s[1] \notin Blanks /\ s[2] \notin Blanks /\ s[3] \notin Blanks /\ s[4] \in Blanks
      BY <3>1, <3>2
    <3> QED BY <3>3
  <2>3. s[4] = d
    BY EventLinesAre
  <2> HIDE DEF s
  <2> QED BY <2>1, <2>2, <2>3 DEF PlacesIn
<1> HIDE DEF s
<1>3. t \in Seq(Pieces) /\ Len(t) = 1 /\ t[1] = d
  <2> HIDE DEF d
  <2> QED BY <1>1
<1> HIDE DEF t
<1>4. Selects(e, t, s, Blanks)
  BY <1>2, <1>3 DEF Selects, Lists
<1> HIDE DEF e
<1>5. Only(s, Blanks) = t
  BY <1>1, <1>3, <1>4, SelectsOnly
<1>6. EndingIn(t) = <<d[2]>>
  <2> HIDE DEF d
  <2> QED BY <1>1, EndingOne DEF t
<1>7. EndingIn(s) = EndingIn(t)
  <2>1. Only(t, Blanks) = t
    <3>1. \A i \in 1..Len(t) : t[i] \in Blanks
      BY <1>1, <1>3, PieceParts
    <3> QED BY <1>3, <3>1, OnlyAll
  <2> QED BY <1>5, <2>1 DEF EndingIn
<1> QED BY <1>1, <1>6, <1>7 DEF s

\* Nobody but those who are in the lines ends in them.
LEMMA EndingMembers ==
    ASSUME NEW s \in Seq(Pieces)
    PROVE  /\ EndingIn(s) \in Seq(Events)
           /\ \A k \in DOMAIN EndingIn(s) : \E i \in DOMAIN s : EndingIn(s)[k] = s[i][2]
<1> DEFINE t == Only(s, Blanks)
<1>1. t \in Seq(Pieces) /\ \E e : Selects(e, t, s, Blanks)
  BY OnlySelects
<1>2. PICK e : Selects(e, t, s, Blanks)
  BY <1>1
<1> HIDE DEF t
<1>3. \A k \in DOMAIN t : \E i \in DOMAIN s : t[k] = s[i]
  <2>1. /\ e \in [1..Len(t) -> PlacesIn(s, Blanks)]
        /\ \A k \in 1..Len(t) : t[k] = s[e[k]]
    BY <1>2 DEF Selects, Lists
  <2>2. DOMAIN t = 1..Len(t)
    BY <1>1
  <2>3. \A i \in PlacesIn(s, Blanks) : i \in DOMAIN s
    BY DEF PlacesIn
  <2> QED BY <2>1, <2>2, <2>3
<1>4. EndingIn(s) \in Seq(Events)
  <2>1. <<>> \in Seq(Pieces)
    OBVIOUS
  <2> QED BY <2>1, EndingJoin
<1>5. EndingIn(s) = [k \in DOMAIN t |-> t[k][2]]
  BY <1>1 DEF EndingIn, Mapped, EventNumber, t
<1> QED BY <1>3, <1>4, <1>5

LEMMA RemainingIs ==
    ASSUME incoming \in Seq(Pieces), owed \in Seq(Pieces)
    PROVE  Unread \in Seq(Pieces) /\ Remaining = EndingIn(Unread)
<1>1. Unread \in Seq(Pieces)
  BY DEF Unread
<1>2. Only(Unread, Blanks) \in Seq(Pieces)
  BY <1>1, OnlyMembers
<1> DEFINE t == Only(Unread, Blanks)
<1>3. Remaining = [i \in DOMAIN t |-> t[i][2]]
  BY DEF Remaining, Unread, Blanks
<1>4. t \in Seq(Pieces)
  BY <1>2
<1> HIDE DEF t
<1>5. [i \in DOMAIN t |-> t[i][2]] = [i \in DOMAIN t |-> EventNumber[t[i]]]
  BY <1>4 DEF EventNumber
<1> QED BY <1>1, <1>3, <1>5 DEF EndingIn, Mapped, t

\* The pieces of a stream are those of whole events, one after the other.
FollowsPiece(p) ==
    CASE p = "event" -> "data1" [] p = "data1" -> "data2" [] p = "data2" -> "blank"
      [] OTHER -> "event"

RisingEvents(L) ==
    \A i, j \in DOMAIN L : i < j => /\ L[i][2] <= L[j][2]
                                    /\ L[i][1] = "blank" => L[i][2] < L[j][2]

WholeEvents(L) ==
    \A i \in DOMAIN L :
        /\ i + 1 \in DOMAIN L => L[i + 1][1] = FollowsPiece(L[i][1])
        /\ L[i][1] # "blank" => i + 1 \in DOMAIN L /\ L[i + 1][2] = L[i][2]

LEMMA LaterPieces ==
    ASSUME NEW L \in Seq(Pieces), L # <<>>, RisingEvents(L), WholeEvents(L)
    PROVE  /\ Tail(L) \in Seq(Pieces) /\ RisingEvents(Tail(L)) /\ WholeEvents(Tail(L))
           /\ \A i \in DOMAIN Tail(L) :
                 /\ Tail(L)[i] = L[i + 1] /\ i + 1 \in DOMAIN L
                 /\ L[1][2] <= Tail(L)[i][2] /\ (L[1][1] = "blank" => L[1][2] < Tail(L)[i][2])
           /\ 1 \in DOMAIN L /\ L[1] \in Pieces
           /\ L[1][1] # "blank" => /\ Tail(L) # <<>> /\ Tail(L)[1][2] = L[1][2]
           /\ Tail(L) # <<>> => 1 \in DOMAIN Tail(L) /\ Tail(L)[1][1] = FollowsPiece(L[1][1])
<1> DEFINE M == Tail(L)
           n == Len(L)
<1>1. /\ n \in Nat /\ n > 0 /\ DOMAIN L = 1..n /\ M \in Seq(Pieces) /\ DOMAIN M = 1..n - 1
      /\ Len(M) = n - 1 /\ \A i \in 1..n - 1 : M[i] = L[i + 1]
  OBVIOUS
<1> HIDE DEF M, n
<1>2. 1 \in DOMAIN L /\ L[1] \in Pieces
  BY <1>1
<1>3. \A i \in DOMAIN M : M[i] = L[i + 1] /\ i + 1 \in DOMAIN L /\ i \in DOMAIN L /\ i \in Nat
  BY <1>1
<1>4. RisingEvents(M)
  <2> SUFFICES ASSUME NEW i \in DOMAIN M, NEW j \in DOMAIN M, i < j
               PROVE  M[i][2] <= M[j][2] /\ (M[i][1] = "blank" => M[i][2] < M[j][2])
    BY DEF RisingEvents
  <2>1. i + 1 < j + 1
    BY <1>3
  <2> QED BY <1>3, <2>1 DEF RisingEvents
<1>5. WholeEvents(M)
  <2> SUFFICES ASSUME NEW i \in DOMAIN M
               PROVE  /\ i + 1 \in DOMAIN M => M[i + 1][1] = FollowsPiece(M[i][1])
                      /\ M[i][1] # "blank" => i + 1 \in DOMAIN M /\ M[i + 1][2] = M[i][2]
    BY DEF WholeEvents
  <2>1. /\ (i + 1) + 1 \in DOMAIN L => L[(i + 1) + 1][1] = FollowsPiece(L[i + 1][1])
        /\ L[i + 1][1] # "blank" => (i + 1) + 1 \in DOMAIN L /\ L[(i + 1) + 1][2] = L[i + 1][2]
    BY <1>3 DEF WholeEvents
  <2>2. (i + 1) + 1 \in DOMAIN L <=> i + 1 \in DOMAIN M
    BY <1>1
  <2> QED BY <1>3, <2>1, <2>2
<1>6. ASSUME NEW i \in DOMAIN M
      PROVE  L[1][2] <= M[i][2] /\ (L[1][1] = "blank" => L[1][2] < M[i][2])
  <2>1. 1 < i + 1
    BY <1>1
  <2> QED BY <1>2, <1>3, <2>1 DEF RisingEvents
<1>7. L[1][1] # "blank" => M # <<>> /\ M[1][2] = L[1][2]
  <2> SUFFICES ASSUME L[1][1] # "blank" PROVE M # <<>> /\ M[1][2] = L[1][2]
    OBVIOUS
  <2>1. 1 + 1 \in DOMAIN L /\ L[1 + 1][2] = L[1][2]
    BY <1>2 DEF WholeEvents
  <2>2. 1 \in DOMAIN M /\ M[1] = L[1 + 1] /\ Len(M) # 0
    BY <1>1, <2>1
  <2> QED BY <2>1, <2>2
<1>8. M # <<>> => 1 \in DOMAIN M /\ M[1][1] = FollowsPiece(L[1][1])
  <2> SUFFICES ASSUME M # <<>> PROVE 1 \in DOMAIN M /\ M[1][1] = FollowsPiece(L[1][1])
    OBVIOUS
  <2>1. Len(M) # 0
    BY <1>1
  <2>2. 1 \in DOMAIN M /\ 1 + 1 \in DOMAIN L /\ M[1] = L[1 + 1]
    BY <1>1, <2>1
  <2>3. L[1 + 1][1] = FollowsPiece(L[1][1])
    BY <1>2, <2>2 DEF WholeEvents
  <2> QED BY <2>2, <2>3
<1>9. \A i \in DOMAIN M : /\ M[i] = L[i + 1] /\ i + 1 \in DOMAIN L
                          /\ L[1][2] <= M[i][2] /\ (L[1][1] = "blank" => L[1][2] < M[i][2])
  BY <1>3, <1>6
<1> QED BY <1>1, <1>2, <1>4, <1>5, <1>7, <1>8, <1>9 DEF M

LEMMA OneMoreEvent ==
    ASSUME NEW L \in Seq(Pieces), RisingEvents(L), WholeEvents(L),
           NEW k \in Events, \A i \in DOMAIN L : L[i][2] < k
    PROVE  /\ L \o EventLines(k) \in Seq(Pieces)
           /\ RisingEvents(L \o EventLines(k)) /\ WholeEvents(L \o EventLines(k))
           /\ \A i \in DOMAIN (L \o EventLines(k)) :
                 \/ i \in DOMAIN L /\ (L \o EventLines(k))[i] = L[i]
                 \/ (L \o EventLines(k))[i][2] = k
           /\ L = <<>> => (L \o EventLines(k))[1] = <<"event", k>>
           /\ L \o EventLines(k) # <<>>
<1> DEFINE e == EventLines(k)
           n == Len(L)
           M == L \o e
<1>1. /\ e \in Seq(Pieces) /\ Len(e) = 4
      /\ e[1] = <<"event", k>> /\ e[2] = <<"data1", k>>
      /\ e[3] = <<"data2", k>> /\ e[4] = <<"blank", k>>
  BY EventLinesAre
<1> HIDE DEF e
<1>2. \A j \in 1..4 : /\ e[j] \in Pieces /\ e[j][2] = k
                      /\ e[j][1] = "blank" <=> j = 4
  <2>1. <<"event", k>>[2] = k /\ <<"data1", k>>[2] = k /\ <<"data2", k>>[2] = k /\ <<"blank", k>>[2] = k
        /\ <<"event", k>>[1] # "blank" /\ <<"data1", k>>[1] # "blank" /\ <<"data2", k>>[1] # "blank"
        /\ <<"blank", k>>[1] = "blank"
    OBVIOUS
  <2>2. e[1][2] = k /\ e[2][2] = k /\ e[3][2] = k /\ e[4][2] = k /\ e[1][1] # "blank"
        /\ e[2][1] # "blank" /\ e[3][1] # "blank" /\ e[4][1] = "blank"
    BY <1>1, <2>1
  <2>3. \A j \in 1..4 : j = 1 \/ j = 2 \/ j = 3 \/ j = 4
    OBVIOUS
  <2>4. \A j \in 1..4 : e[j] \in Pieces
    BY <1>1, ElementOfSeq
  <2> QED BY <2>2, <2>3, <2>4
<1>f. /\ e[1][1] = "event" /\ e[2][1] = FollowsPiece(e[1][1])
      /\ e[3][1] = FollowsPiece(e[2][1]) /\ e[4][1] = FollowsPiece(e[3][1])
  BY <1>1 DEF FollowsPiece
<1>3. /\ n \in Nat /\ DOMAIN L = 1..n /\ M \in Seq(Pieces) /\ DOMAIN M = 1..n + 4 /\ Len(M) = n + 4
      /\ \A i \in 1..n : M[i] = L[i]
      /\ \A j \in 1..4 : M[n + j] = e[j]
  <2>1. /\ M \in Seq(Pieces) /\ Len(M) = Len(L) + Len(e)
        /\ \A i \in 1..Len(L) + Len(e) : M[i] = IF i <= Len(L) THEN L[i] ELSE e[i - Len(L)]
    BY <1>1, ConcatProperties
  <2> HIDE DEF M
  <2>2. n \in Nat /\ DOMAIN L = 1..n /\ DOMAIN M = 1..Len(M)
    BY <2>1
  <2> HIDE DEF n
  <2>3. /\ Len(M) = n + 4 /\ \A i \in 1..n + 4 : M[i] = IF i <= n THEN L[i] ELSE e[i - n]
    BY <1>1, <2>1 DEF n
  <2>4. \A j \in 1..4 : n + j \in 1..n + 4 /\ ~(n + j <= n) /\ (n + j) - n = j
    BY <2>2
  <2>5. \A i \in 1..n : i \in 1..n + 4 /\ i <= n
    BY <2>2
  <2> QED BY <2>1, <2>2, <2>3, <2>4, <2>5
<1>L. n # 0 => L[n][1] = "blank"
  <2>1. n # 0 => n \in DOMAIN L /\ n + 1 \notin DOMAIN L
    BY <1>3
  <2> QED BY <2>1 DEF WholeEvents
<1>n. L = <<>> => n = 0
  BY DEF n
<1> HIDE DEF M, n
<1>4. \A i \in DOMAIN M : \/ i \in 1..n /\ i \in DOMAIN L /\ M[i] = L[i]
                          \/ \E j \in 1..4 : i = n + j /\ M[i] = e[j]
  <2> SUFFICES ASSUME NEW i \in 1..n + 4, ~(i \in 1..n) PROVE \E j \in 1..4 : i = n + j
    BY <1>3
  <2>1. i - n \in 1..4 /\ i = n + (i - n)
    BY <1>3
  <2> QED BY <2>1
<1>5. RisingEvents(M)
  <2> SUFFICES ASSUME NEW i \in DOMAIN M, NEW j \in DOMAIN M, i < j
               PROVE  M[i][2] <= M[j][2] /\ (M[i][1] = "blank" => M[i][2] < M[j][2])
    BY DEF RisingEvents
  <2>k. k \in Nat
    BY MaxSamplesAssumption DEF Events
  <2>1. CASE j \in 1..n /\ j \in DOMAIN L /\ M[j] = L[j]
    <3>1. i \in DOMAIN L /\ M[i] = L[i]
      BY <1>3, <2>1
    <3> QED BY <2>1, <3>1 DEF RisingEvents
  <2>2. CASE \E a \in 1..4 : j = n + a /\ M[j] = e[a]
    <3>1. PICK a \in 1..4 : j = n + a /\ M[j] = e[a]
      BY <2>2
    <3>2. M[j][2] = k
      BY <1>2, <3>1
    <3>3. CASE i \in DOMAIN L /\ M[i] = L[i]
      <4>1. L[i][2] < k /\ L[i][2] \in Nat
        <5>1. L[i] \in Pieces
          BY <3>3
        <5> QED BY <3>3, <5>1, PieceParts, MaxSamplesAssumption DEF Events
      <4> QED BY <2>k, <3>2, <3>3, <4>1
    <3>4. CASE \E b \in 1..4 : i = n + b /\ M[i] = e[b]
      <4>1. PICK b \in 1..4 : i = n + b /\ M[i] = e[b]
        BY <3>4
      <4>2. b < a
        BY <1>3, <3>1, <4>1
      <4>3. b # 4
        BY <4>2
      <4> QED BY <1>2, <2>k, <3>2, <4>1, <4>3
    <3> QED BY <1>4, <3>3, <3>4
  <2> QED BY <1>4, <2>1, <2>2
<1>6. WholeEvents(M)
  <2> SUFFICES ASSUME NEW i \in DOMAIN M
               PROVE  /\ i + 1 \in DOMAIN M => M[i + 1][1] = FollowsPiece(M[i][1])
                      /\ M[i][1] # "blank" => i + 1 \in DOMAIN M /\ M[i + 1][2] = M[i][2]
    BY DEF WholeEvents
  <2>1. CASE i \in 1..n /\ i \in DOMAIN L /\ M[i] = L[i]
    <3>1. CASE i = n
      <4>1. M[i][1] = "blank"
        BY <1>L, <2>1, <3>1, <1>3
      <4>2. M[i + 1] = e[1]
        BY <1>3, <3>1
      <4> QED BY <1>f, <4>1, <4>2 DEF FollowsPiece
    <3>2. CASE i # n
      <4>1. i + 1 \in 1..n /\ i + 1 \in DOMAIN L /\ M[i + 1] = L[i + 1] /\ i + 1 \in DOMAIN M
        BY <1>3, <2>1, <3>2
      <4> QED BY <2>1, <4>1 DEF WholeEvents
    <3> QED BY <3>1, <3>2
  <2>2. CASE \E b \in 1..4 : i = n + b /\ M[i] = e[b]
    <3>1. PICK b \in 1..4 : i = n + b /\ M[i] = e[b]
      BY <2>2
    <3>2. CASE b = 4
      <4>1. M[i][1] = "blank" /\ i + 1 \notin DOMAIN M
        BY <1>2, <1>3, <3>1, <3>2
      <4> QED BY <4>1
    <3>3. CASE b # 4
      <4>1. /\ b + 1 \in 1..4 /\ i + 1 = n + (b + 1) /\ i + 1 \in DOMAIN M
        BY <1>3, <3>1, <3>3
      <4>2. M[i + 1] = e[b + 1] /\ M[i] = e[b]
        BY <1>3, <3>1, <4>1
      <4>3. e[b + 1][2] = k /\ e[b][2] = k
        BY <1>2, <4>1
      <4>4. e[b + 1][1] = FollowsPiece(e[b][1])
        <5>1. b = 1 \/ b = 2 \/ b = 3
          BY <3>3
        <5>2. b = 1 => b + 1 = 2
          OBVIOUS
        <5>3. b = 2 => b + 1 = 3
          OBVIOUS
        <5>4. b = 3 => b + 1 = 4
          OBVIOUS
        <5> QED BY <1>f, <5>1, <5>2, <5>3, <5>4
      <4> QED BY <4>1, <4>2, <4>3, <4>4
    <3> QED BY <3>2, <3>3
  <2> QED BY <1>4, <2>1, <2>2
<1>7. \A i \in DOMAIN M : (i \in DOMAIN L /\ M[i] = L[i]) \/ M[i][2] = k
  BY <1>2, <1>4
<1>8. L = <<>> => M[1] = <<"event", k>>
  <2> SUFFICES ASSUME L = <<>> PROVE M[1] = <<"event", k>>
    OBVIOUS
  <2>1. M[n + 1] = e[1] /\ n + 1 = 1
    BY <1>3, <1>n
  <2> QED BY <1>1, <2>1
<1>9. M # <<>>
  BY <1>3
<1> QED BY <1>3, <1>5, <1>6, <1>7, <1>8, <1>9 DEF M, e

-----------------------------------------------------------------------------
(* ZenohRest: how many samples zenohd may have taken.                      *)

\* Given-up samples that may still be taken.
Pending == IF givenUp = 0 THEN 0 ELSE 1
\* What the attempt may still bring.
Coming == IF served THEN 0 ELSE 1

\* Two for each sample that has had its turn.
TakenBound ==
    /\ Len(taken) + Pending <= 2 * rest.samples
    /\ requested = 0 /\ restStage[PutHost] # "failed" =>
           Len(taken) + Pending <= 2 * Cardinality(confirmed)
    /\ requested # 0 =>
           /\ Cardinality(confirmed) < rest.samples
           /\ Len(taken) + Pending + Coming <= 2 * Cardinality(confirmed) + attempt

RunBound == rest \in RestSpawns /\ rest.samples \in 1..MaxSamples

TakenInv == PutInv /\ RunBound /\ TakenBound /\ Cardinality(confirmed) <= rest.samples

LEMMA ConfirmedCount ==
    ASSUME PutTypes
    PROVE  /\ Cardinality(confirmed) \in Nat
           /\ Cardinality(confirmed \union {Cardinality(confirmed) + 1}) = Cardinality(confirmed) + 1
<1>1. PICK c \in Nat : confirmed = 1..c
  BY DEF PutTypes
<1>2. Cardinality(1..c) = c /\ (1..c) \union {c + 1} = 1..(c + 1)
  BY FirstSamples
<1>3. c + 1 \in Nat
  OBVIOUS
<1>4. Cardinality(1..(c + 1)) = c + 1
  BY <1>3, FirstSamples
<1> QED BY <1>1, <1>2, <1>4

LEMMA TakenInit == ZenohRestInit => TakenInv
<1> SUFFICES ASSUME ZenohRestInit PROVE TakenInv
  OBVIOUS
<1>1. PutInv
  BY PutInitHolds
<1>2. RunBound
  BY RestSpawnsAssumption DEF ZenohRestInit, RunBound
<1>3. taken = <<>> /\ givenUp = 0 /\ confirmed = {} /\ requested = 0
  BY DEF ZenohRestInit
<1>4. Len(taken) = 0 /\ Cardinality(confirmed) = 0 /\ Pending = 0
  BY <1>3, FS_EmptySet DEF Pending
<1>5. rest.samples \in Nat
  BY <1>2, MaxSamplesAssumption DEF RunBound
<1> QED BY <1>1, <1>2, <1>3, <1>4, <1>5 DEF TakenInv, TakenBound

\* A step that takes no sample, answers no PUT and begins none.
LEMMA TakesNone ==
    ASSUME TakenInv, rest' = rest, taken' = taken, givenUp' = givenUp, confirmed' = confirmed,
           served' = served, attempt' = attempt,
           \/ requested' = requested /\ (restStage[PutHost] = "failed" => restStage'[PutHost] = "failed")
           \/ requested' = 0 /\ restStage'[PutHost] = "failed"
    PROVE  TakenBound' /\ RunBound' /\ (Cardinality(confirmed) <= rest.samples)'
BY DEF TakenInv, TakenBound, RunBound, Pending, Coming

LEMMA TakenStep == TakenInv /\ [ZenohRestNext]_restVars => TakenInv'
<1> SUFFICES ASSUME TakenInv, [ZenohRestNext]_restVars PROVE TakenInv'
  OBVIOUS
<1>1. PutInv' /\ PutInv /\ PutTypes
  BY PutStep DEF TakenInv, PutInv
<1> DEFINE c == Cardinality(confirmed)
           n == Len(taken)
<1>2. /\ c \in Nat /\ n \in Nat /\ rest.samples \in Nat
      /\ Cardinality(confirmed \union {c + 1}) = c + 1
      /\ requested \in Nat /\ givenUp \in Nat /\ attempt \in 0..2 /\ served \in BOOLEAN
      /\ requested # 0 => requested = c + 1 /\ restStage[PutHost] = "operate"
  <2>1. /\ taken \in Seq(Nat) /\ requested \in Nat /\ givenUp \in Nat /\ attempt \in 0..2
        /\ served \in BOOLEAN
        /\ requested # 0 => requested = c + 1 /\ restStage[PutHost] = "operate"
    BY <1>1 DEF PutTypes
  <2>2. rest.samples \in Nat
    BY MaxSamplesAssumption DEF TakenInv, RunBound
  <2>3. c \in Nat /\ Cardinality(confirmed \union {c + 1}) = c + 1
    BY <1>1, ConfirmedCount
  <2>4. n \in Nat
    BY <2>1
  <2> QED BY <2>1, <2>2, <2>3, <2>4
<1>3. /\ n + Pending <= 2 * rest.samples /\ c <= rest.samples
      /\ requested = 0 /\ restStage[PutHost] # "failed" => n + Pending <= 2 * c
      /\ requested # 0 => c < rest.samples /\ n + Pending + Coming <= 2 * c + attempt
      /\ RunBound
  BY DEF TakenInv, TakenBound
<1>S. PutHost \in Hosts /\ restStage \in [Hosts -> HostStages]
  BY <1>1 DEF PutTypes, PutHost, Hosts
<1> HIDE DEF c, n
<1>Q. ASSUME rest' = rest, taken' = taken, givenUp' = givenUp, confirmed' = confirmed,
             served' = served, attempt' = attempt,
             \/ requested' = requested
                /\ (restStage[PutHost] = "failed" => restStage'[PutHost] = "failed")
             \/ requested' = 0 /\ restStage'[PutHost] = "failed"
      PROVE  TakenInv'
  BY <1>Q, <1>1, TakesNone DEF TakenInv
<1>4. CASE StartPut
  <2>1. /\ requested = 0 /\ restStage[PutHost] = "operate" /\ c < rest.samples
        /\ requested' = c + 1 /\ attempt' = 1 /\ served' = FALSE
        /\ rest' = rest /\ taken' = taken /\ givenUp' = givenUp /\ confirmed' = confirmed
    BY <1>4 DEF StartPut, sseVars, c
  <2>2. requested' # 0 /\ Coming' = 1 /\ Pending' = Pending /\ Len(taken)' = n
        /\ Cardinality(confirmed)' = c
    BY <1>2, <2>1 DEF Coming, Pending, n, c
  <2>3. n + Pending <= 2 * c
    BY <1>3, <2>1
  <2>4. Pending \in {0, 1}
    BY DEF Pending
  <2>5. /\ n + Pending + 1 <= 2 * c + 1
    BY <1>2, <2>3, <2>4
  <2>6. TakenBound'
    BY <1>3, <2>1, <2>2, <2>5 DEF TakenBound
  <2> QED BY <1>1, <1>3, <2>1, <2>2, <2>6 DEF TakenInv, RunBound
<1>5. CASE Serve \/ ServeLate
  <2>1. /\ rest' = rest /\ confirmed' = confirmed /\ attempt' = attempt /\ requested' = requested
        /\ restStage' = restStage
        /\ \E m : taken' = Append(taken, m)
        /\ \/ served = FALSE /\ served' = TRUE /\ givenUp' = givenUp /\ requested # 0
           \/ served' = served /\ givenUp # 0 /\ givenUp' = 0
    BY <1>2, <1>5 DEF Serve, ServeLate, TakenIn
  <2>2. Len(taken)' = n + 1
    BY <1>1, <2>1 DEF PutTypes, n
  <2>3. Cardinality(confirmed)' = c
    BY <2>1 DEF c
  <2>4. CASE served = FALSE /\ served' = TRUE /\ givenUp' = givenUp /\ requested # 0
    <3>1. Coming = 1 /\ Coming' = 0 /\ Pending' = Pending /\ Pending \in {0, 1}
      BY <2>4 DEF Coming, Pending
    <3>2. n + Pending + 1 <= 2 * c + attempt /\ c < rest.samples
      BY <1>3, <2>4, <3>1
    <3>3. n + 1 + Pending <= 2 * rest.samples /\ n + 1 + Pending + 0 <= 2 * c + attempt
      BY <1>2, <3>1, <3>2
    <3>4. TakenBound'
      BY <2>1, <2>2, <2>3, <2>4, <3>1, <3>2, <3>3 DEF TakenBound
    <3> QED BY <1>1, <1>3, <2>1, <2>3, <3>4 DEF TakenInv, RunBound
  <2>5. CASE served' = served /\ givenUp # 0 /\ givenUp' = 0
    <3>1. Coming' = Coming /\ Pending' = 0 /\ Pending = 1 /\ Coming \in {0, 1}
      BY <2>5 DEF Coming, Pending
    <3>2. n + 1 + 0 = n + Pending /\ n + 1 + 0 + Coming = n + Pending + Coming
      BY <1>2, <3>1
    <3>4. TakenBound'
      BY <1>3, <2>1, <2>2, <2>3, <3>1, <3>2 DEF TakenBound
    <3> QED BY <1>1, <1>3, <2>1, <2>3, <3>4 DEF TakenInv, RunBound
  <2> QED BY <2>1, <2>4, <2>5
<1>6. CASE PutAnswered
  <2>1. /\ rest' = rest /\ taken' = taken /\ givenUp' = givenUp /\ restStage' = restStage
        /\ requested # 0 /\ served /\ requested' = 0 /\ confirmed' = confirmed \union {requested}
    BY <1>6 DEF PutAnswered
  <2>2. Cardinality(confirmed)' = c + 1 /\ Len(taken)' = n /\ Pending' = Pending
    BY <1>2, <2>1 DEF n, Pending
  <2>3. n + Pending + 0 <= 2 * c + attempt /\ c < rest.samples
    BY <1>3, <2>1 DEF Coming
  <2>4. Pending \in {0, 1}
    BY DEF Pending
  <2>5. n + Pending <= 2 * (c + 1) /\ c + 1 <= rest.samples
    BY <1>2, <2>3, <2>4
  <2>6. TakenBound'
    BY <1>3, <2>1, <2>2, <2>5 DEF TakenBound
  <2> QED BY <1>1, <1>3, <2>1, <2>2, <2>5, <2>6 DEF TakenInv, RunBound
<1>7. CASE AttemptFails
  <2>1. /\ rest' = rest /\ taken' = taken /\ restStage' = restStage
        /\ requested # 0 /\ requested' = requested /\ confirmed' = confirmed
        /\ attempt = 1 /\ attempt' = 2 /\ served' = FALSE
        /\ givenUp' \in IF served THEN {givenUp} ELSE {givenUp, requested}
    BY <1>7 DEF AttemptFails
  <2>2. Cardinality(confirmed)' = c /\ Len(taken)' = n /\ Coming' = 1
    BY <2>1 DEF n, c, Coming
  <2>3. n + Pending + Coming <= 2 * c + 1 /\ c < rest.samples
    BY <1>3, <2>1
  <2>4. Pending \in {0, 1} /\ Pending' \in {0, 1} /\ Coming \in {0, 1}
    BY DEF Pending, Coming
  <2>5. served => Pending' = Pending
    BY <2>1 DEF Pending
  <2>6. ~served => Coming = 1
    BY DEF Coming
  <2>7. n + Pending' + 1 <= 2 * c + 2
    <3>1. CASE served
      BY <1>2, <2>3, <2>4, <2>5, <3>1
    <3>2. CASE ~served
      <4>1. Coming = 1
        BY <2>6, <3>2, Zenon
      <4>2. n \in Nat /\ c \in Nat
        BY <1>2
      <4>3. \A p, q \in {0, 1} : n + p + 1 <= 2 * c + 1 => n + q + 1 <= 2 * c + 2
        BY <4>2
      <4>4. n + Pending + 1 <= 2 * c + 1
        BY <2>3, <4>1
      <4> QED BY <2>4, <4>3, <4>4
    <3> QED BY <3>1, <3>2
  <2>8. n + Pending' <= 2 * rest.samples
    BY <1>2, <2>3, <2>4, <2>7
  <2>9. TakenBound'
    BY <2>1, <2>2, <2>3, <2>7, <2>8 DEF TakenBound
  <2> QED BY <1>1, <1>3, <2>1, <2>2, <2>9 DEF TakenInv, RunBound
<1>8. CASE PutFails
  <2>1. /\ rest' = rest /\ taken' = taken /\ givenUp' = givenUp /\ confirmed' = confirmed
        /\ served' = served /\ attempt' = attempt /\ requested' = 0
        /\ restStage' = [restStage EXCEPT ![PutHost] = "failed"]
    BY <1>8 DEF PutFails, GivesUp, RestGoes
  <2>2. restStage'[PutHost] = "failed"
    BY <1>S, <2>1
  <2> QED BY <1>Q, <2>1, <2>2
<1>9. ASSUME NEW m \in Hosts, KillVariant(m) PROVE TakenInv'
  <2>1. /\ rest' = rest /\ taken' = taken /\ givenUp' = givenUp /\ confirmed' = confirmed
        /\ served' = served /\ attempt' = attempt
        /\ restStage' = [restStage EXCEPT ![m] = "failed"]
        /\ IF m = PutHost THEN requested' = 0 ELSE requested' = requested
    BY <1>9 DEF KillVariant, RestGoes, putState
  <2>2. /\ restStage'[m] = "failed"
        /\ m # PutHost => restStage'[PutHost] = restStage[PutHost]
    BY <1>S, <2>1
  <2> QED BY <1>Q, <2>1, <2>2
<1>10. CASE \/ Subscribe \/ Arrive \/ ReadLine \/ ReadTimesOut \/ StreamEnds \/ JoinReader
            \/ UNCHANGED restVars
  <2>1. /\ rest' = rest /\ restStage' = restStage /\ UNCHANGED putState
    BY <1>10 DEF Subscribe, Arrive, ReadLine, ReadTimesOut, StreamEnds, JoinReader, restVars
  <2> QED BY <1>Q, <2>1 DEF putState
<1>11. CASE EndPuts
  <2>1. /\ rest' = rest /\ UNCHANGED putState /\ restStage[PutHost] = "operate"
    BY <1>11 DEF EndPuts
  <2> QED BY <1>Q, <2>1 DEF putState
<1>12. ASSUME NEW m \in Hosts,
              \/ LaunchSidecar(m) \/ RestReady(m) \/ LaunchFails(m) \/ SetStopFlag(m)
              \/ StopSidecar(m) \/ ZenohdDies(m) \/ Reap(m)
       PROVE  TakenInv'
  <2>1. rest' = rest /\ UNCHANGED putState
    BY <1>12 DEF LaunchSidecar, RestReady, LaunchFails, SetStopFlag, StopSidecar, ZenohdDies, Reap
  <2>2. restStage[m] # "failed" \/ restStage' = restStage
    BY <1>12 DEF LaunchSidecar, RestReady, LaunchFails, SetStopFlag, StopSidecar, ZenohdDies, Reap
  <2>3. \A h \in Hosts \ {m} : restStage'[h] = restStage[h]
    BY <1>12, <1>S DEF LaunchSidecar, RestReady, LaunchFails, SetStopFlag, StopSidecar, ZenohdDies, Reap,
       RestGoes
  <2>4. restStage[PutHost] = "failed" => restStage'[PutHost] = "failed"
    BY <1>S, <2>2, <2>3
  <2> QED BY <1>Q, <2>1, <2>4 DEF putState
<1> QED BY <1>4, <1>5, <1>6, <1>7, <1>8, <1>9, <1>10, <1>11, <1>12 DEF ZenohRestNext

-----------------------------------------------------------------------------
(* ZenohRest: the stream and the log.                                      *)

StreamTypes ==
    /\ due \in Seq(Events) /\ log \in Seq(Events)
    /\ owed \in Seq(Pieces) /\ incoming \in Seq(Pieces)
    /\ current.data \in Seq(Events) /\ current = [data |-> current.data, content |-> current.content]
    /\ current.content \in BOOLEAN
    /\ spoilt \in SUBSET Events /\ sse \in {"off", "dialling", "reading"}

\* Event numbers rise along the log and the lines.
StreamRises ==
    /\ RisingEvents(Unread) /\ WholeEvents(Unread)
    /\ \A i \in DOMAIN Unread : Unread[i][2] <= Len(taken)
    /\ \A j \in DOMAIN log : log[j] <= Len(taken)
    /\ \A k \in spoilt : k <= Len(taken)
    /\ \A j \in DOMAIN log : \A i \in DOMAIN Unread : log[j] < Unread[i][2]

\* What current_data holds, by the line that comes next; only the event of this
\* line may already be lost.
ReadSoFar ==
    /\ Unread = <<>> => current.data = <<>>
    /\ Unread # <<>> =>
          /\ Unread[1][1] # "blank" => current.data = <<>>
          /\ Unread[1][1] # "event" => current.content
          /\ Unread[1][1] = "data2" => Unread[1][2] \in spoilt
          /\ Unread[1][1] = "blank" =>
                current.data = IF Unread[1][2] \in spoilt THEN <<>> ELSE <<Unread[1][2]>>
          /\ \A i \in DOMAIN Unread : Unread[i][2] \in spoilt =>
                Unread[i][2] = Unread[1][2] /\ Unread[1][1] \in {"data2", "blank"}

\* DamageIsLocal.
LogIsTrue == log \o Unspoilt(EndingIn(Unread)) = Unspoilt(due)

StreamIsRight == StreamTypes /\ StreamRises /\ ReadSoFar /\ LogIsTrue

LEMMA UnspoiltJoin ==
    ASSUME NEW s \in Seq(Events), NEW t \in Seq(Events)
    PROVE  /\ Unspoilt(s) \in Seq(Events) /\ Unspoilt(t) \in Seq(Events)
           /\ Unspoilt(s \o t) = Unspoilt(s) \o Unspoilt(t)
<1> DEFINE S == Events \ spoilt
<1> HIDE DEF S
<1>1. Only(s, S) \in Seq(Events) /\ Only(t, S) \in Seq(Events)
  BY OnlyMembers
<1>2. Only(s \o t, S) = Only(s, S) \o Only(t, S)
  BY OnlyJoin
<1> QED BY <1>1, <1>2 DEF S, Unspoilt

LEMMA UnspoiltOne ==
    ASSUME NEW k \in Events
    PROVE  Unspoilt(<<k>>) = IF k \in spoilt THEN <<>> ELSE <<k>>
<1> DEFINE s == <<k>>
<1>1. s \in Seq(Events) /\ Len(s) = 1 /\ s[1] = k
  OBVIOUS
<1> HIDE DEF s
<1>2. ASSUME k \in spoilt PROVE Only(s, Events \ spoilt) = <<>>
  <2>1. \A i \in 1..Len(s) : s[i] \notin Events \ spoilt
    BY <1>1, <1>2
  <2> QED BY <1>1, <2>1, OnlyNone
<1>3. ASSUME k \notin spoilt PROVE Only(s, Events \ spoilt) = s
  <2>1. \A i \in 1..Len(s) : s[i] \in Events \ spoilt
    BY <1>1, <1>3
  <2> QED BY <1>1, <2>1, OnlyAll
<1> QED BY <1>2, <1>3 DEF s, Unspoilt

\* With more lost events, less is left of a sequence.
LEMMA UnspoiltLess ==
    ASSUME NEW s \in Seq(Events), spoilt \in SUBSET Events, NEW R \in SUBSET Events,
           spoilt' = spoilt \union R
    PROVE  Only(s, Events \ spoilt') = Only(Only(s, Events \ spoilt), Events \ R)
<1>1. Events \ spoilt' \in SUBSET (Events \ spoilt)
  OBVIOUS
<1> DEFINE S == Events \ spoilt
           t == Only(s, S)
<1>2. t \in Seq(Events) /\ \A k \in 1..Len(t) : t[k] \in S
  BY OnlyMembers
<1> HIDE DEF t
<1>3. Only(t, Events \ spoilt') = Only(s, Events \ spoilt')
  BY <1>1, OnlyTwice DEF t
<1>4. AtPlaces(t, {i \in DOMAIN t : t[i] \in Events \ spoilt'})
         = AtPlaces(t, {i \in DOMAIN t : t[i] \in Events \ R})
  <2>1. \A i \in DOMAIN t : t[i] \in Events \ spoilt
    BY <1>2
  <2>2. {i \in DOMAIN t : t[i] \in Events \ spoilt'} = {i \in DOMAIN t : t[i] \in Events \ R}
    BY <2>1
  <2> QED BY <2>2
<1> QED BY <1>3, <1>4 DEF Only, t

\* What is left of two sequences, where one is kept whole.
LEMMA KeptWithRest ==
    ASSUME NEW s, NEW u, NEW E, s \in Seq(Events) /\ u \in Seq(Events),
           \A i \in DOMAIN s : s[i] \in E
    PROVE  Only(s \o u, E) = s \o Only(u, E)
<1>1. Only(s \o u, E) = Only(s, E) \o Only(u, E)
  BY OnlyJoin
<1>2. \A i \in 1..Len(s) : s[i] \in E
  OBVIOUS
<1>3. Only(s, E) = s
  BY <1>2, OnlyAll
<1> QED BY <1>1, <1>3

\* Events that are lost while they are yet to be read change nothing else.
LEMMA LostWhileUnread ==
    ASSUME NEW s \in Seq(Events), NEW t \in Seq(Events), NEW d \in Seq(Events),
           spoilt \in SUBSET Events, NEW R \in SUBSET Events, spoilt' = spoilt \union R,
           \A i \in DOMAIN s : s[i] \notin R,
           s \o Only(t, Events \ spoilt) = Only(d, Events \ spoilt)
    PROVE  s \o Only(t, Events \ spoilt') = Only(d, Events \ spoilt')
<1> DEFINE E == Events \ R
           u == Only(t, Events \ spoilt)
<1>1. /\ Only(t, Events \ spoilt') = Only(u, E)
      /\ Only(d, Events \ spoilt') = Only(Only(d, Events \ spoilt), E)
  BY UnspoiltLess
<1>2. u \in Seq(Events)
  BY OnlyMembers
<1>3. s \o u = Only(d, Events \ spoilt)
  OBVIOUS
<1> HIDE DEF u, E
<1>4. Only(s \o u, E) = s \o Only(u, E)
  <2>1. \A i \in DOMAIN s : s[i] \in E
    BY DEF E
  <2>2. s \in Seq(Events) /\ u \in Seq(Events)
    BY <1>2
  <2> QED BY <2>1, <2>2, KeptWithRest
<1>6. /\ Only(t, Events \ spoilt') = Only(u, E)
      /\ Only(d, Events \ spoilt') = Only(s \o u, E)
  BY <1>1, <1>3 DEF E, u
<1> QED BY <1>4, <1>6, Zenon

LEMMA StreamInit == ZenohRestInit => StreamIsRight
<1> SUFFICES ASSUME ZenohRestInit PROVE StreamIsRight
  OBVIOUS
<1>1. /\ due = <<>> /\ log = <<>> /\ owed = <<>> /\ incoming = <<>> /\ spoilt = {} /\ sse = "off"
      /\ current = [data |-> <<>>, content |-> FALSE]
  BY DEF ZenohRestInit, NoEvent
<1>2. Unread = <<>> /\ current.data = <<>> /\ current.content = FALSE
  BY <1>1 DEF Unread
<1>3. StreamTypes
  BY <1>1, <1>2 DEF StreamTypes
<1>4. StreamRises /\ ReadSoFar
  BY <1>1, <1>2 DEF StreamRises, RisingEvents, WholeEvents, ReadSoFar
<1>5. LogIsTrue
  <2> DEFINE n == <<>>
             S == Events \ spoilt
  <2>1. n \in Seq(Events) /\ \A i \in 1..Len(n) : n[i] \in S
    OBVIOUS
  <2>2. EndingIn(Unread) = n
    <3>1. <<"event", 1>> \in Pieces
      BY MaxSamplesAssumption DEF Pieces, Events
    <3> QED BY <1>2, <3>1, EndingOne
  <2>3. n \o n = n
    OBVIOUS
  <2> HIDE DEF n, S
  <2>4. Only(n, S) = n
    BY <2>1, OnlyAll
  <2> QED BY <1>1, <2>2, <2>3, <2>4 DEF LogIsTrue, Unspoilt, n, S
<1> QED BY <1>3, <1>4, <1>5 DEF StreamIsRight

\* Nothing is taken without a number for it.
LEMMA RoomForIt ==
    ASSUME TakenInv, (requested # 0 /\ ~served) \/ givenUp # 0
    PROVE  Len(taken) \in Nat /\ Len(taken) + 1 \in Events
<1>1. PutTypes /\ TakenBound /\ RunBound
  BY DEF TakenInv, PutInv
<1>2. Len(taken) \in Nat /\ attempt \in 0..2 /\ Cardinality(confirmed) \in Nat
  <2>1. Cardinality(confirmed) \in Nat
    BY <1>1, ConfirmedCount
  <2>2. taken \in Seq(Nat) /\ attempt \in 0..2
    BY <1>1 DEF PutTypes
  <2> QED BY <2>1, <2>2
<1>3. rest.samples \in 1..MaxSamples /\ MaxSamples \in Nat
  BY <1>1, MaxSamplesAssumption DEF RunBound
<1>4. Pending \in {0, 1} /\ Coming \in {0, 1}
  BY DEF Pending, Coming
<1> DEFINE n == Len(taken)
           c == Cardinality(confirmed)
           m == rest.samples
<1>5. CASE givenUp # 0
  <2>1. Pending = 1 /\ n + Pending <= 2 * m
    BY <1>1, <1>5 DEF Pending, TakenBound
  <2> HIDE DEF n, m
  <2>2. n \in Nat /\ m \in 1..MaxSamples
    BY <1>2, <1>3 DEF n, m
  <2>3. n + 1 \in 1..2 * MaxSamples
    BY <1>3, <2>1, <2>2
  <2> QED BY <2>2, <2>3 DEF Events, n
<1>6. CASE requested # 0 /\ ~served
  <2>1. Coming = 1 /\ n + Pending + Coming <= 2 * c + attempt /\ c < m
    BY <1>1, <1>6 DEF Coming, TakenBound
  <2> HIDE DEF n, m, c
  <2>2. n \in Nat /\ m \in 1..MaxSamples /\ c \in Nat
    BY <1>2, <1>3 DEF n, m, c
  <2>3. \A p \in {0, 1} : \A a \in 0..2 : n + p + 1 <= 2 * c + a => n + 1 <= 2 * c + 2
    BY <2>2
  <2>4. n + 1 <= 2 * c + 2
    BY <1>2, <1>4, <2>1, <2>3
  <2>5. n + 1 \in 1..2 * MaxSamples
    BY <1>3, <2>1, <2>2, <2>4
  <2> QED BY <2>2, <2>5 DEF Events, n
<1> QED BY <1>5, <1>6

LEMMA EndingHead ==
    ASSUME NEW L \in Seq(Pieces), L # <<>>
    PROVE  /\ Tail(L) \in Seq(Pieces) /\ EndingIn(L) \in Seq(Events) /\ EndingIn(Tail(L)) \in Seq(Events)
           /\ L[1][1] # "blank" => EndingIn(L) = EndingIn(Tail(L))
           /\ L[1][1] = "blank" => EndingIn(L) = <<L[1][2]>> \o EndingIn(Tail(L))
<1> DEFINE x == Head(L)
           t == Tail(L)
<1>1. x \in Pieces /\ t \in Seq(Pieces) /\ L = <<x>> \o t
  BY HeadThenTail
<1>2. x = L[1]
  OBVIOUS
<1> HIDE DEF x, t
<1>3. <<x>> \in Seq(Pieces) /\ EndingIn(<<x>>) = IF x[1] = "blank" THEN <<x[2]>> ELSE <<>>
  BY <1>1, EndingOne
<1>4. /\ EndingIn(t) \in Seq(Events)
      /\ EndingIn(<<x>> \o t) = EndingIn(<<x>>) \o EndingIn(t)
  BY <1>1, <1>3, EndingJoin
<1>5. EndingIn(L) \in Seq(Events)
  BY EndingMembers
<1>6. <<>> \o EndingIn(t) = EndingIn(t)
  BY <1>4, NothingJoined
<1>7. EndingIn(L) = EndingIn(<<x>>) \o EndingIn(t)
  BY <1>1, <1>4
<1>8. x[1] # "blank" => EndingIn(L) = EndingIn(t)
  BY <1>3, <1>6, <1>7
<1>9. x[1] = "blank" => EndingIn(L) = <<x[2]>> \o EndingIn(t)
  BY <1>3, <1>7
<1> QED BY <1>1, <1>2, <1>4, <1>5, <1>8, <1>9 DEF t

LEMMA TailOfJoin ==
    ASSUME NEW T, NEW a \in Seq(T), NEW b \in Seq(T), a # <<>>
    PROVE  /\ a \o b \in Seq(T) /\ a \o b # <<>> /\ (a \o b)[1] = a[1]
           /\ Tail(a \o b) = Tail(a) \o b
           /\ SubSeq(a, 2, Len(a)) = Tail(a)
           /\ Len(a) > 1 => Tail(a) # <<>> /\ Tail(a)[1] = a[2] /\ SubSeq(a, 3, Len(a)) = Tail(Tail(a))
<1>1. /\ Len(a) \in Nat /\ Len(a) > 0 /\ Len(b) \in Nat /\ Tail(a) \in Seq(T)
      /\ Len(Tail(a)) = Len(a) - 1 /\ \A i \in 1..Len(a) - 1 : Tail(a)[i] = a[i + 1]
  OBVIOUS
<1> DEFINE w == a \o b
           t == Tail(a)
           v == t \o b
           n == Len(a)
           m == Len(b)
<1>2. /\ w \in Seq(T) /\ Len(w) = n + m
      /\ \A i \in 1..n + m : w[i] = IF i <= n THEN a[i] ELSE b[i - n]
  BY ConcatProperties
<1>3. /\ v \in Seq(T) /\ Len(v) = Len(t) + m
      /\ \A i \in 1..Len(t) + m : v[i] = IF i <= Len(t) THEN t[i] ELSE b[i - Len(t)]
  BY <1>1, ConcatProperties
<1>4. n \in Nat /\ n > 0 /\ m \in Nat /\ t \in Seq(T) /\ Len(t) = n - 1
      /\ \A i \in 1..n - 1 : t[i] = a[i + 1]
  BY <1>1
<1>5. SubSeq(a, 2, n) = t /\ (n > 1 => SubSeq(a, 3, n) = Tail(t) /\ t # <<>> /\ t[1] = a[2])
  <2>1. SubSeq(a, 2, Len(a)) = Tail(a)
    BY TailIsSubSeq
  <2>2. ASSUME n > 1 PROVE SubSeq(a, 3, n) = Tail(t) /\ t # <<>> /\ t[1] = a[2]
    <3>1. 2 \in 1..Len(a) /\ Len(a) \in 2..Len(a) /\ 2 + 1 = 3
      BY <1>1, <2>2
    <3>2. Tail(SubSeq(a, 2, Len(a))) = SubSeq(a, 2 + 1, Len(a))
      BY <3>1, HeadTailOfSubSeq
    <3>3. 1 \in 1..n - 1 /\ 1 + 1 = 2 /\ Len(t) # 0
      <4>1. n \in Nat /\ Len(t) = n - 1
        BY <1>1
      <4> HIDE DEF n, t
      <4> QED BY <2>2, <4>1
    <3>4. t[1] = a[2]
      BY <1>4, <3>3
    <3>5. t # <<>>
      <4>1. Len(<<>>) = 0
        OBVIOUS
      <4> HIDE DEF t
      <4> QED BY <3>3, <4>1
    <3>6. SubSeq(a, 3, n) = Tail(t)
      BY <2>1, <3>1, <3>2
    <3> QED BY <3>4, <3>5, <3>6
  <2> QED BY <2>1, <2>2
<1> HIDE DEF w, t, v, n, m
<1>6. w # <<>> /\ w[1] = a[1]
  BY <1>2, <1>4
<1>7. Tail(w) \in Seq(T) /\ Len(Tail(w)) = n + m - 1 /\ \A i \in 1..n + m - 1 : Tail(w)[i] = w[i + 1]
  BY <1>2, <1>4, <1>6
<1>8. \A i \in 1..n + m - 1 : Tail(w)[i] = v[i]
  <2> SUFFICES ASSUME NEW i \in 1..n + m - 1 PROVE Tail(w)[i] = v[i]
    OBVIOUS
  <2>1. i + 1 \in 1..n + m /\ Tail(w)[i] = w[i + 1]
    BY <1>4, <1>7
  <2>2. CASE i <= n - 1
    <3>1. i + 1 <= n /\ i \in 1..n - 1 /\ i \in 1..Len(t) + m /\ i <= Len(t)
      BY <1>4, <2>2
    <3> QED BY <1>2, <1>3, <1>4, <2>1, <3>1
  <2>3. CASE ~(i <= n - 1)
    <3>1. ~(i + 1 <= n) /\ i \in 1..Len(t) + m /\ ~(i <= Len(t)) /\ i - Len(t) = (i + 1) - n
      BY <1>4, <2>3
    <3> QED BY <1>2, <1>3, <1>4, <2>1, <3>1
  <2> QED BY <2>2, <2>3
<1>9. Tail(w) = v
  <2>1. Len(v) = n + m - 1
    BY <1>3, <1>4
  <2> QED BY <1>3, <1>7, <1>8, <2>1, SeqEqual
<1> QED BY <1>2, <1>5, <1>6, <1>9 DEF w, v, t, n

\* What a step that reads, or cuts off, leaves of the stream.
LEMMA RisesOn ==
    ASSUME StreamRises, NEW M, RisingEvents(M), WholeEvents(M), Unread' = M, taken' = taken,
           \A i \in DOMAIN M : \E j \in DOMAIN Unread : M[i] = Unread[j],
           \A k \in spoilt' : k \in spoilt \/ \E j \in DOMAIN Unread : k = Unread[j][2],
           \A j \in DOMAIN log' :
              \/ \E i \in DOMAIN log : log'[j] = log[i]
              \/ /\ \E i \in DOMAIN Unread : log'[j] = Unread[i][2]
                 /\ \A i \in DOMAIN M : log'[j] < M[i][2]
    PROVE  StreamRises'
<1>1. RisingEvents(Unread)' /\ WholeEvents(Unread)'
  BY DEF RisingEvents, WholeEvents
<1>2. \A i \in DOMAIN Unread' : Unread'[i][2] <= Len(taken')
  BY DEF StreamRises
<1>3. \A j \in DOMAIN log' : log'[j] <= Len(taken')
  BY DEF StreamRises
<1>4. \A k \in spoilt' : k <= Len(taken')
  BY DEF StreamRises
<1>5. \A j \in DOMAIN log' : \A i \in DOMAIN Unread' : log'[j] < Unread'[i][2]
  BY DEF StreamRises
<1> QED BY <1>1, <1>2, <1>3, <1>4, <1>5 DEF StreamRises

\* What ReadLine does to the stream: an event that has been read to its end is in
\* the log, if it was not lost.
LEMMA ReadLineStep == ASSUME StreamIsRight, ReadLine PROVE StreamIsRight'
<1> DEFINE L == Unread
           M == Tail(L)
           p == L[1][1]
           k == L[1][2]
<1>1. StreamTypes /\ StreamRises /\ ReadSoFar /\ LogIsTrue
  BY DEF StreamIsRight
<1>2. /\ incoming # <<>> /\ ~HalfLine /\ owed' = owed /\ spoilt' = spoilt /\ due' = due
      /\ taken' = taken /\ sse' = sse
      /\ incoming' = SubSeq(incoming, LinePieces + 1, Len(incoming))
  BY DEF ReadLine, putState
<1>3. incoming \in Seq(Pieces) /\ owed \in Seq(Pieces)
  BY <1>1 DEF StreamTypes
<1>4. /\ L \in Seq(Pieces) /\ L # <<>> /\ L[1] = incoming[1]
      /\ M = Tail(incoming) \o owed
      /\ SubSeq(incoming, 2, Len(incoming)) = Tail(incoming)
      /\ Len(incoming) > 1 => /\ Tail(incoming) # <<>> /\ Tail(incoming)[1] = incoming[2]
                              /\ SubSeq(incoming, 3, Len(incoming)) = Tail(Tail(incoming))
  BY <1>2, <1>3, TailOfJoin DEF Unread
<1>5. RisingEvents(L) /\ WholeEvents(L)
  BY <1>1 DEF StreamRises
<1>6. /\ M \in Seq(Pieces) /\ RisingEvents(M) /\ WholeEvents(M)
      /\ \A i \in DOMAIN M :
            /\ M[i] = L[i + 1] /\ i + 1 \in DOMAIN L
            /\ k <= M[i][2] /\ (p = "blank" => k < M[i][2])
      /\ 1 \in DOMAIN L /\ L[1] \in Pieces
      /\ p # "blank" => M # <<>> /\ M[1][2] = k
      /\ M # <<>> => 1 \in DOMAIN M /\ M[1][1] = FollowsPiece(p)
  BY <1>4, <1>5, LaterPieces
<1>7. p \in {"event", "data1", "data2", "blank"} /\ k \in Events
  BY <1>6, PieceParts
<1>8. /\ p = "event" => current' = [current EXCEPT !.content = TRUE]
      /\ p = "data1" => current' = [data |-> Append(current.data, k), content |-> TRUE]
      /\ p = "data2" => current' = current
      /\ p = "blank" => current' = [data |-> <<>>, content |-> FALSE]
      /\ log' = IF p = "blank" /\ current.content /\ Len(current.data) = 1
                THEN log \o current.data ELSE log
  BY <1>4 DEF ReadLine, Emptied, NoEvent
<1>9. LinePieces = IF p = "data1" THEN 2 ELSE 1
  BY <1>4 DEF LinePieces
<1>10. p # "data1" => Unread' = M
  <2> HIDE DEF L, M, p
  <2>1. p # "data1" => LinePieces + 1 = 2
    BY <1>9
  <2>2. p # "data1" => incoming' = Tail(incoming)
    BY <1>2, <1>4, <2>1
  <2> QED BY <1>2, <1>4, <2>2 DEF Unread
<1>11. /\ current.data \in Seq(Events) /\ current.content \in BOOLEAN /\ log \in Seq(Events)
       /\ current = [data |-> current.data, content |-> current.content]
       /\ due \in Seq(Events) /\ spoilt \in SUBSET Events
  BY <1>1 DEF StreamTypes
<1>12. /\ p # "blank" => current.data = <<>>
       /\ p # "event" => current.content
       /\ p = "data2" => k \in spoilt
       /\ p = "blank" => current.data = IF k \in spoilt THEN <<>> ELSE <<k>>
       /\ \A i \in DOMAIN L : L[i][2] \in spoilt => L[i][2] = k /\ p \in {"data2", "blank"}
  BY <1>1, <1>4 DEF ReadSoFar
<1>13. /\ EndingIn(L) \in Seq(Events) /\ EndingIn(M) \in Seq(Events)
       /\ p # "blank" => EndingIn(L) = EndingIn(M)
       /\ p = "blank" => EndingIn(L) = <<k>> \o EndingIn(M)
  BY <1>4, EndingHead
<1>14. log \o Unspoilt(EndingIn(L)) = Unspoilt(due)
  BY <1>1 DEF LogIsTrue
<1> HIDE DEF L, M, p, k
\* The line of the event, or the rest of a data line.
<1>15. CASE p \in {"event", "data2"}
  <2>1. Unread' = M /\ log' = log
    BY <1>8, <1>10, <1>15
  <2>2. current'.data = <<>> /\ current'.content = TRUE
        /\ current' = [data |-> current'.data, content |-> current'.content]
    <3>1. current.data = <<>>
      BY <1>12, <1>15
    <3>2. CASE p = "event"
      BY <1>8, <1>11, <3>1, <3>2
    <3>3. CASE p = "data2"
      BY <1>8, <1>11, <1>12, <3>1, <3>3
    <3> QED BY <1>15, <3>2, <3>3
  <2>3. incoming' \in Seq(Pieces)
    BY <1>2, <1>3, <1>4, <1>9, <1>15, HeadIsTyped
  <2>4. StreamTypes'
    <3>1. /\ due \in Seq(Events) /\ log \in Seq(Events) /\ owed \in Seq(Pieces)
          /\ spoilt \in SUBSET Events /\ sse \in {"off", "dialling", "reading"}
      BY <1>1 DEF StreamTypes
    <3>2. <<>> \in Seq(Events) /\ TRUE \in BOOLEAN
      OBVIOUS
    <3> QED BY <1>2, <2>1, <2>2, <2>3, <3>1, <3>2 DEF StreamTypes
  <2>5. StreamRises'
    BY <1>1, <1>2, <1>6, <2>1, RisesOn DEF L
  <2>6. M # <<>> /\ M[1][2] = k /\ 1 \in DOMAIN M /\ M[1][1] = FollowsPiece(p)
    BY <1>6, <1>15
  <2>7. M[1][1] = IF p = "event" THEN "data1" ELSE "blank"
    BY <1>15, <2>6 DEF FollowsPiece
  <2>8. p = "event" => \A i \in DOMAIN M : M[i][2] \notin spoilt
    BY <1>6, <1>12
  <2>9. p = "data2" => \A i \in DOMAIN M : M[i][2] \in spoilt => M[i][2] = k
    BY <1>6, <1>12
  <2>10. ReadSoFar'
    <3>1. CASE p = "event"
      BY <1>2, <2>1, <2>2, <2>6, <2>7, <2>8, <3>1 DEF ReadSoFar
    <3>2. CASE p = "data2"
      BY <1>2, <1>12, <2>1, <2>2, <2>6, <2>7, <2>9, <3>2 DEF ReadSoFar
    <3> QED BY <1>15, <3>1, <3>2
  <2>11. LogIsTrue'
    <3>1. EndingIn(L) = EndingIn(M)
      BY <1>13, <1>15
    <3> QED BY <1>2, <1>14, <2>1, <3>1 DEF LogIsTrue, Unspoilt
  <2> QED BY <2>4, <2>5, <2>10, <2>11 DEF StreamIsRight
\* A whole data line.
<1>16. CASE p = "data1"
  <2> DEFINE N == Tail(M)
  <2>1. M # <<>> /\ M[1][2] = k /\ 1 \in DOMAIN M /\ M[1][1] = "data2"
    BY <1>6, <1>16 DEF FollowsPiece
  <2>2. /\ N \in Seq(Pieces) /\ RisingEvents(N) /\ WholeEvents(N)
        /\ \A i \in DOMAIN N : N[i] = M[i + 1] /\ i + 1 \in DOMAIN M
        /\ N # <<>> /\ N[1][2] = k /\ 1 \in DOMAIN N /\ N[1][1] = "blank"
    <3>1. /\ N \in Seq(Pieces) /\ RisingEvents(N) /\ WholeEvents(N)
          /\ \A i \in DOMAIN N : N[i] = M[i + 1] /\ i + 1 \in DOMAIN M
          /\ M[1][1] # "blank" => N # <<>> /\ N[1][2] = M[1][2]
          /\ N # <<>> => 1 \in DOMAIN N /\ N[1][1] = FollowsPiece(M[1][1])
      BY <1>6, <2>1, LaterPieces
    <3> HIDE DEF N
    <3> QED BY <2>1, <3>1 DEF FollowsPiece
  <2>3. EndingIn(N) = EndingIn(M)
    BY <1>6, <2>1, EndingHead
  <2>4. Len(incoming) > 1
    <3>1. Len(incoming) # 1
      BY <1>2, <1>4, <1>16 DEF HalfLine, p, L
    <3>2. Len(incoming) \in Nat /\ Len(incoming) # 0
      BY <1>2, <1>3
    <3>3. \A x \in Nat : x # 0 /\ x # 1 => x > 1
      OBVIOUS
    <3> QED BY <3>1, <3>2, <3>3
  <2>5. Unread' = N /\ incoming' \in Seq(Pieces)
    <3>1. incoming' = Tail(Tail(incoming)) /\ Tail(incoming) # <<>>
      <4>1. LinePieces + 1 = 3
        BY <1>9, <1>16
      <4> QED BY <1>2, <1>4, <2>4, <4>1
    <3>2. Tail(incoming) \in Seq(Pieces) /\ Tail(Tail(incoming)) \in Seq(Pieces)
      BY <1>2, <1>3, <3>1, HeadIsTyped
    <3>3. Tail(Tail(incoming) \o owed) = Tail(Tail(incoming)) \o owed
      <4> DEFINE t == Tail(incoming)
      <4>1. t \in Seq(Pieces) /\ t # <<>>
        BY <3>1, <3>2
      <4> HIDE DEF t
      <4>2. Tail(t \o owed) = Tail(t) \o owed
        BY <1>3, <4>1, TailOfJoin
      <4> QED BY <4>2 DEF t
    <3> QED BY <1>2, <1>4, <3>1, <3>2, <3>3 DEF Unread
  <2>6. log' = log /\ current.data = <<>> /\ k \notin spoilt
    <3>1. 1 \in DOMAIN L /\ L[1][2] = k
      BY <1>6 DEF k
    <3> QED BY <1>8, <1>12, <1>16, <3>1
  <2>7. current' = [data |-> <<k>>, content |-> TRUE]
    <3>1. Append(<<>>, k) = <<k>>
      OBVIOUS
    <3> QED BY <1>8, <1>16, <2>6, <3>1
  <2>8. <<k>> \in Seq(Events)
    BY <1>7
  <2> HIDE DEF N
  <2>9. StreamTypes'
    BY <1>1, <1>2, <2>5, <2>6, <2>7, <2>8 DEF StreamTypes
  <2>10. \A i \in DOMAIN N : \E j \in DOMAIN L : N[i] = L[j]
    BY <1>6, <2>2
  <2>11. StreamRises'
    BY <1>1, <1>2, <2>2, <2>5, <2>6, <2>10, RisesOn DEF L
  <2>12. \A i \in DOMAIN N : N[i][2] \notin spoilt
    BY <1>12, <1>16, <2>10
  <2>13. ReadSoFar'
    BY <1>2, <2>2, <2>5, <2>6, <2>7, <2>12 DEF ReadSoFar
  <2>14. LogIsTrue'
    <3>1. EndingIn(L) = EndingIn(N)
      BY <1>13, <1>16, <2>3
    <3> QED BY <1>2, <1>14, <2>5, <2>6, <3>1 DEF LogIsTrue, Unspoilt
  <2> QED BY <2>9, <2>11, <2>13, <2>14 DEF StreamIsRight
\* The end of the event.
<1>17. CASE p = "blank"
  <2>1. Unread' = M
    BY <1>10, <1>17
  <2>2. current'.data = <<>> /\ current'.content = FALSE
        /\ current' = [data |-> current'.data, content |-> current'.content]
    BY <1>8, <1>17
  <2>3. incoming' \in Seq(Pieces)
    BY <1>2, <1>3, <1>4, <1>9, <1>17, HeadIsTyped
  <2>4. <<k>> \in Seq(Events) /\ Len(<<k>>) = 1
    BY <1>7
  <2>5. log' = IF k \in spoilt THEN log ELSE log \o <<k>>
    <3>1. CASE k \in spoilt
      <4>1. current.data = <<>> /\ Len(<<>>) # 1
        BY <1>12, <1>17, <3>1
      <4> QED BY <1>8, <3>1, <4>1
    <3>2. CASE k \notin spoilt
      BY <1>8, <1>12, <1>17, <2>4, <3>2
    <3> QED BY <3>1, <3>2
  <2>6. log' \in Seq(Events)
    BY <1>11, <2>4, <2>5, JoinTyped
  <2>7. StreamTypes'
    BY <1>1, <1>2, <2>1, <2>2, <2>3, <2>6, NothingJoined DEF StreamTypes
  <2>8. \A j \in DOMAIN log' :
           (\E i \in DOMAIN log : log'[j] = log[i]) \/ log'[j] = k
    <3>1. CASE k \in spoilt
      BY <2>5, <3>1
    <3>2. CASE k \notin spoilt
      <4>1. log' = log \o <<k>>
        BY <2>5, <3>2
      <4>2. log \o <<k>> = Append(log, k)
        BY <1>11, <1>7
      <4>3. \A j \in DOMAIN Append(log, k) : j \in DOMAIN log \/ j = Len(log) + 1
        BY <1>11, <1>7
      <4>4. /\ \A j \in DOMAIN log : Append(log, k)[j] = log[j]
            /\ Append(log, k)[Len(log) + 1] = k
        BY <1>11, <1>7
      <4> QED BY <4>1, <4>2, <4>3, <4>4
    <3> QED BY <3>1, <3>2
  <2>9. StreamRises'
    <3>1. \A i \in DOMAIN M : \E j \in DOMAIN L : M[i] = L[j]
      BY <1>6
    <3>2. (\E i \in DOMAIN L : k = L[i][2]) /\ \A i \in DOMAIN M : k < M[i][2]
      BY <1>6, <1>17 DEF k
    <3> QED BY <1>1, <1>2, <1>6, <2>1, <2>8, <3>1, <3>2, RisesOn DEF L
  <2>10. \A i \in DOMAIN M : M[i][2] \notin spoilt
    <3> SUFFICES ASSUME NEW i \in DOMAIN M, M[i][2] \in spoilt PROVE FALSE
      OBVIOUS
    <3>1. M[i][2] = k /\ k < M[i][2]
      BY <1>6, <1>12, <1>17
    <3>2. k \in Nat
      BY <1>7, MaxSamplesAssumption DEF Events
    <3> QED BY <3>1, <3>2
  <2>11. ReadSoFar'
    <3>1. M # <<>> => 1 \in DOMAIN M /\ M[1][1] = "event"
      BY <1>6, <1>17 DEF FollowsPiece
    <3> QED BY <1>2, <2>1, <2>2, <2>10, <3>1 DEF ReadSoFar
  <2>12. LogIsTrue'
    <3> DEFINE e == EndingIn(M)
    <3>1. e \in Seq(Events) /\ EndingIn(L) = <<k>> \o e
      BY <1>13, <1>17
    <3> HIDE DEF e
    <3>2. /\ Unspoilt(e) \in Seq(Events) /\ Unspoilt(<<k>>) \in Seq(Events)
          /\ Unspoilt(<<k>> \o e) = Unspoilt(<<k>>) \o Unspoilt(e)
      BY <2>4, <3>1, UnspoiltJoin
    <3>3. Unspoilt(<<k>>) = IF k \in spoilt THEN <<>> ELSE <<k>>
      BY <1>7, UnspoiltOne
    <3> DEFINE u == Unspoilt(e)
               a == <<k>>
    <3>4. u \in Seq(Events) /\ a \in Seq(Events)
      BY <2>4, <3>2
    <3>5. log' \o u = log \o Unspoilt(<<k>> \o e)
      <4>1. CASE k \in spoilt
        <5>1. <<>> \o u = u
          BY <3>4, NothingJoined
        <5> QED BY <2>5, <3>2, <3>3, <4>1, <5>1
      <4>2. CASE k \notin spoilt
        <5>1. Unspoilt(a \o e) = a \o u /\ log' = log \o a
          BY <2>5, <3>2, <3>3, <4>2
        <5> HIDE DEF a, u
        <5>2. (log \o a) \o u = log \o (a \o u)
          BY <1>11, <3>4, JoinIsAssociative
        <5> QED BY <5>1, <5>2 DEF a
      <4> QED BY <4>1, <4>2
    <3>6. log' \o Unspoilt(EndingIn(M)) = Unspoilt(due)
      BY <1>14, <3>1, <3>5 DEF e
    <3> QED BY <1>2, <2>1, <3>6 DEF LogIsTrue, Unspoilt
  <2> QED BY <2>7, <2>9, <2>11, <2>12 DEF StreamIsRight
<1> QED BY <1>7, <1>15, <1>16, <1>17

\* What is lost with the connection, or with the rest of its line.
LEMMA LossStep ==
    ASSUME StreamIsRight, NEW R \in SUBSET Events, NEW M,
           spoilt' = spoilt \union R, due' = due, log' = log, taken' = taken,
           sse' \in {"off", "dialling", "reading"}, Unread' = M,
           incoming' \in Seq(Pieces), owed' \in Seq(Pieces),
           \/ current' = current
           \/ current' = NoEvent,
           RisingEvents(M), WholeEvents(M), M \in Seq(Pieces),
           \A i \in DOMAIN M : \E j \in DOMAIN Unread : M[i] = Unread[j],
           \A x \in R : \E j \in DOMAIN Unread : x = Unread[j][2],
           Only(EndingIn(M), Events \ spoilt') = Only(EndingIn(Unread), Events \ spoilt')
    PROVE  StreamTypes' /\ StreamRises' /\ LogIsTrue'
<1>1. StreamTypes /\ StreamRises /\ LogIsTrue
  BY DEF StreamIsRight
<1>2. StreamTypes'
  <2>1. /\ due \in Seq(Events) /\ log \in Seq(Events) /\ spoilt \in SUBSET Events
        /\ current.data \in Seq(Events) /\ current.content \in BOOLEAN
        /\ current = [data |-> current.data, content |-> current.content]
    BY <1>1 DEF StreamTypes
  <2>2. spoilt' \in SUBSET Events
    BY <2>1
  <2>3. /\ current'.data \in Seq(Events) /\ current'.content \in BOOLEAN
        /\ current' = [data |-> current'.data, content |-> current'.content]
    <3>1. CASE current' = current
      BY <2>1, <3>1
    <3>2. CASE current' = NoEvent
      <4>1. <<>> \in Seq(Events)
        OBVIOUS
      <4> QED BY <3>2, <4>1 DEF NoEvent
    <3> QED BY <3>1, <3>2
  <2> QED BY <2>1, <2>2, <2>3 DEF StreamTypes
<1>3. StreamRises'
  <2>1. \A k \in spoilt' : k \in spoilt \/ \E j \in DOMAIN Unread : k = Unread[j][2]
    OBVIOUS
  <2>2. \A j \in DOMAIN log' : \E i \in DOMAIN log : log'[j] = log[i]
    OBVIOUS
  <2> QED BY <1>1, <2>1, <2>2, RisesOn
<1>4. LogIsTrue'
  <2>1. incoming \in Seq(Pieces) /\ owed \in Seq(Pieces) /\ log \in Seq(Events) /\ due \in Seq(Events)
        /\ spoilt \in SUBSET Events
    BY <1>1 DEF StreamTypes
  <2>2. Unread \in Seq(Pieces)
    BY <2>1, RemainingIs
  <2>3. EndingIn(Unread) \in Seq(Events)
    BY <2>2, EndingMembers
  <2>4. \A i \in DOMAIN log : log[i] \notin R
    <3> SUFFICES ASSUME NEW i \in DOMAIN log, log[i] \in R PROVE FALSE
      OBVIOUS
    <3>1. PICK j \in DOMAIN Unread : log[i] = Unread[j][2]
      OBVIOUS
    <3>2. log[i] < Unread[j][2]
      BY <1>1 DEF StreamRises
    <3>3. log[i] \in Nat
      BY MaxSamplesAssumption, <2>1 DEF Events
    <3> QED BY <3>1, <3>2, <3>3
  <2>5. log \o Only(EndingIn(Unread), Events \ spoilt) = Only(due, Events \ spoilt)
    BY <1>1 DEF LogIsTrue, Unspoilt
  <2> DEFINE t == EndingIn(Unread)
  <2>6. t \in Seq(Events)
    BY <2>3
  <2>7. log \o Only(t, Events \ spoilt) = Only(due, Events \ spoilt)
    BY <2>5
  <2> HIDE DEF t
  <2>8. log \o Only(t, Events \ spoilt') = Only(due, Events \ spoilt')
    BY <2>1, <2>4, <2>6, <2>7, LostWhileUnread, ZenonT(60)
  <2>9. Only(EndingIn(M), Events \ spoilt') = Only(t, Events \ spoilt')
    BY DEF t
  <2> QED BY <2>8, <2>9 DEF LogIsTrue, Unspoilt
<1> QED BY <1>2, <1>3, <1>4

LEMMA TimeOutStep == ASSUME StreamIsRight, ReadTimesOut PROVE StreamIsRight'
<1> DEFINE L == Unread
           M == Tail(L)
           k == L[1][2]
<1>1. StreamTypes /\ StreamRises /\ ReadSoFar
  BY DEF StreamIsRight
<1>2. /\ Len(incoming) = 1 /\ incoming[1][1] = "data1" /\ incoming' = <<>> /\ owed' = owed
      /\ spoilt' = spoilt \union {incoming[1][2]} /\ due' = due /\ log' = log /\ taken' = taken
      /\ current' = current /\ sse' = sse
  BY DEF ReadTimesOut, HalfLine, putState
<1>3. incoming \in Seq(Pieces) /\ owed \in Seq(Pieces) /\ sse \in {"off", "dialling", "reading"}
  BY <1>1 DEF StreamTypes
<1>4. incoming # <<>> /\ Tail(incoming) = <<>>
  <2>1. incoming # <<>>
    BY <1>2
  <2>2. Tail(incoming) \in Seq(Pieces) /\ Len(Tail(incoming)) = 1 - 1
    BY <1>2, <1>3, <2>1, HeadTailProperties
  <2> DEFINE t == Tail(incoming)
  <2>3. t \in Seq(Pieces) /\ Len(t) = 0
    BY <2>2
  <2> HIDE DEF t
  <2>4. t = <<>>
    BY <2>3, EmptySeq
  <2> QED BY <2>1, <2>4 DEF t
<1>5. /\ L \in Seq(Pieces) /\ L # <<>> /\ L[1] = incoming[1] /\ M = Tail(incoming) \o owed
  BY <1>3, <1>4, TailOfJoin DEF Unread
<1>6. Unread' = M
  BY <1>2, <1>4, <1>5 DEF Unread
<1>7. RisingEvents(L) /\ WholeEvents(L)
  BY <1>1 DEF StreamRises
<1>8. /\ M \in Seq(Pieces) /\ RisingEvents(M) /\ WholeEvents(M)
      /\ \A i \in DOMAIN M : M[i] = L[i + 1] /\ i + 1 \in DOMAIN L
      /\ 1 \in DOMAIN L /\ L[1] \in Pieces
      /\ L[1][1] # "blank" => M # <<>> /\ M[1][2] = L[1][2]
      /\ M # <<>> => 1 \in DOMAIN M /\ M[1][1] = FollowsPiece(L[1][1])
  BY <1>5, <1>7, LaterPieces
<1>9. L[1][1] = "data1" /\ incoming[1][2] = k
  BY <1>2, <1>5
<1>10. M # <<>> /\ M[1][2] = k /\ 1 \in DOMAIN M /\ M[1][1] = "data2"
  BY <1>8, <1>9 DEF FollowsPiece
<1>11. k \in Events
  BY <1>8, PieceParts
<1>12. EndingIn(L) = EndingIn(M)
  BY <1>5, <1>9, EndingHead
<1>13. /\ current.data = <<>> /\ current.content
       /\ \A i \in DOMAIN L : L[i][2] \notin spoilt
  BY <1>1, <1>5, <1>9 DEF ReadSoFar
<1>14. 1 \in DOMAIN L /\ L[1][2] = k
  BY <1>8
<1> HIDE DEF M, k, L
<1>15. StreamTypes' /\ StreamRises' /\ LogIsTrue'
  <2> DEFINE R == {k}
  <2>1. R \in SUBSET Events /\ spoilt' = spoilt \union R
    BY <1>2, <1>9, <1>11
  <2>2. \A x \in R : \E j \in DOMAIN L : x = L[j][2]
    BY <1>14
  <2>3. \A i \in DOMAIN M : \E j \in DOMAIN L : M[i] = L[j]
    BY <1>8
  <2>4. Only(EndingIn(M), Events \ spoilt') = Only(EndingIn(L), Events \ spoilt')
    BY <1>12
  <2>5. <<>> \in Seq(Pieces)
    OBVIOUS
  <2> HIDE DEF R
  <2> QED BY <1>2, <1>3, <1>6, <1>8, <2>1, <2>2, <2>3, <2>4, <2>5, LossStep DEF L
<1>16. ReadSoFar'
  <2>1. \A i \in DOMAIN M : M[i][2] \in spoilt' => M[i][2] = k
    <3> SUFFICES ASSUME NEW i \in DOMAIN M, M[i][2] \in spoilt' PROVE M[i][2] = k
      OBVIOUS
    <3>1. M[i][2] \notin spoilt
      BY <1>8, <1>13
    <3> QED BY <1>2, <1>9, <3>1
  <2>2. k \in spoilt'
    BY <1>2, <1>9
  <2> QED BY <1>2, <1>6, <1>10, <1>13, <2>1, <2>2 DEF ReadSoFar
<1> QED BY <1>15, <1>16 DEF StreamIsRight

LEMMA CutOffStep == ASSUME StreamIsRight, NEW x \in {"off", "dialling"}, CutOff(x), taken' = taken
                    PROVE  StreamIsRight'
<1> DEFINE L == Unread
           R == Range(Remaining)
           n == <<>>
<1>1. StreamTypes /\ StreamRises
  BY DEF StreamIsRight
<1>2. /\ sse' = x /\ current' = NoEvent /\ incoming' = n /\ owed' = n
      /\ spoilt' = spoilt \union R /\ due' = due /\ log' = log
  BY DEF CutOff
<1>3. incoming \in Seq(Pieces) /\ owed \in Seq(Pieces) /\ spoilt \in SUBSET Events
  BY <1>1 DEF StreamTypes
<1>4. L \in Seq(Pieces) /\ Remaining = EndingIn(L)
  BY <1>3, RemainingIs
<1>5. /\ EndingIn(L) \in Seq(Events)
      /\ \A k \in DOMAIN EndingIn(L) : \E i \in DOMAIN L : EndingIn(L)[k] = L[i][2]
  BY <1>4, EndingMembers
<1> HIDE DEF L
<1>6. R \in SUBSET Events /\ \A y \in R : \E j \in DOMAIN L : y = L[j][2]
  BY <1>4, <1>5 DEF Range
<1>7. n \in Seq(Pieces) /\ n \in Seq(Events) /\ DOMAIN n = {} /\ Unread' = n
  BY <1>2 DEF Unread
<1>8. RisingEvents(n) /\ WholeEvents(n)
  BY <1>7 DEF RisingEvents, WholeEvents
<1>9. Only(EndingIn(n), Events \ spoilt') = Only(EndingIn(L), Events \ spoilt')
  <2>1. EndingIn(n) = n
    <3>1. <<"event", 1>> \in Pieces
      BY MaxSamplesAssumption DEF Pieces, Events
    <3> QED BY <3>1, EndingOne
  <2> DEFINE t == EndingIn(L)
             S == Events \ spoilt'
  <2>2. t \in Seq(Events) /\ \A i \in 1..Len(t) : t[i] \notin S
    <3>1. \A i \in DOMAIN t : t[i] \in R
      BY <1>4 DEF Range
    <3>2. t \in Seq(Events)
      BY <1>5
    <3> QED BY <1>2, <3>1, <3>2
  <2>3. n \in Seq(Events) /\ \A i \in 1..Len(n) : n[i] \notin S
    BY <1>7
  <2> HIDE DEF t, S, n
  <2>4. Only(t, S) = <<>>
    BY <2>2, OnlyNone
  <2>5. Only(n, S) = <<>>
    BY <2>3, OnlyNone
  <2> QED BY <2>1, <2>4, <2>5 DEF t, S
<1> HIDE DEF R, n
<1>10. StreamTypes' /\ StreamRises' /\ LogIsTrue'
  <2>1. \A i \in DOMAIN n : \E j \in DOMAIN L : n[i] = L[j]
    BY <1>7
  <2>2. sse' \in {"off", "dialling", "reading"}
    BY <1>2
  <2> QED BY <1>2, <1>6, <1>7, <1>8, <1>9, <2>1, <2>2, LossStep DEF L
<1>11. ReadSoFar'
  BY <1>2, <1>7 DEF ReadSoFar, NoEvent, n
<1> QED BY <1>10, <1>11 DEF StreamIsRight

-----------------------------------------------------------------------------
(* ZenohRest: the steps.                                                   *)

LEMMA JoinThree ==
    ASSUME NEW g \in Seq(Events), NEW u \in Seq(Events), NEW o \in Seq(Events)
    PROVE  (g \o u) \o o = g \o (u \o o)
  BY JoinIsAssociative

\* zenohd takes a sample, and owes the reader an event, or has none.
LEMMA TakenInStep ==
    ASSUME TakenInv, StreamIsRight, (requested # 0 /\ ~served) \/ givenUp # 0,
           NEW m, TakenIn(m), UNCHANGED <<sse, incoming, current, log, spoilt>>
    PROVE  StreamIsRight'
<1> DEFINE L == Unread
           k == Len(taken) + 1
           M == L \o EventLines(k)
<1>1. StreamTypes /\ StreamRises /\ ReadSoFar /\ LogIsTrue
  BY DEF StreamIsRight
<1>2. Len(taken) \in Nat /\ k \in Events
  BY RoomForIt
<1>3. /\ taken' = Append(taken, m)
      /\ \/ due' = Append(due, k) /\ owed' = owed \o EventLines(k)
         \/ due' = due /\ owed' = owed
  BY DEF TakenIn
<1>4. Len(taken') = Len(taken) + 1
  <2>1. taken \in Seq(Nat)
    BY DEF TakenInv, PutInv, PutTypes
  <2> QED BY <1>3, <2>1
<1>5. /\ incoming \in Seq(Pieces) /\ owed \in Seq(Pieces) /\ log \in Seq(Events)
      /\ due \in Seq(Events) /\ spoilt \in SUBSET Events
  BY <1>1 DEF StreamTypes
<1>6. L \in Seq(Pieces) /\ EndingIn(L) \in Seq(Events)
  BY <1>5, RemainingIs, EndingMembers
<1>7. /\ RisingEvents(L) /\ WholeEvents(L)
      /\ \A i \in DOMAIN L : L[i][2] <= Len(taken)
      /\ \A j \in DOMAIN log : log[j] <= Len(taken)
      /\ \A y \in spoilt : y <= Len(taken)
      /\ \A j \in DOMAIN log : \A i \in DOMAIN L : log[j] < L[i][2]
  BY <1>1 DEF StreamRises
<1>8. \A y \in Events : y \in Nat
  BY MaxSamplesAssumption DEF Events
<1>9. /\ \A i \in DOMAIN L : L[i][2] < k /\ L[i][2] <= Len(taken')
      /\ \A j \in DOMAIN log : log[j] < k /\ log[j] <= Len(taken')
      /\ \A y \in spoilt : y < k /\ y <= Len(taken')
  <2>1. ASSUME NEW y \in Events, y <= Len(taken) PROVE y < k /\ y <= Len(taken')
    BY <1>2, <1>4, <1>8, <2>1
  <2>2. \A i \in DOMAIN L : L[i] \in Pieces
    BY <1>6
  <2>3. \A i \in DOMAIN L : L[i][2] \in Events
    BY <2>2, PieceParts
  <2>4. \A j \in DOMAIN log : log[j] \in Events
    BY <1>5
  <2> HIDE DEF k, L
  <2> QED BY <1>5, <1>7, <2>1, <2>3, <2>4
<1>10. CASE due' = due /\ owed' = owed
  <2>1. Unread' = L
    BY <1>10 DEF Unread
  <2>2. StreamTypes'
    BY <1>1, <1>10 DEF StreamTypes
  <2>3. StreamRises'
    <3> HIDE DEF L
    <3> QED BY <1>7, <1>9, <2>1 DEF StreamRises, RisingEvents, WholeEvents
  <2>4. ReadSoFar'
    BY <1>1, <2>1 DEF ReadSoFar
  <2>5. LogIsTrue'
    BY <1>1, <1>10, <2>1 DEF LogIsTrue, Unspoilt
  <2> QED BY <2>2, <2>3, <2>4, <2>5 DEF StreamIsRight
<1>11. CASE due' = Append(due, k) /\ owed' = owed \o EventLines(k)
  <2>1. EventLines(k) \in Seq(Pieces) /\ EndingIn(EventLines(k)) = <<k>>
    BY <1>2, EndingOfEvent
  <2>2. \A i \in DOMAIN L : L[i][2] < k
    BY <1>9
  <2> HIDE DEF L, k
  <2>3. /\ M \in Seq(Pieces) /\ RisingEvents(M) /\ WholeEvents(M)
        /\ \A i \in DOMAIN M : (i \in DOMAIN L /\ M[i] = L[i]) \/ M[i][2] = k
        /\ L = <<>> => M[1] = <<"event", k>>
        /\ M # <<>>
    BY <1>2, <1>6, <1>7, <2>2, OneMoreEvent
  <2>4. Unread' = M
    <3>1. (incoming \o owed) \o EventLines(k) = incoming \o (owed \o EventLines(k))
      BY <1>5, <2>1, JoinIsAssociative
    <3> QED BY <1>11, <3>1 DEF Unread, L
  <2>5. L # <<>> => 1 \in DOMAIN L /\ M[1] = L[1]
    <3> SUFFICES ASSUME L # <<>> PROVE 1 \in DOMAIN L /\ M[1] = L[1]
      OBVIOUS
    <3> QED BY <1>6, <2>1, TailOfJoin
  <2>6. EndingIn(M) = EndingIn(L) \o <<k>>
    BY <1>6, <2>1, EndingJoin
  <2>7. <<k>> \in Seq(Events) /\ k \notin spoilt /\ k \in Nat
    <3>1. k \notin spoilt
      <4> SUFFICES ASSUME k \in spoilt PROVE FALSE
        OBVIOUS
      <4>1. k < k
        BY <1>9
      <4> QED BY <1>2, <1>8, <4>1
    <3> QED BY <1>2, <1>8, <3>1
  <2>8. StreamTypes'
    <3>1. due' \in Seq(Events) /\ owed' \in Seq(Pieces)
      BY <1>2, <1>5, <1>11, <2>1, JoinTyped
    <3> QED BY <1>1, <3>1 DEF StreamTypes
  <2> HIDE DEF M
  <2>9. StreamRises'
    <3>1. \A i \in DOMAIN M : M[i][2] <= Len(taken')
      <4>1. k = Len(taken')
        BY <1>4 DEF k
      <4> QED BY <1>9, <2>3, <2>7, <4>1
    <3>2. \A j \in DOMAIN log : \A i \in DOMAIN M : log[j] < M[i][2]
      BY <1>7, <1>9, <2>3 DEF L
    <3> QED BY <1>9, <2>3, <2>4, <3>1, <3>2 DEF StreamRises, RisingEvents, WholeEvents
  <2>10. ReadSoFar'
    <3>1. CASE L = <<>>
      <4>1. current.data = <<>>
        BY <1>1, <3>1 DEF ReadSoFar, L
      <4>2. M[1][1] = "event"
        BY <2>3, <3>1
      <4>3. \A i \in DOMAIN M : M[i][2] = k
        BY <2>3, <3>1
      <4> QED BY <2>3, <2>4, <2>7, <4>1, <4>2, <4>3 DEF ReadSoFar
    <3>2. CASE L # <<>>
      <4>1. M[1] = L[1]
        BY <2>5, <3>2
      <4>2. /\ L[1][1] # "blank" => current.data = <<>>
            /\ L[1][1] # "event" => current.content
            /\ L[1][1] = "data2" => L[1][2] \in spoilt
            /\ L[1][1] = "blank" =>
                  current.data = IF L[1][2] \in spoilt THEN <<>> ELSE <<L[1][2]>>
            /\ \A i \in DOMAIN L : L[i][2] \in spoilt =>
                  L[i][2] = L[1][2] /\ L[1][1] \in {"data2", "blank"}
        BY <1>1, <3>2 DEF ReadSoFar, L
      <4>3. \A i \in DOMAIN M : M[i][2] \in spoilt =>
                  M[i][2] = L[1][2] /\ L[1][1] \in {"data2", "blank"}
        BY <2>3, <2>7, <4>2
      <4> QED BY <2>3, <2>4, <4>1, <4>2, <4>3 DEF ReadSoFar
    <3> QED BY <3>1, <3>2
  <2>11. LogIsTrue'
    <3> DEFINE t == EndingIn(L)
               o == <<k>>
               S == Events \ spoilt
    <3>1. t \in Seq(Events) /\ o \in Seq(Events) /\ EndingIn(M) = t \o o
      BY <1>6, <2>6, <2>7
    <3>2. due' = due \o o
      BY <1>2, <1>5, <1>11
    <3>3. Only(o, S) = o
      BY <1>2, <2>7, UnspoiltOne DEF Unspoilt
    <3>4. log \o Only(t, S) = Only(due, S)
      BY <1>1 DEF LogIsTrue, Unspoilt, L
    <3> HIDE DEF t, o, S
    <3>5. log \in Seq(Events) /\ due \in Seq(Events)
      BY <1>5
    <3>6. t \in Seq(Events) /\ o \in Seq(Events)
      BY <3>1
    <3>7. log \o Only(t \o o, S) = Only(due \o o, S)
      <4> DEFINE u == Only(t, S)
      <4>1. /\ Only(t \o o, S) = u \o Only(o, S)
            /\ Only(due \o o, S) = Only(due, S) \o Only(o, S)
            /\ u \in Seq(Events)
        <5>1. Only(t \o o, S) = u \o Only(o, S)
          BY <3>6, OnlyJoin
        <5>2. Only(due \o o, S) = Only(due, S) \o Only(o, S)
          BY <3>5, <3>6, OnlyJoin
        <5>3. u \in Seq(Events)
          BY <3>6, OnlyMembers
        <5> HIDE DEF u
        <5> QED BY <5>1, <5>2, <5>3
      <4> HIDE DEF u
      <4>2. (log \o u) \o o = log \o (u \o o)
        BY <3>5, <3>6, <4>1, JoinThree
      <4>3. Only(t \o o, S) = u \o o
        BY <3>3, <4>1, Zenon
      <4>4. Only(due \o o, S) = (log \o u) \o o
        BY <3>3, <3>4, <4>1, Zenon DEF u
      <4> QED BY <4>2, <4>3, <4>4, Zenon
    <3>8. log \o Only(EndingIn(M), S) = Only(due', S)
      BY <3>1, <3>2, <3>7
    <3> QED BY <2>4, <3>8 DEF LogIsTrue, Unspoilt, S
  <2> QED BY <2>8, <2>9, <2>10, <2>11 DEF StreamIsRight
<1> QED BY <1>3, <1>10, <1>11

\* A piece arrives: it is still to be read.
LEMMA ArriveStep == ASSUME StreamIsRight, Arrive PROVE StreamIsRight'
<1>1. StreamTypes /\ StreamRises /\ ReadSoFar /\ LogIsTrue
  BY DEF StreamIsRight
<1>2. /\ owed # <<>> /\ incoming' = Append(incoming, Head(owed)) /\ owed' = Tail(owed)
      /\ due' = due /\ log' = log /\ current' = current /\ spoilt' = spoilt /\ sse' = sse
      /\ taken' = taken
  BY DEF Arrive, putState
<1>3. incoming \in Seq(Pieces) /\ owed \in Seq(Pieces)
  BY <1>1 DEF StreamTypes
<1>4. Head(owed) \in Pieces /\ Tail(owed) \in Seq(Pieces)
  BY <1>2, <1>3, HeadIsTyped
<1>5. incoming' \in Seq(Pieces) /\ owed' \in Seq(Pieces)
  BY <1>2, <1>3, <1>4
<1>6. Unread' = Unread
  BY <1>2, <1>3, HeadMoves DEF Unread
<1>7. StreamTypes'
  BY <1>1, <1>2, <1>5 DEF StreamTypes
<1>8. StreamRises' /\ ReadSoFar' /\ LogIsTrue'
  BY <1>1, <1>2, <1>6 DEF StreamRises, RisingEvents, WholeEvents, ReadSoFar, LogIsTrue, Unspoilt
<1> QED BY <1>7, <1>8 DEF StreamIsRight

\* Nothing but the reader's state changes.
LEMMA StreamRests ==
    ASSUME StreamIsRight, UNCHANGED <<due, owed, incoming, current, log, spoilt, taken>>,
           sse' \in {"off", "dialling", "reading"}
    PROVE  StreamIsRight'
<1>1. StreamTypes /\ StreamRises /\ ReadSoFar /\ LogIsTrue
  BY DEF StreamIsRight
<1>2. Unread' = Unread
  BY DEF Unread
<1>3. StreamTypes'
  BY <1>1 DEF StreamTypes
<1>4. StreamRises' /\ ReadSoFar' /\ LogIsTrue'
  BY <1>1, <1>2 DEF StreamRises, RisingEvents, WholeEvents, ReadSoFar, LogIsTrue, Unspoilt
<1> QED BY <1>3, <1>4 DEF StreamIsRight

\* Where events may be lost.
LossInv ==
    /\ spoilt # {} => \/ rest.slowStream \/ rest.dies
                      \/ sse = "off" /\ restStage[SseHost] \notin {"down", "launching"}
    /\ restStage[SseHost] = "silent" => zenohd[SseHost] = "ready" \/ rest.dies

RestInv == TakenInv /\ StreamIsRight /\ LossInv

LEMMA RestInitHolds == ZenohRestInit => RestInv
<1> SUFFICES ASSUME ZenohRestInit PROVE RestInv
  OBVIOUS
<1>1. LossInv
  BY DEF ZenohRestInit, LossInv, SseHost, Hosts
<1> QED BY <1>1, TakenInit, StreamInit DEF RestInv

LEMMA StreamStep == TakenInv /\ StreamIsRight /\ [ZenohRestNext]_restVars => StreamIsRight'
<1> SUFFICES ASSUME TakenInv, StreamIsRight, [ZenohRestNext]_restVars PROVE StreamIsRight'
  OBVIOUS
<1>0. sse \in {"off", "dialling", "reading"}
  BY DEF StreamIsRight, StreamTypes
<1>1. CASE \/ StartPut \/ PutAnswered \/ AttemptFails \/ PutFails \/ EndPuts \/ UNCHANGED restVars
  <2>1. UNCHANGED <<due, owed, incoming, current, log, spoilt, taken>> /\ sse' = sse
    BY <1>1 DEF StartPut, PutAnswered, AttemptFails, PutFails, EndPuts, restVars, putState, sseVars
  <2> QED BY <1>0, <2>1, StreamRests
<1>2. CASE Serve
  <2>1. /\ requested # 0 /\ ~served /\ TakenIn(requested)
        /\ UNCHANGED <<sse, incoming, current, log, spoilt>>
    BY <1>2 DEF Serve
  <2> QED BY <2>1, TakenInStep
<1>3. CASE ServeLate
  <2>1. /\ givenUp # 0 /\ TakenIn(givenUp)
        /\ UNCHANGED <<sse, incoming, current, log, spoilt>>
    BY <1>3 DEF ServeLate
  <2> QED BY <2>1, TakenInStep
<1>4. CASE Subscribe
  <2>1. UNCHANGED <<due, owed, incoming, current, log, spoilt, taken>> /\ sse' = "reading"
    BY <1>4 DEF Subscribe, putState
  <2> QED BY <2>1, StreamRests
<1>5. CASE Arrive
  BY <1>5, ArriveStep
<1>6. CASE ReadLine
  BY <1>6, ReadLineStep
<1>7. CASE ReadTimesOut
  BY <1>7, TimeOutStep
<1>8. CASE StreamEnds
  <2>1. CutOff("dialling") /\ taken' = taken
    BY <1>8 DEF StreamEnds, putState
  <2> QED BY <2>1, CutOffStep
<1>9. CASE JoinReader
  <2>1. CutOff("off") /\ taken' = taken
    BY <1>9 DEF JoinReader, putState
  <2> QED BY <2>1, CutOffStep
<1>10. ASSUME NEW n \in Hosts, KillVariant(n) PROVE StreamIsRight'
  <2>1. CASE n = PutHost
    <3>1. UNCHANGED <<due, owed, incoming, current, log, spoilt, taken>> /\ sse' = sse
      BY <1>10, <2>1 DEF KillVariant, sseVars
    <3> QED BY <1>0, <3>1, StreamRests
  <2>2. CASE n # PutHost
    <3>1. CutOff("off") /\ taken' = taken
      BY <1>10, <2>2 DEF KillVariant, putState
    <3> QED BY <3>1, CutOffStep
  <2> QED BY <2>1, <2>2
<1>11. ASSUME NEW n \in Hosts, RestReady(n) PROVE StreamIsRight'
  <2>1. UNCHANGED <<due, owed, incoming, current, log, spoilt, taken>> /\ sse' \in {"dialling", sse}
    BY <1>11 DEF RestReady, putState
  <2> QED BY <1>0, <2>1, StreamRests
<1>12. ASSUME NEW n \in Hosts,
              \/ LaunchSidecar(n) \/ LaunchFails(n) \/ SetStopFlag(n) \/ StopSidecar(n)
              \/ ZenohdDies(n) \/ Reap(n)
       PROVE  StreamIsRight'
  <2>1. UNCHANGED <<due, owed, incoming, current, log, spoilt, taken>> /\ sse' = sse
    BY <1>12 DEF LaunchSidecar, LaunchFails, SetStopFlag, StopSidecar, ZenohdDies, Reap, putState,
       sseVars
  <2> QED BY <1>0, <2>1, StreamRests
<1> QED BY <1>1, <1>2, <1>3, <1>4, <1>5, <1>6, <1>7, <1>8, <1>9, <1>10, <1>11, <1>12
        DEF ZenohRestNext

LEMMA LossStepHolds == TakenInv /\ LossInv /\ [ZenohRestNext]_restVars => LossInv'
<1> SUFFICES ASSUME TakenInv, LossInv, [ZenohRestNext]_restVars PROVE LossInv'
  OBVIOUS
<1>1. restStage \in [Hosts -> HostStages] /\ zenohd \in [Hosts -> SidecarStates]
  BY DEF TakenInv, PutInv, PutTypes
<1>2. /\ SseHost \in Hosts /\ PutHost \in Hosts /\ SseHost # PutHost
      /\ \A n \in Hosts : n # PutHost => n = SseHost
  BY DEF SseHost, PutHost, Hosts
\* Steps that leave the node that reads alone.
<1>3. ASSUME rest' = rest, spoilt' = spoilt, sse' = sse \/ (sse = "dialling" /\ sse' = "reading"),
             restStage'[SseHost] = restStage[SseHost], zenohd'[SseHost] = zenohd[SseHost]
      PROVE  LossInv'
  BY <1>3 DEF LossInv
<1>4. CASE \/ StartPut \/ Serve \/ ServeLate \/ PutAnswered \/ AttemptFails \/ Subscribe
           \/ Arrive \/ ReadLine \/ UNCHANGED restVars
  <2>1. /\ rest' = rest /\ spoilt' = spoilt /\ restStage' = restStage /\ zenohd' = zenohd
        /\ sse' = sse \/ (sse = "dialling" /\ sse' = "reading")
    BY <1>4 DEF StartPut, Serve, ServeLate, PutAnswered, AttemptFails, Subscribe, Arrive, ReadLine,
       restVars, sseVars
  <2> QED BY <1>3, <2>1
<1>5. CASE PutFails \/ EndPuts
  <2>1. /\ rest' = rest /\ spoilt' = spoilt /\ sse' = sse
        /\ \E s : restStage' = [restStage EXCEPT ![PutHost] = s]
        /\ zenohd' = zenohd \/ zenohd' = [zenohd EXCEPT ![PutHost] = "none"]
    BY <1>5 DEF PutFails, EndPuts, GivesUp, RestGoes, ZenohdGoes, sseVars
  <2>2. restStage'[SseHost] = restStage[SseHost] /\ zenohd'[SseHost] = zenohd[SseHost]
    BY <1>1, <1>2, <2>1
  <2> QED BY <1>3, <2>1, <2>2
<1>6. CASE ReadTimesOut
  BY <1>6 DEF ReadTimesOut, LossInv
<1>7. CASE StreamEnds
  <2>1. /\ rest' = rest /\ restStage' = restStage /\ zenohd' = zenohd
        /\ zenohd[SseHost] = "none" /\ restStage[SseHost] = "silent"
    BY <1>7 DEF StreamEnds
  <2>2. rest.dies
    BY <2>1 DEF LossInv
  <2> QED BY <2>1, <2>2 DEF LossInv
<1>8. CASE JoinReader
  BY <1>8 DEF JoinReader, CutOff, LossInv
<1>9. ASSUME NEW n \in Hosts,
             \/ LaunchSidecar(n) \/ RestReady(n) \/ LaunchFails(n) \/ SetStopFlag(n)
             \/ StopSidecar(n) \/ ZenohdDies(n) \/ KillVariant(n) \/ Reap(n)
      PROVE  LossInv'
  <2>0. rest' = rest
    BY <1>9 DEF LaunchSidecar, RestReady, LaunchFails, SetStopFlag, StopSidecar, ZenohdDies,
       KillVariant, Reap
  <2>1. CASE n = PutHost
    <3>1. /\ spoilt' = spoilt /\ sse' = sse
          /\ restStage' = restStage \/ \E s : restStage' = [restStage EXCEPT ![n] = s]
          /\ zenohd' = zenohd \/ \E s : zenohd' = [zenohd EXCEPT ![n] = s]
      BY <1>2, <1>9, <2>1 DEF LaunchSidecar, RestReady, LaunchFails, SetStopFlag, StopSidecar, ZenohdDies,
         KillVariant, Reap, RestGoes, ZenohdGoes, sseVars
    <3>2. restStage'[SseHost] = restStage[SseHost] /\ zenohd'[SseHost] = zenohd[SseHost]
      BY <1>1, <1>2, <2>1, <3>1
    <3> QED BY <1>3, <2>0, <3>1, <3>2
  <2>2. CASE n = SseHost
    <3>1. CASE LaunchFails(n) \/ ZenohdDies(n) \/ KillVariant(n)
      <4>1. rest.dies
        BY <3>1 DEF LaunchFails, ZenohdDies, KillVariant
      <4> QED BY <2>0, <4>1 DEF LossInv
    <3>2. CASE LaunchSidecar(n)
      <4>1. /\ restStage[n] = "down" /\ restStage'[n] = "launching" /\ spoilt' = spoilt /\ sse' = sse
        BY <1>1, <3>2 DEF LaunchSidecar, RestGoes, sseVars
      <4> QED BY <2>0, <2>2, <4>1 DEF LossInv
    <3>3. CASE RestReady(n)
      <4>1. /\ restStage[n] = "launching" /\ zenohd'[n] = "ready" /\ spoilt' = spoilt
        BY <1>1, <3>3 DEF RestReady, ZenohdGoes
      <4> QED BY <2>0, <2>2, <4>1 DEF LossInv
    <3>4. CASE SetStopFlag(n) \/ StopSidecar(n)
      <4>1. /\ restStage'[n] \in {"stopping", "left"} /\ spoilt' = spoilt /\ sse' = sse
        BY <1>1, <3>4 DEF SetStopFlag, StopSidecar, RestGoes, sseVars
      <4> QED BY <2>0, <2>2, <4>1 DEF LossInv
    <3>5. CASE Reap(n)
      <4>1. /\ restStage[n] = "failed" /\ restStage' = restStage /\ spoilt' = spoilt /\ sse' = sse
        BY <3>5 DEF Reap, sseVars
      <4> QED BY <2>0, <2>2, <4>1 DEF LossInv
    <3> QED BY <1>9, <3>1, <3>2, <3>3, <3>4, <3>5
  <2> QED BY <1>2, <2>1, <2>2
<1> QED BY <1>4, <1>5, <1>6, <1>7, <1>8, <1>9 DEF ZenohRestNext

LEMMA RestStep == RestInv /\ [ZenohRestNext]_restVars => RestInv'
BY TakenStep, StreamStep, LossStepHolds DEF RestInv

LEMMA RestInvImplies == RestInv => DamageIsLocal
<1> SUFFICES ASSUME RestInv PROVE DamageIsLocal
  OBVIOUS
<1>1. StreamTypes /\ LogIsTrue /\ LossInv
  BY DEF RestInv, StreamIsRight
<1>2. Remaining = EndingIn(Unread)
  BY <1>1, RemainingIs DEF StreamTypes
<1>3. log \o Unspoilt(Remaining) = Unspoilt(due)
  BY <1>1, <1>2 DEF LogIsTrue
<1>4. spoilt # {} => rest.slowStream \/ rest.dies \/ sse = "off"
  BY <1>1 DEF LossInv
<1> QED BY <1>3, <1>4 DEF DamageIsLocal

LEMMA RestInvariant == VariantsSpec => []RestInv
<1>1. VariantsInit => RestInv
  <2>1. VariantsInit => ZenohRestInit
    BY DEF VariantsInit, ZenohRestRests
  <2> QED BY <2>1, RestInitHolds
<1>2. [VariantsNext]_variantsVars => [ZenohRestNext]_restVars
  BY DEF VariantsNext, variantsVars, UdpPart, WsPart, HybridPart, CastPart, QuicPart, RtcPart,
     ZenohPart, ZenohdPart, RecordingPart
<1> QED BY <1>1, <1>2, RestStep, PTL DEF VariantsSpec

(* zenoh in Single mode: the log is the stream but for the events whose data line
   was cut by a timeout or that went down with a connection, and nothing is
   lost where neither the stream stalls nor anything dies (SseParser::feed_line,
   sse_reader_loop): for any number of samples and however their lines come in pieces. *)
THEOREM DamageStaysLocal == VariantsSpec => []DamageIsLocal
BY RestInvariant, RestInvImplies, PTL
=============================================================================
