--------------------------- MODULE TransportProofs ---------------------------
(***************************************************************************)
(* Proofs about the streams of quic and zenoh, for any number of messages  *)
(* and every size of the queues, windows and channels; and about the       *)
(* streams of all variants together.                                       *)
(*                                                                         *)
(* Quic: ReliableStreamsHold.  What r has received of w and what is in the *)
(* places on its way there make, joined with what the send loop has still  *)
(* to write to r, 1, 2, ... up to the last message w has issued.  The send *)
(* loop has written its frame to the connections before its slot.  w ends  *)
(* a stream after it has written all, and waits until the end is           *)
(* acknowledged: hence what it has not left behind is all there.           *)
(*                                                                         *)
(* Zenoh: ZenohStreamsHold.  At QoS 3 and 4 one put is awaited at a time,  *)
(* so that log, FIFO, link, put and bridge are, joined, the messages that  *)
(* were tried less those that were missed.  A step moves the head of one   *)
(* place to the end of the one before, adds a number at the end, or takes  *)
(* one out for good.                                                       *)
(*                                                                         *)
(* VariantsMC: StreamsHold, the streams of all variants.                   *)
(***************************************************************************)
EXTENDS StreamProofs

-----------------------------------------------------------------------------
(* Quic.                                                                   *)

\* The state as functions.
QuicShapes ==
    /\ quic \in QuicSpawns
    /\ life \in [QuicNames -> Up \union {"down", "left"}]
    /\ pause \in [QuicNames -> {"publish", "drain"}]
    /\ issued \in [QuicNames -> 0..MaxIssued] /\ hasPolled \in [QuicNames -> BOOLEAN]
    /\ dialled \in [QuicNames -> SUBSET QuicNames] /\ conns \in [QuicNames -> Seq(QuicNames)]
    /\ sendQueue \in [QuicNames -> Seq(Issues)]
    /\ frame \in [QuicNames -> Issues \union {0}] /\ slot \in [QuicNames -> Nat \ {0}]
    /\ cut \in [QuicNames -> SUBSET QuicNames]
    /\ unsent \in [QuicNames -> [QuicNames -> Seq(Issues)]]
    /\ unread \in [QuicNames -> [QuicNames -> Seq(Issues)]]
    /\ hand \in [QuicNames -> [QuicNames -> Issues \union {0}]]
    /\ channel \in [QuicNames -> Seq(Tagged(QuicNames, Issues))]
    /\ pending \in [QuicNames -> Seq(Tagged(QuicNames, Issues))]
    /\ \A n \in QuicNames : Len(pending[n]) <= PendingCap
    /\ seen \in [QuicNames -> [QuicNames -> Seq(Issues)]]
    /\ evicted \subseteq QuicNames \X QuicNames \X Issues

\* The connections of a node are to different peers, none to itself, and as long
\* as it dials, none to one that it has not dialled.
LinesOf(n) ==
    /\ \A i \in DOMAIN conns[n] : conns[n][i] \in dialled[n]
    /\ \A i, j \in DOMAIN conns[n] : conns[n][i] = conns[n][j] => i = j
    /\ dialled[n] \subseteq quic.names \ {n}

\* How far the process, its driver and its send loop are.
QuicDue == quic.ticks * quic.values
StageOf(n) ==
    /\ life[n] \in {"down", "dialling"} => issued[n] = 0
    /\ life[n] = "operate" =>
        n \in quic.writers /\ issued[n] <= QuicDue /\ (pause[n] = "publish" => issued[n] < QuicDue)
    /\ life[n] \in {"silent", "draining", "finishing", "left"} /\ n \in quic.writers =>
        issued[n] = QuicDue
    /\ life[n] \in {"finishing", "left"} => sendQueue[n] = <<>> /\ frame[n] = 0
    /\ frame[n] # 0 => slot[n] <= Len(conns[n])
    /\ life[n] \notin {"finishing", "left"} /\ frame[n] = 0 => slot[n] = 1
    /\ life[n] \in {"down", "dialling"} => frame[n] = 0 /\ sendQueue[n] = <<>>
    /\ life[n] = "left" => slot[n] > Len(conns[n])

\* The end of the stream was acknowledged, on the connections that were waited for.
EndIsKnown(w) ==
    life[w] \in {"finishing", "left"} =>
        \A i \in DOMAIN conns[w] :
            i < slot[w] /\ conns[w][i] \notin cut[w] /\ life[conns[w][i]] # "left" =>
                unsent[w][conns[w][i]] = <<>>

\* What r has received of w, what is on its way there and what is still to be
\* written: all that was published, as long as w is there.
ComesWhole(w, r) ==
    /\ r \notin Connected(w) => Arriving(w, r) = <<>>
    /\ r \in Connected(w) /\ life[w] # "left" =>
        Arriving(w, r) \o Unwritten(w, r) = FirstOnes(issued[w])
    /\ r \in Connected(w) /\ life[w] = "left" =>
        /\ Arriving(w, r) = FirstOnes(Len(Arriving(w, r)))
        /\ w \in quic.writers /\ r \notin cut[w] => Len(Arriving(w, r)) = QuicDue
    /\ life[w] = "left" => unsent[w][r] = <<>>

QuicStages == \A n \in quic.names : LinesOf(n) /\ StageOf(n)

QuicFlows ==
    quic.reliable =>
        /\ \A n \in quic.names : EndIsKnown(n)
        /\ \A w, r \in quic.names : w # r /\ life[r] # "left" => ComesWhole(w, r)

QuicInv == QuicShapes /\ QuicStages /\ QuicFlows

LEMMA MultipleLeavesNothing ==
    ASSUME NEW k \in Nat, NEW v \in Nat \ {0}
    PROVE  (k * v) % v = 0
<1> DEFINE a == k * v
           q == a \div v
           m == a % v
<1>1. a \in Nat /\ v \in Nat /\ v > 0
  OBVIOUS
<1>2. q \in Int /\ m \in Nat /\ m < v /\ a = v * q + m
  <2> HIDE DEF a
  <2> QED BY <1>1
<1> HIDE DEF q, m
<1>3. q >= 0
  <2>1. ASSUME q < 0 PROVE FALSE
    <3> DEFINE d == 0 - q
    <3>1. d \in Nat /\ d >= 1 /\ q = 0 - d
      BY <1>2, <2>1
    <3> HIDE DEF d
    <3>2. v * (0 - d) = 0 - v * d /\ v * d >= v
      <4>1. v * (0 - d) = 0 - v * d
        BY <1>1, <3>1
      <4>2. 1 * v <= d * v /\ d * v = v * d /\ 1 * v = v
        BY <1>1, <3>1, NoMoreThanProduct
      <4> QED BY <1>1, <3>1, <4>1, <4>2
    <3> HIDE DEF a
    <3> QED BY <1>1, <1>2, <3>1, <3>2
  <2> QED BY <1>2, <2>1
<1>4. q \in Nat /\ v * q = q * v
  BY <1>1, <1>2, <1>3
<1>5. q * v <= k * v /\ k * v < q * v + v
  BY <1>1, <1>2, <1>4
<1>6. ASSUME k < q PROVE FALSE
  <2>2. (k + 1) * v = k * v + v
    BY <1>1, <1>4
  <2>3. k + 1 \in Nat /\ k + 1 <= q
    BY <1>4, <1>6
  <2> DEFINE x == k + 1
  <2>4. x \in Nat /\ x <= q /\ x * v = k * v + v
    BY <2>2, <2>3
  <2> HIDE DEF x
  <2>5. x * v <= q * v
    BY <1>1, <1>4, <2>4, NoMoreThanProduct
  <2> DEFINE kv == k * v
             qv == q * v
             xv == x * v
  <2>6. kv \in Nat /\ qv \in Nat /\ qv <= kv /\ kv < qv + v /\ xv <= qv /\ xv = kv + v
    BY <1>1, <1>4, <1>5, <2>4, <2>5
  <2> HIDE DEF kv, qv, xv
  <2> QED BY <1>1, <2>6
<1>7. ASSUME q < k PROVE FALSE
  <2>2. (q + 1) * v = q * v + v
    BY <1>1, <1>4
  <2>3. q + 1 \in Nat /\ q + 1 <= k
    BY <1>4, <1>7
  <2> DEFINE x == q + 1
  <2>4. x \in Nat /\ x <= k /\ x * v = q * v + v
    BY <2>2, <2>3
  <2> HIDE DEF x
  <2>5. x * v <= k * v
    BY <1>1, <1>4, <2>4, NoMoreThanProduct
  <2> DEFINE kv == k * v
             qv == q * v
             xv == x * v
  <2>6. kv \in Nat /\ qv \in Nat /\ qv <= kv /\ kv < qv + v /\ xv <= kv /\ xv = qv + v
    BY <1>1, <1>4, <1>5, <2>4, <2>5
  <2> HIDE DEF kv, qv, xv
  <2> QED BY <1>1, <2>6
<1>n. q \in Nat
  BY <1>4
<1> HIDE DEF a
<1>8. k = q
  <2>1. k < q \/ q < k \/ k = q
    BY <1>n
  <2> QED BY <1>6, <1>7, <2>1
<1>9. a = k * v /\ v * k = k * v
  BY DEF a
<1>10. m = 0
  <2> DEFINE kv == k * v
             vq == v * q
  <2>1. kv \in Nat /\ a = kv /\ vq = kv /\ a = vq + m /\ m \in Nat
    BY <1>2, <1>8, <1>9
  <2> HIDE DEF kv, vq
  <2> QED BY <2>1
<1> QED BY <1>10 DEF m, a

LEMMA QuSetting ==
    ASSUME QuicShapes
    PROVE  /\ quic.names \subseteq QuicNames /\ quic.writers \subseteq quic.names
           /\ quic.values \in Nat \ {0} /\ quic.ticks \in Nat \ {0}
           /\ QuicDue \in Nat \ {0} /\ QuicDue <= MaxIssued /\ QuicDue % quic.values = 0
           /\ MaxIssued \in Nat /\ SendRoom \in Nat \ {0}
           /\ QuicNames \subseteq Nat \ {0} /\ IsFiniteSet(QuicNames)
<1>1. /\ quic.names \subseteq QuicNames /\ quic.writers \subseteq quic.names
      /\ quic.values \in Nat \ {0} /\ quic.ticks \in Nat \ {0}
      /\ quic.ticks * quic.values <= MaxIssued
  BY QuicSpawnsAssumption DEF QuicShapes
<1>2. QuicDue % quic.values = 0
  BY <1>1, MultipleLeavesNothing DEF QuicDue
<1>3. 1 * quic.values <= quic.ticks * quic.values
  BY <1>1, NoMoreThanProduct
<1>4. QuicDue \in Nat \ {0}
  BY <1>1, <1>3 DEF QuicDue
<1> QED BY <1>1, <1>2, <1>4, QuicBoundAssumption, QuicNamesAssumption DEF QuicDue

LEMMA QuRow ==
    ASSUME QuicShapes, NEW n \in QuicNames
    PROVE  /\ issued[n] \in Nat /\ conns[n] \in Seq(QuicNames) /\ dialled[n] \in SUBSET QuicNames
           /\ sendQueue[n] \in Seq(Issues) /\ frame[n] \in Issues \union {0} /\ slot[n] \in Nat \ {0}
           /\ cut[n] \in SUBSET QuicNames /\ Len(conns[n]) \in Nat
           /\ channel[n] \in Seq(Tagged(QuicNames, Issues))
           /\ pending[n] \in Seq(Tagged(QuicNames, Issues))
           /\ \A m \in QuicNames :
                /\ unsent[n][m] \in Seq(Issues) /\ unread[n][m] \in Seq(Issues)
                /\ hand[n][m] \in Issues \union {0} /\ seen[n][m] \in Seq(Issues)
<1>1. issued[n] \in Nat
  BY QuSetting DEF QuicShapes
<1>2. /\ conns[n] \in Seq(QuicNames) /\ dialled[n] \in SUBSET QuicNames
      /\ sendQueue[n] \in Seq(Issues) /\ frame[n] \in Issues \union {0} /\ slot[n] \in Nat \ {0}
      /\ cut[n] \in SUBSET QuicNames
      /\ channel[n] \in Seq(Tagged(QuicNames, Issues))
      /\ pending[n] \in Seq(Tagged(QuicNames, Issues))
  BY DEF QuicShapes
<1>3. \A m \in QuicNames : /\ unsent[n][m] \in Seq(Issues) /\ unread[n][m] \in Seq(Issues)
                           /\ hand[n][m] \in Issues \union {0} /\ seen[n][m] \in Seq(Issues)
  BY DEF QuicShapes
<1> QED BY <1>1, <1>2, <1>3

\* The peers are dialled in the order of their names, each once.
LEMMA NextIsUndialled ==
    ASSUME QuicShapes, NEW n \in quic.names, Undialled(n) # {}
    PROVE  NextPeer(n) \in quic.names \ {n} /\ NextPeer(n) \notin dialled[n]
<1>1. Undialled(n) \in SUBSET Nat
  BY QuSetting DEF Undialled, Others
<1>2. \E p \in Undialled(n) : \A q \in Undialled(n) : p <= q
  BY <1>1, LeastPlaceExists
<1>3. NextPeer(n) \in Undialled(n)
  BY <1>2 DEF NextPeer
<1> QED BY <1>3 DEF Undialled, Others

LEMMA PieceTyped ==
    ASSUME NEW T, NEW s \in Seq(T), NEW m \in 0..Len(s)
    PROVE  /\ SubSeq(s, 1, m) \in Seq(T) /\ SubSeq(s, m + 1, Len(s)) \in Seq(T)
           /\ SubSeq(s, 1, m) \o SubSeq(s, m + 1, Len(s)) = s
<1> DEFINE n == Len(s)
           a == SubSeq(s, 1, m)
           b == SubSeq(s, m + 1, n)
<1>1. n \in Nat /\ m \in Nat /\ m <= n
  OBVIOUS
<1>2. a \in Seq(T) /\ Len(a) = m /\ \A i \in 1..m : a[i] = s[i]
  BY <1>1, SubSeqProperties
<1>3. b \in Seq(T) /\ Len(b) = n - m /\ \A i \in 1..n - m : b[i] = s[m + i]
  BY <1>1, SubSeqProperties
<1> HIDE DEF a, b
<1>4. /\ a \o b \in Seq(T) /\ Len(a \o b) = m + (n - m)
      /\ \A i \in 1..m + (n - m) : (a \o b)[i] = IF i <= m THEN a[i] ELSE b[i - m]
  BY <1>2, <1>3, ConcatProperties
<1>5. \A i \in 1..n : (a \o b)[i] = s[i]
  <2> SUFFICES ASSUME NEW i \in 1..n PROVE (a \o b)[i] = s[i]
    OBVIOUS
  <2>1. CASE i <= m
    BY <1>1, <1>2, <1>4, <2>1
  <2>2. CASE ~(i <= m)
    <3>1. i - m \in 1..n - m /\ m + (i - m) = i /\ i \in 1..m + (n - m)
      BY <1>1, <2>2
    <3> QED BY <1>3, <1>4, <2>2, <3>1
  <2> QED BY <2>1, <2>2
<1>6. Len(a \o b) = n
  BY <1>1, <1>4
<1>7. a \o b = s
  BY <1>4, <1>5, <1>6, SeqEqual
<1> QED BY <1>2, <1>3, <1>7 DEF a, b

\* The types, action by action.
LEMMA QuDriverTyped ==
    ASSUME QuicShapes, NEW n \in quic.names, StageOf(n),
           \/ BindEndpoint(n) \/ Dial(n) \/ DialFails(n) \/ EndConnect(n) \/ PublishReliable(n)
           \/ EndDrain(n) \/ EndSilent(n) \/ FinishStreams(n) \/ AwaitStopped(n)
    PROVE  QuicShapes'
<1>0. n \in QuicNames /\ issued[n] \in Nat /\ quic.names \subseteq QuicNames
  BY QuSetting, QuRow
<1>1. CASE BindEndpoint(n) \/ EndConnect(n) \/ EndSilent(n) \/ FinishStreams(n)
  <2>1. life' \in [QuicNames -> Up \union {"down", "left"}]
    BY <1>0, <1>1, Zenon DEF BindEndpoint, EndConnect, EndSilent, FinishStreams, QuicShapes, Up
  <2> QED BY <1>1, <2>1 DEF BindEndpoint, EndConnect, EndSilent, FinishStreams, QuicShapes, loopVars,
          intakeVars
<1>2. CASE Dial(n) \/ DialFails(n)
  <2>1. NextPeer(n) \in QuicNames
    BY <1>0, <1>2, NextIsUndialled DEF Dial, DialFails
  <2>2. dialled' \in [QuicNames -> SUBSET QuicNames]
    <3> DEFINE T == SUBSET QuicNames
               x == dialled[n] \union {NextPeer(n)}
    <3>1. dialled \in [QuicNames -> T] /\ x \in T
      BY <1>0, <2>1 DEF QuicShapes
    <3>2. dialled' = [dialled EXCEPT ![n] = x]
      BY <1>2 DEF Dial, DialFails, Dialled
    <3> HIDE DEF T, x
    <3>3. dialled' \in [QuicNames -> T]
      BY <1>0, <3>1, <3>2, RowTyped
    <3> QED BY <3>3 DEF T
  <2>3. PICK cs \in Seq(QuicNames) : conns' = [conns EXCEPT ![n] = cs]
    <3>1. conns[n] \in Seq(QuicNames)
      BY <1>0, QuRow
    <3>2. Append(conns[n], NextPeer(n)) \in Seq(QuicNames)
      BY <2>1, <3>1, AppendProperties
    <3> QED BY <1>2, <3>1, <3>2 DEF Dial, DialFails, Dialled
  <2>4. conns' \in [QuicNames -> Seq(QuicNames)]
    <3> DEFINE T == Seq(QuicNames)
    <3>1. conns \in [QuicNames -> T] /\ cs \in T
      BY DEF QuicShapes
    <3> HIDE DEF T
    <3>2. conns' \in [QuicNames -> T]
      BY <1>0, <2>3, <3>1, RowTyped
    <3> QED BY <3>2 DEF T
  <2>5. UNCHANGED <<quic, quicDriverVars, sendQueue, loopVars, unsent, unread, intakeVars, evicted>>
    BY <1>2 DEF Dial, DialFails, Dialled
  <2> QED BY <2>2, <2>4, <2>5 DEF QuicShapes, loopVars, intakeVars, quicDriverVars
<1>3. CASE PublishReliable(n)
  <2>1. issued[n] < QuicDue /\ issued[n] + 1 \in Issues /\ issued[n] + 1 \in 0..MaxIssued
    BY <1>0, <1>3, QuSetting DEF PublishReliable, Issue, StageOf, Issues
  <2>2. issued' \in [QuicNames -> 0..MaxIssued] /\ pause' \in [QuicNames -> {"publish", "drain"}]
    BY <1>0, <1>3, <2>1 DEF PublishReliable, Issue, QuicShapes
  <2>3. sendQueue' \in [QuicNames -> Seq(Issues)]
    <3> DEFINE T == Seq(Issues)
               x == Append(sendQueue[n], issued[n] + 1)
    <3>1. sendQueue \in [QuicNames -> T] /\ sendQueue[n] \in Seq(Issues)
      BY <1>0 DEF QuicShapes
    <3>2. x \in T
      BY <2>1, <3>1, AppendProperties
    <3>3. sendQueue' = [sendQueue EXCEPT ![n] = x]
      BY <1>3 DEF PublishReliable
    <3> HIDE DEF T, x
    <3>4. sendQueue' \in [QuicNames -> T]
      BY <1>0, <3>1, <3>2, <3>3, RowTyped
    <3> QED BY <3>4 DEF T
  <2> QED BY <1>3, <2>2, <2>3 DEF PublishReliable, Issue, QuicShapes, loopVars, intakeVars
<1>4. CASE EndDrain(n)
  <2>1. /\ life' \in [QuicNames -> Up \union {"down", "left"}]
        /\ pause' \in [QuicNames -> {"publish", "drain"}]
        /\ hasPolled' \in [QuicNames -> BOOLEAN]
    BY <1>0, <1>4 DEF EndDrain, QuicShapes, Up
  <2> QED BY <1>4, <2>1 DEF EndDrain, QuicShapes, loopVars, intakeVars
<1>5. CASE AwaitStopped(n)
  <2>1. Here(n) \in QuicNames
    <3>1. slot[n] \in Nat \ {0} /\ conns[n] \in Seq(QuicNames) /\ slot[n] <= Len(conns[n])
      BY <1>0, <1>5, QuRow DEF AwaitStopped
    <3> QED BY <3>1 DEF Here
  <2>2. slot' \in [QuicNames -> Nat \ {0}] /\ cut' \in [QuicNames -> SUBSET QuicNames]
    <3>1. slot' \in [QuicNames -> Nat \ {0}]
      <4>2. slot \in [QuicNames -> Nat \ {0}] /\ slot' = [slot EXCEPT ![n] = slot[n] + 1]
        BY <1>5 DEF AwaitStopped, QuicShapes
      <4>3. slot[n] + 1 \in Nat \ {0}
        BY <1>0, QuRow
      <4>1. slot \in [QuicNames -> Nat \ {0}] /\ slot' = [slot EXCEPT ![n] = slot[n] + 1]
            /\ slot[n] + 1 \in Nat \ {0}
        BY <4>2, <4>3
      <4> QED BY <1>0, <4>1, RowTyped
    <3>2. cut' \in [QuicNames -> SUBSET QuicNames]
      <4>1. cut \in [QuicNames -> SUBSET QuicNames]
        BY DEF QuicShapes
      <4>2. cut' = cut \/ cut' = [cut EXCEPT ![n] = cut[n] \union {Here(n)}]
        BY <1>0, <1>5, <4>1 DEF AwaitStopped
      <4> QED BY <1>0, <2>1, <4>1, <4>2
    <3> QED BY <3>1, <3>2
  <2> QED BY <1>5, <2>2 DEF AwaitStopped, QuicShapes, intakeVars, quicDriverVars
<1> QED BY <1>1, <1>2, <1>3, <1>4, <1>5

LEMMA QuDatagramTyped ==
    ASSUME QuicShapes, NEW n \in quic.names, StageOf(n), PublishDatagram(n)
    PROVE  QuicShapes'
<1> DEFINE x == issued[n] + 1
           T == Seq(Issues)
<1>0. n \in QuicNames /\ issued[n] \in Nat /\ quic.names \subseteq QuicNames
      /\ unsent \in [QuicNames -> [QuicNames -> T]] /\ \A p \in QuicNames : unsent[n][p] \in T
  BY QuSetting, QuRow DEF QuicShapes
<1>1. issued[n] < QuicDue /\ x \in Issues /\ x \in 0..MaxIssued
  BY <1>0, QuSetting DEF PublishDatagram, Issue, StageOf, Issues
<1>2. issued' \in [QuicNames -> 0..MaxIssued] /\ pause' \in [QuicNames -> {"publish", "drain"}]
  BY <1>0, <1>1 DEF PublishDatagram, Issue, QuicShapes
<1> DEFINE Crammed(chosen) == {p \in chosen : Len(unsent[n][p]) = SendRoom}
           Grown(chosen, p) == Append(IF p \in Crammed(chosen) THEN Tail(unsent[n][p]) ELSE unsent[n][p], x)
<1>3. PICK chosen \in SUBSET Roomy(n) :
        /\ unsent' = [unsent EXCEPT ![n] = [p \in QuicNames |->
                         IF p \notin chosen THEN unsent[n][p] ELSE Grown(chosen, p)]]
        /\ evicted' = evicted \union {<<n, p, Head(unsent[n][p])>> : p \in Crammed(chosen)}
  BY <1>0 DEF PublishDatagram
<1>4. chosen \in SUBSET QuicNames
  BY <1>0, QuRow DEF Roomy, Connected
<1>5. \A p \in Crammed(chosen) : unsent[n][p] # <<>> /\ p \in QuicNames
  BY <1>0, <1>4, QuSetting
<1> HIDE DEF x, Crammed
<1>6. \A p \in Crammed(chosen) : Head(unsent[n][p]) \in Issues /\ Tail(unsent[n][p]) \in T
  BY <1>0, <1>5, HeadThenTail
<1>7. \A p \in QuicNames : Grown(chosen, p) \in T
  <2> SUFFICES ASSUME NEW p \in QuicNames PROVE Grown(chosen, p) \in T
    OBVIOUS
  <2> DEFINE s == IF p \in Crammed(chosen) THEN Tail(unsent[n][p]) ELSE unsent[n][p]
  <2>1. s \in T
    BY <1>0, <1>6
  <2> HIDE DEF s
  <2>2. Append(s, x) \in T
    BY <1>1, <2>1, AppendProperties
  <2> QED BY <2>2 DEF s
<1>8. unsent' \in [QuicNames -> [QuicNames -> T]]
  <2> HIDE DEF T, Grown
  <2> DEFINE row == [p \in QuicNames |-> IF p \notin chosen THEN unsent[n][p] ELSE Grown(chosen, p)]
             R == [QuicNames -> T]
  <2>1. row \in R /\ unsent \in [QuicNames -> R] /\ unsent' = [unsent EXCEPT ![n] = row]
    BY <1>0, <1>3, <1>7
  <2> HIDE DEF row, R
  <2>2. unsent' \in [QuicNames -> R]
    BY <1>0, <2>1, RowTyped
  <2> QED BY <2>2 DEF R
<1>9. evicted' \subseteq QuicNames \X QuicNames \X Issues
  <2> DEFINE new == {<<n, p, Head(unsent[n][p])>> : p \in Crammed(chosen)}
             box == QuicNames \X QuicNames \X Issues
  <2>1. \A p \in Crammed(chosen) : <<n, p, Head(unsent[n][p])>> \in box
    BY <1>0, <1>5, <1>6
  <2>2. evicted' = evicted \union new /\ evicted \subseteq box
    BY <1>3 DEF QuicShapes
  <2> HIDE DEF box
  <2>3. new \subseteq box
    BY <2>1
  <2> HIDE DEF new
  <2>4. evicted' \subseteq box
    BY <2>2, <2>3
  <2> QED BY <2>4 DEF box
<1> QED BY <1>2, <1>8, <1>9 DEF PublishDatagram, Issue, QuicShapes, loopVars, intakeVars

LEMMA QuLoopTyped ==
    ASSUME QuicShapes, NEW n \in quic.names, StageOf(n), TakeMessage(n) \/ WriteStream(n)
    PROVE  QuicShapes'
<1>0. n \in QuicNames /\ quic.names \subseteq QuicNames
  BY QuSetting
<1>1. CASE TakeMessage(n)
  <2> DEFINE T == Seq(Issues)
             x == Tail(sendQueue[n])
  <2>1. sendQueue[n] # <<>> /\ sendQueue[n] \in T /\ sendQueue \in [QuicNames -> T]
    BY <1>0, <1>1 DEF TakeMessage, QuicShapes
  <2>2. x \in T /\ Head(sendQueue[n]) \in Issues
    BY <2>1, HeadThenTail
  <2>3. sendQueue' = [sendQueue EXCEPT ![n] = x]
    BY <1>1 DEF TakeMessage
  <2>4. frame' \in [QuicNames -> Issues \union {0}]
    BY <1>0, <1>1, <2>2 DEF TakeMessage, QuicShapes
  <2> HIDE DEF T, x
  <2>5. sendQueue' \in [QuicNames -> T]
    BY <1>0, <2>1, <2>2, <2>3, RowTyped
  <2> QED BY <1>1, <2>4, <2>5 DEF TakeMessage, QuicShapes, intakeVars, quicDriverVars, T
<1>2. CASE WriteStream(n)
  <2> DEFINE T == Seq(Issues)
             h == Here(n)
             x == Append(unsent[n][h], frame[n])
  <2>1. /\ slot[n] \in Nat \ {0} /\ conns[n] \in Seq(QuicNames) /\ slot[n] <= Len(conns[n])
        /\ frame[n] \in Issues
    BY <1>0, <1>2, QuRow DEF WriteStream, StageOf
  <2>2. h \in QuicNames
    BY <2>1 DEF Here
  <2>3. unsent \in [QuicNames -> [QuicNames -> T]] /\ unsent[n][h] \in T
    BY <1>0, <2>2 DEF QuicShapes
  <2>4. x \in T
    BY <2>1, <2>3, AppendProperties
  <2>5. unsent' = unsent \/ unsent' = [unsent EXCEPT ![n][h] = x]
    BY <1>2 DEF WriteStream
  <2>6. slot' \in [QuicNames -> Nat \ {0}] /\ frame' \in [QuicNames -> Issues \union {0}]
    <3>1. slot \in [QuicNames -> Nat \ {0}] /\ frame \in [QuicNames -> Issues \union {0}]
      BY DEF QuicShapes
    <3>2. slot' = [slot EXCEPT ![n] = 1] \/ slot' = [slot EXCEPT ![n] = slot[n] + 1]
      BY <1>2 DEF WriteStream
    <3>3. frame' = [frame EXCEPT ![n] = 0] \/ frame' = [frame EXCEPT ![n] = frame[n]]
      BY <1>2 DEF WriteStream
    <3>4. slot[n] + 1 \in Nat \ {0} /\ 1 \in Nat \ {0} /\ 0 \in Issues \union {0}
          /\ frame[n] \in Issues \union {0}
      BY <2>1
    <3>5. slot' \in [QuicNames -> Nat \ {0}]
      BY <1>0, <3>1, <3>2, <3>4, RowTyped
    <3>6. frame' \in [QuicNames -> Issues \union {0}]
      BY <1>0, <3>1, <3>3, <3>4, RowTyped
    <3> QED BY <3>5, <3>6
  <2> HIDE DEF T, h, x
  <2>7. [unsent EXCEPT ![n][h] = x] \in [QuicNames -> [QuicNames -> T]]
    BY <1>0, <2>2, <2>3, <2>4, CellTyped
  <2>8. unsent' \in [QuicNames -> [QuicNames -> T]]
    BY <2>3, <2>5, <2>7
  <2> QED BY <1>2, <2>6, <2>8 DEF WriteStream, QuicShapes, intakeVars, quicDriverVars, T
<1> QED BY <1>1, <1>2

LEMMA QuMovesTyped ==
    ASSUME QuicShapes, NEW w \in quic.names, NEW r \in quic.names,
           Transmit(w, r) \/ ReadReliableStream(r, w) \/ DispatchDecoded(r, w)
    PROVE  QuicShapes'
<1> DEFINE T == Seq(Issues)
<1>0. /\ w \in QuicNames /\ r \in QuicNames
      /\ unsent \in [QuicNames -> [QuicNames -> T]] /\ unsent[w][r] \in T
      /\ unread \in [QuicNames -> [QuicNames -> T]] /\ unread[w][r] \in T
  <2>1. w \in QuicNames /\ r \in QuicNames
    BY QuSetting
  <2>2. unsent \in [QuicNames -> [QuicNames -> T]] /\ unread \in [QuicNames -> [QuicNames -> T]]
    BY DEF QuicShapes
  <2> HIDE DEF T
  <2> QED BY <2>1, <2>2
<1>1. CASE Transmit(w, r)
  <2> DEFINE x == Tail(unsent[w][r])
             y == Append(unread[w][r], Head(unsent[w][r]))
  <2>1. x \in T /\ Head(unsent[w][r]) \in Issues
    BY <1>0, <1>1, HeadThenTail DEF Transmit
  <2>2. y \in T
    BY <1>0, <2>1, AppendProperties
  <2>3. unsent' = [unsent EXCEPT ![w][r] = x]
        /\ (unread' = unread \/ unread' = [unread EXCEPT ![w][r] = y])
    BY <1>1 DEF Transmit
  <2> HIDE DEF T, x, y
  <2>4. [unsent EXCEPT ![w][r] = x] \in [QuicNames -> [QuicNames -> T]]
    BY <1>0, <2>1, CellTyped
  <2>5. [unread EXCEPT ![w][r] = y] \in [QuicNames -> [QuicNames -> T]]
    BY <1>0, <2>2, CellTyped
  <2>6. unsent' \in [QuicNames -> [QuicNames -> T]] /\ unread' \in [QuicNames -> [QuicNames -> T]]
    BY <1>0, <2>3, <2>4, <2>5
  <2> QED BY <1>1, <2>6 DEF Transmit, QuicShapes, intakeVars, quicDriverVars, loopVars, T
<1>2. CASE ReadReliableStream(r, w)
  <2> DEFINE x == Tail(unread[w][r])
             y == Head(unread[w][r])
             K == Issues \union {0}
  <2>1. x \in T /\ y \in K
    BY <1>0, <1>2, HeadThenTail DEF ReadReliableStream
  <2>2. unread' = [unread EXCEPT ![w][r] = x] /\ hand' = [hand EXCEPT ![r][w] = y]
        /\ hand \in [QuicNames -> [QuicNames -> K]]
    BY <1>2 DEF ReadReliableStream, QuicShapes
  <2> HIDE DEF T, x, y, K
  <2>3. [unread EXCEPT ![w][r] = x] \in [QuicNames -> [QuicNames -> T]]
    BY <1>0, <2>1, CellTyped
  <2>4. [hand EXCEPT ![r][w] = y] \in [QuicNames -> [QuicNames -> K]]
    BY <1>0, <2>1, <2>2, CellTyped
  <2> QED BY <1>2, <2>2, <2>3, <2>4 DEF ReadReliableStream, QuicShapes, quicDriverVars, loopVars, T, K
<1>3. CASE DispatchDecoded(r, w)
  <2> DEFINE K == Issues \union {0}
             z == 0
             e == [from |-> w, seq |-> hand[r][w]]
             C == Seq(Tagged(QuicNames, Issues))
             q == Append(channel[r], e)
  <2>1. z \in K /\ hand \in [QuicNames -> [QuicNames -> K]] /\ hand' = [hand EXCEPT ![r][w] = z]
    BY <1>3 DEF DispatchDecoded, QuicShapes
  <2>2. hand[r][w] \in Issues
    BY <1>0, <1>3, QuRow DEF DispatchDecoded
  <2>3. e \in Tagged(QuicNames, Issues) /\ channel[r] \in C /\ channel \in [QuicNames -> C]
    BY <1>0, <2>2 DEF Tagged, QuicShapes
  <2>4. q \in C
    BY <2>3, AppendProperties
  <2>5. channel' = [channel EXCEPT ![r] = q]
    BY <1>3 DEF DispatchDecoded, Forwarded
  <2> HIDE DEF K, z, C, q, e
  <2>6. [hand EXCEPT ![r][w] = z] \in [QuicNames -> [QuicNames -> K]]
    BY <1>0, <2>1, CellTyped
  <2>7. channel' \in [QuicNames -> C]
    BY <1>0, <2>3, <2>4, <2>5, RowTyped
  <2> QED BY <1>3, <2>1, <2>6, <2>7 DEF DispatchDecoded, QuicShapes, quicDriverVars, loopVars, K, C
<1> QED BY <1>1, <1>2, <1>3

LEMMA StrungLong ==
    ASSUME NEW T, NEW a, NEW b, a \in Seq(T) /\ b \in Seq(T)
    PROVE  Len(Strung(a, b)) = Len(a) + Len(b)
BY ConcatProperties DEF Strung

\* What a poll takes, and what it leaves.
LEMMA PollSplits ==
    ASSUME QuicShapes, NEW n \in quic.names, PollReceive(n)
    PROVE  /\ n \in QuicNames
           /\ pending[n] \in Seq(Tagged(QuicNames, Issues))
           /\ channel[n] \in Seq(Tagged(QuicNames, Issues))
           /\ Staged(n) \in Seq(Tagged(QuicNames, Issues)) /\ Staged(n) # <<>>
           /\ Len(Staged(n)) <= PendingCap
           /\ \E remains \in Seq(Tagged(QuicNames, Issues)) :
                /\ channel' = [channel EXCEPT ![n] = remains]
                /\ pending[n] \o channel[n] = Staged(n) \o remains
           /\ pending' = [pending EXCEPT ![n] = Tail(Staged(n))]
           /\ seen' = [seen EXCEPT ![n][Head(Staged(n)).from] = Append(@, Head(Staged(n)).seq)]
<1> DEFINE D == Tagged(QuicNames, Issues)
           p == pending[n]
           c == channel[n]
           m == Pumped(n)
           a == SubSeq(c, 1, m)
           b == SubSeq(c, m + 1, Len(c))
<1>0. n \in QuicNames /\ p \in Seq(D) /\ c \in Seq(D)
  BY QuSetting, QuRow
<1>1. m \in 0..Len(c) /\ m <= PendingCap - Len(p)
  <2>1. Len(p) \in Nat /\ Len(c) \in Nat /\ PendingCap \in Nat
    BY <1>0, QuicBoundAssumption
  <2>2. Len(p) <= PendingCap
    BY <1>0 DEF QuicShapes
  <2> DEFINE i == Len(p)
             j == Len(c)
  <2>3. m = (IF PendingCap - i < j THEN PendingCap - i ELSE j)
    BY DEF Pumped, Headroom
  <2> HIDE DEF i, j, m
  <2>4. i \in Nat /\ j \in Nat /\ PendingCap \in Nat /\ i <= PendingCap
    BY <2>1, <2>2 DEF i, j
  <2>5. m \in 0..j /\ m <= PendingCap - i
    BY <2>3, <2>4
  <2> QED BY <2>5 DEF i, j
<1>2. Staged(n) = p \o a
  BY DEF Staged
<1>3. channel' = [channel EXCEPT ![n] = b]
  BY DEF PollReceive
<1> HIDE DEF p, c, m, D
<1>4. a \in Seq(D) /\ b \in Seq(D) /\ a \o b = c
  BY <1>0, <1>1, PieceTyped
<1>5. Len(a) = m /\ Len(p) + m <= PendingCap
  <2>1. Len(a) = m
    BY <1>0, <1>1, <1>4, SubSeqProperties
  <2>2. Len(p) \in Nat /\ Len(c) \in Nat /\ PendingCap \in Nat
    BY <1>0, QuicBoundAssumption
  <2> QED BY <1>1, <2>1, <2>2
<1> HIDE DEF a, b
<1>6. Strung(p, a) \in Seq(D) /\ Len(Strung(p, a)) = Len(p) + Len(a)
  BY <1>0, <1>4, StrungTyped, StrungLong
<1>7. Strung(Strung(p, a), b) = Strung(p, Strung(a, b))
  BY <1>0, <1>4, StrungTwice
<1>8. pending[n] \o channel[n] = Staged(n) \o b /\ Staged(n) = Strung(p, a)
  BY <1>2, <1>4, <1>7 DEF p, c, Strung
<1>9. /\ Staged(n) # <<>> /\ pending' = [pending EXCEPT ![n] = Tail(Staged(n))]
      /\ seen' = [seen EXCEPT ![n][Head(Staged(n)).from] = Append(@, Head(Staged(n)).seq)]
  BY DEF PollReceive
<1>10. Len(Staged(n)) <= PendingCap /\ Len(Staged(n)) \in Nat
  BY <1>0, <1>1, <1>5, <1>6, <1>8
<1> QED BY <1>0, <1>3, <1>4, <1>6, <1>8, <1>9, <1>10 DEF p, c, D

LEMMA QuPollTyped ==
    ASSUME QuicShapes, NEW n \in quic.names, PollReceive(n)
    PROVE  QuicShapes'
<1> DEFINE D == Tagged(QuicNames, Issues)
           S == Staged(n)
           C == Seq(D)
           T == Seq(Issues)
<1>1. /\ n \in QuicNames /\ S \in C /\ S # <<>> /\ Len(S) <= PendingCap
      /\ pending' = [pending EXCEPT ![n] = Tail(S)]
      /\ seen' = [seen EXCEPT ![n][Head(S).from] = Append(@, Head(S).seq)]
  BY PollSplits
<1>2. PICK remains \in C : channel' = [channel EXCEPT ![n] = remains]
  BY PollSplits
<1>3. channel \in [QuicNames -> C] /\ pending \in [QuicNames -> C]
      /\ seen \in [QuicNames -> [QuicNames -> T]] /\ PendingCap \in Nat
      /\ \A m \in QuicNames : Len(pending[m]) <= PendingCap
  BY QuicBoundAssumption DEF QuicShapes
<1> HIDE DEF S
<1>4. Tail(S) \in C /\ Head(S) \in D /\ Len(Tail(S)) <= PendingCap
  BY <1>1, <1>3, HeadTailProperties
<1>5. Head(S).from \in QuicNames /\ Head(S).seq \in Issues
  BY <1>4 DEF Tagged
<1> DEFINE x == Head(S).from
           y == Append(seen[n][x], Head(S).seq)
           t == Tail(S)
<1>6. y \in T /\ seen' = [seen EXCEPT ![n][x] = y]
  <2>1. seen[n][x] \in T
    BY <1>1, <1>3, <1>5
  <2>2. y \in T
    BY <1>5, <2>1, AppendProperties
  <2>3. seen' = [seen EXCEPT ![n][x] = y]
    BY <1>1
  <2> QED BY <2>2, <2>3
<1>7. x \in QuicNames /\ t \in C /\ pending' = [pending EXCEPT ![n] = t] /\ Len(t) <= PendingCap
  BY <1>1, <1>4, <1>5
<1>8. hasPolled' \in [QuicNames -> BOOLEAN]
  BY <1>1 DEF PollReceive, QuicShapes
<1> HIDE DEF x, y, t, C, T
<1>9. [seen EXCEPT ![n][x] = y] \in [QuicNames -> [QuicNames -> T]]
  BY <1>1, <1>3, <1>6, <1>7, CellTyped
<1>10. [channel EXCEPT ![n] = remains] \in [QuicNames -> C] /\ [pending EXCEPT ![n] = t] \in [QuicNames -> C]
  BY <1>1, <1>2, <1>3, <1>7, RowTyped
<1>11. \A m \in QuicNames : Len(pending'[m]) <= PendingCap
  BY <1>1, <1>3, <1>7
<1>12. seen' \in [QuicNames -> [QuicNames -> T]] /\ channel' \in [QuicNames -> C]
       /\ pending' \in [QuicNames -> C]
  BY <1>2, <1>6, <1>7, <1>9, <1>10
<1> QED BY <1>8, <1>11, <1>12 DEF PollReceive, QuicShapes, loopVars, C, T

LEMMA QuLeaveTyped ==
    ASSUME QuicShapes, NEW n \in quic.names, Leave(n)
    PROVE  QuicShapes'
<1> DEFINE T == Seq(Issues)
           K == Issues \union {0}
           C == Seq(Tagged(QuicNames, Issues))
           nil == <<>>
           z == 0
<1>0. /\ n \in QuicNames /\ nil \in T /\ nil \in C /\ z \in K /\ Len(nil) <= PendingCap
      /\ unsent \in [QuicNames -> [QuicNames -> T]] /\ unread \in [QuicNames -> [QuicNames -> T]]
      /\ hand \in [QuicNames -> [QuicNames -> K]]
      /\ channel \in [QuicNames -> C] /\ pending \in [QuicNames -> C]
      /\ \A m \in QuicNames : Len(pending[m]) <= PendingCap
  <2>1. n \in QuicNames /\ PendingCap \in Nat
    BY QuSetting, QuicBoundAssumption
  <2>2. nil \in T /\ nil \in C /\ z \in K /\ Len(nil) <= PendingCap
    BY <2>1
  <2>3. /\ unsent \in [QuicNames -> [QuicNames -> T]] /\ unread \in [QuicNames -> [QuicNames -> T]]
        /\ hand \in [QuicNames -> [QuicNames -> K]]
        /\ channel \in [QuicNames -> C] /\ pending \in [QuicNames -> C]
        /\ \A m \in QuicNames : Len(pending[m]) <= PendingCap
    BY DEF QuicShapes
  <2> QED BY <2>1, <2>2, <2>3
<1>1. life' \in [QuicNames -> Up \union {"down", "left"}]
  BY <1>0 DEF Leave, QuicShapes
<1>2. /\ unsent' = [w \in QuicNames |-> IF w = n THEN [r \in QuicNames |-> nil]
                                        ELSE [unsent[w] EXCEPT ![n] = nil]]
      /\ unread' = [w \in QuicNames |-> [unread[w] EXCEPT ![n] = nil]]
      /\ hand' = [hand EXCEPT ![n] = [w \in QuicNames |-> z]]
      /\ channel' = [channel EXCEPT ![n] = nil] /\ pending' = [pending EXCEPT ![n] = nil]
  BY DEF Leave
<1> HIDE DEF T, K, C, nil, z
<1>3. unsent' \in [QuicNames -> [QuicNames -> T]] /\ unread' \in [QuicNames -> [QuicNames -> T]]
  <2>1. \A w \in QuicNames : [unsent[w] EXCEPT ![n] = nil] \in [QuicNames -> T]
                             /\ [unread[w] EXCEPT ![n] = nil] \in [QuicNames -> T]
    BY <1>0
  <2>2. [r \in QuicNames |-> nil] \in [QuicNames -> T]
    BY <1>0
  <2> DEFINE R == [QuicNames -> T]
             f(w) == IF w = n THEN [r \in QuicNames |-> nil] ELSE [unsent[w] EXCEPT ![n] = nil]
             g(w) == [unread[w] EXCEPT ![n] = nil]
  <2>3. \A w \in QuicNames : f(w) \in R /\ g(w) \in R
    BY <2>1, <2>2
  <2>4. unsent' = [w \in QuicNames |-> f(w)] /\ unread' = [w \in QuicNames |-> g(w)]
    BY <1>2
  <2> HIDE DEF R, f, g
  <2>5. unsent' \in [QuicNames -> R] /\ unread' \in [QuicNames -> R]
    BY <2>3, <2>4
  <2> QED BY <2>5 DEF R
<1>4. hand' \in [QuicNames -> [QuicNames -> K]]
  <2> DEFINE R == [QuicNames -> K]
             row == [w \in QuicNames |-> z]
  <2>1. row \in R /\ hand \in [QuicNames -> R] /\ hand' = [hand EXCEPT ![n] = row]
    BY <1>0, <1>2
  <2> HIDE DEF R, row
  <2>2. hand' \in [QuicNames -> R]
    BY <1>0, <2>1, RowTyped
  <2> QED BY <2>2 DEF R
<1>5. channel' \in [QuicNames -> C] /\ pending' \in [QuicNames -> C]
  BY <1>0, <1>2, RowTyped
<1>6. \A m \in QuicNames : Len(pending'[m]) <= PendingCap
  BY <1>0, <1>2
<1> QED BY <1>1, <1>3, <1>4, <1>5, <1>6 DEF Leave, QuicShapes, loopVars, T, K, C

LEMMA QuicShapesStep ==
    ASSUME QuicInv, [QuicNext]_quicVars
    PROVE  QuicShapes'
<1>1. QuicShapes /\ \A n \in quic.names : StageOf(n)
  BY DEF QuicInv, QuicStages
<1>2. ASSUME UNCHANGED quicVars PROVE QuicShapes'
  BY <1>1, <1>2 DEF quicVars, QuicShapes, quicDriverVars, loopVars, intakeVars
<1>3. ASSUME NEW n \in quic.names, QuicDriver(n) PROVE QuicShapes'
  <2>1. CASE \/ BindEndpoint(n) \/ Dial(n) \/ DialFails(n) \/ EndConnect(n) \/ PublishReliable(n)
             \/ EndDrain(n) \/ EndSilent(n) \/ FinishStreams(n) \/ AwaitStopped(n)
    BY <1>1, <2>1, QuDriverTyped
  <2>2. CASE PublishDatagram(n) \/ PollReceive(n) \/ Leave(n)
    BY <1>1, <2>2, QuDatagramTyped, QuPollTyped, QuLeaveTyped
  <2> QED BY <1>3, <2>1, <2>2 DEF QuicDriver
<1>4. ASSUME QuicTasks PROVE QuicShapes'
  BY <1>1, <1>4, QuLoopTyped, QuMovesTyped DEF QuicTasks
<1> QED BY <1>2, <1>3, <1>4 DEF QuicNext

LEMMA QuicInitHolds == QuicInit => QuicInv
<1> SUFFICES ASSUME QuicInit PROVE QuicInv
  OBVIOUS
<1>1. /\ quic.names \subseteq QuicNames /\ quic \in QuicSpawns /\ MaxIssued \in Nat
      /\ PendingCap \in Nat /\ quic.late \in BOOLEAN
      /\ quic.values \in Nat \ {0} /\ quic.ticks \in Nat \ {0}
  BY QuicSpawnsAssumption, QuicBoundAssumption DEF QuicInit
<1>2. QuicShapes
  <2> DEFINE nil == <<>>
             none == {}
             D == Tagged(QuicNames, Issues)
  <2>1. nil \in Seq(QuicNames) /\ nil \in Seq(Issues) /\ nil \in Seq(D) /\ Len(nil) = 0
        /\ none \in SUBSET QuicNames
    OBVIOUS
  <2>2. /\ dialled = [n \in QuicNames |-> none] /\ conns = [n \in QuicNames |-> nil]
        /\ sendQueue = [n \in QuicNames |-> nil] /\ cut = [n \in QuicNames |-> none]
        /\ unsent = [w \in QuicNames |-> [r \in QuicNames |-> nil]] /\ unread = unsent
        /\ channel = [r \in QuicNames |-> nil] /\ pending = channel
        /\ seen = [r \in QuicNames |-> [w \in QuicNames |-> nil]]
    BY DEF QuicInit
  <2>3. /\ life \in [QuicNames -> Up \union {"down", "left"}]
        /\ pause \in [QuicNames -> {"publish", "drain"}]
        /\ issued \in [QuicNames -> 0..MaxIssued] /\ hasPolled \in [QuicNames -> BOOLEAN]
        /\ frame \in [QuicNames -> Issues \union {0}] /\ slot \in [QuicNames -> Nat \ {0}]
        /\ hand \in [QuicNames -> [QuicNames -> Issues \union {0}]] /\ evicted = {}
    BY <1>1 DEF QuicInit, Up
  <2> HIDE DEF nil, D
  <2>4. /\ dialled \in [QuicNames -> SUBSET QuicNames] /\ conns \in [QuicNames -> Seq(QuicNames)]
        /\ sendQueue \in [QuicNames -> Seq(Issues)] /\ cut \in [QuicNames -> SUBSET QuicNames]
        /\ unsent \in [QuicNames -> [QuicNames -> Seq(Issues)]]
        /\ unread \in [QuicNames -> [QuicNames -> Seq(Issues)]]
        /\ channel \in [QuicNames -> Seq(D)] /\ pending \in [QuicNames -> Seq(D)]
        /\ seen \in [QuicNames -> [QuicNames -> Seq(Issues)]]
        /\ \A n \in QuicNames : Len(pending[n]) <= PendingCap
    BY <1>1, <2>1, <2>2
  <2> QED BY <1>1, <2>3, <2>4 DEF QuicShapes, D
<1>3. QuicStages
  <2> SUFFICES ASSUME NEW n \in quic.names PROVE LinesOf(n) /\ StageOf(n)
    BY DEF QuicStages
  <2>1. /\ conns[n] = <<>> /\ dialled[n] = {} /\ life[n] \in {"down", "dialling"} /\ issued[n] = 0
        /\ sendQueue[n] = <<>> /\ frame[n] = 0 /\ slot[n] = 1
    BY <1>1 DEF QuicInit
  <2> QED BY <2>1 DEF LinesOf, StageOf
<1>4. QuicFlows
  <2>1. ASSUME NEW n \in quic.names PROVE EndIsKnown(n)
    BY <1>1 DEF QuicInit, EndIsKnown
  <2>2. ASSUME NEW w \in quic.names, NEW r \in quic.names PROVE ComesWhole(w, r)
    <3>1. /\ conns[w] = <<>> /\ life[w] \in {"down", "dialling"} /\ seen[r][w] = <<>>
          /\ pending[r] = <<>> /\ channel[r] = <<>> /\ hand[r][w] = 0 /\ unread[w][r] = <<>>
          /\ unsent[w][r] = <<>>
      BY <1>1 DEF QuicInit
    <3>2. SeqsFrom(<<>>, w) = <<>> /\ <<>> \o <<>> = <<>>
      BY SeqsFromNothing
    <3>3. Arriving(w, r) = <<>>
      BY <3>1, <3>2 DEF Arriving, InHand
    <3>4. Connected(w) = {}
      BY <3>1 DEF Connected
    <3> QED BY <3>1, <3>3, <3>4 DEF ComesWhole
  <2> QED BY <2>1, <2>2 DEF QuicFlows
<1> QED BY <1>2, <1>3, <1>4 DEF QuicInv

QuicActs(n) == QuicDriver(n) \/ TakeMessage(n) \/ WriteStream(n)

QuicRowKept(m) ==
    /\ life'[m] = life[m] /\ issued'[m] = issued[m] /\ pause'[m] = pause[m]
    /\ dialled'[m] = dialled[m] /\ conns'[m] = conns[m] /\ sendQueue'[m] = sendQueue[m]
    /\ frame'[m] = frame[m] /\ slot'[m] = slot[m] /\ cut'[m] = cut[m]

LEMMA OtherQuicRows ==
    ASSUME QuicShapes, NEW n \in quic.names, NEW m \in quic.names, m # n, QuicActs(n)
    PROVE  quic' = quic /\ QuicRowKept(m)
<1>1. n \in QuicNames /\ m \in QuicNames
  BY QuSetting
<1>2. CASE BindEndpoint(n) \/ EndConnect(n) \/ EndSilent(n) \/ FinishStreams(n) \/ EndDrain(n)
  <2>1. \E x : life' = life \/ life' = [life EXCEPT ![n] = x]
    BY <1>2 DEF BindEndpoint, EndConnect, EndSilent, FinishStreams, EndDrain
  <2>2. \E x : pause' = pause \/ pause' = [pause EXCEPT ![n] = x]
    BY <1>2 DEF BindEndpoint, EndConnect, EndSilent, FinishStreams, EndDrain
  <2>3. life'[m] = life[m] /\ pause'[m] = pause[m]
    BY <1>1, <2>1, <2>2 DEF QuicShapes
  <2>4. UNCHANGED <<quic, dialled, conns, issued, sendQueue, frame, slot, cut>>
    BY <1>2 DEF BindEndpoint, EndConnect, EndSilent, FinishStreams, EndDrain, loopVars
  <2> QED BY <2>3, <2>4 DEF QuicRowKept
<1>3. CASE Dial(n) \/ DialFails(n)
  BY <1>1, <1>3 DEF Dial, DialFails, Dialled, loopVars, intakeVars, quicDriverVars, QuicRowKept,
     QuicShapes
<1>4. CASE PublishReliable(n) \/ PublishDatagram(n)
  BY <1>1, <1>4 DEF PublishReliable, PublishDatagram, Issue, loopVars, intakeVars, QuicRowKept,
     QuicShapes
<1>5. CASE AwaitStopped(n) \/ Leave(n) \/ PollReceive(n)
  BY <1>1, <1>5 DEF AwaitStopped, Leave, PollReceive, loopVars, quicDriverVars, QuicRowKept, QuicShapes
<1>6. CASE TakeMessage(n) \/ WriteStream(n)
  BY <1>1, <1>6 DEF TakeMessage, WriteStream, quicDriverVars, QuicRowKept, QuicShapes
<1> QED BY <1>2, <1>3, <1>4, <1>5, <1>6 DEF QuicActs, QuicDriver

LEMMA MovesKeepRows ==
    ASSUME NEW w, NEW r, Transmit(w, r) \/ ReadReliableStream(r, w) \/ DispatchDecoded(r, w)
    PROVE  quic' = quic /\ \A m : QuicRowKept(m)
BY DEF Transmit, ReadReliableStream, DispatchDecoded, quicDriverVars, loopVars, QuicRowKept

LEMMA RowStagesStay ==
    ASSUME NEW m, quic' = quic, QuicRowKept(m), LinesOf(m), StageOf(m)
    PROVE  LinesOf(m)' /\ StageOf(m)'
BY DEF QuicRowKept, LinesOf, StageOf, QuicDue

LEMMA QuicStageOwn ==
    ASSUME QuicShapes, NEW n \in quic.names, LinesOf(n), StageOf(n), QuicActs(n)
    PROVE  quic' = quic /\ LinesOf(n)' /\ StageOf(n)'
<1>0. /\ n \in QuicNames /\ issued[n] \in Nat /\ slot[n] \in Nat \ {0} /\ conns[n] \in Seq(QuicNames)
      /\ Len(conns[n]) \in Nat /\ quic.writers \subseteq quic.names
      /\ QuicDue \in Nat \ {0} /\ QuicDue % quic.values = 0
      /\ sendQueue[n] \in Seq(Issues) /\ dialled[n] \in SUBSET QuicNames
  BY QuSetting, QuRow
<1>f. /\ life \in [QuicNames -> Up \union {"down", "left"}]
      /\ pause \in [QuicNames -> {"publish", "drain"}]
      /\ issued \in [QuicNames -> 0..MaxIssued]
      /\ dialled \in [QuicNames -> SUBSET QuicNames] /\ conns \in [QuicNames -> Seq(QuicNames)]
      /\ sendQueue \in [QuicNames -> Seq(Issues)]
      /\ frame \in [QuicNames -> Issues \union {0}] /\ slot \in [QuicNames -> Nat \ {0}]
  BY DEF QuicShapes
<1>q. quic' = quic
  BY Zenon DEF QuicActs, QuicDriver, BindEndpoint, EndConnect, EndSilent, FinishStreams, EndDrain, Dial,
     DialFails, Dialled, PublishReliable, PublishDatagram, Issue, AwaitStopped, Leave, PollReceive,
     TakeMessage, WriteStream
<1>d. QuicDue' = QuicDue
  BY <1>q DEF QuicDue
<1>l. ASSUME conns'[n] = conns[n], dialled'[n] = dialled[n] PROVE LinesOf(n)'
  BY <1>l, <1>q DEF LinesOf
<1> HIDE DEF QuicDue
<1>1. CASE BindEndpoint(n) \/ EndConnect(n) \/ EndSilent(n) \/ FinishStreams(n)
  <2>1. /\ conns' = conns /\ dialled' = dialled /\ sendQueue' = sendQueue /\ frame' = frame
        /\ slot' = slot /\ issued' = issued /\ pause' = pause
    BY <1>1 DEF BindEndpoint, EndConnect, EndSilent, FinishStreams, loopVars
  <2>2. LinesOf(n)'
    BY <1>l, <2>1
  <2>3. CASE BindEndpoint(n)
    <3>1. life[n] = "down" /\ life'[n] = "dialling"
      BY <1>0, <1>f, <2>3 DEF BindEndpoint
    <3> QED BY <1>q, <1>d, <2>1, <2>2, <3>1 DEF StageOf
  <2>4. CASE EndConnect(n)
    <3>1. life[n] = "dialling" /\ life'[n] = IF n \in quic.writers THEN "operate" ELSE "silent"
      BY <1>0, <1>f, <2>4 DEF EndConnect
    <3> QED BY <1>0, <1>q, <1>d, <2>1, <2>2, <3>1 DEF StageOf
  <2>5. CASE EndSilent(n)
    <3>1. life[n] = "silent" /\ life'[n] = "draining"
      BY <1>0, <1>f, <2>5 DEF EndSilent
    <3> QED BY <1>q, <1>d, <2>1, <2>2, <3>1 DEF StageOf
  <2>6. CASE FinishStreams(n)
    <3>1. life[n] = "draining" /\ life'[n] = "finishing" /\ sendQueue[n] = <<>> /\ frame[n] = 0
      BY <1>0, <1>f, <2>6 DEF FinishStreams, SendLoopDone
    <3> QED BY <1>q, <1>d, <2>1, <2>2, <3>1 DEF StageOf
  <2> QED BY <1>1, <1>q, <2>3, <2>4, <2>5, <2>6, <2>2
<1>2. CASE EndDrain(n)
  <2>1. /\ conns' = conns /\ dialled' = dialled /\ sendQueue' = sendQueue /\ frame' = frame
        /\ slot' = slot /\ issued' = issued /\ life[n] = "operate" /\ pause[n] = "drain"
    BY <1>2 DEF EndDrain, InDrain, loopVars
  <2>2. LinesOf(n)'
    BY <1>l, <2>1
  <2>3. CASE issued[n] < quic.ticks * quic.values
    <3>1. life' = life /\ issued[n] < QuicDue
      BY <1>2, <2>3 DEF EndDrain, QuicDue
    <3> QED BY <1>q, <1>d, <2>1, <2>2, <3>1 DEF StageOf
  <2>4. CASE ~(issued[n] < quic.ticks * quic.values)
    <3>1. life'[n] = "silent" /\ ~(issued[n] < QuicDue)
      BY <1>0, <1>f, <1>2, <2>4 DEF EndDrain, QuicDue
    <3>2. issued[n] = QuicDue
      BY <1>0, <2>1, <3>1 DEF StageOf
    <3> QED BY <1>q, <1>d, <2>1, <2>2, <3>1, <3>2 DEF StageOf
  <2> QED BY <1>q, <2>3, <2>4, <2>2
<1>3. CASE Dial(n) \/ DialFails(n)
  <2>1. /\ sendQueue' = sendQueue /\ frame' = frame /\ slot' = slot /\ issued' = issued
        /\ life' = life /\ pause' = pause /\ life[n] = "dialling" /\ Undialled(n) # {}
        /\ dialled'[n] = dialled[n] \union {NextPeer(n)}
    BY <1>0, <1>f, <1>3 DEF Dial, DialFails, Dialled, quicDriverVars, loopVars
  <2>2. NextPeer(n) \in quic.names \ {n} /\ NextPeer(n) \notin dialled[n]
    BY <2>1, NextIsUndialled
  <2>3. StageOf(n)'
    BY <1>q, <1>d, <2>1 DEF StageOf
  <2>4. CASE DialFails(n)
    <3>1. conns'[n] = conns[n]
      BY <1>0, <1>f, <2>4 DEF DialFails, Dialled
    <3> QED BY <1>q, <2>1, <2>2, <2>3, <3>1 DEF LinesOf
  <2>5. CASE Dial(n)
    <3> DEFINE x == NextPeer(n)
               s == conns[n]
               t == Append(s, x)
    <3>1. conns'[n] = t
      BY <1>0, <1>f, <2>5 DEF Dial, Dialled
    <3>2. x \in QuicNames /\ s \in Seq(QuicNames)
      BY <1>0, <2>2, QuSetting
    <3>3. /\ \A i \in DOMAIN s : s[i] \in dialled[n]
          /\ \A i, j \in DOMAIN s : s[i] = s[j] => i = j
      BY DEF LinesOf
    <3> HIDE DEF x, s
    <3>4. /\ Len(s) \in Nat /\ DOMAIN s = 1..Len(s) /\ DOMAIN t = 1..Len(s) + 1
          /\ \A i \in 1..Len(s) : t[i] = s[i]
          /\ t[Len(s) + 1] = x
      BY <3>2, AppendProperties
    <3> HIDE DEF t
    <3>5. \A i \in DOMAIN t : (i \in DOMAIN s /\ t[i] = s[i]) \/ (i = Len(s) + 1 /\ t[i] = x)
      BY <3>4
    <3>6. \A i \in DOMAIN s : s[i] # x
      BY <2>2, <3>3 DEF x
    <3>7. \A i, j \in DOMAIN t : t[i] = t[j] => i = j
      BY <3>3, <3>5, <3>6
    <3>8. \A i \in DOMAIN t : t[i] \in dialled'[n]
      BY <2>1, <3>3, <3>5 DEF x
    <3>9. dialled'[n] \subseteq quic'.names \ {n}
      BY <1>q, <2>1, <2>2 DEF LinesOf
    <3> QED BY <1>q, <2>3, <3>1, <3>7, <3>8, <3>9 DEF LinesOf
  <2> QED BY <1>3, <2>4, <2>5
<1>4. CASE PublishReliable(n) \/ PublishDatagram(n)
  <2>1. /\ conns' = conns /\ dialled' = dialled /\ frame' = frame /\ slot' = slot /\ life' = life
        /\ life[n] = "operate" /\ pause[n] = "publish"
    BY <1>4 DEF PublishReliable, PublishDatagram, Issue, loopVars
  <2>2. issued'[n] = issued[n] + 1
        /\ pause'[n] = (IF (issued[n] + 1) % quic.values = 0 THEN "drain" ELSE "publish")
    BY <1>0, <1>f, <1>4 DEF PublishReliable, PublishDatagram, Issue
  <2>3. issued[n] < QuicDue /\ n \in quic.writers
    BY <2>1 DEF StageOf
  <2>4. issued[n] + 1 <= QuicDue
    BY <1>0, <2>3
  <2>5. pause'[n] = "publish" => issued[n] + 1 < QuicDue
    <3>1. CASE issued[n] + 1 = QuicDue
      BY <1>0, <2>2, <3>1
    <3>2. CASE issued[n] + 1 # QuicDue
      BY <1>0, <2>4, <3>2
    <3> QED BY <3>1, <3>2
  <2>6. LinesOf(n)'
    BY <1>l, <2>1
  <2> QED BY <1>q, <1>d, <2>1, <2>2, <2>3, <2>4, <2>5, <2>6 DEF StageOf
<1>5. CASE AwaitStopped(n)
  <2>1. /\ conns' = conns /\ dialled' = dialled /\ sendQueue' = sendQueue /\ frame' = frame
        /\ issued' = issued /\ life' = life /\ pause' = pause /\ life[n] = "finishing"
    BY <1>5 DEF AwaitStopped, quicDriverVars
  <2>2. LinesOf(n)'
    BY <1>l, <2>1
  <2> QED BY <1>q, <1>d, <2>1, <2>2 DEF StageOf
<1>6. CASE Leave(n)
  <2>1. /\ conns' = conns /\ dialled' = dialled /\ sendQueue' = sendQueue /\ frame' = frame
        /\ slot' = slot /\ issued' = issued /\ pause' = pause /\ life[n] = "finishing"
        /\ slot[n] > Len(conns[n])
    BY <1>6 DEF Leave, loopVars
  <2>2. LinesOf(n)'
    BY <1>l, <2>1
  <2>3. life'[n] = "left"
    BY <1>0, <1>f, <1>6 DEF Leave
  <2> QED BY <1>q, <1>d, <2>1, <2>2, <2>3 DEF StageOf
<1>7. CASE PollReceive(n)
  <2>1. /\ conns' = conns /\ dialled' = dialled /\ sendQueue' = sendQueue /\ frame' = frame
        /\ slot' = slot /\ issued' = issued /\ pause' = pause /\ life' = life
    BY <1>7 DEF PollReceive, loopVars
  <2>2. LinesOf(n)'
    BY <1>l, <2>1
  <2> QED BY <1>q, <1>d, <2>1, <2>2 DEF StageOf
<1>8. CASE TakeMessage(n)
  <2>1. /\ conns' = conns /\ dialled' = dialled /\ slot' = slot /\ issued' = issued /\ pause' = pause
        /\ life' = life /\ frame[n] = 0 /\ sendQueue[n] # <<>>
        /\ life[n] \in Up \ {"finishing"}
    BY <1>8 DEF TakeMessage, quicDriverVars, Forwarding
  <2>2. LinesOf(n)'
    BY <1>l, <2>1
  <2>3. frame'[n] = IF conns[n] = <<>> THEN 0 ELSE Head(sendQueue[n])
    BY <1>0, <1>f, <1>8 DEF TakeMessage
  <2>4. life[n] \notin {"finishing", "left", "down", "dialling"} /\ slot[n] = 1
    BY <2>1 DEF StageOf, Up
  <2>5. conns[n] # <<>> => 1 <= Len(conns[n])
    BY <1>0
  <2> QED BY <1>q, <1>d, <2>1, <2>2, <2>3, <2>4, <2>5 DEF StageOf
<1>9. CASE WriteStream(n)
  <2>1. /\ conns' = conns /\ dialled' = dialled /\ sendQueue' = sendQueue /\ issued' = issued
        /\ pause' = pause /\ life' = life /\ frame[n] # 0 /\ life[n] \in Up \ {"finishing"}
    BY <1>9 DEF WriteStream, quicDriverVars, Forwarding
  <2>2. LinesOf(n)'
    BY <1>l, <2>1
  <2>3. /\ slot'[n] = (IF slot[n] = Len(conns[n]) THEN 1 ELSE slot[n] + 1)
        /\ frame'[n] = IF slot[n] = Len(conns[n]) THEN 0 ELSE frame[n]
    BY <1>0, <1>f, <1>9 DEF WriteStream, LastSlot
  <2>4. life[n] \notin {"finishing", "left", "down", "dialling"} /\ slot[n] <= Len(conns[n])
    BY <2>1 DEF StageOf, Up
  <2>5. slot[n] # Len(conns[n]) => slot[n] + 1 <= Len(conns[n])
    BY <1>0, <2>4
  <2> QED BY <1>q, <1>d, <2>1, <2>2, <2>3, <2>4, <2>5 DEF StageOf
<1> QED BY <1>1, <1>2, <1>3, <1>4, <1>5, <1>6, <1>7, <1>8, <1>9 DEF QuicActs, QuicDriver

LEMMA QuicCases ==
    ASSUME QuicNext
    PROVE  \/ \E n \in quic.names : QuicActs(n)
           \/ \E w, r \in quic.names :
                Transmit(w, r) \/ ReadReliableStream(r, w) \/ DispatchDecoded(r, w)
BY DEF QuicNext, QuicTasks, QuicActs

LEMMA QuicStagesStep ==
    ASSUME QuicInv, [QuicNext]_quicVars
    PROVE  QuicStages' /\ quic' = quic
<1>1. QuicShapes /\ \A m \in quic.names : LinesOf(m) /\ StageOf(m)
  BY DEF QuicInv, QuicStages
<1>2. ASSUME quic' = quic, \A m \in quic.names : QuicRowKept(m) PROVE QuicStages'
  BY <1>1, <1>2, RowStagesStay DEF QuicStages
<1>3. ASSUME UNCHANGED quicVars PROVE QuicStages' /\ quic' = quic
  <2>1. quic' = quic /\ \A m \in quic.names : QuicRowKept(m)
    BY <1>3 DEF quicVars, quicDriverVars, loopVars, QuicRowKept
  <2> QED BY <1>2, <2>1
<1>4. ASSUME NEW w, NEW r, Transmit(w, r) \/ ReadReliableStream(r, w) \/ DispatchDecoded(r, w)
      PROVE  QuicStages' /\ quic' = quic
  BY <1>2, <1>4, MovesKeepRows
<1>5. ASSUME NEW n \in quic.names, QuicActs(n) PROVE QuicStages' /\ quic' = quic
  <2>1. quic' = quic /\ LinesOf(n)' /\ StageOf(n)'
    BY <1>1, <1>5, QuicStageOwn
  <2>2. ASSUME NEW m \in quic.names, m # n PROVE LinesOf(m)' /\ StageOf(m)'
    BY <1>1, <1>5, <2>2, OtherQuicRows, RowStagesStay
  <2> QED BY <2>1, <2>2 DEF QuicStages
<1> QED BY <1>3, <1>4, <1>5, QuicCases

\* What is between two nodes, in its five parts, and what is to be written.
ToPoll(w, r) == SeqsFrom(pending[r] \o channel[r], w)
FiveParts(w, r) == Strung(Strung(Strung(Strung(seen[r][w], ToPoll(w, r)), InHand(hand[r][w])), unread[w][r]),
                        unsent[w][r])
InWriting(w, r) ==
    IF frame[w] # 0 /\ \E i \in DOMAIN conns[w] : conns[w][i] = r /\ i >= slot[w]
    THEN <<frame[w]>> ELSE <<>>

LEMMA ArrivingTyped ==
    ASSUME QuicShapes, NEW w \in QuicNames, NEW r \in QuicNames
    PROVE  /\ seen[r][w] \in Seq(Issues) /\ ToPoll(w, r) \in Seq(Issues)
           /\ InHand(hand[r][w]) \in Seq(Issues) /\ unread[w][r] \in Seq(Issues)
           /\ unsent[w][r] \in Seq(Issues)
           /\ pending[r] \o channel[r] \in Seq(Tagged(QuicNames, Issues))
           /\ Arriving(w, r) = FiveParts(w, r) /\ FiveParts(w, r) \in Seq(Issues)
           /\ InWriting(w, r) \in Seq(Issues) /\ Unwritten(w, r) = Strung(InWriting(w, r), sendQueue[w])
           /\ Unwritten(w, r) \in Seq(Issues)
<1> DEFINE a == seen[r][w]
           q == pending[r] \o channel[r]
           b == ToPoll(w, r)
           h == InHand(hand[r][w])
           u == unread[w][r]
           v == unsent[w][r]
           T == Seq(Issues)
<1>1. a \in T /\ u \in T /\ v \in T /\ hand[r][w] \in Issues \union {0} /\ sendQueue[w] \in T
      /\ frame[w] \in Issues \union {0}
  BY QuRow
<1>2. h \in T
  BY <1>1 DEF InHand
<1>3. q \in Seq(Tagged(QuicNames, Issues))
  <2>1. pending[r] \in Seq(Tagged(QuicNames, Issues)) /\ channel[r] \in Seq(Tagged(QuicNames, Issues))
    BY QuRow
  <2> QED BY <2>1, JoinTyped
<1>4. b \in T
  <2> HIDE DEF q
  <2>1. SeqsFrom(q, w) \in Seq(Issues)
    BY <1>3, SeqsFromJoin
  <2> QED BY <2>1 DEF q, ToPoll
<1>5. Arriving(w, r) = FiveParts(w, r)
  BY DEF Arriving, FiveParts, ToPoll, Strung
<1>6. FiveParts(w, r) \in T
  <2> HIDE DEF a, b, h, u, v
  <2>1. Strung(a, b) \in Seq(Issues)
    BY <1>1, <1>4, StrungTyped
  <2>2. Strung(Strung(a, b), h) \in Seq(Issues)
    BY <1>2, <2>1, StrungTyped
  <2>3. Strung(Strung(Strung(a, b), h), u) \in Seq(Issues)
    BY <1>1, <2>2, StrungTyped
  <2>4. Strung(Strung(Strung(Strung(a, b), h), u), v) \in Seq(Issues)
    BY <1>1, <2>3, StrungTyped
  <2> QED BY <2>4 DEF FiveParts, a, b, h, u, v
<1>7. InWriting(w, r) \in T
  BY <1>1 DEF InWriting
<1>8. Unwritten(w, r) = Strung(InWriting(w, r), sendQueue[w])
  BY DEF Unwritten, InWriting, Strung
<1>9. Strung(InWriting(w, r), sendQueue[w]) \in T
  BY <1>1, <1>7, StrungTyped
<1> QED BY <1>1, <1>2, <1>3, <1>4, <1>5, <1>6, <1>7, <1>8, <1>9

\* A message goes from one place to the one before it.
LEMMA Handover ==
    ASSUME NEW T
    PROVE  \A a, b, c, x, y :
               a \in Seq(T) /\ b \in Seq(T) /\ c \in Seq(T) /\ x \in Seq(T) /\ y \in Seq(T)
                   /\ Strung(x, y) = Strung(b, c)
               => Strung(Strung(a, x), y) = Strung(Strung(a, b), c)
<1> SUFFICES ASSUME NEW a, NEW b, NEW c, NEW x, NEW y,
                    a \in Seq(T) /\ b \in Seq(T) /\ c \in Seq(T) /\ x \in Seq(T) /\ y \in Seq(T),
                    Strung(x, y) = Strung(b, c)
             PROVE  Strung(Strung(a, x), y) = Strung(Strung(a, b), c)
  OBVIOUS
<1>1. Strung(Strung(a, x), y) = Strung(a, Strung(x, y))
  BY StrungTwice
<1>2. Strung(Strung(a, b), c) = Strung(a, Strung(b, c))
  BY StrungTwice
<1> QED BY <1>1, <1>2

\* The first of what is there goes to the end of what is before it.
LEMMA FirstMoves ==
    ASSUME NEW T
    PROVE  \A b, c : b \in Seq(T) /\ c \in Seq(T) /\ c # <<>> =>
               /\ Head(c) \in T /\ Tail(c) \in Seq(T) /\ Append(b, Head(c)) \in Seq(T)
               /\ <<Head(c)>> \in Seq(T)
               /\ Strung(Append(b, Head(c)), Tail(c)) = Strung(b, c)
               /\ Strung(<<Head(c)>>, Tail(c)) = Strung(<<>>, c)
<1> SUFFICES ASSUME NEW b, NEW c, b \in Seq(T) /\ c \in Seq(T) /\ c # <<>>
             PROVE  /\ Head(c) \in T /\ Tail(c) \in Seq(T) /\ Append(b, Head(c)) \in Seq(T)
                    /\ <<Head(c)>> \in Seq(T)
                    /\ Strung(Append(b, Head(c)), Tail(c)) = Strung(b, c)
                    /\ Strung(<<Head(c)>>, Tail(c)) = Strung(<<>>, c)
  OBVIOUS
<1>1. Head(c) \in T /\ Tail(c) \in Seq(T) /\ c = <<Head(c)>> \o Tail(c)
  BY HeadThenTail
<1>2. Append(b, Head(c)) \in Seq(T) /\ <<Head(c)>> \in Seq(T)
  BY <1>1
<1>3. Strung(Append(b, Head(c)), Tail(c)) = Strung(b, c)
  BY StrungHead
<1>4. <<>> \o c = c
  BY NothingJoined
<1> QED BY <1>1, <1>2, <1>3, <1>4 DEF Strung

LEMMA TransmitKeeps ==
    ASSUME QuicShapes, quic.reliable, NEW w \in QuicNames, NEW r \in QuicNames,
           NEW x \in QuicNames, NEW y \in QuicNames, Transmit(x, y)
    PROVE  Arriving(w, r)' = Arriving(w, r)
<1> DEFINE a == Strung(Strung(seen[r][w], ToPoll(w, r)), InHand(hand[r][w]))
           u == unread[w][r]
           v == unsent[w][r]
           T == Seq(Issues)
<1>1. a \in T /\ u \in T /\ v \in T /\ Arriving(w, r) = Strung(Strung(a, u), v)
  <2>1. seen[r][w] \in T /\ ToPoll(w, r) \in T /\ InHand(hand[r][w]) \in T /\ u \in T /\ v \in T
    BY ArrivingTyped
  <2>2. Strung(seen[r][w], ToPoll(w, r)) \in T
    BY <2>1, StrungTyped
  <2>3. a \in T
    BY <2>1, <2>2, StrungTyped
  <2>4. Arriving(w, r) = Strung(Strung(a, u), v)
    BY ArrivingTyped DEF FiveParts
  <2> QED BY <2>1, <2>3, <2>4
<1>2. Arriving(w, r)' = Strung(Strung(a, unread'[w][r]), unsent'[w][r])
  BY DEF Transmit, intakeVars, Arriving, Strung, ToPoll
<1>3. /\ unsent[x][y] # <<>> /\ unsent' = [unsent EXCEPT ![x][y] = Tail(unsent[x][y])]
      /\ unread' = [unread EXCEPT ![x][y] = Append(unread[x][y], Head(unsent[x][y]))]
  BY DEF Transmit
<1>4. unsent \in [QuicNames -> [QuicNames -> T]] /\ unread \in [QuicNames -> [QuicNames -> T]]
  BY DEF QuicShapes
<1>5. CASE x = w /\ y = r
  <2>1. unsent'[w][r] = Tail(v) /\ unread'[w][r] = Append(u, Head(v)) /\ v # <<>>
    BY <1>3, <1>4, <1>5
  <2> HIDE DEF a, u, v
  <2>h. u \in Seq(Issues) /\ v \in Seq(Issues) /\ v # <<>>
    BY <1>1, <2>1
  <2>t. Tail(v) \in Seq(Issues) /\ Head(v) \in Issues
    BY <2>h, HeadThenTail
  <2>a. Append(u, Head(v)) \in Seq(Issues)
    BY <2>h, <2>t
  <2>s. Strung(Append(u, Head(v)), Tail(v)) = Strung(u, v)
    BY <2>h, StrungHead
  <2>2. /\ Tail(v) \in Seq(Issues) /\ Append(u, Head(v)) \in Seq(Issues)
        /\ Strung(Append(u, Head(v)), Tail(v)) = Strung(u, v)
    BY <2>t, <2>a, <2>s
  <2> DEFINE x1 == Append(u, Head(v))
             y1 == Tail(v)
  <2>4. /\ a \in Seq(Issues) /\ u \in Seq(Issues) /\ v \in Seq(Issues)
           /\ x1 \in Seq(Issues) /\ y1 \in Seq(Issues)
        /\ Strung(x1, y1) = Strung(u, v)
    BY <1>1, <2>2
  <2> HIDE DEF x1, y1
  <2>5. Strung(Strung(a, x1), y1) = Strung(Strung(a, u), v)
    BY <2>4, Handover
  <2> QED BY <1>1, <1>2, <2>1, <2>5 DEF x1, y1
<1>6. CASE ~(x = w /\ y = r)
  <2>1. unsent'[w][r] = v /\ unread'[w][r] = u
    BY <1>3, <1>4, <1>6
  <2> QED BY <1>1, <1>2, <2>1
<1> QED BY <1>5, <1>6

LEMMA ReadKeeps ==
    ASSUME QuicShapes, NEW w \in QuicNames, NEW r \in QuicNames,
           NEW x \in QuicNames, NEW y \in QuicNames, ReadReliableStream(y, x)
    PROVE  Arriving(w, r)' = Arriving(w, r)
<1> DEFINE a == Strung(seen[r][w], ToPoll(w, r))
           h == InHand(hand[r][w])
           u == unread[w][r]
           v == unsent[w][r]
           T == Seq(Issues)
<1>1. /\ a \in T /\ h \in T /\ u \in T /\ v \in T
      /\ Arriving(w, r) = Strung(Strung(Strung(a, h), u), v)
  <2>1. seen[r][w] \in T /\ ToPoll(w, r) \in T /\ h \in T /\ u \in T /\ v \in T
    BY ArrivingTyped
  <2>2. a \in T
    BY <2>1, StrungTyped
  <2>3. Arriving(w, r) = Strung(Strung(Strung(a, h), u), v)
    BY ArrivingTyped DEF FiveParts
  <2> QED BY <2>1, <2>2, <2>3
<1>2. Arriving(w, r)' = Strung(Strung(Strung(a, InHand(hand'[r][w])), unread'[w][r]), v)
  BY DEF ReadReliableStream, Arriving, Strung, ToPoll, InHand
<1>3. /\ unread[x][y] # <<>> /\ hand[y][x] = 0
      /\ unread' = [unread EXCEPT ![x][y] = Tail(unread[x][y])]
      /\ hand' = [hand EXCEPT ![y][x] = Head(unread[x][y])]
  BY DEF ReadReliableStream
<1>4. unread \in [QuicNames -> [QuicNames -> T]]
      /\ hand \in [QuicNames -> [QuicNames -> Issues \union {0}]]
  BY DEF QuicShapes
<1>5. CASE x = w /\ y = r
  <2>1. /\ unread'[w][r] = Tail(u) /\ hand'[r][w] = Head(u) /\ u # <<>> /\ h = <<>>
    BY <1>3, <1>4, <1>5 DEF InHand
  <2> HIDE DEF a, u, v, h
  <2>h. u \in Seq(Issues) /\ u \in Seq(Issues) /\ u # <<>>
    BY <1>1, <2>1
  <2>2. /\ Tail(u) \in Seq(Issues) /\ <<Head(u)>> \in Seq(Issues) /\ Head(u) \in Issues
        /\ Strung(<<Head(u)>>, Tail(u)) = Strung(<<>>, u)
    BY <2>h, FirstMoves, Zenon
  <2> DEFINE x1 == <<Head(u)>>
             y1 == Tail(u)
  <2>5. /\ a \in Seq(Issues) /\ h \in Seq(Issues) /\ u \in Seq(Issues)
           /\ x1 \in Seq(Issues) /\ y1 \in Seq(Issues)
        /\ Strung(x1, y1) = Strung(h, u)
    BY <1>1, <2>1, <2>2
  <2> HIDE DEF x1, y1
  <2>6. Strung(Strung(a, x1), y1) = Strung(Strung(a, h), u)
    BY <2>5, Handover
  <2>3. Strung(Strung(a, <<Head(u)>>), Tail(u)) = Strung(Strung(a, h), u)
    BY <2>6 DEF x1, y1
  <2>4. InHand(hand'[r][w]) = <<Head(u)>>
    BY <2>1, <2>2, QuicBoundAssumption DEF InHand, Issues
  <2> QED BY <1>1, <1>2, <2>1, <2>3, <2>4
<1>6. CASE ~(x = w /\ y = r)
  <2>1. hand'[r][w] = hand[r][w] /\ unread'[w][r] = u
    BY <1>3, <1>4, <1>6
  <2> QED BY <1>1, <1>2, <2>1
<1> QED BY <1>5, <1>6

LEMMA DispatchKeeps ==
    ASSUME QuicShapes, NEW w \in QuicNames, NEW r \in QuicNames,
           NEW x \in QuicNames, NEW y \in QuicNames, DispatchDecoded(y, x)
    PROVE  Arriving(w, r)' = Arriving(w, r)
<1> DEFINE a == seen[r][w]
           b == ToPoll(w, r)
           h == InHand(hand[r][w])
           u == unread[w][r]
           v == unsent[w][r]
           T == Seq(Issues)
           D == Tagged(QuicNames, Issues)
           k == hand[y][x]
           e == [from |-> x, seq |-> k]
           nil == <<>>
<1>1. /\ a \in T /\ b \in T /\ h \in T /\ u \in T /\ v \in T
      /\ Arriving(w, r) = Strung(Strung(Strung(Strung(a, b), h), u), v)
  <2>1. a \in T /\ b \in T /\ h \in T /\ u \in T /\ v \in T
    BY ArrivingTyped
  <2>2. Arriving(w, r) = Strung(Strung(Strung(Strung(a, b), h), u), v)
    BY ArrivingTyped DEF FiveParts
  <2> QED BY <2>1, <2>2
<1>2. Arriving(w, r)' = Strung(Strung(Strung(Strung(a, SeqsFrom(pending[r] \o channel'[r], w)), InHand(hand'[r][w])), u), v)
  BY DEF DispatchDecoded, Arriving, Strung, InHand
<1>3. /\ k # 0 /\ k \in Issues
      /\ channel' = [channel EXCEPT ![y] = Append(channel[y], e)]
      /\ hand' = [hand EXCEPT ![y][x] = 0]
  <2>1. k \in Issues \union {0}
    BY QuRow
  <2> QED BY <2>1 DEF DispatchDecoded, Forwarded
<1>4. channel \in [QuicNames -> Seq(D)] /\ hand \in [QuicNames -> [QuicNames -> Issues \union {0}]]
  BY DEF QuicShapes
<1>5. e \in D /\ e.from = x /\ e.seq = k
  BY <1>3 DEF Tagged
<1>6. CASE y = r
  <2> DEFINE p == pending[r]
             c == channel[r]
             q == Strung(p, c)
  <2>1. channel'[r] = Append(c, e)
    BY <1>3, <1>4, <1>6
  <2>2. p \in Seq(D) /\ c \in Seq(D)
    BY QuRow
  <2>3. hand'[r][w] = IF x = w THEN 0 ELSE hand[r][w]
    BY <1>3, <1>4, <1>6
  <2>4. x = w => h = <<k>>
    BY <1>3, <1>6 DEF InHand
  <2>5. b = SeqsFrom(q, w)
    BY DEF ToPoll, Strung
  <2> HIDE DEF p, c, e, D
  <2>6. q \in Seq(D)
    BY <2>2, StrungTyped
  <2>7. Strung(p, Append(c, e)) = Append(q, e)
    BY <1>5, <2>2, StrungEnd
  <2> HIDE DEF q, b
  <2>8. SeqsFrom(Append(q, e), w) = IF e.from = w THEN Append(SeqsFrom(q, w), e.seq) ELSE SeqsFrom(q, w)
    BY <1>5, <2>6, SeqsFromAppend DEF D
  <2>9. SeqsFrom(pending[r] \o channel'[r], w) = IF x = w THEN Append(b, k) ELSE b
    <3>1. pending[r] \o channel'[r] = Append(q, e)
      BY <2>1, <2>7 DEF Strung, p
    <3> QED BY <1>5, <2>5, <2>8, <3>1
  <2>10. CASE x = w
    <3>1. InHand(hand'[r][w]) = nil /\ SeqsFrom(pending[r] \o channel'[r], w) = Append(b, k)
      BY <2>3, <2>9, <2>10 DEF InHand
    <3>2. h = <<k>> /\ k \in Issues
      BY <1>3, <2>4, <2>10
    <3>3. Append(b, k) \in T /\ nil \in T
      BY <1>1, <3>2
    <3> HIDE DEF a, h, u, v, k, nil
    <3>4. Strung(Append(b, k), nil) = Strung(b, h)
      <4>1. Append(b, k) \o <<>> = Append(b, k)
        BY <3>3, NothingJoined
      <4>2. Append(b, k) = b \o <<k>>
        BY <1>1, <3>2, AppendIsConcat
      <4> QED BY <3>2, <4>1, <4>2 DEF Strung, nil
    <3> DEFINE x1 == Append(b, k)
    <3>6. /\ a \in Seq(Issues) /\ b \in Seq(Issues) /\ h \in Seq(Issues)
             /\ x1 \in Seq(Issues) /\ nil \in Seq(Issues)
          /\ Strung(x1, nil) = Strung(b, h)
      BY <1>1, <3>3, <3>4
    <3> HIDE DEF x1
    <3>5. Strung(Strung(a, x1), nil) = Strung(Strung(a, b), h)
      BY <3>6, Handover
    <3> QED BY <1>1, <1>2, <3>1, <3>5 DEF x1
  <2>11. CASE x # w
    <3>1. hand'[r][w] = hand[r][w] /\ SeqsFrom(pending[r] \o channel'[r], w) = b
      BY <2>3, <2>9, <2>11
    <3> QED BY <1>1, <1>2, <3>1
  <2> QED BY <2>10, <2>11
<1>7. CASE y # r
  <2>1. hand'[r][w] = hand[r][w] /\ channel'[r] = channel[r]
    BY <1>3, <1>4, <1>7
  <2> QED BY <1>1, <1>2, <2>1 DEF ToPoll
<1> QED BY <1>6, <1>7

LEMMA PollKeeps ==
    ASSUME QuicShapes, NEW w \in QuicNames, NEW r \in QuicNames, NEW n \in quic.names, PollReceive(n)
    PROVE  Arriving(w, r)' = Arriving(w, r)
<1> DEFINE a == seen[r][w]
           b == ToPoll(w, r)
           h == InHand(hand[r][w])
           u == unread[w][r]
           v == unsent[w][r]
           T == Seq(Issues)
           D == Tagged(QuicNames, Issues)
           c == ToPoll(w, r)'
<1>1. /\ a \in T /\ b \in T
      /\ Arriving(w, r) = Strung(Strung(Strung(Strung(a, b), h), u), v)
  <2>1. a \in T /\ b \in T
    BY ArrivingTyped
  <2>2. Arriving(w, r) = Strung(Strung(Strung(Strung(a, b), h), u), v)
    BY ArrivingTyped DEF FiveParts
  <2> QED BY <2>1, <2>2
<1>2. Arriving(w, r)' = Strung(Strung(Strung(Strung(seen'[r][w], c), h), u), v)
  BY DEF PollReceive, loopVars, Arriving, Strung, InHand, ToPoll
<1>3. /\ channel \in [QuicNames -> Seq(D)] /\ pending \in [QuicNames -> Seq(D)]
      /\ seen \in [QuicNames -> [QuicNames -> T]]
  BY DEF QuicShapes
<1>4. SUFFICES Strung(seen'[r][w], c) = Strung(a, b)
  BY <1>1, <1>2
<1>5. CASE n = r
  <2> DEFINE S == Staged(r)
             x == Head(S)
             t == Tail(S)
             k == x.seq
             one == <<k>>
             q == pending[r] \o channel[r]
  <2>1. PICK remains \in Seq(D) : channel' = [channel EXCEPT ![r] = remains] /\ q = S \o remains
    BY <1>5, PollSplits
  <2>2. /\ S \in Seq(D) /\ S # <<>> /\ pending' = [pending EXCEPT ![r] = t]
        /\ seen' = [seen EXCEPT ![r][x.from] = Append(@, k)]
    BY <1>5, PollSplits
  <2>3. c = SeqsFrom(Strung(t, remains), w) /\ b = SeqsFrom(Strung(S, remains), w)
    BY <1>3, <2>1, <2>2 DEF ToPoll, Strung
  <2> HIDE DEF S, q, D, b, c
  <2>4. x \in D /\ t \in Seq(D) /\ k \in Issues
    BY <2>2, SeqsFromHead DEF D
  <2>5. SeqsFrom(S, w) = IF x.from = w THEN Strung(one, SeqsFrom(t, w)) ELSE SeqsFrom(t, w)
    BY <2>2, SeqsFromHead DEF D, Strung
  <2> DEFINE bt == SeqsFrom(t, w)
             br == SeqsFrom(remains, w)
  <2>6. bt \in T /\ br \in T
    <3> HIDE DEF t
    <3>1. SeqsFrom(t, w) \in Seq(Issues) /\ SeqsFrom(remains, w) \in Seq(Issues)
      BY <2>1, <2>4, SeqsFromJoin DEF D
    <3> QED BY <3>1
  <2> HIDE DEF t
  <2>7. SeqsFrom(Strung(t, remains), w) = Strung(bt, br)
    BY <2>1, <2>4, SeqsFromStrung DEF D
  <2>8. SeqsFrom(Strung(S, remains), w) = Strung(SeqsFrom(S, w), br)
    BY <2>1, <2>2, SeqsFromStrung DEF D
  <2>9. seen'[r][w] = IF x.from = w THEN Append(a, k) ELSE a
    <3> DEFINE y == Append(seen[r][x.from], k)
               z == x.from
    <3>1. z \in QuicNames /\ seen' = [seen EXCEPT ![r][z] = y]
      BY <2>2, <2>4 DEF D, Tagged
    <3> HIDE DEF y, T, x
    <3>2. [seen EXCEPT ![r][z] = y][r][w] = IF z = w THEN y ELSE seen[r][w]
      <4> HIDE DEF z
      <4> QED BY <1>3, <3>1, CellSet
    <3>3. z = w => y = Append(a, k)
      BY DEF y
    <3> QED BY <3>1, <3>2, <3>3
  <2> HIDE DEF bt, br, x, k
  <2>10. CASE x.from = w
    <3>1. one \in T /\ Append(a, k) = Strung(a, one)
      <4> HIDE DEF a
      <4>1. a \in Seq(Issues) /\ k \in Issues
        BY <1>1, <2>4
      <4>2. one \in T
        BY <4>1
      <4>3. Append(a, k) = a \o <<k>>
        BY <4>1, AppendIsConcat
      <4> QED BY <4>2, <4>3 DEF Strung
    <3>2. b = Strung(Strung(one, bt), br) /\ c = Strung(bt, br)
      BY <2>3, <2>5, <2>7, <2>8, <2>10 DEF bt
    <3> HIDE DEF one, a
    <3>3. Strung(bt, br) \in T
      BY <2>6, StrungTyped
    <3>6. one \in Seq(Issues) /\ bt \in Seq(Issues) /\ br \in Seq(Issues)
      BY <2>6, <3>1
    <3>7. Strung(Strung(one, bt), br) = Strung(one, Strung(bt, br))
      BY <3>6, StrungTwice
    <3>4. b = Strung(one, c)
      BY <3>2, <3>7
    <3>8. a \in Seq(Issues) /\ one \in Seq(Issues) /\ c \in Seq(Issues)
      BY <1>1, <3>1, <3>2, <3>3
    <3>5. Strung(Strung(a, one), c) = Strung(a, Strung(one, c))
      BY <3>8, StrungTwice
    <3> QED BY <2>9, <2>10, <3>1, <3>4, <3>5 DEF a
  <2>11. CASE x.from # w
    BY <2>3, <2>5, <2>7, <2>8, <2>9, <2>11 DEF bt
  <2> QED BY <2>10, <2>11
<1>6. CASE n # r
  <2>1. /\ \E s : channel' = [channel EXCEPT ![n] = s]
        /\ \E s : pending' = [pending EXCEPT ![n] = s]
        /\ \E x, y : seen' = [seen EXCEPT ![n][x] = y]
    BY DEF PollReceive
  <2>2. n \in QuicNames
    BY QuSetting
  <2>3. channel'[r] = channel[r] /\ pending'[r] = pending[r] /\ seen'[r][w] = a
    BY <1>3, <1>6, <2>1, <2>2
  <2> QED BY <2>3 DEF ToPoll
<1> QED BY <1>5, <1>6

\* The steps that touch nothing between two nodes.
Aside(n) ==
    \/ BindEndpoint(n) \/ Dial(n) \/ DialFails(n) \/ EndConnect(n) \/ PublishReliable(n)
    \/ EndDrain(n) \/ EndSilent(n) \/ FinishStreams(n) \/ AwaitStopped(n) \/ TakeMessage(n)

LEMMA AsideKeeps ==
    ASSUME NEW n, Aside(n)
    PROVE  /\ UNCHANGED <<unsent, unread, hand, channel, pending, seen>>
           /\ \A w, r : Arriving(w, r)' = Arriving(w, r)
<1>1. UNCHANGED <<unsent, unread, hand, channel, pending, seen>>
  BY DEF Aside, BindEndpoint, Dial, DialFails, Dialled, EndConnect, PublishReliable, Issue, EndDrain, EndSilent,
     FinishStreams, AwaitStopped, TakeMessage, intakeVars
<1> QED BY <1>1 DEF Arriving

LEMMA ActCases ==
    ASSUME quic.reliable, NEW n, QuicActs(n)
    PROVE  Aside(n) \/ PollReceive(n) \/ WriteStream(n) \/ Leave(n)
BY DEF QuicActs, QuicDriver, Aside, PublishDatagram

\* Who has left does not come back.
LEMMA QuicLeftStays ==
    ASSUME QuicShapes, quic.reliable, NEW n \in quic.names, QuicActs(n), NEW p \in quic.names
    PROVE  /\ life[p] = "left" => life'[p] = "left" /\ p # n
           /\ life'[p] = "left" => life[p] = "left" \/ (p = n /\ Leave(n))
<1>1. n \in QuicNames /\ p \in QuicNames
  BY QuSetting
<1>2. CASE p # n
  <2>1. life'[p] = life[p]
    BY <1>2, OtherQuicRows DEF QuicRowKept
  <2> QED BY <1>2, <2>1
<1>3. CASE p = n /\ Leave(n)
  <2>1. life[n] = "finishing" /\ life'[n] = "left"
    BY <1>1, <1>3 DEF Leave, QuicShapes
  <2> QED BY <1>3, <2>1
<1>4. CASE p = n /\ ~Leave(n)
  <2>1. life' = life \/ \E x \in Up : life' = [life EXCEPT ![n] = x]
    <3>1. CASE BindEndpoint(n) \/ EndDrain(n) \/ EndSilent(n) \/ FinishStreams(n)
      <4>1. life' = life \/ \E x \in {"dialling", "silent", "draining", "finishing"} :
                                life' = [life EXCEPT ![n] = x]
        BY <3>1 DEF BindEndpoint, EndDrain, EndSilent, FinishStreams
      <4> QED BY <4>1 DEF Up
    <3>4. CASE EndConnect(n)
      <4> DEFINE x == IF n \in quic.writers THEN "operate" ELSE "silent"
      <4>1. x \in Up /\ life' = [life EXCEPT ![n] = x]
        BY <3>4 DEF EndConnect, Up
      <4> HIDE DEF x
      <4> QED BY <4>1
    <3>2. CASE Dial(n) \/ DialFails(n) \/ PublishReliable(n) \/ AwaitStopped(n) \/ TakeMessage(n) \/ WriteStream(n)
               \/ PollReceive(n)
      BY <3>2 DEF Dial, DialFails, Dialled, PublishReliable, Issue, AwaitStopped, TakeMessage, WriteStream,
         PollReceive, quicDriverVars
    <3> QED BY <1>4, <3>1, <3>2, <3>4, ActCases DEF Aside
  <2>2. life[n] # "left"
    <3>1. CASE BindEndpoint(n) \/ EndConnect(n) \/ EndDrain(n) \/ EndSilent(n) \/ FinishStreams(n)
      BY <3>1 DEF BindEndpoint, EndConnect, EndDrain, EndSilent, FinishStreams, InDrain
    <3>2. CASE Dial(n) \/ DialFails(n) \/ PublishReliable(n) \/ AwaitStopped(n) \/ PollReceive(n)
      BY <3>2 DEF Dial, DialFails, PublishReliable, Issue, AwaitStopped, PollReceive, InDrain
    <3>3. CASE TakeMessage(n) \/ WriteStream(n)
      BY <3>3 DEF TakeMessage, WriteStream, Forwarding, Up
    <3> QED BY <1>4, <3>1, <3>2, <3>3, ActCases DEF Aside
  <2>3. life'[n] # "left"
    BY <1>1, <2>1, <2>2 DEF QuicShapes, Up
  <2> QED BY <1>4, <2>2, <2>3
<1> QED BY <1>2, <1>3, <1>4

LEMMA QuicWholeStays ==
    ASSUME NEW w, NEW r, ComesWhole(w, r), quic' = quic,
           Arriving(w, r)' = Arriving(w, r), Unwritten(w, r)' = Unwritten(w, r),
           r \in Connected(w)' <=> r \in Connected(w),
           issued'[w] = issued[w], life'[w] = "left" <=> life[w] = "left",
           life[w] = "left" => cut'[w] = cut[w] /\ unsent'[w][r] = <<>>
    PROVE  ComesWhole(w, r)'
<1> DEFINE A == Arriving(w, r)
           L == life[w] = "left"
<1>1. /\ A' = A /\ L' = L
      /\ r \in Connected(w)' <=> r \in Connected(w)
  OBVIOUS
<1>2. r \notin Connected(w)' => A' = <<>>
  BY <1>1 DEF ComesWhole
<1>3. r \in Connected(w)' /\ ~L' => (A \o Unwritten(w, r))' = FirstOnes(issued'[w])
  BY <1>1 DEF ComesWhole
<1>4. r \in Connected(w)' /\ L' =>
        /\ A' = FirstOnes(Len(A'))
        /\ w \in quic'.writers /\ r \notin cut'[w] => Len(A') = QuicDue'
  BY <1>1 DEF ComesWhole, QuicDue
<1>5. L' => unsent'[w][r] = <<>>
  BY <1>1
<1> QED BY <1>2, <1>3, <1>4, <1>5 DEF ComesWhole

\* Nothing of a row is different.
LEMMA WholeRowStays ==
    ASSUME NEW w, NEW r, ComesWhole(w, r), quic' = quic, QuicRowKept(w),
           Arriving(w, r)' = Arriving(w, r), life[w] = "left" => unsent'[w][r] = <<>>
    PROVE  ComesWhole(w, r)'
<1>1. Unwritten(w, r)' = Unwritten(w, r) /\ Connected(w)' = Connected(w)
  BY DEF QuicRowKept, Unwritten, Connected
<1> QED BY <1>1, QuicWholeStays DEF QuicRowKept

LEMMA PublishedFlow ==
    ASSUME QuicShapes, NEW w \in quic.names, NEW r \in quic.names, ComesWhole(w, r), StageOf(w),
           PublishReliable(w)
    PROVE  ComesWhole(w, r)'
<1> DEFINE k == issued[w]
           q == sendQueue[w]
           h == InWriting(w, r)
           A == Arriving(w, r)
<1>1. /\ w \in QuicNames /\ r \in QuicNames /\ k \in Nat /\ q \in Seq(Issues) /\ h \in Seq(Issues)
      /\ A \in Seq(Issues) /\ Unwritten(w, r) = Strung(h, q)
  BY QuSetting, QuRow, ArrivingTyped
<1>2. /\ sendQueue'[w] = Append(q, k + 1) /\ issued'[w] = k + 1 /\ life[w] = "operate"
      /\ life' = life /\ Connected(w)' = Connected(w) /\ InWriting(w, r)' = h /\ A' = A
      /\ unsent' = unsent /\ quic' = quic
  <2>1. sendQueue'[w] = Append(q, k + 1) /\ issued'[w] = k + 1
    BY <1>1 DEF PublishReliable, Issue, QuicShapes
  <2>2. life[w] = "operate" /\ life' = life /\ Connected(w)' = Connected(w) /\ InWriting(w, r)' = h
        /\ unsent' = unsent /\ quic' = quic
    BY DEF PublishReliable, Issue, Connected, InWriting, loopVars
  <2>3. A' = A
    BY AsideKeeps DEF Aside
  <2> QED BY <2>1, <2>2, <2>3
<1>3. k + 1 \in Issues
  <2>1. k < QuicDue /\ QuicDue <= MaxIssued /\ QuicDue \in Nat /\ MaxIssued \in Nat
    BY <1>2, QuSetting DEF StageOf, PublishReliable, Issue
  <2> QED BY <1>1, <2>1 DEF Issues
<1>4. Unwritten(w, r)' = Append(Strung(h, q), k + 1)
  <2>1. Unwritten(w, r)' = Strung(h, Append(q, k + 1))
    <3>1. Unwritten(w, r)' = Strung(InWriting(w, r)', sendQueue'[w])
      BY DEF Unwritten, InWriting, Strung
    <3> QED BY <1>2, <3>1
  <2> HIDE DEF h, q, k
  <2> DEFINE x == k + 1
  <2>2. x \in Issues
    BY <1>3
  <2> HIDE DEF x
  <2>3. h \in Seq(Issues) /\ q \in Seq(Issues) /\ x \in Issues
    BY <1>1, <2>2
  <2>4. Strung(h, Append(q, x)) = Append(Strung(h, q), x)
    BY <2>3, StrungEnd
  <2> QED BY <2>1, <2>4 DEF x
<1>5. CASE r \in Connected(w)
  <2> DEFINE U == Unwritten(w, r)
             x == k + 1
  <2>1. A \in Seq(Issues) /\ U \in Seq(Issues) /\ x \in Issues
    BY <1>1, <1>3, ArrivingTyped
  <2>2. Strung(A, U) = FirstOnes(k)
    BY <1>2, <1>5 DEF ComesWhole, Strung
  <2>3. FirstOnes(k + 1) = Append(FirstOnes(k), k + 1)
    BY <1>1, OneMore
  <2>4. Unwritten(w, r)' = Append(U, x)
    BY <1>1, <1>4
  <2> HIDE DEF A, U, x
  <2>5. Strung(A, Append(U, x)) = Append(Strung(A, U), x)
    BY <2>1, StrungEnd
  <2>6. Strung(A, Append(U, x)) = FirstOnes(x)
    BY <2>2, <2>3, <2>5 DEF x
  <2>7. Arriving(w, r)' \o Unwritten(w, r)' = FirstOnes(issued'[w])
    BY <1>2, <2>4, <2>6 DEF Strung, A, x
  <2> QED BY <1>2, <1>5, <2>7 DEF ComesWhole
<1>6. CASE r \notin Connected(w)
  BY <1>2, <1>6 DEF ComesWhole
<1> QED BY <1>5, <1>6

LEMMA TakenFlow ==
    ASSUME QuicShapes, NEW w \in quic.names, NEW r \in quic.names, ComesWhole(w, r), StageOf(w),
           TakeMessage(w)
    PROVE  ComesWhole(w, r)'
<1> DEFINE q == sendQueue[w]
           A == Arriving(w, r)
<1>1. w \in QuicNames /\ r \in QuicNames /\ q \in Seq(Issues) /\ conns[w] \in Seq(QuicNames)
  BY QuSetting, QuRow
<1>2. /\ q # <<>> /\ frame[w] = 0 /\ slot[w] = 1 /\ life[w] # "left"
  BY DEF TakeMessage, Forwarding, Up, StageOf
<1>3. /\ sendQueue'[w] = Tail(q)
      /\ frame'[w] = (IF conns[w] = <<>> THEN 0 ELSE Head(q))
  BY <1>1 DEF TakeMessage, QuicShapes
<1>4. /\ life' = life /\ conns' = conns /\ slot' = slot /\ issued' = issued /\ quic' = quic
      /\ unsent' = unsent
  BY DEF TakeMessage, quicDriverVars
<1>5. A' = A
  BY AsideKeeps DEF Aside
<1>6. Connected(w)' = Connected(w)
  BY <1>4 DEF Connected
<1>7. CASE r \in Connected(w)
  <2>1. PICK i \in DOMAIN conns[w] : conns[w][i] = r
    BY <1>7 DEF Connected
  <2>2. i >= 1 /\ conns[w] # <<>>
    BY <1>1, <2>1
  <2> HIDE DEF q
  <2>3. Head(q) \in Issues /\ q = <<Head(q)>> \o Tail(q)
    BY <1>1, <1>2, HeadThenTail
  <2>4. Head(q) # 0
    BY <2>3, QuicBoundAssumption DEF Issues
  <2>5. Unwritten(w, r)' = <<Head(q)>> \o Tail(q)
    <3>1. frame'[w] # 0 /\ frame'[w] = Head(q) /\ sendQueue'[w] = Tail(q)
      BY <1>3, <2>2, <2>4 DEF q
    <3>2. \E j \in DOMAIN conns'[w] : conns'[w][j] = r /\ j >= slot'[w]
      BY <1>2, <1>4, <2>1, <2>2
    <3> QED BY <3>1, <3>2 DEF Unwritten
  <2>6. Unwritten(w, r) = q
    <3>1. Unwritten(w, r) = <<>> \o q
      BY <1>2 DEF Unwritten, q
    <3> QED BY <1>1, <3>1, NothingJoined
  <2> QED BY <1>2, <1>4, <1>5, <1>6, <2>3, <2>5, <2>6, QuicWholeStays
<1>8. CASE r \notin Connected(w)
  BY <1>2, <1>4, <1>5, <1>6, <1>8 DEF ComesWhole
<1> QED BY <1>7, <1>8

\* A new connection of a node that has published nothing.
LEMMA DialledFlow ==
    ASSUME QuicShapes, NEW w \in quic.names, NEW r \in quic.names, ComesWhole(w, r), StageOf(w),
           LinesOf(w), Dial(w)
    PROVE  ComesWhole(w, r)'
<1> DEFINE x == NextPeer(w)
           s == conns[w]
           t == Append(s, x)
<1>1. /\ w \in QuicNames /\ r \in QuicNames /\ s \in Seq(QuicNames) /\ x \notin dialled[w]
      /\ x \in QuicNames
  <2>1. Undialled(w) # {}
    BY DEF Dial
  <2> QED BY <2>1, QuSetting, QuRow, NextIsUndialled
<1>2. conns'[w] = t
  BY <1>1 DEF Dial, Dialled, QuicShapes
<1>3. /\ UNCHANGED <<life, sendQueue, frame, slot, issued, quic, unsent>> /\ life[w] = "dialling"
  BY DEF Dial, Dialled, quicDriverVars, loopVars
<1>4. Arriving(w, r)' = Arriving(w, r)
  BY AsideKeeps DEF Aside
<1>5. frame[w] = 0 /\ sendQueue[w] = <<>> /\ issued[w] = 0
  BY <1>3 DEF StageOf
<1>6. Unwritten(w, r) = <<>> /\ Unwritten(w, r)' = <<>>
  <2>1. Unwritten(w, r) = <<>> \o <<>> /\ Unwritten(w, r)' = <<>> \o <<>>
    BY <1>3, <1>5 DEF Unwritten
  <2> QED BY <2>1
<1>7. Connected(w)' = Connected(w) \union {x}
  <2> HIDE DEF x, s
  <2>1. /\ Len(s) \in Nat /\ DOMAIN s = 1..Len(s) /\ DOMAIN t = 1..Len(s) + 1
        /\ \A i \in 1..Len(s) : t[i] = s[i]
        /\ t[Len(s) + 1] = x
    BY <1>1, AppendProperties
  <2> HIDE DEF t
  <2>2. {t[i] : i \in DOMAIN t} = {s[i] : i \in DOMAIN s} \union {x}
    <3>1. \A i \in DOMAIN t : t[i] \in {s[j] : j \in DOMAIN s} \union {x}
      <4> SUFFICES ASSUME NEW i \in DOMAIN t PROVE t[i] \in {s[j] : j \in DOMAIN s} \union {x}
        OBVIOUS
      <4>1. i \in 1..Len(s) \/ i = Len(s) + 1
        BY <2>1
      <4>2. CASE i \in 1..Len(s)
        BY <2>1, <4>2
      <4>3. CASE i = Len(s) + 1
        BY <2>1, <4>3
      <4> QED BY <4>1, <4>2, <4>3
    <3>2. \A j \in DOMAIN s : s[j] \in {t[i] : i \in DOMAIN t}
      <4> SUFFICES ASSUME NEW j \in DOMAIN s PROVE \E i \in DOMAIN t : t[i] = s[j]
        OBVIOUS
      <4>1. j \in 1..Len(s) /\ j \in DOMAIN t
        BY <2>1
      <4>2. t[j] = s[j]
        BY <2>1, <4>1
      <4> QED BY <4>1, <4>2
    <3>3. x \in {t[i] : i \in DOMAIN t}
      <4>1. Len(s) + 1 \in DOMAIN t
        BY <2>1
      <4> QED BY <2>1, <4>1
    <3> QED BY <3>1, <3>2, <3>3
  <2> QED BY <1>2, <2>2 DEF Connected, s
<1>8. x \notin Connected(w)
  BY <1>1 DEF Connected, LinesOf
<1>9. CASE r = x
  <2>1. Arriving(w, r) = <<>>
    BY <1>8, <1>9 DEF ComesWhole
  <2>2. FirstOnes(0) = <<>>
    BY DEF FirstOnes
  <2>3. Arriving(w, r)' \o Unwritten(w, r)' = FirstOnes(issued'[w])
    <3>1. Arriving(w, r)' = <<>> /\ issued'[w] = 0
      BY <1>3, <1>4, <1>5, <2>1
    <3>2. <<>> \o <<>> = <<>>
      OBVIOUS
    <3> QED BY <1>6, <2>2, <3>1, <3>2
  <2>4. r \in Connected(w)' /\ life'[w] # "left"
    BY <1>3, <1>7, <1>9
  <2> QED BY <2>3, <2>4 DEF ComesWhole
<1>10. CASE r # x
  <2>1. r \in Connected(w)' <=> r \in Connected(w)
    BY <1>7, <1>10
  <2> QED BY <1>3, <1>4, <1>6, <2>1, QuicWholeStays
<1> QED BY <1>9, <1>10

\* The send loop writes to one connection after the other.
LEMMA WrittenFlow ==
    ASSUME QuicShapes, NEW w \in quic.names, NEW r \in quic.names, ComesWhole(w, r), StageOf(w),
           LinesOf(w), life[r] # "left", WriteStream(w)
    PROVE  ComesWhole(w, r)'
<1> DEFINE s == conns[w]
           k == slot[w]
           f == frame[w]
           q == sendQueue[w]
           h == s[k]
           A == Arriving(w, r)
           v == unsent[w][r]
           nil == <<>>
<1>1. /\ w \in QuicNames /\ r \in QuicNames /\ s \in Seq(QuicNames) /\ Len(s) \in Nat /\ k \in Nat \ {0}
      /\ q \in Seq(Issues)
  BY QuSetting, QuRow
<1>2. /\ UNCHANGED <<quic, conns, life, issued, sendQueue, cut>> /\ life[w] # "left"
      /\ UNCHANGED <<unread, hand, channel, pending, seen>>
  BY DEF WriteStream, quicDriverVars, intakeVars, Forwarding, Up
<1>3. /\ f # 0 /\ k <= Len(s)
      /\ slot'[w] = (IF k = Len(s) THEN 1 ELSE k + 1) /\ frame'[w] = (IF k = Len(s) THEN 0 ELSE f)
  BY <1>1 DEF WriteStream, LastSlot, QuicShapes, StageOf
<1>4. f \in Issues /\ h \in QuicNames /\ k \in DOMAIN s
  <2>1. f \in Issues \union {0}
    BY <1>1, QuRow
  <2> QED BY <1>1, <1>3, <2>1
<1>5. \A i \in DOMAIN s : s[i] = h => i = k
  BY <1>4 DEF LinesOf
<1>6. unsent' = unsent \/ unsent' = [unsent EXCEPT ![w][h] = Append(unsent[w][h], f)]
  BY DEF WriteStream, Here
<1>7. unsent \in [QuicNames -> [QuicNames -> Seq(Issues)]]
  BY DEF QuicShapes
<1>8. Connected(w)' = Connected(w)
  BY <1>2 DEF Connected
<1>9. CASE r = h
  <2>1. unsent' = [unsent EXCEPT ![w][r] = Append(v, f)]
    BY <1>9 DEF WriteStream, Here
  <2>2. unsent'[w][r] = Append(v, f)
    BY <1>1, <1>7, <2>1
  <2>3. A' = Append(A, f)
    <3> DEFINE B == Strung(Strung(Strung(seen[r][w], ToPoll(w, r)), InHand(hand[r][w])), unread[w][r])
    <3>1. seen[r][w] \in Seq(Issues) /\ ToPoll(w, r) \in Seq(Issues)
          /\ InHand(hand[r][w]) \in Seq(Issues) /\ unread[w][r] \in Seq(Issues) /\ v \in Seq(Issues)
      BY <1>1, ArrivingTyped
    <3>2. Strung(seen[r][w], ToPoll(w, r)) \in Seq(Issues)
      BY <3>1, StrungTyped
    <3>3. Strung(Strung(seen[r][w], ToPoll(w, r)), InHand(hand[r][w])) \in Seq(Issues)
      BY <3>1, <3>2, StrungTyped
    <3>4. B \in Seq(Issues)
      BY <3>1, <3>3, StrungTyped
    <3>5. A = Strung(B, v)
      BY <1>1, ArrivingTyped DEF FiveParts
    <3>6. A' = Strung(B, unsent'[w][r])
      BY <1>2 DEF Arriving, Strung, ToPoll, InHand
    <3> HIDE DEF B, A, v, f
    <3>7. Strung(B, Append(v, f)) = Append(Strung(B, v), f)
      BY <1>4, <3>1, <3>4, StrungEnd
    <3> QED BY <2>2, <3>5, <3>6, <3>7
  <2>4. r \in Connected(w)
    BY <1>4, <1>9 DEF Connected
  <2>5. Unwritten(w, r) = <<f>> \o q
    <3>1. \E i \in DOMAIN s : s[i] = r /\ i >= k
      BY <1>1, <1>4, <1>9
    <3> QED BY <1>3, <3>1 DEF Unwritten
  <2>6. Unwritten(w, r)' = q
    <3>1. ASSUME frame'[w] # 0 PROVE ~\E i \in DOMAIN conns'[w] : conns'[w][i] = r /\ i >= slot'[w]
      <4>1. slot'[w] = k + 1
        BY <1>3, <3>1
      <4> QED BY <1>1, <1>2, <1>5, <1>9, <4>1
    <3>2. Unwritten(w, r)' = <<>> \o q
      BY <1>2, <3>1 DEF Unwritten
    <3> QED BY <1>1, <3>2, NothingJoined
  <2>7. A \in Seq(Issues)
    BY <1>1, ArrivingTyped
  <2> DEFINE one == <<f>>
  <2> HIDE DEF f, q, A
  <2>8. one \in Seq(Issues) /\ A \in Seq(Issues) /\ q \in Seq(Issues) /\ Append(A, f) = A \o <<f>>
    BY <1>1, <1>4, <2>7, AppendIsConcat
  <2>9. Append(A, f) = Strung(A, one)
    BY <2>8 DEF Strung
  <2> HIDE DEF one
  <2>10. Strung(Strung(A, one), q) = Strung(A, Strung(one, q))
    BY <2>8, StrungTwice
  <2>11. Strung(A, Strung(one, q)) = FirstOnes(issued[w])
    <3>1. Arriving(w, r) \o Unwritten(w, r) = FirstOnes(issued[w])
      BY <1>2, <2>4 DEF ComesWhole
    <3> QED BY <2>5, <3>1 DEF Strung, A, one
  <2>12. Arriving(w, r)' \o Unwritten(w, r)' = FirstOnes(issued'[w])
    <3>1. Arriving(w, r)' = Strung(A, one)
      BY <2>3, <2>9 DEF A
    <3> QED BY <1>2, <2>6, <2>10, <2>11, <3>1 DEF Strung
  <2> QED BY <1>2, <1>8, <2>4, <2>12 DEF ComesWhole
<1>10. CASE r # h
  <2>1. unsent'[w][r] = v
    <3> DEFINE y == Append(unsent[w][h], f)
               T == Seq(Issues)
    <3>1. unsent' = unsent \/ unsent' = [unsent EXCEPT ![w][h] = y]
      BY <1>6
    <3>2. unsent \in [QuicNames -> [QuicNames -> T]] /\ h # r
      BY <1>7, <1>10
    <3> HIDE DEF y, h, T
    <3>3. [unsent EXCEPT ![w][h] = y][w][r] = unsent[w][r]
      BY <1>1, <1>4, <3>2, CellApart
    <3> QED BY <3>1, <3>3, Zenon
  <2>2. A' = A
    BY <1>2, <2>1 DEF Arriving
  <2>3. ASSUME NEW i \in DOMAIN s, s[i] = r PROVE i # k
    BY <1>10, <2>3
  <2>4. Unwritten(w, r)' = Unwritten(w, r)
    <3>1. CASE k = Len(s)
      <4>1. ~\E i \in DOMAIN s : s[i] = r /\ i >= k
        <5> SUFFICES ASSUME NEW i \in DOMAIN s, s[i] = r, i >= k PROVE FALSE
          OBVIOUS
        <5>1. i \in Nat /\ i <= Len(s)
          BY <1>1
        <5> QED BY <1>1, <2>3, <3>1, <5>1
      <4>2. frame'[w] = 0
        BY <1>3, <3>1
      <4> QED BY <1>2, <4>1, <4>2 DEF Unwritten
    <3>2. CASE k # Len(s)
      <4>1. slot'[w] = k + 1 /\ frame'[w] = f
        BY <1>3, <3>2
      <4>2. \A i \in DOMAIN s : s[i] = r => (i >= k <=> i >= k + 1)
        <5> SUFFICES ASSUME NEW i \in DOMAIN s, s[i] = r PROVE i >= k <=> i >= k + 1
          OBVIOUS
        <5>1. i \in Nat /\ i # k
          BY <1>1, <2>3
        <5> QED BY <1>1, <5>1
      <4>3. (\E i \in DOMAIN s : s[i] = r /\ i >= k) <=> (\E i \in DOMAIN s : s[i] = r /\ i >= k + 1)
        BY <4>2
      <4> QED BY <1>2, <4>1, <4>3 DEF Unwritten
    <3> QED BY <3>1, <3>2
  <2> QED BY <1>2, <1>8, <2>2, <2>4, QuicWholeStays
<1> QED BY <1>9, <1>10

\* The first of the first ones.
LEMMA FirstOfOnes ==
    ASSUME NEW T, NEW a, NEW b, a \in Seq(T) /\ b \in Seq(T), NEW n \in Nat, Strung(a, b) = FirstOnes(n)
    PROVE  a = FirstOnes(Len(a)) /\ Len(a) <= n
<1>1. /\ Len(a) \in Nat /\ Len(b) \in Nat /\ Len(a \o b) = Len(a) + Len(b)
      /\ \A i \in 1..Len(a) : (a \o b)[i] = a[i]
  BY ConcatProperties
<1>2. Len(FirstOnes(n)) = n /\ \A i \in 1..n : FirstOnes(n)[i] = i
  BY DEF FirstOnes
<1>3. Len(a) <= n /\ n \in Nat
  BY <1>1, <1>2 DEF Strung
<1>4. \A i \in 1..Len(a) : a[i] = i
  BY <1>1, <1>2, <1>3 DEF Strung
<1>5. a = [i \in 1..Len(a) |-> a[i]]
  OBVIOUS
<1> QED BY <1>3, <1>4, <1>5 DEF FirstOnes

LEMMA LeftFlow ==
    ASSUME QuicShapes, NEW w \in quic.names, NEW r \in quic.names, w # r, ComesWhole(w, r), StageOf(w),
           EndIsKnown(w), life[r] # "left", Leave(w)
    PROVE  ComesWhole(w, r)'
<1> DEFINE X == Strung(Strung(Strung(seen[r][w], ToPoll(w, r)), InHand(hand[r][w])), unread[w][r])
           v == unsent[w][r]
           nil == <<>>
<1>1. /\ w \in QuicNames /\ r \in QuicNames /\ X \in Seq(Issues) /\ v \in Seq(Issues)
      /\ Arriving(w, r) = Strung(X, v) /\ issued[w] \in Nat
  <2>1. w \in QuicNames /\ r \in QuicNames
    BY QuSetting
  <2>2. seen[r][w] \in Seq(Issues) /\ ToPoll(w, r) \in Seq(Issues)
        /\ InHand(hand[r][w]) \in Seq(Issues) /\ unread[w][r] \in Seq(Issues) /\ v \in Seq(Issues)
    BY <2>1, ArrivingTyped
  <2>3. Strung(seen[r][w], ToPoll(w, r)) \in Seq(Issues)
    BY <2>2, StrungTyped
  <2>4. Strung(Strung(seen[r][w], ToPoll(w, r)), InHand(hand[r][w])) \in Seq(Issues)
    BY <2>2, <2>3, StrungTyped
  <2>5. X \in Seq(Issues)
    BY <2>2, <2>4, StrungTyped
  <2>6. Arriving(w, r) = Strung(X, v)
    BY <2>1, ArrivingTyped DEF FiveParts
  <2> QED BY <2>1, <2>2, <2>5, <2>6, QuRow
<1>2. /\ life[w] = "finishing" /\ slot[w] > Len(conns[w]) /\ life'[w] = "left"
      /\ UNCHANGED <<quic, conns, issued, cut, seen>>
  BY <1>1 DEF Leave, QuicShapes, loopVars
<1>3. /\ unsent'[w][r] = nil /\ unread'[w][r] = unread[w][r] /\ hand'[r][w] = hand[r][w]
      /\ channel'[r] = channel[r] /\ pending'[r] = pending[r]
  <2>1. unsent'[w][r] = nil
    BY <1>1 DEF Leave
  <2>2. unread'[w][r] = unread[w][r]
    BY <1>1 DEF Leave, QuicShapes
  <2>3. hand'[r][w] = hand[r][w] /\ channel'[r] = channel[r] /\ pending'[r] = pending[r]
    BY <1>1 DEF Leave, QuicShapes
  <2> QED BY <2>1, <2>2, <2>3
<1>4. Arriving(w, r)' = Strung(X, nil)
  BY <1>2, <1>3 DEF Arriving, Strung, ToPoll, InHand
<1> HIDE DEF X, v
<1>5. Strung(X, nil) = X
  BY <1>1, NothingJoined DEF Strung
<1>6. Connected(w)' = Connected(w)
  BY <1>2 DEF Connected
<1>7. CASE r \in Connected(w)
  <2>1. Unwritten(w, r) = <<>>
    <3>1. frame[w] = 0 /\ sendQueue[w] = <<>>
      BY <1>2 DEF StageOf
    <3>2. <<>> \o <<>> = <<>>
      OBVIOUS
    <3> QED BY <3>1, <3>2 DEF Unwritten
  <2>2. Strung(X, v) = FirstOnes(issued[w])
    <3>1. Arriving(w, r) \o Unwritten(w, r) = FirstOnes(issued[w])
      BY <1>2, <1>7 DEF ComesWhole
    <3>2. Strung(X, v) \in Seq(Issues)
      BY <1>1, StrungTyped
    <3>3. Strung(X, v) \o <<>> = Strung(X, v)
      BY <3>2, NothingJoined
    <3> QED BY <1>1, <2>1, <3>1, <3>3
  <2>3. X = FirstOnes(Len(X))
    BY <1>1, <2>2, FirstOfOnes
  <2>4. ASSUME w \in quic.writers, r \notin cut[w] PROVE Len(X) = QuicDue
    <3>1. PICK i \in DOMAIN conns[w] : conns[w][i] = r
      BY <1>7 DEF Connected
    <3>2. i < slot[w]
      <4>1. conns[w] \in Seq(QuicNames) /\ slot[w] \in Nat
        BY <1>1, QuRow
      <4> QED BY <1>2, <3>1, <4>1
    <3>3. v = <<>>
      BY <1>2, <2>4, <3>1, <3>2 DEF EndIsKnown, v
    <3>4. X = FirstOnes(issued[w])
      BY <1>5, <2>2, <3>3
    <3>5. issued[w] = QuicDue
      BY <1>2, <2>4 DEF StageOf
    <3> QED BY <1>1, <3>4, <3>5 DEF FirstOnes
  <2>5. Arriving(w, r)' = X
    BY <1>4, <1>5
  <2>6. /\ Arriving(w, r)' = FirstOnes(Len(Arriving(w, r)'))
        /\ w \in quic'.writers /\ r \notin cut'[w] => Len(Arriving(w, r)') = QuicDue'
    BY <1>2, <2>3, <2>4, <2>5 DEF QuicDue
  <2> QED BY <1>2, <1>3, <1>6, <1>7, <2>6 DEF ComesWhole
<1>8. CASE r \notin Connected(w)
  <2>1. Strung(X, v) = <<>>
    BY <1>1, <1>8 DEF ComesWhole
  <2>2. FirstOnes(0) = <<>>
    BY DEF FirstOnes
  <2>3. X = FirstOnes(Len(X)) /\ Len(X) <= 0 /\ Len(X) \in Nat
    BY <1>1, <2>1, <2>2, FirstOfOnes
  <2>4. X = <<>>
    BY <2>2, <2>3
  <2> QED BY <1>2, <1>3, <1>4, <1>5, <1>6, <1>8, <2>4 DEF ComesWhole
<1> QED BY <1>7, <1>8

\* What is written of w, and by whom.
LEMMA UnsentOfOthers ==
    ASSUME QuicShapes, quic.reliable, NEW n \in quic.names, QuicActs(n), NEW w \in quic.names, w # n,
           NEW r \in quic.names
    PROVE  /\ unsent[w][r] = <<>> => unsent'[w][r] = <<>>
           /\ r # n => unsent'[w][r] = unsent[w][r]
<1>1. n \in QuicNames /\ w \in QuicNames /\ r \in QuicNames
  BY QuSetting
<1>2. CASE Aside(n) \/ PollReceive(n)
  <2>1. unsent' = unsent
    BY <1>2, AsideKeeps DEF PollReceive
  <2> QED BY <2>1
<1>3. CASE WriteStream(n)
  <2>1. unsent' = unsent \/ \E x, y : unsent' = [unsent EXCEPT ![n][x] = y]
    BY <1>3 DEF WriteStream
  <2>2. unsent'[w] = unsent[w]
    BY <1>1, <2>1 DEF QuicShapes
  <2> QED BY <2>2
<1>4. CASE Leave(n)
  <2>1. unsent'[w] = [unsent[w] EXCEPT ![n] = <<>>]
    BY <1>1, <1>4 DEF Leave
  <2>2. unsent[w] \in [QuicNames -> Seq(Issues)]
    BY <1>1 DEF QuicShapes
  <2>3. unsent'[w][r] = IF r = n THEN <<>> ELSE unsent[w][r]
    BY <1>1, <2>1, <2>2
  <2> QED BY <2>3
<1> QED BY <1>2, <1>3, <1>4, ActCases

\* What is on its way between two others.
LEMMA ArrivingOfOthers ==
    ASSUME QuicShapes, quic.reliable, NEW n \in quic.names, QuicActs(n), NEW w \in quic.names, w # n,
           NEW r \in quic.names, r # n \/ ~Leave(n)
    PROVE  Arriving(w, r)' = Arriving(w, r)
<1>1. n \in QuicNames /\ w \in QuicNames /\ r \in QuicNames
  BY QuSetting
<1>2. CASE Aside(n)
  BY <1>2, AsideKeeps
<1>3. CASE PollReceive(n)
  BY <1>1, <1>3, PollKeeps
<1>4. CASE WriteStream(n)
  <2>1. unsent'[w] = unsent[w]
    <3>1. unsent' = unsent \/ \E x, y : unsent' = [unsent EXCEPT ![n][x] = y]
      BY <1>4 DEF WriteStream
    <3> QED BY <1>1, <3>1 DEF QuicShapes
  <2>2. UNCHANGED <<unread, hand, channel, pending, seen>>
    BY <1>4 DEF WriteStream, intakeVars
  <2> QED BY <2>1, <2>2 DEF Arriving
<1>5. CASE Leave(n) /\ r # n
  <2>1. unsent'[w][r] = unsent[w][r]
    BY <1>5, UnsentOfOthers
  <2>2. unread'[w][r] = unread[w][r] /\ hand'[r][w] = hand[r][w]
        /\ channel'[r] = channel[r] /\ pending'[r] = pending[r] /\ seen' = seen
    BY <1>1, <1>5 DEF Leave, QuicShapes
  <2> QED BY <2>1, <2>2 DEF Arriving
<1> QED BY <1>2, <1>3, <1>4, <1>5, ActCases

LEMMA EndStays ==
    ASSUME NEW w, EndIsKnown(w), QuicRowKept(w),
           \A i \in DOMAIN conns[w] : life'[conns[w][i]] # "left" => life[conns[w][i]] # "left",
           \A i \in DOMAIN conns[w] :
               unsent[w][conns[w][i]] = <<>> => unsent'[w][conns[w][i]] = <<>>
    PROVE  EndIsKnown(w)'
BY DEF EndIsKnown, QuicRowKept

LEMMA PeersAreNames ==
    ASSUME NEW w, LinesOf(w), NEW i \in DOMAIN conns[w]
    PROVE  conns[w][i] \in quic.names /\ conns[w][i] # w
BY DEF LinesOf

LEMMA EndOfOthers ==
    ASSUME QuicShapes, quic.reliable, NEW n \in quic.names, QuicActs(n), NEW w \in quic.names, w # n,
           LinesOf(w), EndIsKnown(w)
    PROVE  EndIsKnown(w)'
<1>1. QuicRowKept(w)
  BY OtherQuicRows
<1>2. ASSUME NEW i \in DOMAIN conns[w]
      PROVE  /\ life'[conns[w][i]] # "left" => life[conns[w][i]] # "left"
             /\ unsent[w][conns[w][i]] = <<>> => unsent'[w][conns[w][i]] = <<>>
  <2> DEFINE p == conns[w][i]
  <2>1. p \in quic.names
    BY PeersAreNames
  <2> HIDE DEF p
  <2>2. life[p] = "left" => life'[p] = "left"
    BY <2>1, QuicLeftStays
  <2>3. unsent[w][p] = <<>> => unsent'[w][p] = <<>>
    BY <2>1, UnsentOfOthers
  <2> QED BY <2>2, <2>3 DEF p
<1> QED BY <1>1, <1>2, EndStays

LEMMA EndOfOwn ==
    ASSUME QuicShapes, quic.reliable, NEW n \in quic.names, QuicActs(n),
           LinesOf(n), StageOf(n), EndIsKnown(n)
    PROVE  EndIsKnown(n)'
<1>0. /\ n \in QuicNames /\ slot[n] \in Nat \ {0} /\ conns[n] \in Seq(QuicNames)
      /\ \A i \in DOMAIN conns[n] : i \in Nat /\ i >= 1
  <2>1. n \in QuicNames
    BY QuSetting
  <2>2. slot[n] \in Nat \ {0} /\ conns[n] \in Seq(QuicNames)
    BY <2>1, QuRow
  <2> QED BY <2>1, <2>2
<1>f. life \in [QuicNames -> Up \union {"down", "left"}]
  BY DEF QuicShapes
<1>1. CASE AwaitStopped(n)
  <2> DEFINE k == slot[n]
             h == conns[n][k]
  <2>1. /\ UNCHANGED <<conns, unsent, life>> /\ slot'[n] = k + 1 /\ life[n] = "finishing"
        /\ cut'[n] = IF unsent[n][h] = <<>> THEN cut[n] ELSE cut[n] \union {h}
    BY <1>0, <1>1 DEF AwaitStopped, quicDriverVars, Here, QuicShapes
  <2>2. ASSUME NEW i \in DOMAIN conns[n], i < k + 1, conns[n][i] \notin cut'[n], life[conns[n][i]] # "left"
        PROVE  unsent[n][conns[n][i]] = <<>>
    <3>1. conns[n][i] \notin cut[n] /\ (conns[n][i] = h => unsent[n][h] = <<>>)
      BY <2>1, <2>2
    <3>2. CASE i = k
      BY <3>1, <3>2
    <3>3. CASE i # k
      <4>1. i < k
        BY <1>0, <2>2, <3>3
      <4> QED BY <2>1, <2>2, <3>1, <4>1 DEF EndIsKnown
    <3> QED BY <3>2, <3>3
  <2> QED BY <2>1, <2>2 DEF EndIsKnown
<1>2. CASE Leave(n)
  <2>1. \A p \in QuicNames : unsent'[n][p] = <<>>
    BY <1>0, <1>2 DEF Leave
  <2>2. conns' = conns /\ \A i \in DOMAIN conns[n] : conns[n][i] \in QuicNames
    BY <1>0, <1>2 DEF Leave
  <2> QED BY <2>1, <2>2 DEF EndIsKnown
<1>3. CASE FinishStreams(n)
  <2>1. slot[n] = 1 /\ slot' = slot /\ conns' = conns
    BY <1>3 DEF FinishStreams, SendLoopDone, StageOf, loopVars
  <2>2. \A i \in DOMAIN conns[n] : ~(i < 1)
    BY <1>0
  <2> QED BY <2>1, <2>2 DEF EndIsKnown
<1>4. CASE BindEndpoint(n) \/ EndConnect(n) \/ EndDrain(n) \/ EndSilent(n)
  <2>1. life'[n] \notin {"finishing", "left"}
    <3>1. CASE BindEndpoint(n)
      BY <1>0, <1>f, <3>1 DEF BindEndpoint
    <3>2. CASE EndConnect(n)
      BY <1>0, <1>f, <3>2 DEF EndConnect
    <3>3. CASE EndDrain(n)
      BY <1>0, <1>f, <3>3 DEF EndDrain, InDrain
    <3>4. CASE EndSilent(n)
      BY <1>0, <1>f, <3>4 DEF EndSilent
    <3> QED BY <1>4, <3>1, <3>2, <3>3, <3>4
  <2> QED BY <2>1 DEF EndIsKnown
<1>5. CASE Dial(n) \/ DialFails(n) \/ PublishReliable(n) \/ TakeMessage(n) \/ WriteStream(n) \/ PollReceive(n)
  <2>1. life' = life
    BY <1>5 DEF Dial, DialFails, Dialled, PublishReliable, Issue, TakeMessage, WriteStream, PollReceive,
       quicDriverVars
  <2>2. life[n] \notin {"finishing", "left"}
    BY <1>5 DEF Dial, DialFails, PublishReliable, Issue, TakeMessage, WriteStream, PollReceive, InDrain,
       Forwarding, Up
  <2> QED BY <2>1, <2>2 DEF EndIsKnown
<1> QED BY <1>1, <1>2, <1>3, <1>4, <1>5, ActCases DEF Aside

\* A step of the writer itself.
LEMMA FlowOfOwn ==
    ASSUME QuicShapes, quic.reliable, NEW w \in quic.names, QuicActs(w), NEW r \in quic.names, r # w,
           life[r] # "left", LinesOf(w), StageOf(w), EndIsKnown(w), ComesWhole(w, r)
    PROVE  ComesWhole(w, r)'
<1>0. w \in QuicNames /\ r \in QuicNames /\ life \in [QuicNames -> Up \union {"down", "left"}]
  BY QuSetting DEF QuicShapes
<1>q. quic' = quic
  BY QuicStageOwn
<1>1. CASE PublishReliable(w)
  BY <1>1, PublishedFlow
<1>2. CASE TakeMessage(w)
  BY <1>2, TakenFlow
<1>3. CASE Dial(w)
  BY <1>3, DialledFlow
<1>4. CASE WriteStream(w)
  BY <1>4, WrittenFlow
<1>5. CASE Leave(w)
  BY <1>5, LeftFlow
<1>6. CASE \/ BindEndpoint(w) \/ DialFails(w) \/ EndConnect(w) \/ EndDrain(w) \/ EndSilent(w)
           \/ FinishStreams(w) \/ PollReceive(w)
  <2>1. UNCHANGED <<issued, sendQueue, frame, slot, cut, unsent>>
    BY <1>6 DEF BindEndpoint, DialFails, Dialled, EndConnect, EndDrain, EndSilent, FinishStreams, PollReceive,
       quicDriverVars, loopVars
  <2>2. conns'[w] = conns[w]
    BY <1>0, <1>6 DEF BindEndpoint, DialFails, Dialled, EndConnect, EndDrain, EndSilent, FinishStreams,
       PollReceive, QuicShapes
  <2>3. Arriving(w, r)' = Arriving(w, r)
    <3>1. CASE PollReceive(w)
      BY <1>0, <3>1, PollKeeps
    <3>2. CASE ~PollReceive(w)
      BY <1>6, <3>2, AsideKeeps DEF Aside
    <3> QED BY <3>1, <3>2
  <2>4. Unwritten(w, r)' = Unwritten(w, r) /\ Connected(w)' = Connected(w)
    BY <2>1, <2>2 DEF Unwritten, Connected
  <2>5. ~Leave(w)
    <3>1. Leave(w) => life[w] = "finishing" /\ life'[w] = "left"
      BY <1>0 DEF Leave
    <3>2. life[w] = "finishing" => life' = life
      BY <1>6 DEF BindEndpoint, DialFails, Dialled, EndConnect, EndDrain, EndSilent, FinishStreams, PollReceive,
         InDrain, quicDriverVars
    <3> QED BY <3>1, <3>2
  <2>6. life'[w] = "left" <=> life[w] = "left"
    BY <2>5, QuicLeftStays
  <2>7. life[w] = "left" => unsent[w][r] = <<>>
    BY DEF ComesWhole
  <2> QED BY <1>q, <2>1, <2>3, <2>4, <2>6, <2>7, QuicWholeStays
<1>7. CASE AwaitStopped(w)
  <2>1. UNCHANGED <<issued, sendQueue, frame, conns, unsent, life>> /\ life[w] = "finishing"
    BY <1>7 DEF AwaitStopped, quicDriverVars
  <2>2. frame[w] = 0
    BY <2>1 DEF StageOf
  <2>3. Unwritten(w, r)' = Unwritten(w, r) /\ Connected(w)' = Connected(w)
    BY <2>1, <2>2 DEF Unwritten, Connected
  <2>4. Arriving(w, r)' = Arriving(w, r)
    BY <1>7, AsideKeeps DEF Aside
  <2> QED BY <1>q, <2>1, <2>3, <2>4, QuicWholeStays
<1> QED BY <1>1, <1>2, <1>3, <1>4, <1>5, <1>6, <1>7, ActCases DEF Aside

LEMMA QuicFlowsStep ==
    ASSUME QuicInv, [QuicNext]_quicVars
    PROVE  QuicFlows'
<1>1. /\ QuicShapes /\ quic' = quic /\ quic.names \subseteq QuicNames
      /\ \A m \in quic.names : LinesOf(m) /\ StageOf(m)
  BY QuicStagesStep, QuSetting DEF QuicInv, QuicStages
<1>2. SUFFICES ASSUME quic.reliable
               PROVE  /\ \A n \in quic.names : EndIsKnown(n)'
                      /\ \A w, r \in quic.names : w # r /\ life'[r] # "left" => ComesWhole(w, r)'
  BY <1>1 DEF QuicFlows
<1>3. /\ \A n \in quic.names : EndIsKnown(n)
      /\ \A w, r \in quic.names : w # r /\ life[r] # "left" => ComesWhole(w, r)
  BY <1>2 DEF QuicInv, QuicFlows
<1>4. CASE UNCHANGED quicVars
  <2>1. \A n \in quic.names : QuicRowKept(n)
    BY <1>4 DEF quicVars, quicDriverVars, loopVars, QuicRowKept
  <2>2. UNCHANGED <<life, unsent, unread, hand, channel, pending, seen>>
    BY <1>4 DEF quicVars, quicDriverVars, intakeVars
  <2>3. ASSUME NEW n \in quic.names PROVE EndIsKnown(n)'
    BY <1>3, <2>1, <2>2, EndStays
  <2>4. ASSUME NEW w \in quic.names, NEW r \in quic.names, w # r, life'[r] # "left" PROVE ComesWhole(w, r)'
    <3>1. Arriving(w, r)' = Arriving(w, r)
      BY <2>2 DEF Arriving
    <3>2. ComesWhole(w, r) /\ (life[w] = "left" => unsent'[w][r] = <<>>)
      BY <1>3, <2>2, <2>4 DEF ComesWhole
    <3> QED BY <1>1, <2>1, <3>1, <3>2, WholeRowStays
  <2> QED BY <2>3, <2>4
<1>5. ASSUME NEW x \in quic.names, NEW y \in quic.names,
             Transmit(x, y) \/ ReadReliableStream(y, x) \/ DispatchDecoded(y, x)
      PROVE  /\ \A n \in quic.names : EndIsKnown(n)'
             /\ \A w, r \in quic.names : w # r /\ life'[r] # "left" => ComesWhole(w, r)'
  <2>1. \A m \in quic.names : QuicRowKept(m)
    BY <1>5, MovesKeepRows
  <2>2. life' = life
    BY <1>5 DEF Transmit, ReadReliableStream, DispatchDecoded, quicDriverVars
  <2>3. \A w, r \in QuicNames : unsent[w][r] = <<>> => unsent'[w][r] = <<>>
    <3>1. unsent' = unsent \/ (unsent[x][y] # <<>> /\ unsent' = [unsent EXCEPT ![x][y] = Tail(@)])
      BY <1>5 DEF Transmit, ReadReliableStream, DispatchDecoded
    <3>2. unsent \in [QuicNames -> [QuicNames -> Seq(Issues)]] /\ x \in QuicNames /\ y \in QuicNames
      BY <1>1 DEF QuicShapes
    <3>3. CASE unsent[x][y] # <<>> /\ unsent' = [unsent EXCEPT ![x][y] = Tail(@)]
      <4> DEFINE t == Tail(unsent[x][y])
                 T == Seq(Issues)
      <4>1. /\ unsent' = [unsent EXCEPT ![x][y] = t] /\ unsent[x][y] # <<>>
            /\ unsent \in [QuicNames -> [QuicNames -> T]]
        BY <3>2, <3>3
      <4> HIDE DEF t, T
      <4> SUFFICES ASSUME NEW w \in QuicNames, NEW r \in QuicNames, unsent[w][r] = <<>>
                   PROVE  unsent'[w][r] = <<>>
        OBVIOUS
      <4>2. CASE w = x
        <5>1. y # r
          BY <4>1, <4>2
        <5>2. [unsent EXCEPT ![x][y] = t][w][r] = unsent[w][r]
          BY <3>2, <4>1, <5>1, CellApart
        <5> QED BY <4>1, <5>2
      <4>3. CASE w # x
        BY <3>2, <4>1, <4>3
      <4> QED BY <4>2, <4>3
    <3> QED BY <3>1, <3>3
  <2>4. ASSUME NEW n \in quic.names PROVE EndIsKnown(n)'
    <3>1. \A i \in DOMAIN conns[n] : conns[n][i] \in QuicNames
      BY <1>1, PeersAreNames
    <3> QED BY <1>1, <1>3, <2>1, <2>2, <2>3, <3>1, EndStays
  <2>5. ASSUME NEW w \in quic.names, NEW r \in quic.names, w # r, life'[r] # "left" PROVE ComesWhole(w, r)'
    <3>0. w \in QuicNames /\ r \in QuicNames /\ x \in QuicNames /\ y \in QuicNames
      BY <1>1
    <3>1. Arriving(w, r)' = Arriving(w, r)
      <4>1. CASE Transmit(x, y)
        BY <1>1, <1>2, <3>0, <4>1, TransmitKeeps
      <4>2. CASE ReadReliableStream(y, x)
        BY <1>1, <3>0, <4>2, ReadKeeps
      <4>3. CASE DispatchDecoded(y, x)
        BY <1>1, <3>0, <4>3, DispatchKeeps
      <4> QED BY <1>5, <4>1, <4>2, <4>3
    <3>2. ComesWhole(w, r)
      BY <1>3, <2>2, <2>5
    <3>3. life[w] = "left" => unsent'[w][r] = <<>>
      BY <2>3, <3>0, <3>2 DEF ComesWhole
    <3> QED BY <1>1, <2>1, <3>1, <3>2, <3>3, WholeRowStays
  <2> QED BY <2>4, <2>5
<1>6. ASSUME NEW n \in quic.names, QuicActs(n)
      PROVE  /\ \A m \in quic.names : EndIsKnown(m)'
             /\ \A w, r \in quic.names : w # r /\ life'[r] # "left" => ComesWhole(w, r)'
  <2>1. ASSUME NEW m \in quic.names PROVE EndIsKnown(m)'
    <3>1. CASE m = n
      BY <1>1, <1>2, <1>3, <1>6, <3>1, EndOfOwn
    <3>2. CASE m # n
      BY <1>1, <1>2, <1>3, <1>6, <3>2, EndOfOthers
    <3> QED BY <3>1, <3>2
  <2>2. ASSUME NEW w \in quic.names, NEW r \in quic.names, w # r, life'[r] # "left" PROVE ComesWhole(w, r)'
    <3>1. life[r] # "left" /\ ComesWhole(w, r)
      <4>1. life[r] # "left"
        BY <1>1, <1>2, <1>6, <2>2, QuicLeftStays
      <4> QED BY <1>3, <2>2, <4>1
    <3>2. CASE w = n
      BY <1>1, <1>2, <1>3, <1>6, <2>2, <3>1, <3>2, FlowOfOwn
    <3>3. CASE w # n
      <4>1. r # n \/ ~Leave(n)
        <5>1. Leave(n) => life'[n] = "left"
          BY <1>1 DEF Leave, QuicShapes
        <5> QED BY <2>2, <5>1
      <4>2. Arriving(w, r)' = Arriving(w, r)
        BY <1>1, <1>2, <1>6, <3>3, <4>1, ArrivingOfOthers
      <4>3. QuicRowKept(w)
        BY <1>1, <1>6, <3>3, OtherQuicRows
      <4>4. life[w] = "left" => unsent[w][r] = <<>>
        BY <3>1 DEF ComesWhole
      <4>5. life[w] = "left" => unsent'[w][r] = <<>>
        BY <1>1, <1>2, <1>6, <3>3, <4>4, UnsentOfOthers
      <4> QED BY <1>1, <3>1, <4>2, <4>3, <4>5, WholeRowStays
    <3> QED BY <3>2, <3>3
  <2> QED BY <2>1, <2>2
<1>7. CASE QuicNext
  BY <1>5, <1>6, <1>7, QuicCases
<1> QED BY <1>4, <1>7

LEMMA QuicInvStep == QuicInv /\ [QuicNext]_quicVars => QuicInv'
<1> SUFFICES ASSUME QuicInv, [QuicNext]_quicVars PROVE QuicInv'
  OBVIOUS
<1>1. QuicShapes'
  BY QuicShapesStep
<1>2. QuicStages'
  BY QuicStagesStep
<1>3. QuicFlows'
  BY QuicFlowsStep
<1> QED BY <1>1, <1>2, <1>3 DEF QuicInv

LEMMA QuicIsReliable == QuicInv => ReliableStreamsHold
<1> SUFFICES ASSUME QuicInv, quic.reliable, NEW w \in quic.names, NEW r \in quic.names,
                    w # r /\ r \in Connected(w) /\ life[r] # "left"
             PROVE  /\ Counting(Arriving(w, r))
                    /\ life[w] # "left" => Len(Arriving(w, r) \o Unwritten(w, r)) = issued[w]
                    /\ life[w] = "left" /\ w \in quic.writers /\ r \notin cut[w] =>
                           Len(Arriving(w, r)) = quic.ticks * quic.values
  BY DEF ReliableStreamsHold
<1>1. ComesWhole(w, r)
  BY DEF QuicInv, QuicFlows
<1>2. Arriving(w, r) \in Seq(Issues) /\ Unwritten(w, r) \in Seq(Issues) /\ issued[w] \in Nat
  <2>1. w \in QuicNames /\ r \in QuicNames /\ QuicShapes
    BY QuSetting DEF QuicInv
  <2> QED BY <2>1, ArrivingTyped, QuRow
<1> DEFINE A == Arriving(w, r)
           U == Unwritten(w, r)
<1>3. \A n \in Nat : Counting(FirstOnes(n)) /\ Len(FirstOnes(n)) = n
  BY DEF Counting, FirstOnes
<1>4. CASE life[w] # "left"
  <2>1. A \o U = FirstOnes(issued[w])
    BY <1>1, <1>4 DEF ComesWhole
  <2>2. A = FirstOnes(Len(A)) /\ Len(A) \in Nat
    <3>1. A \in Seq(Issues) /\ U \in Seq(Issues) /\ issued[w] \in Nat
      BY <1>2
    <3>2. Strung(A, U) = FirstOnes(issued[w])
      BY <2>1 DEF Strung
    <3> HIDE DEF A, U
    <3> QED BY <3>1, <3>2, FirstOfOnes
  <2>3. Counting(A)
    BY <1>3, <2>2
  <2> QED BY <1>2, <1>3, <1>4, <2>1, <2>3
<1>5. CASE life[w] = "left"
  <2>1. /\ A = FirstOnes(Len(A)) /\ Len(A) \in Nat
        /\ w \in quic.writers /\ r \notin cut[w] => Len(A) = QuicDue
    BY <1>1, <1>2, <1>5 DEF ComesWhole
  <2>2. Counting(A)
    BY <1>3, <2>1
  <2> QED BY <1>5, <2>1, <2>2 DEF QuicDue
<1> QED BY <1>4, <1>5

-----------------------------------------------------------------------------
(* Zenoh, at QoS 3 and 4.                                                  *)

\* The places between the log of a node and the driver of its peer, and what the
\* peer took with it when it left.
Trail(a, b, c, d, e, g) == Strung(a, Strung(b, Strung(c, Strung(d, Strung(e, g)))))

LEMMA NothingStrung ==
    ASSUME NEW T
    PROVE  \A s \in Seq(T) : Strung(<<>>, s) = s /\ Strung(s, <<>>) = s /\ <<>> \in Seq(T)
BY NothingJoined DEF Strung

\* A message that moves from the front of one place to the back of the one before.
LEMMA OneOver ==
    ASSUME NEW T
    PROVE  \A b, x, s : b \in Seq(T) /\ x \in T /\ s \in Seq(T) =>
               /\ Strung(b, Strung(<<x>>, s)) = Strung(Append(b, x), s)
               /\ <<x>> \in Seq(T) /\ Append(b, x) \in Seq(T)
<1> SUFFICES ASSUME NEW b, NEW x, NEW s, b \in Seq(T) /\ x \in T /\ s \in Seq(T)
             PROVE  /\ Strung(b, Strung(<<x>>, s)) = Strung(Append(b, x), s)
                    /\ <<x>> \in Seq(T) /\ Append(b, x) \in Seq(T)
  OBVIOUS
<1> DEFINE one == <<x>>
<1>1. one \in Seq(T) /\ Append(b, x) \in Seq(T)
  OBVIOUS
<1>2. Append(b, x) = Strung(b, one)
  BY AppendIsConcat DEF Strung
<1> HIDE DEF one
<1>3. Strung(Strung(b, one), s) = Strung(b, Strung(one, s))
  BY <1>1, StrungTwice
<1> QED BY <1>1, <1>2, <1>3 DEF one

Alone(x) == <<x>>
NoMessages == <<>>

\* publisher_task has taken a message.
LEMMA MoveTaken ==
    ASSUME NEW T
    PROVE  \A a, b, c, e, g, x :
           a \in Seq(T) /\ b \in Seq(T) /\ c \in Seq(T) /\ e \in Seq(T) /\ g \in Seq(T)
               /\ x \in T
           => Trail(a, b, c, NoMessages, Strung(Alone(x), e), g) = Trail(a, b, c, Alone(x), e, g)
<1> SUFFICES ASSUME NEW a, NEW b, NEW c, NEW e, NEW g, NEW x,
                    a \in Seq(T) /\ b \in Seq(T) /\ c \in Seq(T) /\ e \in Seq(T) /\ g \in Seq(T)
                        /\ x \in T
             PROVE  Trail(a, b, c, NoMessages, Strung(Alone(x), e), g) = Trail(a, b, c, Alone(x), e, g)
  OBVIOUS
<1> DEFINE one == Alone(x)
           nil == NoMessages
           s1 == Strung(e, g)
<1>1. one \in Seq(T) /\ nil \in Seq(T)
  BY DEF Alone, NoMessages
<1> HIDE DEF one, nil
<1>2. s1 \in Seq(T)
  BY StrungTyped
<1> HIDE DEF s1
<1>3. Strung(Strung(one, e), g) = Strung(one, s1)
  BY <1>1, StrungTwice DEF s1
<1>4. Strung(one, s1) \in Seq(T)
  BY <1>1, <1>2, StrungTyped
<1>5. Strung(nil, Strung(one, s1)) = Strung(one, s1)
  BY <1>4, NothingStrung DEF nil, NoMessages
<1> QED BY <1>3, <1>4, <1>5 DEF Trail, one, nil, s1

\* A put has ended.
LEMMA MovePut ==
    ASSUME NEW T
    PROVE  \A a, b, c, e, g, x :
           a \in Seq(T) /\ b \in Seq(T) /\ c \in Seq(T) /\ e \in Seq(T) /\ g \in Seq(T)
               /\ x \in T
           => Trail(a, b, c, Alone(x), e, g) = Trail(a, b, Append(c, x), NoMessages, e, g)
<1> SUFFICES ASSUME NEW a, NEW b, NEW c, NEW e, NEW g, NEW x,
                    a \in Seq(T) /\ b \in Seq(T) /\ c \in Seq(T) /\ e \in Seq(T) /\ g \in Seq(T)
                        /\ x \in T
             PROVE  Trail(a, b, c, Alone(x), e, g) = Trail(a, b, Append(c, x), NoMessages, e, g)
  OBVIOUS
<1> DEFINE one == Alone(x)
           nil == NoMessages
           s1 == Strung(e, g)
<1>1. one \in Seq(T) /\ nil \in Seq(T)
  BY DEF Alone, NoMessages
<1> HIDE DEF one, nil
<1>2. s1 \in Seq(T)
  BY StrungTyped
<1> HIDE DEF s1
<1>3. Strung(nil, s1) = s1
  BY <1>2, NothingStrung DEF nil, NoMessages
<1>4. Strung(c, Strung(one, s1)) = Strung(Append(c, x), s1)
  BY <1>2, OneOver DEF one, Alone
<1> QED BY <1>3, <1>4 DEF Trail, one, nil, s1

\* A sample has come through the link.
LEMMA MoveRouted ==
    ASSUME NEW T
    PROVE  \A a, b, c, d, e, g, x :
           a \in Seq(T) /\ b \in Seq(T) /\ c \in Seq(T) /\ d \in Seq(T) /\ e \in Seq(T)
               /\ g \in Seq(T) /\ x \in T
           => Trail(a, b, Strung(Alone(x), c), d, e, g) = Trail(a, Append(b, x), c, d, e, g)
<1> SUFFICES ASSUME NEW a, NEW b, NEW c, NEW d, NEW e, NEW g, NEW x,
                    a \in Seq(T) /\ b \in Seq(T) /\ c \in Seq(T) /\ d \in Seq(T) /\ e \in Seq(T)
                        /\ g \in Seq(T) /\ x \in T
             PROVE  Trail(a, b, Strung(Alone(x), c), d, e, g) = Trail(a, Append(b, x), c, d, e, g)
  OBVIOUS
<1> DEFINE one == Alone(x)
           s1 == Strung(e, g)
           s2 == Strung(d, s1)
           s3 == Strung(c, s2)
<1>1. one \in Seq(T)
  BY DEF Alone
<1> HIDE DEF one
<1>2. s1 \in Seq(T)
  BY StrungTyped
<1> HIDE DEF s1
<1>3. s2 \in Seq(T)
  BY <1>2, StrungTyped
<1> HIDE DEF s2
<1>4. s3 \in Seq(T)
  BY <1>3, StrungTyped
<1> HIDE DEF s3
<1>5. Strung(Strung(one, c), s2) = Strung(one, s3)
  BY <1>1, <1>3, StrungTwice DEF s3
<1>6. Strung(b, Strung(one, s3)) = Strung(Append(b, x), s3)
  BY <1>4, OneOver DEF one, Alone
<1> QED BY <1>5, <1>6 DEF Trail, one, s1, s2, s3

\* A sample was written to the log.
LEMMA MoveReceived ==
    ASSUME NEW T
    PROVE  \A a, b, c, d, e, g, x :
           a \in Seq(T) /\ b \in Seq(T) /\ c \in Seq(T) /\ d \in Seq(T) /\ e \in Seq(T)
               /\ g \in Seq(T) /\ x \in T
           => Trail(a, Strung(Alone(x), b), c, d, e, g) = Trail(Append(a, x), b, c, d, e, g)
<1> SUFFICES ASSUME NEW a, NEW b, NEW c, NEW d, NEW e, NEW g, NEW x,
                    a \in Seq(T) /\ b \in Seq(T) /\ c \in Seq(T) /\ d \in Seq(T) /\ e \in Seq(T)
                        /\ g \in Seq(T) /\ x \in T
             PROVE  Trail(a, Strung(Alone(x), b), c, d, e, g) = Trail(Append(a, x), b, c, d, e, g)
  OBVIOUS
<1> DEFINE one == Alone(x)
           s1 == Strung(e, g)
           s2 == Strung(d, s1)
           s3 == Strung(c, s2)
           s4 == Strung(b, s3)
<1>1. one \in Seq(T)
  BY DEF Alone
<1> HIDE DEF one
<1>2. s1 \in Seq(T)
  BY StrungTyped
<1> HIDE DEF s1
<1>3. s2 \in Seq(T)
  BY <1>2, StrungTyped
<1> HIDE DEF s2
<1>4. s3 \in Seq(T)
  BY <1>3, StrungTyped
<1> HIDE DEF s3
<1>5. s4 \in Seq(T)
  BY <1>4, StrungTyped
<1> HIDE DEF s4
<1>6. Strung(Strung(one, b), s3) = Strung(one, s4)
  BY <1>1, <1>4, StrungTwice DEF s4
<1>7. Strung(a, Strung(one, s4)) = Strung(Append(a, x), s4)
  BY <1>5, OneOver DEF one, Alone
<1> QED BY <1>6, <1>7 DEF Trail, one, s1, s2, s3, s4

\* A message was given to the bridge.
LEMMA MovePublished ==
    ASSUME NEW T
    PROVE  \A a, b, c, d, e, x :
           a \in Seq(T) /\ b \in Seq(T) /\ c \in Seq(T) /\ d \in Seq(T) /\ e \in Seq(T)
               /\ x \in T
           => Trail(a, b, c, d, Append(e, x), NoMessages) = Append(Trail(a, b, c, d, e, NoMessages), x)
<1> SUFFICES ASSUME NEW a, NEW b, NEW c, NEW d, NEW e, NEW x,
                    a \in Seq(T) /\ b \in Seq(T) /\ c \in Seq(T) /\ d \in Seq(T) /\ e \in Seq(T)
                        /\ x \in T
             PROVE  Trail(a, b, c, d, Append(e, x), NoMessages) = Append(Trail(a, b, c, d, e, NoMessages), x)
  OBVIOUS
<1> DEFINE nil == NoMessages
<1> DEFINE z == Append(e, x)
<1>6. z \in Seq(T)
  OBVIOUS
<1>7. Strung(z, nil) = z /\ Strung(e, nil) = e
  <2> HIDE DEF z
  <2> QED BY <1>6, NothingStrung DEF nil, NoMessages
<1>1. Append(e, x) \in Seq(T) /\ Strung(Append(e, x), nil) = Append(e, x) /\ Strung(e, nil) = e
  BY <1>6, <1>7
<1>2. Strung(d, Append(e, x)) = Append(Strung(d, e), x) /\ Strung(d, e) \in Seq(T)
  BY StrungEnd, StrungTyped
<1>3. /\ Strung(c, Append(Strung(d, e), x)) = Append(Strung(c, Strung(d, e)), x)
      /\ Strung(c, Strung(d, e)) \in Seq(T)
  BY <1>2, StrungEnd, StrungTyped
<1> DEFINE y == Strung(c, Strung(d, e))
<1>4. Strung(b, Append(y, x)) = Append(Strung(b, y), x) /\ Strung(b, y) \in Seq(T)
  <2>1. y \in Seq(T)
    BY <1>3
  <2> HIDE DEF y
  <2> QED BY <2>1, StrungEnd, StrungTyped
<1>5. Strung(a, Append(Strung(b, y), x)) = Append(Strung(a, Strung(b, y)), x)
  <2>1. Strung(b, y) \in Seq(T)
    BY <1>4
  <2> HIDE DEF y
  <2> QED BY <2>1, StrungEnd
<1> QED BY <1>1, <1>2, <1>3, <1>4, <1>5 DEF Trail

\* A message that is lost.
LosesOne(T, x, s, t) ==
    \E l, r \in Seq(T) : s = Strung(l, Strung(Alone(x), r)) /\ t = Strung(l, r)

\* A put that was lost.
LEMMA PutLost ==
    ASSUME NEW T
    PROVE  \A a, b, c, e, g, x :
           a \in Seq(T) /\ b \in Seq(T) /\ c \in Seq(T) /\ e \in Seq(T) /\ g \in Seq(T)
               /\ x \in T
           => LosesOne(T, x, Trail(a, b, c, Alone(x), e, g), Trail(a, b, c, NoMessages, e, g))
<1> SUFFICES ASSUME NEW a, NEW b, NEW c, NEW e, NEW g, NEW x,
                    a \in Seq(T) /\ b \in Seq(T) /\ c \in Seq(T) /\ e \in Seq(T) /\ g \in Seq(T)
                        /\ x \in T
             PROVE  LosesOne(T, x, Trail(a, b, c, Alone(x), e, g), Trail(a, b, c, NoMessages, e, g))
  OBVIOUS
<1> DEFINE one == Alone(x)
           nil == NoMessages
           s1 == Strung(e, g)
           l == Strung(a, Strung(b, c))
           y == Strung(one, s1)
<1>1. one \in Seq(T) /\ nil \in Seq(T)
  BY DEF Alone, NoMessages
<1> HIDE DEF one, nil
<1>2. s1 \in Seq(T)
  BY StrungTyped
<1>3. Strung(nil, s1) = s1
  <2> HIDE DEF s1
  <2> QED BY <1>2, NothingStrung DEF nil, NoMessages
<1>4. Strung(b, c) \in Seq(T) /\ y \in Seq(T)
  <2>1. Strung(b, c) \in Seq(T)
    BY StrungTyped
  <2> HIDE DEF s1
  <2> QED BY <1>1, <1>2, <2>1, StrungTyped
<1>5. l \in Seq(T)
  BY <1>4, StrungTyped
<1>6. \A s : s \in Seq(T) => Strung(a, Strung(b, Strung(c, s))) = Strung(l, s)
  <2> SUFFICES ASSUME NEW s, s \in Seq(T)
               PROVE  Strung(a, Strung(b, Strung(c, s))) = Strung(l, s)
    OBVIOUS
  <2>1. Strung(b, Strung(c, s)) = Strung(Strung(b, c), s)
    BY StrungTwice
  <2>2. Strung(a, Strung(Strung(b, c), s)) = Strung(Strung(a, Strung(b, c)), s)
    BY <1>4, StrungTwice
  <2> QED BY <2>1, <2>2
<1>7. Trail(a, b, c, one, e, g) = Strung(l, y)
  BY <1>4, <1>6 DEF Trail
<1>8. Trail(a, b, c, nil, e, g) = Strung(l, s1)
  BY <1>2, <1>3, <1>6 DEF Trail
<1> QED BY <1>2, <1>5, <1>7, <1>8 DEF LosesOne, one, nil

\* A sample that was thrown away.
LEMMA SampleLost ==
    ASSUME NEW T
    PROVE  \A a, b, c, d, e, g, x :
           a \in Seq(T) /\ b \in Seq(T) /\ c \in Seq(T) /\ d \in Seq(T) /\ e \in Seq(T)
               /\ g \in Seq(T) /\ x \in T
           => LosesOne(T, x, Trail(a, Strung(Alone(x), b), c, d, e, g), Trail(a, b, c, d, e, g))
<1> SUFFICES ASSUME NEW a, NEW b, NEW c, NEW d, NEW e, NEW g, NEW x,
                    a \in Seq(T) /\ b \in Seq(T) /\ c \in Seq(T) /\ d \in Seq(T) /\ e \in Seq(T)
                        /\ g \in Seq(T) /\ x \in T
             PROVE  LosesOne(T, x, Trail(a, Strung(Alone(x), b), c, d, e, g),
                                   Trail(a, b, c, d, e, g))
  OBVIOUS
<1> DEFINE one == Alone(x)
           s1 == Strung(e, g)
           s2 == Strung(d, s1)
           s3 == Strung(c, s2)
           s4 == Strung(b, s3)
<1>1. one \in Seq(T)
  BY DEF Alone
<1> HIDE DEF one
<1>2. s1 \in Seq(T)
  BY StrungTyped
<1> HIDE DEF s1
<1>3. s2 \in Seq(T)
  BY <1>2, StrungTyped
<1> HIDE DEF s2
<1>4. s3 \in Seq(T)
  BY <1>3, StrungTyped
<1> HIDE DEF s3
<1>5. s4 \in Seq(T)
  BY <1>4, StrungTyped
<1>6. Strung(Strung(one, b), s3) = Strung(one, s4)
  BY <1>1, <1>4, StrungTwice
<1>7. /\ Trail(a, Strung(one, b), c, d, e, g) = Strung(a, Strung(one, s4))
      /\ Trail(a, b, c, d, e, g) = Strung(a, s4)
  BY <1>6 DEF Trail, s1, s2, s3
<1> QED BY <1>5, <1>7 DEF LosesOne, one

\* A node that leaves takes what it has not put with it, and the link maybe too.
LEMMA TrailEnds ==
    ASSUME NEW T, NEW a, NEW b, NEW c, NEW d, NEW e, NEW g,
           a \in Seq(T) /\ b \in Seq(T) /\ c \in Seq(T) /\ d \in Seq(T) /\ e \in Seq(T)
               /\ g \in Seq(T)
    PROVE  /\ \E h \in Seq(T) : Trail(a, b, c, NoMessages, NoMessages, h) = Trail(a, b, c, d, e, g)
           /\ \E h \in Seq(T) : Trail(a, b, NoMessages, NoMessages, NoMessages, h) = Trail(a, b, c, d, e, g)
<1> DEFINE nil == NoMessages
           s1 == Strung(e, g)
           s2 == Strung(d, s1)
           s3 == Strung(c, s2)
<1>1. s1 \in Seq(T) /\ s2 \in Seq(T) /\ s3 \in Seq(T)
  <2>1. s1 \in Seq(T)
    BY StrungTyped
  <2> HIDE DEF s1
  <2>2. s2 \in Seq(T)
    BY <2>1, StrungTyped
  <2> HIDE DEF s2
  <2>3. s3 \in Seq(T)
    BY <2>2, StrungTyped
  <2> QED BY <2>1, <2>2, <2>3
<1>2. Strung(nil, s2) = s2 /\ Strung(nil, s3) = s3
  BY <1>1, NothingStrung DEF NoMessages
<1> HIDE DEF nil
<1>3. Trail(a, b, c, nil, nil, s2) = Trail(a, b, c, d, e, g)
  BY <1>2 DEF Trail
<1>4. Trail(a, b, nil, nil, nil, s3) = Trail(a, b, c, d, e, g)
  BY <1>2 DEF Trail
<1> QED BY <1>1, <1>3, <1>4 DEF nil

LEMMA StrungAt ==
    ASSUME NEW T, NEW l, NEW v, l \in Seq(T) /\ v \in Seq(T)
    PROVE  /\ Len(Strung(l, v)) = Len(l) + Len(v) /\ Len(l) \in Nat /\ Len(v) \in Nat
           /\ \A i \in 1..Len(l) : Strung(l, v)[i] = l[i]
           /\ \A i \in 1..Len(v) : Strung(l, v)[Len(l) + i] = v[i]
<1> DEFINE t == Strung(l, v)
           n == Len(l)
           m == Len(v)
<1>1. t = l \o v
  BY DEF Strung
<1>2. Len(t) = n + m
  BY <1>1, ConcatProperties
<1>3. \A i \in 1..n + m : t[i] = IF i <= n THEN l[i] ELSE v[i - n]
  BY <1>1, ConcatProperties
<1>4. n \in Nat /\ m \in Nat
  OBVIOUS
<1> HIDE DEF n, m, t
<1>5. \A i \in 1..n : t[i] = l[i]
  BY <1>3, <1>4
<1>6. \A i \in 1..m : t[n + i] = v[i]
  <2> SUFFICES ASSUME NEW i \in 1..m PROVE t[n + i] = v[i]
    OBVIOUS
  <2>1. n + i \in 1..n + m /\ ~(n + i <= n) /\ (n + i) - n = i
    BY <1>4
  <2> QED BY <1>3, <2>1
<1> QED BY <1>2, <1>4, <1>5, <1>6 DEF n, m, t

\* What was published of the first k messages, but for those that are gone.
Published(k, gone) == Only(FirstOnes(k), Puts \ gone)

LEMMA PutsAreNumbers == MaxPuts \in Nat /\ Puts \subseteq Nat /\ 0 \notin Puts
BY ZenohBoundAssumption DEF Puts

LEMMA PublishedIs ==
    ASSUME NEW k \in Nat, NEW gone
    PROVE  /\ Published(k, gone) \in Seq(Nat)
           /\ \A i \in 1..Len(Published(k, gone)) :
                  /\ Published(k, gone)[i] \in Puts \ gone
                  /\ Published(k, gone)[i] \in 1..k
           /\ \A i, j \in 1..Len(Published(k, gone)) :
                  Published(k, gone)[i] = Published(k, gone)[j] => i = j
<1> DEFINE f == FirstOnes(k)
           S == Puts \ gone
           t == Only(f, S)
<1>1. f \in Seq(Nat) /\ Len(f) = k /\ \A i \in 1..k : f[i] = i
  BY OneMore DEF FirstOnes
<1> HIDE DEF f, S
<1>2. t \in Seq(Nat) /\ \A i \in 1..Len(t) : t[i] \in S
  BY <1>1, OnlyMembers
<1>3. \E e : Selects(e, t, f, S)
  BY <1>1, OnlySelects
<1> HIDE DEF t
<1>4. PICK e : Selects(e, t, f, S)
  BY <1>3
<1>5. /\ e \in [1..Len(t) -> PlacesIn(f, S)] /\ \A a, b \in 1..Len(t) : a < b => e[a] < e[b]
      /\ \A i \in 1..Len(t) : t[i] = f[e[i]]
  BY <1>4 DEF Selects, Lists
<1>6. PlacesIn(f, S) \subseteq 1..k
  BY <1>1 DEF PlacesIn
<1>7. \A i \in 1..Len(t) : t[i] = e[i] /\ t[i] \in 1..k
  BY <1>1, <1>5, <1>6
<1>8. Len(t) \in Nat
  BY <1>2
<1>9. \A i, j \in 1..Len(t) : t[i] = t[j] => i = j
  BY <1>5, <1>7, <1>8
<1> QED BY <1>2, <1>7, <1>9 DEF Published, t, f, S

LEMMA PublishedMore ==
    ASSUME NEW k \in Nat, NEW gone, k + 1 \in Puts, k + 1 \notin gone
    PROVE  Published(k + 1, gone) = Append(Published(k, gone), k + 1)
<1> DEFINE f == FirstOnes(k)
           S == Puts \ gone
           x == k + 1
<1>1. x \in Nat /\ x \in S
  OBVIOUS
<1>3. f \in Seq(Nat) /\ FirstOnes(x) = Append(f, x)
  BY OneMore
<1> HIDE DEF f, S, x
<1>2. Only(Append(f, x), S) = Append(Only(f, S), x)
  BY <1>1, <1>3, OnlyAppend
<1> QED BY <1>2, <1>3 DEF Published, f, S, x

LEMMA PublishedLess ==
    ASSUME NEW k \in Nat, NEW gone, NEW x \in Nat
    PROVE  \A l, r : l \in Seq(Nat) /\ r \in Seq(Nat)
                         /\ Published(k, gone) = Strung(l, Strung(Alone(x), r))
                     => x \in 1..k /\ Published(k, gone \union {x}) = Strung(l, r)
<1> SUFFICES ASSUME NEW l, NEW r,
                    l \in Seq(Nat) /\ r \in Seq(Nat)
                        /\ Published(k, gone) = Strung(l, Strung(Alone(x), r))
             PROVE  x \in 1..k /\ Published(k, gone \union {x}) = Strung(l, r)
  OBVIOUS
<1> DEFINE f == FirstOnes(k)
           S == Puts \ gone
           R == Puts \ (gone \union {x})
           t == Published(k, gone)
           one == Alone(x)
           v == Strung(one, r)
           n == Len(l)
<1>1. f \in Seq(Nat)
  BY OneMore
<1>2. R \in SUBSET S /\ x \notin R /\ S \subseteq R \union {x}
  OBVIOUS
<1>3. one \in Seq(Nat) /\ Len(one) = 1 /\ one[1] = x
  BY DEF Alone
<1>4. t = Only(f, S) /\ Published(k, gone \union {x}) = Only(f, R)
  BY DEF Published
<1>5. /\ t \in Seq(Nat) /\ \A i \in 1..Len(t) : t[i] \in S /\ t[i] \in 1..k
      /\ \A i, j \in 1..Len(t) : t[i] = t[j] => i = j
  BY PublishedIs
<1> HIDE DEF f, S, R, t, one
<1>6. v \in Seq(Nat) /\ Len(v) = 1 + Len(r) /\ v[1] = x
      /\ \A i \in 1..Len(r) : v[1 + i] = r[i]
  <2>1. /\ Len(one \o r) = Len(one) + Len(r) /\ one \o r \in Seq(Nat)
        /\ \A i \in 1..Len(one) + Len(r) :
               (one \o r)[i] = IF i <= Len(one) THEN one[i] ELSE r[i - Len(one)]
    BY <1>3, ConcatProperties
  <2> DEFINE u == one \o r
  <2> HIDE DEF u
  <2>2. u \in Seq(Nat) /\ Len(u) = 1 + Len(r) /\ Len(r) \in Nat
        /\ \A i \in 1..1 + Len(r) : u[i] = IF i <= 1 THEN one[i] ELSE r[i - 1]
    BY <1>3, <2>1 DEF u
  <2>3. u[1] = x /\ \A i \in 1..Len(r) : u[1 + i] = r[i]
    BY <1>3, <2>2
  <2>4. u = v
    BY DEF u, Strung
  <2> QED BY <2>2, <2>3, <2>4
<1>7. t = Strung(l, v)
  BY DEF t, one
<1> HIDE DEF v
<1>19. n = Len(l) /\ n \in Nat
  OBVIOUS
<1> HIDE DEF n
<1>8. /\ Len(t) = n + Len(v) /\ n \in Nat /\ Len(v) \in Nat
      /\ \A i \in 1..n : t[i] = l[i]
      /\ \A i \in 1..Len(v) : t[n + i] = v[i]
  <2>1. l \in Seq(Nat) /\ v \in Seq(Nat)
    BY <1>6
  <2>2. /\ Len(t) = Len(l) + Len(v) /\ Len(l) \in Nat /\ Len(v) \in Nat
        /\ \A i \in 1..Len(l) : t[i] = l[i]
        /\ \A i \in 1..Len(v) : t[Len(l) + i] = v[i]
    BY <1>7, <2>1, StrungAt
  <2> QED BY <1>19, <2>2
<1>9. t[n + 1] = x /\ n + 1 \in 1..Len(t)
  BY <1>6, <1>8
<1>10. x \in 1..k
  BY <1>5, <1>9
<1>11. Len(r) \in Nat /\ Len(t) = n + 1 + Len(r)
  BY <1>6, <1>8
<1>12. \A i \in 1..n : l[i] \in R
  <2> SUFFICES ASSUME NEW i \in 1..n PROVE l[i] \in R
    OBVIOUS
  <2>1. i \in 1..Len(t) /\ i # n + 1 /\ t[i] = l[i]
    BY <1>8, <1>11
  <2>2. t[i] # x /\ t[i] \in S
    BY <1>5, <1>9, <2>1
  <2> QED BY <1>2, <2>1, <2>2
<1>13. \A i \in 1..Len(r) : r[i] \in R
  <2> SUFFICES ASSUME NEW i \in 1..Len(r) PROVE r[i] \in R
    OBVIOUS
  <2>1. 1 + i \in 1..Len(v) /\ v[1 + i] = r[i]
    BY <1>6, <1>11
  <2>2. n + (1 + i) \in 1..Len(t) /\ n + (1 + i) # n + 1 /\ t[n + (1 + i)] = r[i]
    BY <1>8, <2>1
  <2>3. t[n + (1 + i)] # x /\ t[n + (1 + i)] \in S
    BY <1>5, <1>9, <2>2
  <2> QED BY <1>2, <2>2, <2>3
<1>14. Only(l, R) = l /\ Only(r, R) = r
  <2>1. \A i \in 1..Len(l) : l[i] \in R
    BY <1>12, <1>19
  <2> QED BY <1>13, <2>1, OnlyAll
<1>15. Only(one, R) = <<>>
  <2>1. \A i \in 1..Len(one) : one[i] \notin R
    BY <1>2, <1>3
  <2> QED BY <1>3, <2>1, OnlyNone
<1>16. Only(v, R) = r
  <2>1. Only(one \o r, R) = Only(one, R) \o Only(r, R)
    BY <1>3, OnlyJoin
  <2>2. <<>> \o r = r
    BY NothingJoined
  <2> QED BY <1>14, <1>15, <2>1, <2>2 DEF v, Strung
<1>17. Only(t, R) = Strung(l, r)
  <2>1. Only(l \o v, R) = Only(l, R) \o Only(v, R)
    BY <1>6, OnlyJoin
  <2> QED BY <1>7, <1>14, <1>16, <2>1 DEF Strung
<1>18. Only(Only(f, S), R) = Only(f, R)
  BY <1>1, <1>2, OnlyTwice
<1> QED BY <1>4, <1>10, <1>17, <1>18

LEMMA LostIsGone ==
    ASSUME NEW x \in Nat, NEW k \in Nat, NEW gone, NEW s, NEW t,
           LosesOne(Nat, x, s, t), s = Published(k, gone)
    PROVE  x \in 1..k /\ t = Published(k, gone \union {x})
<1>1. PICK l \in Seq(Nat), r \in Seq(Nat) :
          s = Strung(l, Strung(Alone(x), r)) /\ t = Strung(l, r)
  BY DEF LosesOne
<1>2. l \in Seq(Nat) /\ r \in Seq(Nat) /\ Published(k, gone) = Strung(l, Strung(Alone(x), r))
  BY <1>1
<1>3. \A h, j : h \in Seq(Nat) /\ j \in Seq(Nat)
                    /\ Published(k, gone) = Strung(h, Strung(Alone(x), j))
                => x \in 1..k /\ Published(k, gone \union {x}) = Strung(h, j)
  BY PublishedLess
<1>4. x \in 1..k /\ Published(k, gone \union {x}) = Strung(l, r)
  BY <1>2, <1>3, Zenon
<1> QED BY <1>1, <1>4

PutOf(w) == IF putting[w] = 0 THEN NoMessages ELSE Alone(putting[w])
ZenTrail(w, g) ==
    Trail(recorded[OtherOf(w)], SeqsFrom(fifo[OtherOf(w)], w), link[w], PutOf(w), bridge[w], g)

\* As long as the other node listens, all that w has published is somewhere, in
\* order, or was lost, or w took it with it when it left.
PeerListens(w) == zenStage[OtherOf(w)] \notin {"closing", "left"}
ZenComes(w) ==
    PeerListens(w) =>
        /\ missed[w] \subseteq 1..tried[w]
        /\ \E g \in Seq(Nat) :
              /\ ZenTrail(w, g) = Published(tried[w], missed[w])
              /\ zenStage[w] # "left" => g = <<>>

ZenRow(w) ==
    /\ spawned[w] = {} /\ tried[w] <= zen.puts[w] /\ (tried[w] > 0 => Started(w))
    /\ zenStage[w] = "left" => putting[w] = 0 /\ bridge[w] = <<>>

\* Where no node is late, the first that starts finds both ready.
ZenReady ==
    ~zen.late =>
        \A n, m \in ZenohNodes : Started(n) =>
            /\ zenStage[m] \notin {"down", "connected"}
            /\ reaches[m] \/ \E k \in ZenohNodes : zenStage[k] = "left"
ZenNoneLost == ~zen.late /\ ~zen.fails => \A w \in ZenohNodes : PeerListens(w) => missed[w] = {}

ZenOrderly ==
    /\ ZenTyped
    /\ zen \in ZenohSpawns /\ reaches \in [ZenohNodes -> BOOLEAN]
    /\ InOrderOnly =>
        /\ \A w \in ZenohNodes : ZenRow(w) /\ ZenComes(w)
        /\ ZenReady /\ ZenNoneLost

LEMMA ZenParts ==
    ASSUME ZenTyped, NEW w \in ZenohNodes
    PROVE  /\ OtherOf(w) \in ZenohNodes /\ OtherOf(w) # w /\ OtherOf(OtherOf(w)) = w
           /\ recorded[OtherOf(w)] \in Seq(Nat)
           /\ fifo[OtherOf(w)] \in Seq(Tagged(ZenohNodes, Nat))
           /\ SeqsFrom(fifo[OtherOf(w)], w) \in Seq(Nat)
           /\ link[w] \in Seq(Nat) /\ PutOf(w) \in Seq(Nat) /\ bridge[w] \in Seq(Nat)
           /\ tried[w] \in Nat /\ putting[w] \in Nat /\ missed[w] \subseteq Nat
<1>1. OtherOf(w) \in ZenohNodes /\ OtherOf(w) # w /\ OtherOf(OtherOf(w)) = w
  BY TwoNodes
<1>2. /\ recorded[OtherOf(w)] \in Seq(Nat) /\ link[w] \in Seq(Nat) /\ bridge[w] \in Seq(Nat)
      /\ tried[w] \in Nat /\ putting[w] \in Nat /\ missed[w] \subseteq Nat
  BY <1>1 DEF ZenTyped
<1>3. fifo[OtherOf(w)] \in Seq(Tagged(ZenohNodes, Nat))
  BY <1>1 DEF ZenTyped, Tagged
<1>4. SeqsFrom(fifo[OtherOf(w)], w) \in Seq(Nat)
  BY <1>3, SeqsFromJoin
<1>5. PutOf(w) \in Seq(Nat)
  BY <1>2 DEF PutOf, Alone, NoMessages
<1> QED BY <1>1, <1>2, <1>3, <1>4, <1>5

LEMMA ZenMoves ==
    ASSUME NEW w \in ZenohNodes, ZenComes(w), PeerListens(w)' => PeerListens(w),
           zenStage'[w] # "left" => zenStage[w] # "left",
           tried'[w] = tried[w], missed'[w] = missed[w],
           \A g \in Seq(Nat) : PeerListens(w) => ZenTrail(w, g)' = ZenTrail(w, g)
    PROVE  ZenComes(w)'
<1> SUFFICES ASSUME PeerListens(w)'
             PROVE  /\ missed'[w] \subseteq 1..tried'[w]
                    /\ \E g \in Seq(Nat) :
                          /\ ZenTrail(w, g)' = Published(tried'[w], missed'[w])
                          /\ zenStage'[w] # "left" => g = <<>>
  BY DEF ZenComes, Published
<1>1. PICK g \in Seq(Nat) : /\ ZenTrail(w, g) = Published(tried[w], missed[w])
                            /\ zenStage[w] # "left" => g = <<>>
  BY DEF ZenComes
<1>2. missed[w] \subseteq 1..tried[w]
  BY DEF ZenComes
<1>3. ZenTrail(w, g)' = ZenTrail(w, g)
  OBVIOUS
<1> QED BY <1>1, <1>2, <1>3

LEMMA ZenStays ==
    ASSUME NEW w \in ZenohNodes, ZenComes(w), PeerListens(w)' => PeerListens(w),
           zenStage'[w] # "left" => zenStage[w] # "left",
           tried'[w] = tried[w], missed'[w] = missed[w],
           recorded'[OtherOf(w)] = recorded[OtherOf(w)],
           SeqsFrom(fifo'[OtherOf(w)], w) = SeqsFrom(fifo[OtherOf(w)], w),
           link'[w] = link[w], putting'[w] = putting[w], bridge'[w] = bridge[w]
    PROVE  ZenComes(w)'
<1>1. \A g \in Seq(Nat) : ZenTrail(w, g)' = ZenTrail(w, g)
  BY DEF ZenTrail, PutOf
<1> QED BY <1>1, ZenMoves

LEMMA OneHead ==
    ASSUME NEW T, NEW s, s \in Seq(T) /\ s # <<>>
    PROVE  Head(s) \in T /\ Tail(s) \in Seq(T) /\ s = Strung(Alone(Head(s)), Tail(s))
BY HeadThenTail DEF Strung, Alone

LEMMA PublishComes ==
    ASSUME ZenTyped, zen \in ZenohSpawns, NEW n \in ZenohNodes, NEW w \in ZenohNodes, ZenRow(w),
           ZenComes(w), ZenPublish(n)
    PROVE  ZenComes(w)'
<1>1. /\ zenStage[n] = "operate" /\ tried[n] < zen.puts[n]
      /\ tried' = [tried EXCEPT ![n] = @ + 1] /\ bridge' = [bridge EXCEPT ![n] = Append(@, tried[n] + 1)]
      /\ UNCHANGED <<zenStage, putting, link, fifo, recorded, missed>>
  BY DEF ZenPublish, Trying, Bridged
<1>2. /\ tried \in [ZenohNodes -> Nat] /\ bridge \in [ZenohNodes -> Seq(Nat)]
  BY DEF ZenTyped
<1>3. PeerListens(w)' => PeerListens(w)
  BY <1>1 DEF PeerListens
<1>4. CASE w # n
  BY <1>1, <1>2, <1>3, <1>4, ZenStays
<1>5. CASE w = n
  <2> SUFFICES ASSUME PeerListens(w)'
               PROVE  /\ missed'[w] \subseteq 1..tried'[w]
                      /\ \E g \in Seq(Nat) :
                            /\ ZenTrail(w, g)' = Published(tried'[w], missed'[w])
                            /\ zenStage'[w] # "left" => g = <<>>
    BY DEF ZenComes, Published
  <2> DEFINE a == recorded[OtherOf(w)]
             b == SeqsFrom(fifo[OtherOf(w)], w)
             c == link[w]
             d == PutOf(w)
             e == bridge[w]
             k == tried[w]
             x == k + 1
             gone == missed[w]
             nil == NoMessages
  <2>1. a \in Seq(Nat) /\ b \in Seq(Nat) /\ c \in Seq(Nat) /\ d \in Seq(Nat) /\ e \in Seq(Nat)
            /\ k \in Nat
    BY ZenParts
  <2>2. gone \subseteq 1..k /\ Trail(a, b, c, d, e, nil) = Published(k, gone)
    BY <1>1, <1>3, <1>5 DEF ZenComes, ZenTrail, NoMessages
  <2>3. x \in Puts
    <3>1. zen.puts \in [ZenohNodes -> 0..MaxPuts] /\ MaxPuts \in Nat
      BY ZenohSpawnsAssumption, PutsAreNumbers
    <3>2. zen.puts[w] \in 0..MaxPuts
      BY <3>1
    <3> QED BY <1>1, <1>5, <2>1, <3>1, <3>2 DEF Puts
  <2>4. tried'[w] = x /\ bridge'[w] = Append(e, x) /\ missed'[w] = gone /\ PutOf(w)' = d
        /\ fifo' = fifo /\ recorded' = recorded /\ link' = link
    BY <1>1, <1>2, <1>5 DEF PutOf
  <2>5. ZenTrail(w, nil)' = Trail(a, b, c, d, Append(e, x), nil)
    BY <2>4 DEF ZenTrail
  <2>6. x \in Nat /\ nil \in Seq(Nat)
    BY <2>1 DEF NoMessages
  <2>7. x \notin gone /\ gone \subseteq 1..x
    BY <2>1, <2>2
  <2>8. Published(x, gone) = Append(Published(k, gone), x)
    BY <2>1, <2>3, <2>7, PublishedMore
  <2> HIDE DEF a, b, c, d, e, k, x, gone
  <2>9. Trail(a, b, c, d, Append(e, x), NoMessages) = Append(Trail(a, b, c, d, e, NoMessages), x)
    <3> DEFINE T == Nat
    <3>1. a \in Seq(T) /\ b \in Seq(T) /\ c \in Seq(T) /\ d \in Seq(T) /\ e \in Seq(T)
              /\ x \in T
      BY <2>1, <2>6
    <3> HIDE DEF T
    <3> QED BY <3>1, MovePublished
  <2> QED BY <2>2, <2>4, <2>5, <2>6, <2>7, <2>8, <2>9 DEF NoMessages
<1> QED BY <1>4, <1>5

LEMMA TakeComes ==
    ASSUME ZenTyped, InOrderOnly, NEW n \in ZenohNodes, NEW w \in ZenohNodes, ZenComes(w),
           TakeFromBridge(n) \/ DeclareFails(n)
    PROVE  /\ ZenComes(w)'
           /\ w = n /\ PeerListens(w) => Head(bridge[w]) \in 1..tried[w]
<1> DEFINE x == Head(bridge[n])
<1>1. /\ bridge[n] # <<>> /\ putting[n] = 0 /\ bridge' = [bridge EXCEPT ![n] = Tail(@)]
      /\ UNCHANGED <<zenStage, tried, link, fifo, recorded>>
      /\ \/ putting' = [putting EXCEPT ![n] = x] /\ UNCHANGED missed
         \/ missed' = [missed EXCEPT ![n] = @ \union {x}] /\ UNCHANGED putting
  BY DEF TakeFromBridge, DeclareFails, AwaitsPut
<1>2. /\ putting \in [ZenohNodes -> Nat] /\ bridge \in [ZenohNodes -> Seq(Nat)]
      /\ missed \in [ZenohNodes -> SUBSET Nat]
  BY DEF ZenTyped
<1>3. PeerListens(w)' <=> PeerListens(w)
  BY <1>1 DEF PeerListens
<1>4. CASE w # n
  BY <1>1, <1>2, <1>3, <1>4, ZenStays
<1>5. CASE w = n
  <2> SUFFICES ASSUME PeerListens(w)
               PROVE  /\ missed'[w] \subseteq 1..tried'[w]
                      /\ \E g \in Seq(Nat) :
                            /\ ZenTrail(w, g)' = Published(tried'[w], missed'[w])
                            /\ zenStage'[w] # "left" => g = <<>>
                      /\ Head(bridge[w]) \in 1..tried[w]
    BY <1>3, <1>5 DEF ZenComes, Published
  <2>1. PICK g \in Seq(Nat) : /\ ZenTrail(w, g) = Published(tried[w], missed[w])
                              /\ zenStage[w] # "left" => g = <<>>
    BY DEF ZenComes
  <2>2. missed[w] \subseteq 1..tried[w]
    BY DEF ZenComes
  <2> DEFINE a == recorded[OtherOf(w)]
             b == SeqsFrom(fifo[OtherOf(w)], w)
             c == link[w]
             e == Tail(bridge[w])
             k == tried[w]
             gone == missed[w]
  <2>3. bridge[w] \in Seq(Nat) /\ bridge[w] # <<>>
    BY <1>1, <1>2, <1>5
  <2>4. x \in Nat /\ e \in Seq(Nat) /\ bridge[w] = Strung(Alone(x), e)
    BY <1>5, <2>3, OneHead
  <2>5. a \in Seq(Nat) /\ b \in Seq(Nat) /\ c \in Seq(Nat) /\ e \in Seq(Nat) /\ g \in Seq(Nat)
            /\ x \in Nat
    BY <2>4, ZenParts
  <2>6. k \in Nat
    BY ZenParts
  <2>7. ZenTrail(w, g) = Trail(a, b, c, NoMessages, Strung(Alone(x), e), g)
    BY <1>1, <1>5, <2>4 DEF ZenTrail, PutOf
  <2>8. bridge'[w] = e /\ fifo' = fifo /\ recorded' = recorded /\ link' = link /\ tried' = tried
    BY <1>1, <1>2, <1>5
  <2>9. \/ putting'[w] = x /\ missed'[w] = gone
        \/ missed'[w] = gone \union {x} /\ putting'[w] = 0
    BY <1>1, <1>2, <1>5
  <2>10. ZenTrail(w, g)' = Trail(a, b, c, PutOf(w)', e, g)
    BY <2>8 DEF ZenTrail
  <2>11. PutOf(w)' = IF putting'[w] = 0 THEN NoMessages ELSE Alone(putting'[w])
    BY DEF PutOf
  <2> HIDE DEF a, b, c, e, k, gone, x
  <2> DEFINE T == Nat
  <2>17. a \in Seq(T) /\ b \in Seq(T) /\ c \in Seq(T) /\ e \in Seq(T) /\ g \in Seq(T)
             /\ x \in T
    BY <2>5
  <2> HIDE DEF T
  <2>12. Trail(a, b, c, NoMessages, Strung(Alone(x), e), g) = Trail(a, b, c, Alone(x), e, g)
    BY <2>17, MoveTaken
  <2>13. x \in 1..k /\ Trail(a, b, c, NoMessages, e, g) = Published(k, gone \union {x})
    <3>1. LosesOne(T, x, Trail(a, b, c, Alone(x), e, g), Trail(a, b, c, NoMessages, e, g))
      BY <2>17, PutLost
    <3>2. Trail(a, b, c, Alone(x), e, g) = Published(k, gone)
      BY <2>1, <2>7, <2>12 DEF k, gone
    <3>3. x \in Nat
      BY <2>5
    <3> QED BY <2>6, <3>1, <3>2, <3>3, LostIsGone DEF T
  <2>14. x # 0
    BY <2>13
  <2>15. CASE putting'[w] = x /\ missed'[w] = gone
    <3>1. ZenTrail(w, g)' = Published(tried'[w], missed'[w])
      BY <2>1, <2>7, <2>8, <2>10, <2>11, <2>12, <2>14, <2>15 DEF k, gone
    <3> QED BY <1>1, <1>5, <2>1, <2>2, <2>8, <2>13, <2>15, <3>1 DEF k, gone, x
  <2>16. CASE missed'[w] = gone \union {x} /\ putting'[w] = 0
    <3>1. ZenTrail(w, g)' = Published(tried'[w], missed'[w])
      BY <2>8, <2>10, <2>11, <2>13, <2>16 DEF k, gone
    <3>2. missed'[w] \subseteq 1..tried'[w]
      BY <2>2, <2>8, <2>13, <2>16 DEF k, gone
    <3> QED BY <1>1, <1>5, <2>1, <2>8, <2>13, <3>1, <3>2 DEF k, x
  <2> QED BY <2>9, <2>15, <2>16
<1> QED BY <1>4, <1>5

LEMMA PutComes ==
    ASSUME ZenTyped, InOrderOnly, NEW n \in ZenohNodes, NEW w \in ZenohNodes, ZenComes(w),
           spawned[n] = {}, PutEnds(n)
    PROVE  /\ ZenComes(w)'
           /\ PeerListens(w) => missed'[w] = missed[w] \/ (~reaches[w] /\ w = n /\ tried[w] > 0)
<1> DEFINE x == putting[n]
<1>1. /\ x # 0 /\ ToItself(n, x) /\ ToPeer(n, x) /\ putting' = [putting EXCEPT ![n] = 0]
      /\ UNCHANGED <<zenStage, tried, bridge, recorded>>
  BY DEF PutEnds
<1>2. /\ putting \in [ZenohNodes -> Nat] /\ link \in [ZenohNodes -> Seq(Nat)]
      /\ missed \in [ZenohNodes -> SUBSET Nat]
      /\ fifo \in [ZenohNodes -> Seq(Tagged(ZenohNodes, Nat))]
  BY DEF ZenTyped, Tagged
<1>3. PeerListens(w)' <=> PeerListens(w)
  BY <1>1 DEF PeerListens
<1>4. fifo' = fifo \/ fifo' = [fifo EXCEPT ![n] = Append(@, [from |-> n, seq |-> x])]
  BY <1>1 DEF ToItself
<1>5. \/ link' = [link EXCEPT ![n] = Append(@, x)] /\ UNCHANGED missed
      \/ ~reaches[n] /\ missed' = [missed EXCEPT ![n] = @ \union {x}] /\ UNCHANGED link
  BY <1>1 DEF ToPeer
<1>6. /\ OtherOf(w) \in ZenohNodes /\ OtherOf(w) # w
      /\ w # n => n = OtherOf(w)
  BY TwoNodes
<1>7. CASE w # n
  <2> DEFINE s == [from |-> n, seq |-> x]
             f == fifo[n]
  <2>1. f \in Seq(Tagged(ZenohNodes, Nat)) /\ s \in Tagged(ZenohNodes, Nat) /\ s.from # w
    BY <1>2, <1>7 DEF Tagged
  <2>2. fifo'[n] = f \/ fifo'[n] = Append(f, s)
    BY <1>2, <1>4
  <2> HIDE DEF s, f
  <2>3. SeqsFrom(Append(f, s), w) = SeqsFrom(f, w)
    BY <2>1, SeqsFromAppend
  <2>4. SeqsFrom(fifo'[OtherOf(w)], w) = SeqsFrom(fifo[OtherOf(w)], w)
    BY <1>6, <1>7, <2>2, <2>3 DEF f
  <2>5. link'[w] = link[w] /\ missed'[w] = missed[w] /\ putting'[w] = putting[w]
    BY <1>1, <1>2, <1>5, <1>7
  <2>6. ZenComes(w)'
    BY <1>1, <1>3, <2>4, <2>5, ZenStays
  <2> QED BY <2>5, <2>6
<1>8. CASE w = n
  <2> SUFFICES ASSUME PeerListens(w)
               PROVE  /\ missed'[w] \subseteq 1..tried'[w]
                      /\ \E g \in Seq(Nat) :
                            /\ ZenTrail(w, g)' = Published(tried'[w], missed'[w])
                            /\ zenStage'[w] # "left" => g = <<>>
                      /\ missed'[w] = missed[w] \/ (~reaches[w] /\ tried[w] > 0)
    BY <1>3, <1>8 DEF ZenComes, Published
  <2>1. PICK g \in Seq(Nat) : /\ ZenTrail(w, g) = Published(tried[w], missed[w])
                              /\ zenStage[w] # "left" => g = <<>>
    BY DEF ZenComes
  <2>2. missed[w] \subseteq 1..tried[w]
    BY DEF ZenComes
  <2> DEFINE a == recorded[OtherOf(w)]
             b == SeqsFrom(fifo[OtherOf(w)], w)
             c == link[w]
             e == bridge[w]
             k == tried[w]
             gone == missed[w]
  <2>3. x \in Nat /\ x # 0
    BY <1>1, <1>2
  <2>4. k \in Nat /\ gone \subseteq 1..k
    BY <2>2, ZenParts
  <2>5. a \in Seq(Nat) /\ b \in Seq(Nat) /\ c \in Seq(Nat) /\ e \in Seq(Nat)
    BY ZenParts
  <2>6. ZenTrail(w, g) = Trail(a, b, c, Alone(x), e, g)
    BY <1>8, <2>3 DEF ZenTrail, PutOf
  <2>7. fifo'[OtherOf(w)] = fifo[OtherOf(w)] /\ bridge' = bridge /\ recorded' = recorded
        /\ tried'[w] = k /\ putting'[w] = 0
    BY <1>1, <1>2, <1>4, <1>6, <1>8
  <2>8. \/ link'[w] = Append(c, x) /\ missed'[w] = gone
        \/ ~reaches[w] /\ missed'[w] = gone \union {x} /\ link'[w] = c
    BY <1>2, <1>5, <1>8
  <2>9. ZenTrail(w, g)' = Trail(a, b, link'[w], NoMessages, e, g)
    BY <2>7 DEF ZenTrail, PutOf
  <2>10. Trail(a, b, c, Alone(x), e, g) = Published(k, gone)
    BY <2>1, <2>6
  <2> DEFINE T == Nat
  <2>11. a \in Seq(T) /\ b \in Seq(T) /\ c \in Seq(T) /\ e \in Seq(T) /\ g \in Seq(T)
             /\ x \in T
    BY <2>3, <2>5
  <2> HIDE DEF a, b, c, e, k, gone, x, T
  <2>12. Trail(a, b, c, Alone(x), e, g) = Trail(a, b, Append(c, x), NoMessages, e, g)
    BY <2>11, MovePut
  <2>13. x \in 1..k /\ Trail(a, b, c, NoMessages, e, g) = Published(k, gone \union {x})
    <3>1. LosesOne(T, x, Trail(a, b, c, Alone(x), e, g), Trail(a, b, c, NoMessages, e, g))
      BY <2>11, PutLost
    <3> QED BY <2>3, <2>4, <2>10, <3>1, LostIsGone DEF T
  <2>14. zenStage'[w] # "left" => g = <<>>
    BY <1>1, <2>1
  <2>15. CASE link'[w] = Append(c, x) /\ missed'[w] = gone
    <3>1. ZenTrail(w, g)' = Published(tried'[w], missed'[w])
      BY <2>7, <2>9, <2>10, <2>12, <2>15
    <3>2. missed'[w] = missed[w]
      BY <2>15 DEF gone
    <3> QED BY <2>4, <2>7, <2>14, <2>15, <3>1, <3>2
  <2>16. CASE ~reaches[w] /\ missed'[w] = gone \union {x} /\ link'[w] = c
    <3>1. ZenTrail(w, g)' = Published(tried'[w], missed'[w])
      BY <2>7, <2>9, <2>13, <2>16
    <3>2. missed'[w] \subseteq 1..tried'[w]
      BY <2>4, <2>7, <2>13, <2>16
    <3>3. tried[w] > 0
      BY <2>4, <2>13 DEF k
    <3> QED BY <2>14, <2>16, <3>1, <3>2, <3>3
  <2> QED BY <2>8, <2>15, <2>16
<1> QED BY <1>7, <1>8

LEMMA RouteComes ==
    ASSUME ZenTyped, NEW n \in ZenohNodes, NEW w \in ZenohNodes, ZenComes(w), RouteSample(n)
    PROVE  ZenComes(w)'
<1> DEFINE r == OtherOf(n)
           x == Head(link[n])
<1>1. /\ link[n] # <<>> /\ link' = [link EXCEPT ![n] = Tail(@)]
      /\ fifo' = [fifo EXCEPT ![r] = Append(@, [from |-> n, seq |-> x])]
      /\ UNCHANGED <<zenStage, tried, bridge, putting, recorded, missed>>
  BY DEF RouteSample
<1>2. /\ link \in [ZenohNodes -> Seq(Nat)]
      /\ fifo \in [ZenohNodes -> Seq(Tagged(ZenohNodes, Nat))]
  BY DEF ZenTyped, Tagged
<1>3. PeerListens(w)' <=> PeerListens(w)
  BY <1>1 DEF PeerListens
<1>4. r \in ZenohNodes /\ r # n /\ (w # n => OtherOf(w) = n)
  BY TwoNodes
<1>5. CASE w # n
  <2>1. fifo'[OtherOf(w)] = fifo[OtherOf(w)] /\ link'[w] = link[w]
    BY <1>1, <1>2, <1>4, <1>5
  <2> QED BY <1>1, <1>3, <2>1, ZenStays
<1>6. CASE w = n
  <2> DEFINE a == recorded[OtherOf(w)]
             f == fifo[OtherOf(w)]
             b == SeqsFrom(f, w)
             c == Tail(link[w])
             d == PutOf(w)
             e == bridge[w]
             s == [from |-> w, seq |-> x]
  <2>1. a \in Seq(Nat) /\ b \in Seq(Nat) /\ d \in Seq(Nat) /\ e \in Seq(Nat)
    BY ZenParts
  <2>2. f \in Seq(Tagged(ZenohNodes, Nat))
    BY <1>2, <1>4, <1>6
  <2>3. link[w] \in Seq(Nat) /\ link[w] # <<>>
    BY <1>1, <1>2, <1>6
  <2>4. x \in Nat /\ c \in Seq(Nat) /\ link[w] = Strung(Alone(x), c)
    BY <1>6, <2>3, OneHead
  <2>5. s \in Tagged(ZenohNodes, Nat) /\ s.from = w /\ s.seq = x
    BY <2>4 DEF Tagged
  <2>6. fifo'[OtherOf(w)] = Append(f, s) /\ link'[w] = c
    BY <1>1, <1>2, <1>4, <1>6
  <2> HIDE DEF x, s, f
  <2>7. SeqsFrom(Append(f, s), w) = Append(b, x)
    BY <2>2, <2>5, SeqsFromAppend
  <2> DEFINE T == Nat
  <2> HIDE DEF a, b, c, d, e, T
  <2>8. ASSUME NEW g \in Seq(T) PROVE ZenTrail(w, g)' = ZenTrail(w, g)
    <3>1. a \in Seq(T) /\ b \in Seq(T) /\ c \in Seq(T) /\ d \in Seq(T) /\ e \in Seq(T) /\ g \in Seq(T)
              /\ x \in T
      BY <2>1, <2>4 DEF T
    <3>2. ZenTrail(w, g) = Trail(a, b, Strung(Alone(x), c), d, e, g)
      BY <2>4 DEF ZenTrail, a, b, d, e, f
    <3>3. ZenTrail(w, g)' = Trail(a, Append(b, x), c, d, e, g)
      BY <1>1, <2>6, <2>7 DEF ZenTrail, PutOf, a, d, e
    <3>4. Trail(a, b, Strung(Alone(x), c), d, e, g) = Trail(a, Append(b, x), c, d, e, g)
      BY <3>1, MoveRouted
    <3> QED BY <3>2, <3>3, <3>4
  <2>9. \A g \in Seq(Nat) : ZenTrail(w, g)' = ZenTrail(w, g)
    BY <2>8 DEF T
  <2> QED BY <1>1, <1>3, <2>9, ZenMoves
<1> QED BY <1>5, <1>6

LEMMA SeqsFromFirst ==
    ASSUME NEW F, NEW Q, NEW f \in Seq(Tagged(F, Q)), f # <<>>, NEW w
    PROVE  /\ SeqsFrom(Tail(f), w) \in Seq(Q)
           /\ Head(f).from = w =>
                 SeqsFrom(f, w) = Strung(Alone(Head(f).seq), SeqsFrom(Tail(f), w))
           /\ Head(f).from # w => SeqsFrom(f, w) = SeqsFrom(Tail(f), w)
BY SeqsFromHead DEF Strung, Alone

LEMMA ReceiveComes ==
    ASSUME ZenTyped, NEW n \in ZenohNodes, NEW w \in ZenohNodes, ZenComes(w), ReceiveSample(n)
    PROVE  /\ ZenComes(w)'
           /\ PeerListens(w) => \/ missed'[w] = missed[w]
                                \/ zenStage[OtherOf(w)] = "connected" /\ tried[w] > 0
<1> DEFINE f == fifo[n]
           s == Head(f)
           x == s.seq
<1>1. /\ Running(n) /\ f # <<>> /\ fifo' = [fifo EXCEPT ![n] = Tail(@)]
      /\ UNCHANGED <<zenStage, tried, bridge, putting, link>>
  BY DEF ReceiveSample, putVars
<1>2. /\ recorded \in [ZenohNodes -> Seq(Nat)] /\ missed \in [ZenohNodes -> SUBSET Nat]
      /\ fifo \in [ZenohNodes -> Seq(Tagged(ZenohNodes, Nat))]
  BY DEF ZenTyped, Tagged
<1>3. PeerListens(w)' <=> PeerListens(w)
  BY <1>1 DEF PeerListens
<1>4. f \in Seq(Tagged(ZenohNodes, Nat))
  BY <1>2
<1>5. s \in Tagged(ZenohNodes, Nat) /\ Tail(f) \in Seq(Tagged(ZenohNodes, Nat))
  BY <1>1, <1>4, HeadThenTail
<1>6. s.from \in ZenohNodes /\ x \in Nat
  BY <1>5 DEF Tagged
<1>7. \/ s.from = n /\ UNCHANGED <<recorded, missed>>
      \/ s.from # n /\ recorded' = [recorded EXCEPT ![n] = Append(@, x)] /\ UNCHANGED missed
      \/ /\ s.from # n /\ ~Attached(n) /\ missed' = [missed EXCEPT ![s.from] = @ \union {x}]
         /\ UNCHANGED recorded
  BY DEF ReceiveSample, IsOwn
<1>8. /\ OtherOf(w) \in ZenohNodes /\ OtherOf(w) # w /\ (w # n => n = OtherOf(w))
      /\ (s.from # n => s.from = OtherOf(n)) /\ (w # n => w = OtherOf(n))
  BY <1>6, TwoNodes
<1> HIDE DEF s, x
<1>9. CASE w = n
  <2>1. /\ fifo'[OtherOf(w)] = fifo[OtherOf(w)] /\ recorded'[OtherOf(w)] = recorded[OtherOf(w)]
        /\ missed'[w] = missed[w]
    BY <1>1, <1>2, <1>7, <1>8, <1>9
  <2> QED BY <1>1, <1>3, <2>1, ZenStays
<1>10. CASE w # n
  <2>1. n = OtherOf(w) /\ w = OtherOf(n) /\ (s.from # n => s.from = w)
    BY <1>8, <1>10
  <2> DEFINE a == recorded[n]
             b == SeqsFrom(Tail(f), w)
             c == link[w]
             d == PutOf(w)
             e == bridge[w]
             k == tried[w]
             gone == missed[w]
             T == Nat
  <2>2. a \in Seq(Nat) /\ c \in Seq(Nat) /\ d \in Seq(Nat) /\ e \in Seq(Nat) /\ k \in Nat
    BY <2>1, ZenParts
  <2>3. b \in Seq(Nat) /\ SeqsFrom(f, w) = IF s.from = w THEN Strung(Alone(x), b) ELSE b
    <3> HIDE DEF f
    <3>1. SeqsFrom(Tail(f), w) \in Seq(Nat)
      BY <1>1, <1>4, SeqsFromFirst
    <3>2. Head(f).from = w =>
              SeqsFrom(f, w) = Strung(Alone(Head(f).seq), SeqsFrom(Tail(f), w))
      BY <1>1, <1>4, SeqsFromFirst
    <3>3. Head(f).from # w => SeqsFrom(f, w) = SeqsFrom(Tail(f), w)
      BY <1>1, <1>4, SeqsFromFirst
    <3> QED BY <3>1, <3>2, <3>3 DEF s, x
  <2>4. fifo'[n] = Tail(f)
    BY <1>1, <1>2
  <2>5. /\ bridge' = bridge /\ link' = link /\ PutOf(w)' = d /\ tried' = tried
        /\ zenStage' = zenStage
    BY <1>1 DEF PutOf
  <2> HIDE DEF f
  <2>6. \A g : ZenTrail(w, g) = Trail(a, SeqsFrom(f, w), c, d, e, g)
    BY <2>1 DEF ZenTrail, f
  <2>7. \A g : ZenTrail(w, g)' = Trail(recorded'[n], b, c, d, e, g)
    BY <2>1, <2>4, <2>5 DEF ZenTrail
  <2> HIDE DEF a, b, c, d, e, k, gone, T
  <2>8. CASE s.from = n
    <3>1. SeqsFrom(f, w) = b /\ recorded'[n] = a /\ missed'[w] = missed[w]
      BY <1>7, <1>10, <2>3, <2>8 DEF a
    <3>2. \A g \in Seq(Nat) : ZenTrail(w, g)' = ZenTrail(w, g)
      BY <2>6, <2>7, <3>1
    <3> QED BY <1>1, <1>3, <3>1, <3>2, ZenMoves
  <2>9. CASE s.from # n
    <3>1. SeqsFrom(f, w) = Strung(Alone(x), b)
      BY <2>1, <2>3, <2>9
    <3>2. CASE recorded' = [recorded EXCEPT ![n] = Append(@, x)] /\ UNCHANGED missed
      <4>1. recorded'[n] = Append(a, x)
        BY <1>2, <3>2 DEF a
      <4>2. ASSUME NEW g \in Seq(T) PROVE ZenTrail(w, g)' = ZenTrail(w, g)
        <5>1. a \in Seq(T) /\ b \in Seq(T) /\ c \in Seq(T) /\ d \in Seq(T) /\ e \in Seq(T)
                  /\ g \in Seq(T) /\ x \in T
          BY <1>6, <2>2, <2>3 DEF T
        <5>2. Trail(a, Strung(Alone(x), b), c, d, e, g) = Trail(Append(a, x), b, c, d, e, g)
          BY <5>1, MoveReceived
        <5> QED BY <2>6, <2>7, <3>1, <4>1, <5>2
      <4>3. \A g \in Seq(Nat) : ZenTrail(w, g)' = ZenTrail(w, g)
        BY <4>2 DEF T
      <4> QED BY <1>1, <1>3, <3>2, <4>3, ZenMoves
    <3>3. CASE /\ ~Attached(n) /\ missed' = [missed EXCEPT ![s.from] = @ \union {x}]
               /\ UNCHANGED recorded
      <4> SUFFICES ASSUME PeerListens(w)
                   PROVE  /\ missed'[w] \subseteq 1..tried'[w]
                          /\ \E g \in Seq(Nat) :
                                /\ ZenTrail(w, g)' = Published(tried'[w], missed'[w])
                                /\ zenStage'[w] # "left" => g = <<>>
                          /\ zenStage[OtherOf(w)] = "connected" /\ tried[w] > 0
        BY <1>3 DEF ZenComes, Published
      <4>1. PICK g \in Seq(Nat) : /\ ZenTrail(w, g) = Published(tried[w], missed[w])
                                  /\ zenStage[w] # "left" => g = <<>>
        BY DEF ZenComes
      <4>2. missed[w] \subseteq 1..tried[w]
        BY DEF ZenComes
      <4>3. a \in Seq(T) /\ b \in Seq(T) /\ c \in Seq(T) /\ d \in Seq(T) /\ e \in Seq(T)
                /\ g \in Seq(T) /\ x \in T
        BY <1>6, <2>2, <2>3 DEF T
      <4>4. LosesOne(T, x, Trail(a, Strung(Alone(x), b), c, d, e, g), Trail(a, b, c, d, e, g))
        BY <4>3, SampleLost
      <4>5. Trail(a, Strung(Alone(x), b), c, d, e, g) = Published(k, gone)
        BY <2>6, <3>1, <4>1 DEF k, gone
      <4>6. x \in 1..k /\ Trail(a, b, c, d, e, g) = Published(k, gone \union {x})
        BY <1>6, <2>2, <4>4, <4>5, LostIsGone DEF T
      <4>7. missed'[w] = gone \union {x} /\ recorded'[n] = a /\ tried'[w] = k
        BY <1>2, <2>1, <2>5, <2>9, <3>3 DEF gone, a, k
      <4>8. ZenTrail(w, g)' = Published(tried'[w], missed'[w])
        BY <2>7, <4>6, <4>7
      <4>9. missed'[w] \subseteq 1..tried'[w]
        BY <4>2, <4>6, <4>7 DEF gone, k
      <4>10. tried[w] > 0
        BY <2>2, <4>6 DEF k
      <4>11. zenStage[OtherOf(w)] = "connected"
        BY <1>1, <2>1, <3>3 DEF Running
      <4> QED BY <2>5, <4>1, <4>8, <4>9, <4>10, <4>11
    <3> QED BY <1>7, <2>9, <3>2, <3>3
  <2> QED BY <2>8, <2>9
<1> QED BY <1>9, <1>10

LEMMA ShutComes ==
    ASSUME ZenTyped, NEW n \in ZenohNodes, NEW w \in ZenohNodes, ZenComes(w),
           LeaveSession(n) \/ ShutDown(n)
    PROVE  ZenComes(w)' /\ missed' = missed
<1>1. /\ zenStage \in [ZenohNodes -> ZenohStages] /\ putting \in [ZenohNodes -> Nat]
      /\ bridge \in [ZenohNodes -> Seq(Nat)] /\ link \in [ZenohNodes -> Seq(Nat)]
      /\ fifo \in [ZenohNodes -> Seq([from : ZenohNodes, seq : Nat])]
  BY DEF ZenTyped
<1>2. UNCHANGED <<tried, missed, recorded>>
  BY DEF LeaveSession, ShutDown
<1>3. /\ OtherOf(w) \in ZenohNodes /\ OtherOf(w) # w
      /\ w # n => n = OtherOf(w)
  BY TwoNodes
<1>4. CASE w # n
  <2>1. zenStage'[n] \in {"closing", "left"}
    BY <1>1 DEF LeaveSession, ShutDown, EnterStage
  <2>2. ~PeerListens(w)'
    BY <1>3, <1>4, <2>1 DEF PeerListens
  <2> QED BY <1>2, <2>2 DEF ZenComes
<1>5. CASE w = n /\ LeaveSession(n)
  <2>1. /\ zenStage[w] = "silent" /\ zenStage' = [zenStage EXCEPT ![n] = "closing"]
        /\ fifo' = [fifo EXCEPT ![n] = <<>>] /\ UNCHANGED <<bridge, putting, link>>
    BY <1>5 DEF LeaveSession, EnterStage, putVars
  <2>2. fifo'[OtherOf(w)] = fifo[OtherOf(w)] /\ zenStage'[OtherOf(w)] = zenStage[OtherOf(w)]
    BY <1>1, <1>3, <1>5, <2>1
  <2> QED BY <1>2, <2>1, <2>2, ZenStays DEF PeerListens
<1>6. CASE w = n /\ ShutDown(n)
  <2>1. /\ zenStage' = [zenStage EXCEPT ![n] = "left"]
        /\ bridge' = [bridge EXCEPT ![n] = <<>>] /\ putting' = [putting EXCEPT ![n] = 0]
        /\ UNCHANGED fifo
    BY <1>6 DEF ShutDown, EnterStage
  <2>2. \E rest1 \in {link[n], <<>>} : link' = [link EXCEPT ![n] = rest1, ![OtherOf(n)] = <<>>]
    BY <1>6 DEF ShutDown
  <2>3. link'[w] = link[w] \/ link'[w] = <<>>
    BY <1>1, <1>3, <1>6, <2>2
  <2>4. zenStage'[OtherOf(w)] = zenStage[OtherOf(w)] /\ zenStage'[w] = "left"
    BY <1>1, <1>3, <1>6, <2>1
  <2>5. putting'[w] = 0 /\ bridge'[w] = <<>>
    BY <1>1, <1>6, <2>1
  <2> SUFFICES ASSUME PeerListens(w)
               PROVE  /\ missed'[w] \subseteq 1..tried'[w]
                      /\ \E g \in Seq(Nat) : ZenTrail(w, g)' = Published(tried'[w], missed'[w])
    BY <1>2, <2>4 DEF ZenComes, Published, PeerListens
  <2>6. PICK g \in Seq(Nat) : ZenTrail(w, g) = Published(tried[w], missed[w])
    BY DEF ZenComes
  <2>7. missed[w] \subseteq 1..tried[w]
    BY DEF ZenComes
  <2> DEFINE a == recorded[OtherOf(w)]
             b == SeqsFrom(fifo[OtherOf(w)], w)
             c == link[w]
             d == PutOf(w)
             e == bridge[w]
             T == Nat
             t == Trail(a, b, c, d, e, g)
  <2>8. ZenTrail(w, g) = t
    BY DEF ZenTrail
  <2>9. \A h : ZenTrail(w, h)' = Trail(a, b, link'[w], NoMessages, NoMessages, h)
    BY <1>2, <2>1, <2>5 DEF ZenTrail, PutOf, NoMessages
  <2>10. a \in Seq(T) /\ b \in Seq(T) /\ c \in Seq(T) /\ d \in Seq(T) /\ e \in Seq(T)
             /\ g \in Seq(T)
    BY ZenParts
  <2> HIDE DEF a, b, c, d, e, T
  <2>11. /\ \E h \in Seq(T) : Trail(a, b, c, NoMessages, NoMessages, h) = t
         /\ \E h \in Seq(T) : Trail(a, b, NoMessages, NoMessages, NoMessages, h) = t
    BY <2>10, TrailEnds
  <2> HIDE DEF t
  <2>12. \E h \in Seq(T) : ZenTrail(w, h)' = t
    BY <2>3, <2>9, <2>11 DEF c, NoMessages
  <2> QED BY <1>2, <2>6, <2>7, <2>8, <2>12 DEF T
<1> QED BY <1>2, <1>4, <1>5, <1>6

\* The steps that move no message.
LEMMA QuietComes ==
    ASSUME ZenTyped, NEW n \in ZenohNodes, NEW w \in ZenohNodes, ZenComes(w),
           \/ OpenSession(n) \/ AttachLogger(n) \/ LearnInterest(n) \/ StartOperate(n)
           \/ EndPublishing(n) \/ UNCHANGED zenVars
    PROVE  ZenComes(w)' /\ missed' = missed
<1>1. UNCHANGED <<tried, bridge, putting, link, fifo, recorded, missed>>
  BY DEF OpenSession, AttachLogger, LearnInterest, StartOperate, EndPublishing, Before, putVars,
         zenVars
<1>2. zenStage \in [ZenohNodes -> ZenohStages]
  BY DEF ZenTyped
<1>3. \/ zenStage' = zenStage
      \/ /\ zenStage[n] \in {"down", "connected", "attached", "operate"}
         /\ \E s : zenStage' = [zenStage EXCEPT ![n] = s]
  BY DEF OpenSession, AttachLogger, LearnInterest, StartOperate, EndPublishing, Before, EnterStage,
         zenVars
<1>4. OtherOf(w) \in ZenohNodes
  BY TwoNodes
<1>5. PeerListens(w)' => PeerListens(w)
  BY <1>2, <1>3, <1>4 DEF PeerListens
<1>6. zenStage'[w] # "left" => zenStage[w] # "left"
  BY <1>2, <1>3
<1> QED BY <1>1, <1>5, <1>6, ZenStays

LEMMA ZenRowStays ==
    ASSUME ZenTyped, zen \in ZenohSpawns, zen' = zen, InOrderOnly, NEW w \in ZenohNodes, ZenRow(w),
           ZenComes(w), [ZenohNext]_zenVars
    PROVE  ZenRow(w)'
<1>1. /\ zenStage \in [ZenohNodes -> ZenohStages] /\ putting \in [ZenohNodes -> Nat]
      /\ bridge \in [ZenohNodes -> Seq(Nat)] /\ spawned \in [ZenohNodes -> SUBSET Nat]
      /\ tried \in [ZenohNodes -> Nat]
  BY DEF ZenTyped
<1>2. ASSUME UNCHANGED zenVars PROVE ZenRow(w)'
  BY <1>2 DEF zenVars, putVars, ZenRow, Started
<1>3. ASSUME NEW n \in ZenohNodes,
             OpenSession(n) \/ AttachLogger(n) \/ StartOperate(n) \/ EndPublishing(n)
      PROVE  ZenRow(w)'
  <2>1. UNCHANGED <<putting, bridge, spawned, tried>>
    BY <1>3 DEF OpenSession, AttachLogger, StartOperate, EndPublishing, Before, putVars
  <2>2. \/ zenStage[n] \in {"down", "connected"} /\ zenStage' = [zenStage EXCEPT ![n] = "connected"]
        \/ zenStage[n] \in {"down", "connected"} /\ zenStage' = [zenStage EXCEPT ![n] = "attached"]
        \/ zenStage[n] = "attached" /\ zenStage' = [zenStage EXCEPT ![n] = "operate"]
        \/ zenStage[n] = "operate" /\ zenStage' = [zenStage EXCEPT ![n] = "silent"]
    BY <1>3 DEF OpenSession, AttachLogger, StartOperate, EndPublishing, Before, EnterStage
  <2>3. /\ Started(w) => Started(w)'
        /\ zenStage'[w] = "left" => zenStage[w] = "left"
    BY <1>1, <2>2 DEF Started
  <2> QED BY <2>1, <2>3 DEF ZenRow
<1>4. ASSUME NEW n \in ZenohNodes, LearnInterest(n) \/ RouteSample(n) \/ ReceiveSample(n)
      PROVE  ZenRow(w)'
  BY <1>4 DEF LearnInterest, RouteSample, ReceiveSample, putVars, ZenRow, Started
<1>5. ASSUME NEW n \in ZenohNodes, ZenPublish(n) \/ ZenTryPublish(n) PROVE ZenRow(w)'
  <2>1. /\ zenStage[n] = "operate" /\ tried[n] < zen.puts[n]
        /\ tried' = [tried EXCEPT ![n] = @ + 1] /\ UNCHANGED <<zenStage, putting, spawned>>
        /\ bridge' = [bridge EXCEPT ![n] = Append(@, tried[n] + 1)]
    BY <1>5 DEF ZenPublish, ZenTryPublish, Trying, Bridged
  <2>2. w # n => tried'[w] = tried[w] /\ bridge'[w] = bridge[w]
    BY <1>1, <2>1
  <2>3. w = n => /\ tried'[w] = tried[w] + 1 /\ tried[w] < zen.puts[w] /\ Started(w)
                 /\ zenStage[w] # "left"
    BY <1>1, <2>1 DEF Started
  <2>4. tried'[w] <= zen.puts[w]
    <3>1. zen.puts \in [ZenohNodes -> 0..MaxPuts] /\ MaxPuts \in Nat
      BY ZenohSpawnsAssumption, PutsAreNumbers
    <3>2. zen.puts[w] \in Nat /\ tried[w] \in Nat
      BY <1>1, <3>1
    <3>3. CASE w = n
      BY <2>3, <3>2, <3>3
    <3>4. CASE w # n
      BY <2>2, <3>4 DEF ZenRow
    <3> QED BY <3>3, <3>4
  <2>5. spawned'[w] = {} /\ (tried'[w] > 0 => Started(w)')
    <3>1. spawned'[w] = {} /\ (Started(w) => Started(w)')
      BY <2>1 DEF ZenRow, Started
    <3>2. w # n => (tried'[w] > 0 => Started(w))
      BY <2>2 DEF ZenRow
    <3> QED BY <2>3, <3>1, <3>2
  <2>6. zenStage'[w] = "left" => putting'[w] = 0 /\ bridge'[w] = <<>>
    BY <2>1, <2>2, <2>3 DEF ZenRow
  <2> QED BY <2>4, <2>5, <2>6 DEF ZenRow
<1>6. ASSUME NEW n \in ZenohNodes, TakeFromBridge(n) \/ DeclareFails(n) PROVE ZenRow(w)'
  <2>1. /\ bridge' = [bridge EXCEPT ![n] = Tail(@)] /\ bridge[n] # <<>>
        /\ UNCHANGED <<zenStage, tried, spawned>>
        /\ putting' = putting \/ putting' = [putting EXCEPT ![n] = Head(bridge[n])]
    BY <1>6 DEF TakeFromBridge, DeclareFails, AwaitsPut
  <2>2. w # n => putting'[w] = putting[w] /\ bridge'[w] = bridge[w]
    BY <1>1, <2>1
  <2>3. w = n => zenStage[w] # "left"
    BY <2>1 DEF ZenRow
  <2> QED BY <2>1, <2>2, <2>3 DEF ZenRow, Started
<1>7. ASSUME NEW n \in ZenohNodes, PutEnds(n) PROVE ZenRow(w)'
  <2>1. /\ UNCHANGED <<zenStage, tried, bridge>> /\ zenStage[n] # "left"
        /\ \/ putting' = [putting EXCEPT ![n] = 0] /\ UNCHANGED spawned
           \/ \E m \in spawned[n] : spawned' = [spawned EXCEPT ![n] = @ \ {m}] /\ UNCHANGED putting
    BY <1>7 DEF PutEnds, Publishing, Running, Attached
  <2>2. putting'[w] = putting[w] \/ putting'[w] = 0
    BY <1>1, <2>1
  <2>3. spawned'[w] \subseteq spawned[w]
    BY <1>1, <2>1
  <2> QED BY <2>1, <2>2, <2>3 DEF ZenRow, Started
<1>8. ASSUME NEW n \in ZenohNodes, LeaveSession(n) PROVE ZenRow(w)'
  <2>1. /\ UNCHANGED <<tried, bridge, putting, spawned>> /\ zenStage[n] = "silent"
        /\ zenStage' = [zenStage EXCEPT ![n] = "closing"]
    BY <1>8 DEF LeaveSession, EnterStage, putVars
  <2>2. Started(w) => Started(w)'
    BY <1>1, <2>1 DEF Started
  <2>3. zenStage'[w] = "left" => zenStage[w] = "left"
    BY <1>1, <2>1
  <2> QED BY <2>1, <2>2, <2>3 DEF ZenRow
<1>9. ASSUME NEW n \in ZenohNodes, ShutDown(n) PROVE ZenRow(w)'
  <2>1. /\ UNCHANGED tried /\ zenStage' = [zenStage EXCEPT ![n] = "left"]
        /\ bridge' = [bridge EXCEPT ![n] = <<>>] /\ putting' = [putting EXCEPT ![n] = 0]
        /\ spawned' = [spawned EXCEPT ![n] = {}]
    BY <1>9 DEF ShutDown, EnterStage
  <2>2. w = n => /\ bridge'[w] = <<>> /\ putting'[w] = 0 /\ spawned'[w] = {}
                 /\ zenStage'[w] = "left"
    BY <1>1, <2>1
  <2>3. w # n => /\ bridge'[w] = bridge[w] /\ putting'[w] = putting[w] /\ spawned'[w] = spawned[w]
                 /\ zenStage'[w] = zenStage[w]
    BY <1>1, <2>1
  <2> QED BY <2>1, <2>2, <2>3 DEF ZenRow, Started
<1> QED BY <1>2, <1>3, <1>4, <1>5, <1>6, <1>7, <1>8, <1>9 DEF ZenohNext

-----------------------------------------------------------------------------
(* Zenoh: nobody starts before both nodes listen, and so nothing is lost.  *)

LEMMA ZenReadyStays ==
    ASSUME ZenTyped, reaches \in [ZenohNodes -> BOOLEAN], zen' = zen, ZenReady,
           [ZenohNext]_zenVars
    PROVE  ZenReady' /\ reaches' \in [ZenohNodes -> BOOLEAN]
<1>1. zenStage \in [ZenohNodes -> ZenohStages]
  BY DEF ZenTyped
<1>2. ASSUME UNCHANGED <<zenStage, reaches>> PROVE ZenReady' /\ reaches' \in [ZenohNodes -> BOOLEAN]
  BY <1>2 DEF ZenReady, Started
<1>3. ASSUME NEW n \in ZenohNodes, OpenSession(n) \/ AttachLogger(n)
      PROVE  ZenReady' /\ reaches' \in [ZenohNodes -> BOOLEAN]
  <2>1. /\ UNCHANGED reaches /\ zenStage[n] \in {"down", "connected"}
        /\ \/ zenStage' = [zenStage EXCEPT ![n] = "connected"]
           \/ zenStage' = [zenStage EXCEPT ![n] = "attached"]
    BY <1>3 DEF OpenSession, AttachLogger, Before, EnterStage
  <2>2. \A k \in ZenohNodes : Started(k)' => Started(k)
    BY <1>1, <2>1 DEF Started
  <2>3. \A k \in ZenohNodes : ~zen.late => ~Started(k)
    BY <2>1 DEF ZenReady
  <2> QED BY <2>1, <2>2, <2>3 DEF ZenReady
<1>4. ASSUME NEW n \in ZenohNodes, LearnInterest(n)
      PROVE  ZenReady' /\ reaches' \in [ZenohNodes -> BOOLEAN]
  <2>1. UNCHANGED zenStage /\ reaches' = [reaches EXCEPT ![n] = TRUE]
    BY <1>4 DEF LearnInterest
  <2>2. reaches' \in [ZenohNodes -> BOOLEAN] /\ \A m \in ZenohNodes : reaches[m] => reaches'[m]
    BY <2>1
  <2> QED BY <2>1, <2>2 DEF ZenReady, Started
<1>5. ASSUME NEW n \in ZenohNodes, StartOperate(n)
      PROVE  ZenReady' /\ reaches' \in [ZenohNodes -> BOOLEAN]
  <2>1. /\ UNCHANGED reaches /\ zenStage[n] = "attached"
        /\ zenStage' = [zenStage EXCEPT ![n] = "operate"]
        /\ \/ zen.late \/ Started(OtherOf(n))
           \/ \A m \in ZenohNodes : Attached(m) /\ reaches[m]
    BY <1>5 DEF StartOperate, Before, EnterStage
  <2>2. ASSUME ~zen.late, NEW m \in ZenohNodes
        PROVE  /\ zenStage[m] \notin {"down", "connected"}
               /\ reaches[m] \/ \E k \in ZenohNodes : zenStage[k] = "left"
    <3>1. CASE Started(OtherOf(n))
      BY <2>2, <3>1, TwoNodes DEF ZenReady
    <3>2. CASE \A j \in ZenohNodes : Attached(j) /\ reaches[j]
      BY <3>2 DEF Attached
    <3> QED BY <2>1, <2>2, <3>1, <3>2
  <2>3. ASSUME NEW m \in ZenohNodes, zenStage[m] \notin {"down", "connected"}
        PROVE  zenStage'[m] \notin {"down", "connected"}
    BY <1>1, <2>1, <2>3
  <2>4. ASSUME NEW k \in ZenohNodes, zenStage[k] = "left" PROVE zenStage'[k] = "left"
    BY <1>1, <2>1, <2>4
  <2> QED BY <2>1, <2>2, <2>3, <2>4 DEF ZenReady
<1>6. ASSUME NEW n \in ZenohNodes, EndPublishing(n) \/ LeaveSession(n)
      PROVE  ZenReady' /\ reaches' \in [ZenohNodes -> BOOLEAN]
  <2>1. /\ UNCHANGED reaches /\ zenStage[n] \in {"operate", "silent"}
        /\ \/ zenStage' = [zenStage EXCEPT ![n] = "silent"]
           \/ zenStage' = [zenStage EXCEPT ![n] = "closing"]
    BY <1>6 DEF EndPublishing, LeaveSession, Before, EnterStage
  <2>2. \A k \in ZenohNodes : /\ Started(k)' => Started(k)
                              /\ zenStage[k] \notin {"down", "connected"} =>
                                     zenStage'[k] \notin {"down", "connected"}
                              /\ zenStage[k] = "left" => zenStage'[k] = "left"
    BY <1>1, <2>1 DEF Started
  <2> QED BY <2>1, <2>2 DEF ZenReady
<1>7. ASSUME NEW n \in ZenohNodes, ShutDown(n)
      PROVE  ZenReady' /\ reaches' \in [ZenohNodes -> BOOLEAN]
  <2>1. /\ reaches' = [m \in ZenohNodes |-> FALSE] /\ zenStage[n] = "closing"
        /\ zenStage' = [zenStage EXCEPT ![n] = "left"]
    BY <1>7 DEF ShutDown, EnterStage
  <2>2. zenStage'[n] = "left"
    BY <1>1, <2>1
  <2>3. \A k \in ZenohNodes : /\ Started(k)' => Started(k)
                              /\ zenStage[k] \notin {"down", "connected"} =>
                                     zenStage'[k] \notin {"down", "connected"}
    BY <1>1, <2>1 DEF Started
  <2> QED BY <2>1, <2>2, <2>3 DEF ZenReady
<1>8. ASSUME NEW n \in ZenohNodes,
             \/ ZenPublish(n) \/ ZenTryPublish(n) \/ TakeFromBridge(n) \/ DeclareFails(n)
             \/ PutEnds(n) \/ RouteSample(n) \/ ReceiveSample(n)
      PROVE  ZenReady' /\ reaches' \in [ZenohNodes -> BOOLEAN]
  <2>1. UNCHANGED <<zenStage, reaches>>
    BY <1>8 DEF ZenPublish, ZenTryPublish, Trying, TakeFromBridge, DeclareFails, PutEnds,
                RouteSample, ReceiveSample
  <2> QED BY <1>2, <2>1
<1>9. CASE UNCHANGED zenVars
  <2>1. UNCHANGED <<zenStage, reaches>>
    BY <1>9 DEF zenVars
  <2> QED BY <1>2, <2>1
<1> QED BY <1>3, <1>4, <1>5, <1>6, <1>7, <1>8, <1>9 DEF ZenohNext

LEMMA ZenLosesNothing ==
    ASSUME ZenTyped, InOrderOnly, ~zen.late, ~zen.fails, ZenReady, ZenNoneLost,
           NEW w \in ZenohNodes, ZenRow(w), PeerListens(w), NEW n \in ZenohNodes,
           \/ PutEnds(n) /\ (missed'[w] = missed[w] \/ (~reaches[w] /\ w = n /\ tried[w] > 0))
           \/ missed'[w] = missed[w]
           \/ zenStage[OtherOf(w)] = "connected" /\ tried[w] > 0
    PROVE  missed'[w] = {}
<1>1. missed[w] = {}
  BY DEF ZenNoneLost
<1>2. OtherOf(w) \in ZenohNodes /\ \A k \in ZenohNodes : k = w \/ k = OtherOf(w)
  BY TwoNodes DEF ZenohNodes, OtherOf
<1>3. ASSUME PutEnds(n), ~reaches[w], w = n, tried[w] > 0 PROVE FALSE
  <2>1. Started(w)
    BY <1>3 DEF ZenRow
  <2>2. PICK k \in ZenohNodes : zenStage[k] = "left"
    BY <1>3, <2>1 DEF ZenReady
  <2>3. zenStage[w] # "left"
    BY <1>3 DEF PutEnds, Publishing, Running, Attached
  <2>4. zenStage[OtherOf(w)] # "left"
    BY DEF PeerListens
  <2> QED BY <1>2, <2>2, <2>3, <2>4
<1>4. ASSUME zenStage[OtherOf(w)] = "connected", tried[w] > 0 PROVE FALSE
  <2>1. Started(w)
    BY <1>4 DEF ZenRow
  <2> QED BY <1>2, <1>4, <2>1 DEF ZenReady
<1> QED BY <1>1, <1>3, <1>4

LEMMA ZenNeverListensAgain ==
    ASSUME ZenTyped, NEW w \in ZenohNodes, [ZenohNext]_zenVars, PeerListens(w)'
    PROVE  PeerListens(w)
<1>1. zenStage \in [ZenohNodes -> ZenohStages] /\ OtherOf(w) \in ZenohNodes
  BY TwoNodes DEF ZenTyped
<1>2. SUFFICES zenStage' = zenStage \/ \E n \in ZenohNodes, s \in ZenohStages :
          /\ zenStage' = [zenStage EXCEPT ![n] = s]
          /\ zenStage[n] \in {"closing", "left"} => s \in {"closing", "left"}
  BY <1>1 DEF PeerListens
<1>3. CASE UNCHANGED zenVars
  BY <1>3 DEF zenVars
<1>4. ASSUME NEW n \in ZenohNodes,
             \/ OpenSession(n) \/ AttachLogger(n) \/ StartOperate(n) \/ EndPublishing(n)
             \/ LeaveSession(n) \/ ShutDown(n)
      PROVE  \E s \in ZenohStages :
                 /\ zenStage' = [zenStage EXCEPT ![n] = s]
                 /\ zenStage[n] \in {"closing", "left"} => s \in {"closing", "left"}
  BY <1>4 DEF OpenSession, AttachLogger, StartOperate, EndPublishing, LeaveSession, ShutDown,
              Before, EnterStage, ZenohStages
<1>5. ASSUME NEW n \in ZenohNodes,
             \/ LearnInterest(n) \/ ZenPublish(n) \/ ZenTryPublish(n) \/ TakeFromBridge(n)
             \/ DeclareFails(n) \/ PutEnds(n) \/ RouteSample(n) \/ ReceiveSample(n)
      PROVE  zenStage' = zenStage
  BY <1>5 DEF LearnInterest, ZenPublish, ZenTryPublish, Trying, TakeFromBridge, DeclareFails,
              PutEnds, RouteSample, ReceiveSample
<1> QED BY <1>3, <1>4, <1>5 DEF ZenohNext

LEMMA ZenOrderlyStays ==
    ASSUME ZenOrderly, InOrderOnly, [ZenohNext]_zenVars
    PROVE  /\ \A w \in ZenohNodes : ZenRow(w)' /\ ZenComes(w)'
           /\ ZenNoneLost'
<1>1. /\ ZenTyped /\ zen \in ZenohSpawns /\ ZenReady /\ ZenNoneLost
      /\ \A w \in ZenohNodes : ZenRow(w) /\ ZenComes(w)
  BY DEF ZenOrderly
<1>2. zen' = zen
  BY DEF ZenohNext, zenVars, OpenSession, AttachLogger, LearnInterest, StartOperate, ZenPublish,
         ZenTryPublish, Trying, TakeFromBridge, DeclareFails, PutEnds, RouteSample,
         ReceiveSample, EndPublishing, LeaveSession, ShutDown, Before
<1>3. ASSUME NEW w \in ZenohNodes PROVE ZenRow(w)'
  BY <1>1, <1>2, <1>3, ZenRowStays
<1>4. ASSUME NEW w \in ZenohNodes
      PROVE  /\ ZenComes(w)'
             /\ PeerListens(w) /\ ~zen.late /\ ~zen.fails => missed'[w] = {}
  <2>1. ZenRow(w) /\ ZenComes(w)
    BY <1>1, <1>4
  <2>3. ASSUME NEW n \in ZenohNodes, PeerListens(w), ~zen.late, ~zen.fails,
               \/ PutEnds(n) /\ (missed'[w] = missed[w] \/ (~reaches[w] /\ w = n /\ tried[w] > 0))
               \/ missed'[w] = missed[w]
               \/ zenStage[OtherOf(w)] = "connected" /\ tried[w] > 0
        PROVE  missed'[w] = {}
    BY <1>1, <1>4, <2>1, <2>3, ZenLosesNothing
  <2>4. ASSUME NEW n \in ZenohNodes, ZenPublish(n) PROVE ZenComes(w)' /\ missed'[w] = missed[w]
    <3>1. ZenComes(w)'
      BY <1>1, <1>4, <2>1, <2>4, PublishComes
    <3> QED BY <2>4, <3>1 DEF ZenPublish, Trying
  <2>5. ASSUME NEW n \in ZenohNodes, TakeFromBridge(n) PROVE ZenComes(w)' /\ missed'[w] = missed[w]
    <3>1. ZenComes(w)'
      BY <1>1, <1>4, <2>1, <2>5, TakeComes
    <3> QED BY <2>5, <3>1 DEF TakeFromBridge
  <2>6. ASSUME NEW n \in ZenohNodes, DeclareFails(n) PROVE ZenComes(w)' /\ zen.fails
    <3>1. ZenComes(w)'
      BY <1>1, <1>4, <2>1, <2>6, TakeComes
    <3> QED BY <2>6, <3>1 DEF DeclareFails
  <2>7. ASSUME NEW n \in ZenohNodes, PutEnds(n)
        PROVE  /\ ZenComes(w)'
               /\ PeerListens(w) => missed'[w] = missed[w] \/ (~reaches[w] /\ w = n /\ tried[w] > 0)
    <3>1. spawned[n] = {}
      BY <1>1, <2>7 DEF ZenRow
    <3> QED BY <1>1, <1>4, <2>1, <2>7, <3>1, PutComes
  <2>8. ASSUME NEW n \in ZenohNodes, RouteSample(n) PROVE ZenComes(w)' /\ missed'[w] = missed[w]
    <3>1. ZenComes(w)'
      BY <1>1, <1>4, <2>1, <2>8, RouteComes
    <3> QED BY <2>8, <3>1 DEF RouteSample
  <2>9. ASSUME NEW n \in ZenohNodes, ReceiveSample(n)
        PROVE  /\ ZenComes(w)'
               /\ PeerListens(w) => \/ missed'[w] = missed[w]
                                    \/ zenStage[OtherOf(w)] = "connected" /\ tried[w] > 0
    BY <1>1, <1>4, <2>1, <2>9, ReceiveComes
  <2>10. ASSUME NEW n \in ZenohNodes, LeaveSession(n) \/ ShutDown(n)
         PROVE  ZenComes(w)' /\ missed'[w] = missed[w]
    BY <1>1, <1>4, <2>1, <2>10, ShutComes
  <2>11. ASSUME NEW n \in ZenohNodes,
                \/ OpenSession(n) \/ AttachLogger(n) \/ LearnInterest(n) \/ StartOperate(n)
                \/ EndPublishing(n)
         PROVE  ZenComes(w)' /\ missed'[w] = missed[w]
    BY <1>1, <1>4, <2>1, <2>11, QuietComes
  <2>12. ASSUME UNCHANGED zenVars PROVE ZenComes(w)' /\ missed'[w] = missed[w]
    <3>1. 1 \in ZenohNodes
      BY DEF ZenohNodes
    <3> QED BY <1>1, <1>4, <2>1, <2>12, <3>1, QuietComes
  <2>13. ASSUME NEW n \in ZenohNodes PROVE ~ZenTryPublish(n)
    BY DEF ZenTryPublish
  <2>14. 1 \in ZenohNodes
    BY DEF ZenohNodes
  <2>15. CASE UNCHANGED zenVars
    BY <2>3, <2>12, <2>14, <2>15
  <2>16. CASE \E n \in ZenohNodes : ZenPublish(n) \/ TakeFromBridge(n) \/ RouteSample(n)
                                    \/ LeaveSession(n) \/ ShutDown(n)
    BY <2>3, <2>4, <2>5, <2>8, <2>10, <2>16
  <2>17. CASE \E n \in ZenohNodes : \/ OpenSession(n) \/ AttachLogger(n) \/ LearnInterest(n)
                                    \/ StartOperate(n) \/ EndPublishing(n)
    BY <2>3, <2>11, <2>17
  <2>18. CASE \E n \in ZenohNodes : DeclareFails(n)
    BY <2>6, <2>18
  <2>19. CASE \E n \in ZenohNodes : PutEnds(n)
    BY <2>3, <2>7, <2>19
  <2>20. CASE \E n \in ZenohNodes : ReceiveSample(n)
    BY <2>3, <2>9, <2>20
  <2> QED BY <2>13, <2>15, <2>16, <2>17, <2>18, <2>19, <2>20 DEF ZenohNext
<1>5. ZenNoneLost'
  <2>1. \A w \in ZenohNodes : PeerListens(w)' => PeerListens(w)
    BY <1>1, ZenNeverListensAgain
  <2> QED BY <1>2, <1>4, <2>1 DEF ZenNoneLost
<1> QED BY <1>3, <1>4, <1>5

LEMMA TrailLeft ==
    ASSUME NEW T
    PROVE  \A a, b, c, d, e, g :
               a \in Seq(T) /\ b \in Seq(T) /\ c \in Seq(T) /\ d \in Seq(T) /\ e \in Seq(T)
                   /\ g \in Seq(T)
           => Trail(a, b, c, d, e, g)
                 = Strung(Strung(Strung(Strung(a, b), c), d), Strung(e, g))
<1> SUFFICES ASSUME NEW a, NEW b, NEW c, NEW d, NEW e, NEW g,
                    a \in Seq(T) /\ b \in Seq(T) /\ c \in Seq(T) /\ d \in Seq(T) /\ e \in Seq(T)
                        /\ g \in Seq(T)
             PROVE  Trail(a, b, c, d, e, g)
                       = Strung(Strung(Strung(Strung(a, b), c), d), Strung(e, g))
  OBVIOUS
<1> DEFINE s1 == Strung(e, g)
           s2 == Strung(d, s1)
           s3 == Strung(c, s2)
           ab == Strung(a, b)
           abc == Strung(ab, c)
<1>1. s1 \in Seq(T)
  BY StrungTyped
<1> HIDE DEF s1
<1>2. s2 \in Seq(T)
  BY <1>1, StrungTyped
<1>3. ab \in Seq(T)
  BY StrungTyped
<1> HIDE DEF ab
<1>4. abc \in Seq(T)
  BY <1>3, StrungTyped
<1>5. Strung(abc, s2) = Strung(Strung(abc, d), s1)
  <2>1. abc \in Seq(T) /\ d \in Seq(T) /\ s1 \in Seq(T)
    BY <1>1, <1>4
  <2> HIDE DEF abc
  <2>2. Strung(Strung(abc, d), s1) = Strung(abc, Strung(d, s1))
    BY <2>1, StrungTwice
  <2> QED BY <2>2 DEF s2
<1> HIDE DEF s2
<1>6. Strung(ab, s3) = Strung(abc, s2)
  <2>1. ab \in Seq(T) /\ c \in Seq(T) /\ s2 \in Seq(T)
    BY <1>2, <1>3
  <2>2. Strung(Strung(ab, c), s2) = Strung(ab, Strung(c, s2))
    BY <2>1, StrungTwice
  <2> QED BY <2>2 DEF s3, abc
<1>7. s3 \in Seq(T)
  BY <1>2, StrungTyped
<1> HIDE DEF s3
<1>8. Strung(a, Strung(b, s3)) = Strung(ab, s3)
  <2>1. a \in Seq(T) /\ b \in Seq(T) /\ s3 \in Seq(T)
    BY <1>7
  <2>2. Strung(Strung(a, b), s3) = Strung(a, Strung(b, s3))
    BY <2>1, StrungTwice
  <2> QED BY <2>2 DEF ab
<1>9. Trail(a, b, c, d, e, g) = Strung(Strung(abc, d), s1)
  BY <1>5, <1>6, <1>8 DEF Trail, s1, s2, s3
<1> QED BY <1>9 DEF s1, ab, abc

LEMMA FrontIsPrefix ==
    ASSUME NEW T, NEW s, NEW g, NEW t, s \in Seq(T) /\ g \in Seq(T), t = Strung(s, g)
    PROVE  IsPrefix(s, t)
<1>1. t \in Seq(T) /\ Len(t) = Len(s) + Len(g) /\ Len(s) \in Nat /\ Len(g) \in Nat
  BY StrungTyped, StrungAt
<1>2. \A i \in 1..Len(s) : t[i] = s[i]
  BY StrungAt
<1>3. Len(s) <= Len(t)
  BY <1>1
<1>4. SubSeq(t, 1, Len(s)) = SubSeq(s, 1, Len(s))
  <2> DEFINE n == Len(s)
  <2>1. SubSeq(t, 1, n) = [i \in 1..n |-> t[i]]
    BY <1>1, <1>3
  <2>2. SubSeq(s, 1, n) = [i \in 1..n |-> s[i]]
    BY <1>1
  <2> QED BY <1>2, <2>1, <2>2
<1> QED BY <1>3, <1>4 DEF IsPrefix

LEMMA ZenTrailIs ==
    ASSUME ZenTyped, NEW w \in ZenohNodes, NEW g \in Seq(Nat)
    PROVE  /\ g = <<>> => ZenTrail(w, g) = AllFrom(w)
           /\ PutOf(w) = <<>> /\ bridge[w] = <<>> => ZenTrail(w, g) = Strung(CameFrom(w), g)
           /\ CameFrom(w) \in Seq(Nat)
<1> DEFINE a == recorded[OtherOf(w)]
           b == SeqsFrom(fifo[OtherOf(w)], w)
           c == link[w]
           d == PutOf(w)
           e == bridge[w]
           came == Strung(Strung(a, b), c)
<1>1. /\ a \in Seq(Nat) /\ b \in Seq(Nat) /\ c \in Seq(Nat) /\ d \in Seq(Nat) /\ e \in Seq(Nat)
      /\ g \in Seq(Nat)
  BY ZenParts
<1>2. CameFrom(w) = came
  BY DEF CameFrom, Strung
<1>3. AllFrom(w) = Strung(Strung(came, d), e)
  BY <1>2 DEF AllFrom, Strung, PutOf, NoMessages, Alone
<1>4. ZenTrail(w, g) = Trail(a, b, c, d, e, g)
  BY DEF ZenTrail
<1> HIDE DEF a, b, c, d, e
<1>5. Trail(a, b, c, d, e, g) = Strung(Strung(came, d), Strung(e, g))
  <2> DEFINE T == Nat
  <2>1. a \in Seq(T) /\ b \in Seq(T) /\ c \in Seq(T) /\ d \in Seq(T) /\ e \in Seq(T) /\ g \in Seq(T)
    BY <1>1
  <2> HIDE DEF T
  <2> QED BY <2>1, TrailLeft
<1>6. came \in Seq(Nat)
  BY <1>1, StrungTyped
<1> HIDE DEF came
<1>7. ASSUME g = <<>> PROVE Strung(e, g) = e
  BY <1>1, <1>7, NothingStrung
<1>8. ASSUME d = <<>>, e = <<>> PROVE Strung(Strung(came, d), Strung(e, g)) = Strung(came, g)
  <2>1. Strung(came, d) = came
    BY <1>6, <1>8, NothingStrung
  <2>2. Strung(e, g) = g
    BY <1>1, <1>8, NothingStrung
  <2> QED BY <2>1, <2>2
<1> QED BY <1>2, <1>3, <1>4, <1>5, <1>6, <1>7, <1>8 DEF d, e

LEMMA ZenohIsWhole == ZenOrderly => ZenohStreamsHold
<1> SUFFICES ASSUME ZenOrderly, InOrderOnly, NEW w \in ZenohNodes,
                    zenStage[OtherOf(w)] \notin {"closing", "left"}
             PROVE  /\ IF zenStage[w] = "left" THEN IsPrefix(CameFrom(w), ToCome(w))
                       ELSE AllFrom(w) = ToCome(w)
                    /\ ~zen.late /\ ~zen.fails => missed[w] = {}
  BY DEF ZenohStreamsHold
<1>1. ZenTyped /\ ZenRow(w) /\ ZenComes(w) /\ ZenNoneLost /\ PeerListens(w)
  BY DEF ZenOrderly, PeerListens
<1>2. ToCome(w) = Published(tried[w], missed[w])
  BY DEF ToCome, TriedOf, Published, FirstOnes
<1>3. PICK g \in Seq(Nat) : /\ ZenTrail(w, g) = ToCome(w)
                            /\ zenStage[w] # "left" => g = <<>>
  BY <1>1, <1>2 DEF ZenComes
<1>4. CASE zenStage[w] = "left"
  <2>1. PutOf(w) = <<>> /\ bridge[w] = <<>>
    BY <1>1, <1>4 DEF ZenRow, PutOf, NoMessages
  <2>2. ToCome(w) = Strung(CameFrom(w), g) /\ CameFrom(w) \in Seq(Nat) /\ g \in Seq(Nat)
    BY <1>1, <1>3, <2>1, ZenTrailIs
  <2>3. IsPrefix(CameFrom(w), ToCome(w))
    BY <2>2, FrontIsPrefix
  <2> QED BY <1>1, <1>4, <2>3 DEF ZenNoneLost
<1>5. CASE zenStage[w] # "left"
  <2>1. AllFrom(w) = ToCome(w)
    BY <1>1, <1>3, <1>5, ZenTrailIs
  <2> QED BY <1>1, <1>5, <2>1 DEF ZenNoneLost
<1> QED BY <1>4, <1>5

LEMMA ZenOrderlyAtFirst == ZenohInit => ZenOrderly
<1> SUFFICES ASSUME ZenohInit PROVE ZenOrderly
  OBVIOUS
<1>1. ZenTyped
  BY ZenInitHolds DEF ZenInv
<1>2. ASSUME NEW w \in ZenohNodes
      PROVE  /\ spawned[w] = {} /\ tried[w] = 0 /\ missed[w] = {} /\ zenStage[w] = "down"
             /\ bridge[w] = <<>> /\ link[w] = <<>> /\ putting[w] = 0
             /\ fifo[w] = <<>> /\ recorded[w] = <<>>
  BY <1>2 DEF ZenohInit
<1>3. ASSUME NEW w \in ZenohNodes PROVE ZenRow(w)
  <2>1. zen.puts \in [ZenohNodes -> 0..MaxPuts] /\ MaxPuts \in Nat
    BY ZenohSpawnsAssumption, PutsAreNumbers DEF ZenohInit
  <2>2. 0 <= zen.puts[w]
    BY <1>3, <2>1
  <2> QED BY <1>2, <1>3, <2>2 DEF ZenRow
<1>4. ASSUME NEW w \in ZenohNodes PROVE ZenComes(w)
  <2>1. OtherOf(w) \in ZenohNodes
    BY <1>4, TwoNodes
  <2>2. SeqsFrom(fifo[OtherOf(w)], w) = <<>>
    <3>1. fifo[OtherOf(w)] = <<>>
      BY <1>2, <2>1
    <3>2. {i \in DOMAIN <<>> : <<>>[i].from = w} = {}
      OBVIOUS
    <3>3. AtPlaces(<<>>, {}) = <<>>
      BY FS_EmptySet DEF AtPlaces
    <3>4. SeqsFrom(<<>>, w) = <<>>
      BY <3>2, <3>3 DEF SeqsFrom
    <3> QED BY <3>1, <3>4
  <2>3. PutOf(w) = <<>>
    BY <1>2, <1>4 DEF PutOf, NoMessages
  <2>4. ZenTrail(w, <<>>) = Strung(<<>>, Strung(<<>>, Strung(<<>>, Strung(<<>>, Strung(<<>>, <<>>)))))
    BY <1>2, <1>4, <2>1, <2>2, <2>3 DEF ZenTrail, Trail
  <2>5. Strung(<<>>, <<>>) = <<>> /\ <<>> \in Seq(Nat)
    <3> DEFINE T == Nat
    <3>1. <<>> \in Seq(T)
      OBVIOUS
    <3> HIDE DEF T
    <3>2. Strung(<<>>, <<>>) = <<>>
      BY <3>1, NothingStrung
    <3> QED BY <3>2
  <2>6. Published(0, {}) = <<>>
    <3>1. FirstOnes(0) = <<>> /\ <<>> \in Seq(Nat)
      BY DEF FirstOnes
    <3>2. \A i \in 1..Len(FirstOnes(0)) : FirstOnes(0)[i] \notin Puts
      BY <3>1
    <3> QED BY <3>1, <3>2, OnlyNone DEF Published
  <2>7. ZenTrail(w, <<>>) = Published(tried[w], missed[w])
    BY <1>2, <1>4, <2>4, <2>5, <2>6
  <2> QED BY <1>2, <1>4, <2>5, <2>7 DEF ZenComes
<1>5. ZenReady /\ ZenNoneLost
  BY <1>2 DEF ZenReady, ZenNoneLost, Started
<1>6. zen \in ZenohSpawns /\ reaches \in [ZenohNodes -> BOOLEAN]
  BY DEF ZenohInit
<1> QED BY <1>1, <1>3, <1>4, <1>5, <1>6 DEF ZenOrderly

LEMMA ZenOrderlyStep == ZenOrderly /\ [ZenohNext]_zenVars => ZenOrderly'
<1> SUFFICES ASSUME ZenOrderly, [ZenohNext]_zenVars PROVE ZenOrderly'
  OBVIOUS
<1>1. ZenTyped /\ zen \in ZenohSpawns /\ reaches \in [ZenohNodes -> BOOLEAN]
  BY DEF ZenOrderly
<1>2. zen' = zen
  BY DEF ZenohNext, zenVars, OpenSession, AttachLogger, LearnInterest, StartOperate, ZenPublish,
         ZenTryPublish, Trying, TakeFromBridge, DeclareFails, PutEnds, RouteSample,
         ReceiveSample, EndPublishing, LeaveSession, ShutDown, Before
<1>3. ZenTyped'
  BY <1>1, ZenStepTyped
<1>4. reaches' \in [ZenohNodes -> BOOLEAN]
  BY <1>1 DEF ZenohNext, zenVars, OpenSession, AttachLogger, LearnInterest, StartOperate, ZenPublish,
         ZenTryPublish, Trying, TakeFromBridge, DeclareFails, PutEnds, RouteSample,
         ReceiveSample, EndPublishing, LeaveSession, ShutDown, Before
<1>5. ASSUME InOrderOnly
      PROVE  /\ (\A w \in ZenohNodes : ZenRow(w) /\ ZenComes(w))'
             /\ ZenReady' /\ ZenNoneLost'
  <2>1. ZenReady
    BY <1>5 DEF ZenOrderly
  <2>2. ZenReady'
    BY <1>1, <1>2, <2>1, ZenReadyStays
  <2>3. /\ \A w \in ZenohNodes : ZenRow(w)' /\ ZenComes(w)'
        /\ ZenNoneLost'
    BY <1>5, ZenOrderlyStays
  <2> QED BY <2>2, <2>3
<1>6. InOrderOnly' <=> InOrderOnly
  BY <1>2 DEF InOrderOnly
<1> QED BY <1>1, <1>2, <1>3, <1>4, <1>5, <1>6 DEF ZenOrderly

-----------------------------------------------------------------------------
(* All of them, in one state space.                                        *)

StreamInv == QuicInv /\ ZenOrderly /\ CastInv

LEMMA StreamInvHolds == VariantsSpec => []StreamInv
<1>1. VariantsInit => StreamInv
  <2>1. VariantsInit => QuicInit /\ ZenohInit /\ CastInit
    BY DEF VariantsInit, QuicRests, ZenohRests, CastRests
  <2> QED BY <2>1, QuicInitHolds, ZenOrderlyAtFirst, CastInitHolds DEF StreamInv
<1>2. StreamInv /\ [VariantsNext]_variantsVars => StreamInv'
  BY PartSteps, QuicInvStep, ZenOrderlyStep, CastStepInv DEF StreamInv
<1> QED BY <1>1, <1>2, PTL DEF VariantsSpec

(* quic at QoS 3 and 4: a stream loses, repeats and reorders nothing, and all of
   it is there when its writer has left, whichever queues and windows are full
   and in whichever order nodes find one another. *)
THEOREM QuicStreamsAreReliable == VariantsSpec => []ReliableStreamsHold
<1>1. StreamInv => ReliableStreamsHold
  BY QuicIsReliable DEF StreamInv
<1> QED BY <1>1, StreamInvHolds, PTL

(* zenoh at QoS 3 and 4: the log, the FIFO, the link, the put that is awaited and
   the bridge make up what was published and not missed, in order, and nothing
   is missed where no node is late and no publisher fails. *)
THEOREM ZenohStreamsAreWhole == VariantsSpec => []ZenohStreamsHold
<1>1. StreamInv => ZenohStreamsHold
  BY ZenohIsWhole DEF StreamInv
<1> QED BY <1>1, StreamInvHolds, PTL

(* For any number of nodes and messages and every capacity of queues, buffers,
   windows and channels: at the QoS that promises it hybrid, quic, webrtc and
   zenoh lose, repeat and reorder no message, websocket none but those that the
   drain of a blocked write reads and throws away (unlogged); and at QoS 2 webrtc
   and hybrid hand on the newest message of a path and never go back. *)
THEOREM AllStreamsHold == VariantsSpec => []StreamsHold
<1>1. StreamInv => CastNeverGoesBack /\ CastNothingVanishes
  BY DEF StreamInv, CastInv
<1>2. VariantsSpec => [](CastNeverGoesBack /\ CastNothingVanishes)
  BY <1>1, StreamInvHolds, PTL
<1> QED BY <1>2, WsSkipsNothing, HybridStreamsAreIntact, QuicStreamsAreReliable,
       RtcStreamsAreWhole, ZenohStreamsAreWhole, RtcNewestIsLast, PTL DEF StreamsHold

=============================================================================
