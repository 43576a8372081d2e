--------------------------- MODULE VariantProofs ---------------------------
(***************************************************************************)
(* Proofs about the variants, for any number of nodes, messages, paths and *)
(* slots in the buffers, in both modes.                                    *)
(*                                                                         *)
(* WebSocket: NoCircularWait.  A node serves its peers from the latest     *)
(* connection to the earliest, so the ones it has served have later        *)
(* connections than the one it waits for.  In a set of nodes that wait for *)
(* one another take the one that waits for the earliest connection: the    *)
(* node it waits for is, itself, waiting for one that is no earlier, so it *)
(* cannot have served the first one yet, and still reads it.               *)
(* NothingSkipped: as long as two nodes take part each is in some list of  *)
(* the other one, and by the list the reader is in the writer's current    *)
(* message has got to it or has still to; every step keeps the log and the *)
(* wire, with what was read and forgotten, all messages up to that one.    *)
(*                                                                         *)
(* HybridUdp: CastNeverGoesBack and CastNothingVanishes, from the fact     *)
(* that latest_seq is, per writer and path, the newest of what the driver  *)
(* has received; and CastSkipsAreHonest, from the fact that all datagrams  *)
(* that are under way were accepted.                                       *)
(*                                                                         *)
(* VariantsMC: HonestBackPressure, from one invariant per module.  Zenoh:  *)
(* at QoS 1 and 2 a message is in one place at a time; each action takes   *)
(* it from one place to another one, and only the end of a session loses   *)
(* it.  WebRtc and Quic: the counter and the room as they stand.           *)
(* ZenohRest: a sample has a budget of two PUTs; where no PUT is slow the  *)
(* second one is left only when zenohd is gone for good.                   *)
(*                                                                         *)
(* WebRtc: RtcStreamsHold and RtcFreshest.  At QoS 3 and 4 the sequences a *)
(* message of a node goes through, joined from the last one to the first,  *)
(* are 1..written; a step takes the head of one and appends it to the one  *)
(* before it.  At QoS 2 the callback lets only newer ones through, so the  *)
(* newest of a path is the last one of it.                                 *)
(***************************************************************************)
EXTENDS VariantsMC, SelectionProofs

-----------------------------------------------------------------------------
(* WebSocket.                                                              *)

PlaceTypes ==
    /\ spawn.names \subseteq WsNames
    /\ made \in Nat
    /\ place \in [WsNames -> [WsNames -> Nat]]
    /\ links \in [WsNames -> SUBSET WsNames]
    /\ kept \in [WsNames -> SUBSET WsNames]
    /\ sending \in [WsNames -> WsNames \union {NoPeer}]
    /\ stage \in [WsNames -> {"connecting", "running", "stopping", "left"}]
    /\ dialing \in [WsNames -> SUBSET WsNames]
    /\ awaiting \in [WsNames -> SUBSET WsNames]

\* Connections are numbered in the order in which they were made.
PlacesInv ==
    /\ \A n, p \in WsNames : place[n][p] <= made /\ place[n][p] = place[p][n]
    /\ \A n, p, q \in WsNames : place[n][p] # 0 /\ place[n][p] = place[n][q] => p = q

\* Whoever writes has all its connections.
StageInv ==
    \A n \in WsNames :
        /\ stage[n] # "connecting" => dialing[n] = {} /\ awaiting[n] = {}
        /\ sending[n] # NoPeer => stage[n] # "connecting"

\* What a node has served is later than what it serves, and that is later
\* than what it has still to serve.
ServiceInv ==
    \A n \in WsNames :
        /\ \A p \in links[n] \union kept[n] : place[n][p] # 0
        /\ sending[n] = NoPeer => kept[n] = {}
        /\ sending[n] # NoPeer =>
            /\ place[n][sending[n]] # 0
            /\ \A p \in kept[n] : place[n][sending[n]] < place[n][p]
            /\ \A p \in links[n] : place[n][p] < place[n][sending[n]]

WaitInv == PlaceTypes /\ PlacesInv /\ StageInv /\ ServiceInv

-----------------------------------------------------------------------------

LEMMA NoPeerIsNoName == NoPeer \notin WsNames
BY WsNamesAssumption

LEMMA InitOrdered == WsInit => WaitInv
<1> SUFFICES ASSUME WsInit PROVE WaitInv
  OBVIOUS
<1>1. spawn.names \subseteq WsNames
  BY WsSpawnsAssumption DEF WsInit
<1>2. PlaceTypes
  BY <1>1 DEF WsInit, PlaceTypes, ServersOf, ClientsOf
<1>3. PlacesInv /\ StageInv /\ ServiceInv
  BY DEF WsInit, PlacesInv, StageInv, ServiceInv
<1>4. QED
  BY <1>2, <1>3 DEF WaitInv

\* The next peer is the one of the latest connection left.
LEMMA AdvanceKeepsOrder ==
    ASSUME WaitInv, NEW n \in WsNames, stage[n] # "connecting",
           NEW left \in SUBSET WsNames, NEW done \in SUBSET WsNames,
           \A p \in left \union done : place[n][p] # 0,
           \A p \in left, q \in done : place[n][p] < place[n][q],
           Advance(n, left, done),
           UNCHANGED <<connectVars, stage>>
    PROVE  WaitInv'
<1> USE NoPeerIsNoName
<1>1. PlacesInv'
  BY DEF WaitInv, PlacesInv, connectVars
<1>2. CASE left = {}
  <2>1. /\ links' = [links EXCEPT ![n] = done]
        /\ kept' = [kept EXCEPT ![n] = {}]
        /\ sending' = [sending EXCEPT ![n] = NoPeer]
    BY <1>2 DEF Advance
  <2>2. PlaceTypes'
    BY <2>1 DEF WaitInv, PlaceTypes, connectVars
  <2>3. StageInv'
    BY <2>1 DEF WaitInv, PlaceTypes, StageInv, connectVars
  <2>4. ServiceInv'
    BY <2>1 DEF WaitInv, PlaceTypes, ServiceInv, connectVars
  <2>5. QED
    BY <1>1, <2>2, <2>3, <2>4 DEF WaitInv
<1>3. CASE left # {}
  <2>1. PICK s \in left :
            /\ LastOf(n, left, s)
            /\ links' = [links EXCEPT ![n] = left \ {s}]
            /\ kept' = [kept EXCEPT ![n] = done]
            /\ sending' = [sending EXCEPT ![n] = s]
    BY <1>3 DEF Advance
  <2>2. \A p \in left \ {s} : place[n][p] < place[n][s]
    <3>1. \A p \in left : ~(place[n][s] < place[n][p])
      BY <2>1 DEF LastOf, ComesBefore
    <3>2. \A p \in left : place[n][p] \in Nat
      BY DEF WaitInv, PlaceTypes
    <3>3. \A p \in left \ {s} : place[n][p] # place[n][s]
      BY DEF WaitInv, PlacesInv
    <3>4. QED
      BY <3>1, <3>2, <3>3
  <2>3. PlaceTypes'
    BY <2>1 DEF WaitInv, PlaceTypes, connectVars
  <2>4. StageInv'
    BY <2>1 DEF WaitInv, PlaceTypes, StageInv, connectVars
  <2>5. ServiceInv'
    BY <2>1, <2>2 DEF WaitInv, PlaceTypes, ServiceInv, connectVars
  <2>6. QED
    BY <1>1, <2>3, <2>4, <2>5 DEF WaitInv
<1>4. QED
  BY <1>2, <1>3

\* A new connection is later than all others, and neither end of it writes.
LEMMA HandshakeKeepsOrder ==
    ASSUME WaitInv, NEW n \in spawn.names, NEW p \in spawn.names, Handshake(n, p)
    PROVE  WaitInv'
<1> USE NoPeerIsNoName
<1>1. n \in WsNames /\ p \in WsNames /\ p \in dialing[n] /\ n \in awaiting[p]
  BY DEF Handshake, WaitInv, PlaceTypes
<1>2. stage[n] = "connecting" /\ stage[p] = "connecting"
  BY <1>1 DEF WaitInv, StageInv
<1>3. sending[n] = NoPeer /\ sending[p] = NoPeer
  BY <1>1, <1>2 DEF Handshake, WaitInv, PlaceTypes, StageInv, ServiceInv
<1>4. PlaceTypes'
  <2>1. place' \in [WsNames -> [WsNames -> Nat]] /\ made' \in Nat
    <3>1. [place EXCEPT ![n][p] = made + 1] \in [WsNames -> [WsNames -> Nat]]
      BY <1>1 DEF WaitInv, PlaceTypes
    <3>2. made + 1 \in Nat
      BY DEF WaitInv, PlaceTypes
    <3> DEFINE half == [place EXCEPT ![n][p] = made + 1]
    <3>3. place' = [half EXCEPT ![p][n] = made + 1] /\ made' = made + 1
      BY DEF Handshake
    <3> HIDE DEF half
    <3>4. half \in [WsNames -> [WsNames -> Nat]]
      BY <3>1 DEF half
    <3>5. QED
      BY <1>1, <3>2, <3>3, <3>4
  <2>2. /\ links' \in [WsNames -> SUBSET WsNames]
        /\ dialing' \in [WsNames -> SUBSET WsNames]
        /\ awaiting' \in [WsNames -> SUBSET WsNames]
    BY <1>1 DEF Handshake, WaitInv, PlaceTypes
  <2>3. QED
    BY <2>1, <2>2 DEF Handshake, WaitInv, PlaceTypes
<1>5. \A x, y \in WsNames :
         place'[x][y] = IF (x = n /\ y = p) \/ (x = p /\ y = n) THEN made + 1 ELSE place[x][y]
  <2> DEFINE half == [place EXCEPT ![n][p] = made + 1]
  <2>1. place' = [half EXCEPT ![p][n] = made + 1]
    BY DEF Handshake
  <2>2. \A x, y \in WsNames :
            half[x][y] = IF x = n /\ y = p THEN made + 1 ELSE place[x][y]
    BY <1>1 DEF WaitInv, PlaceTypes
  <2>3. half \in [WsNames -> [WsNames -> Nat]]
    BY <1>1 DEF WaitInv, PlaceTypes
  <2> HIDE DEF half
  <2>4. \A x, y \in WsNames :
            place'[x][y] = IF x = p /\ y = n THEN made + 1 ELSE half[x][y]
    <3>1. \A x \in WsNames :
              place'[x] = IF x = p THEN [half[p] EXCEPT ![n] = made + 1] ELSE half[x]
      BY <1>1, <2>1, <2>3
    <3>2. half[p] \in [WsNames -> Nat]
      BY <1>1, <2>3
    <3>3. \A y \in WsNames :
              place'[p][y] = IF y = n THEN made + 1 ELSE half[p][y]
      BY <1>1, <3>1, <3>2
    <3>4. QED
      BY <3>1, <3>3
  <2>5. QED
    BY <2>2, <2>4
<1>6. PlacesInv'
  <2>1. made' = made + 1 /\ made \in Nat
    BY DEF Handshake, WaitInv, PlaceTypes
  <2>2. \A x, y \in WsNames :
            place[x][y] \in Nat /\ place[x][y] <= made /\ place[x][y] = place[y][x]
    BY DEF WaitInv, PlaceTypes, PlacesInv
  <2>3. \A x, y \in WsNames : place'[x][y] <= made' /\ place'[x][y] = place'[y][x]
    BY <1>1, <1>5, <2>1, <2>2
  <2>4. ASSUME NEW x \in WsNames, NEW y \in WsNames, NEW z \in WsNames,
               place'[x][y] # 0, place'[x][y] = place'[x][z]
        PROVE  y = z
    <3>1. \A w \in WsNames : place[x][w] # made + 1
      BY <2>1, <2>2
    <3>2. CASE place'[x][y] = made + 1
      <4>1. (x = n /\ y = p) \/ (x = p /\ y = n)
        BY <1>5, <3>1, <3>2
      <4>2. (x = n /\ z = p) \/ (x = p /\ z = n)
        BY <1>5, <2>4, <3>1, <3>2
      <4>3. QED
        BY <4>1, <4>2
    <3>3. CASE place'[x][y] # made + 1
      BY <1>1, <1>5, <2>4, <3>3 DEF WaitInv, PlacesInv
    <3>4. QED
      BY <3>2, <3>3
  <2>5. QED
    BY <2>3, <2>4 DEF PlacesInv
<1>7. StageInv'
  BY <1>1, <1>2 DEF Handshake, WaitInv, PlaceTypes, StageInv
<1>8. ServiceInv'
  <2>1. \A x \in WsNames : \A y \in links'[x] :
            y \in links[x] \/ (x = n /\ y = p) \/ (x = p /\ y = n)
    <3>1. links' = [links EXCEPT ![n] = @ \union {p}, ![p] = @ \union {n}]
      BY DEF Handshake
    <3>2. links \in [WsNames -> SUBSET WsNames]
      BY DEF WaitInv, PlaceTypes
    <3>3. \A x \in WsNames :
              links'[x] \subseteq links[x] \union (IF x = n THEN {p} ELSE {})
                                        \union (IF x = p THEN {n} ELSE {})
      <4> DEFINE more == [links EXCEPT ![n] = @ \union {p}]
      <4>1. links' = [more EXCEPT ![p] = @ \union {n}]
        BY <3>1
      <4>2. more \in [WsNames -> SUBSET WsNames]
        BY <1>1, <3>2
      <4>3. \A x \in WsNames : more[x] = links[x] \union (IF x = n THEN {p} ELSE {})
        BY <1>1, <3>2
      <4> HIDE DEF more
      <4>4. \A x \in WsNames : links'[x] = more[x] \union (IF x = p THEN {n} ELSE {})
        BY <1>1, <4>1, <4>2
      <4>5. QED
        BY <4>3, <4>4
    <3>4. QED
      BY <3>3
  <2>2. made + 1 # 0
    BY DEF WaitInv, PlaceTypes
  <2>3. \A x \in WsNames : links'[x] \in SUBSET WsNames /\ kept[x] \in SUBSET WsNames
    BY <1>4 DEF PlaceTypes, WaitInv
  <2>4. ASSUME NEW x \in WsNames, NEW y \in links'[x] \union kept[x]
        PROVE  place'[x][y] # 0
    BY <1>5, <2>1, <2>2, <2>3, <2>4 DEF WaitInv, ServiceInv
  <2>5. \A x \in WsNames \ {n, p} :
            links'[x] = links[x] /\ \A y \in WsNames : place'[x][y] = place[x][y]
    <3>1. \A x \in WsNames \ {n, p} : links'[x] = links[x]
      BY <1>1 DEF Handshake, WaitInv, PlaceTypes
    <3>2. QED
      BY <1>5, <3>1
  <2>6. ASSUME NEW x \in WsNames, sending[x] # NoPeer
        PROVE  /\ place'[x][sending[x]] # 0
               /\ \A y \in kept[x] : place'[x][sending[x]] < place'[x][y]
               /\ \A y \in links'[x] : place'[x][y] < place'[x][sending[x]]
    <3>1. x \in WsNames \ {n, p} /\ sending[x] \in WsNames
      BY <1>3, <2>6 DEF WaitInv, PlaceTypes
    <3>2. QED
      BY <2>3, <2>5, <2>6, <3>1 DEF WaitInv, ServiceInv
  <2>7. UNCHANGED <<kept, sending>>
    BY DEF Handshake
  <2>8. QED
    BY <2>4, <2>6, <2>7 DEF WaitInv, ServiceInv
<1>9. QED
  BY <1>4, <1>6, <1>7, <1>8 DEF WaitInv

\* Reading and leaving only take connections out of the list.
LEMMA FewerLinksKeepOrder ==
    ASSUME WaitInv, UNCHANGED <<connectVars, kept, sending>>,
           links' \in [WsNames -> SUBSET WsNames],
           \A n \in WsNames : links'[n] \subseteq links[n],
           stage' \in [WsNames -> {"connecting", "running", "stopping", "left"}],
           \A n \in WsNames : stage'[n] = "connecting" <=> stage[n] = "connecting"
    PROVE  WaitInv'
<1>1. PlaceTypes' /\ PlacesInv'
  BY DEF WaitInv, PlaceTypes, PlacesInv, connectVars
<1>2. StageInv'
  BY DEF WaitInv, StageInv, connectVars
<1>3. ServiceInv'
  BY DEF WaitInv, ServiceInv, connectVars
<1>4. QED
  BY <1>1, <1>2, <1>3 DEF WaitInv

LEMMA StepKeepsOrder == WaitInv /\ [WsNext]_wsVars => WaitInv'
<1> USE NoPeerIsNoName
<1> SUFFICES ASSUME WaitInv, [WsNext]_wsVars PROVE WaitInv'
  OBVIOUS
<1>1. CASE UNCHANGED wsVars
  BY <1>1 DEF wsVars, connectVars, WaitInv, PlaceTypes, PlacesInv, StageInv, ServiceInv
<1>2. ASSUME NEW n \in spawn.names, NEW p \in spawn.names, Handshake(n, p)
      PROVE  WaitInv'
  BY <1>2, HandshakeKeepsOrder
<1>3. ASSUME NEW n \in spawn.names, NEW p \in spawn.names, WsReader(n, p)
      PROVE  WaitInv'
  <2>1. UNCHANGED <<connectVars, kept, sending, links, stage>>
    BY <1>3 DEF WsReader, ReadFrame, ReadClosed
  <2>2. QED
    BY <2>1, FewerLinksKeepOrder DEF WaitInv, PlaceTypes
<1>4. ASSUME NEW n \in spawn.names, Start(n)
      PROVE  WaitInv'
  <2>1. n \in WsNames
    BY DEF WaitInv, PlaceTypes
  <2>2. PlaceTypes' /\ PlacesInv'
    BY <1>4, <2>1 DEF Start, WaitInv, PlaceTypes, PlacesInv, connectVars
  <2>3. StageInv' /\ ServiceInv'
    BY <1>4, <2>1 DEF Start, WaitInv, PlaceTypes, StageInv, ServiceInv, connectVars
  <2>4. QED
    BY <2>2, <2>3 DEF WaitInv
<1>5. ASSUME NEW n \in spawn.names, PublishFrame(n)
      PROVE  WaitInv'
  <2>1. n \in WsNames
    BY DEF WaitInv, PlaceTypes
  <2>2. /\ links[n] \in SUBSET WsNames
        /\ \A p \in links[n] \union {} : place[n][p] # 0
        /\ stage[n] # "connecting"
        /\ Advance(n, links[n], {})
        /\ UNCHANGED <<connectVars, stage>>
    BY <1>5, <2>1 DEF PublishFrame, WaitInv, PlaceTypes, ServiceInv
  <2>3. QED
    BY <2>1, <2>2, AdvanceKeepsOrder
<1>6. ASSUME NEW n \in spawn.names, Send(n) \/ SendFails(n)
      PROVE  WaitInv'
  <2>1. n \in WsNames
    BY DEF WaitInv, PlaceTypes
  <2>2. /\ sending[n] \in WsNames /\ stage[n] # "connecting"
        /\ UNCHANGED <<connectVars, stage>>
    BY <1>6, <2>1 DEF Send, SendFails, WaitInv, PlaceTypes, StageInv
  <2>3. PICK done \in {kept[n], kept[n] \union {sending[n]}} : Advance(n, links[n], done)
    BY <1>6 DEF Send, SendFails
  <2>4. /\ links[n] \in SUBSET WsNames /\ done \in SUBSET WsNames
        /\ \A p \in links[n] \union done : place[n][p] # 0
    BY <2>1, <2>2 DEF WaitInv, PlaceTypes, ServiceInv
  <2>5. \A p \in links[n], q \in done : place[n][p] < place[n][q]
    <3>1. \A p \in links[n] : place[n][p] < place[n][sending[n]]
      BY <2>1, <2>2 DEF WaitInv, ServiceInv
    <3>2. \A q \in kept[n] : place[n][sending[n]] < place[n][q]
      BY <2>1, <2>2 DEF WaitInv, ServiceInv
    <3>3. \A q \in WsNames : place[n][q] \in Nat
      BY <2>1 DEF WaitInv, PlaceTypes
    <3>4. links[n] \subseteq WsNames /\ kept[n] \subseteq WsNames
      BY <2>1 DEF WaitInv, PlaceTypes
    <3>5. QED
      BY <2>2, <3>1, <3>2, <3>3, <3>4
  <2>6. QED
    BY <2>1, <2>2, <2>3, <2>4, <2>5, AdvanceKeepsOrder
<1>7. ASSUME NEW n \in spawn.names,
             Poll(n) \/ Retry(n) \/ PollNotices(n) \/ Stop(n) \/ Disconnect(n)
      PROVE  WaitInv'
  <2>1. n \in WsNames
    BY DEF WaitInv, PlaceTypes
  <2>2. UNCHANGED <<connectVars, kept, sending>>
    BY <1>7 DEF Poll, Retry, PollNotices, Stop, Disconnect, connectVars
  <2>3. /\ links' \in [WsNames -> SUBSET WsNames]
        /\ \A p \in WsNames : links'[p] \subseteq links[p]
    <3>1. PICK D : links' = [links EXCEPT ![n] = links[n] \ D]
      <4>1. links = [links EXCEPT ![n] = links[n] \ {}] /\ {} = links[n] \ links[n]
        BY <2>1 DEF WaitInv, PlaceTypes
      <4>2. CASE Poll(n) \/ Retry(n) \/ PollNotices(n)
        BY <4>2 DEF Poll, Retry, PollNotices
      <4>3. CASE Stop(n) \/ Disconnect(n)
        BY <4>1, <4>3 DEF Stop, Disconnect
      <4>4. QED
        BY <1>7, <4>2, <4>3
    <3>2. QED
      BY <2>1, <3>1 DEF WaitInv, PlaceTypes
  <2>4. /\ stage' \in [WsNames -> {"connecting", "running", "stopping", "left"}]
        /\ \A p \in WsNames : stage'[p] = "connecting" <=> stage[p] = "connecting"
    BY <1>7, <2>1 DEF Poll, Retry, PollNotices, Stop, Disconnect, WaitInv, PlaceTypes
  <2>5. QED
    BY <2>2, <2>3, <2>4, FewerLinksKeepOrder
<1>8. QED
  BY <1>1, <1>2, <1>3, <1>4, <1>5, <1>6, <1>7 DEF WsNext, WsDriver

\* Among nodes that wait for one another, the one that waits for the earliest
\* connection is still read.
LEMMA OrderedHasNoCircle == WaitInv => NoCircularWait
<1> SUFFICES ASSUME WaitInv, NEW S \in (SUBSET spawn.names) \ {{}},
                    \A n \in S : sending[n] \in S
             PROVE  \E n \in S : n \notin kept[sending[n]]
  BY DEF NoCircularWait
<1> DEFINE Awaited(n) == place[n][sending[n]]
<1>1. S \subseteq WsNames
  BY DEF WaitInv, PlaceTypes
<1>2. \A n \in S : Awaited(n) \in Nat
  BY <1>1 DEF WaitInv, PlaceTypes
<1>3. PICK n \in S : \A x \in S : Awaited(n) <= Awaited(x)
  <2>1. {Awaited(x) : x \in S} \in SUBSET Nat /\ {Awaited(x) : x \in S} # {}
    <3> HIDE DEF Awaited
    <3>1. QED
      BY <1>2
  <2>2. PICK m \in {Awaited(x) : x \in S} : \A k \in {Awaited(x) : x \in S} : m <= k
    <3> HIDE DEF Awaited
    <3>1. QED
      BY <2>1, LeastPlaceExists
  <2>3. QED
    BY <2>2
<1>4. sending[n] \in S /\ sending[n] \in WsNames /\ sending[n] # NoPeer
  BY <1>1, <1>3, NoPeerIsNoName
<1>5. Awaited(n) = place[sending[n]][n] /\ Awaited(n) <= Awaited(sending[n])
  BY <1>1, <1>3, <1>4 DEF WaitInv, PlacesInv
<1>6. sending[sending[n]] # NoPeer
  BY <1>1, <1>4, NoPeerIsNoName
<1>7. n \in kept[sending[n]] => Awaited(sending[n]) < place[sending[n]][n]
  BY <1>4, <1>6 DEF WaitInv, ServiceInv
<1>8. n \notin kept[sending[n]]
  <2>1. Awaited(n) \in Nat /\ Awaited(sending[n]) \in Nat
    BY <1>2, <1>3, <1>4
  <2> HIDE DEF Awaited
  <2>2. QED
    BY <1>5, <1>7, <2>1
<1>9. QED
  BY <1>3, <1>8

(* In no spawn, with any number of nodes and with any of them leaving, do nodes
   that write to one another form a circle in which nobody is read by the one
   it waits for (broadcast_binary, send_to_peer_with_retry). *)
THEOREM NeverACircle == WsSpec => []NoCircularWait
<1>1. WsSpec => []WaitInv
  BY InitOrdered, StepKeepsOrder, PTL DEF WsSpec
<1>2. QED
  BY <1>1, OrderedHasNoCircle, PTL

-----------------------------------------------------------------------------
(* HybridUdp.                                                              *)

\* What a poll is given, at QoS 2, is what latest_seq keeps account of.
NewestInv ==
    \A r \in CastNames :
        castStage[r] # "left" /\ cast.qos = 2 =>
            /\ \A i \in DOMAIN handed[r] : handed[r][i].seq <= newest[r][KeyOf(handed[r][i])]
            /\ \A k \in CastKeys :
                newest[r][k] > 0 =>
                    \E i \in DOMAIN handed[r] :
                        KeyOf(handed[r][i]) = k /\ handed[r][i].seq = newest[r][k]

Acknowledged(m) == m.from # Stranger => m.seq \in accepted[m.from]

\* Whatever is under way was accepted.
AcceptedInv ==
    /\ \A m \in castSent : Acknowledged(m)
    /\ \A r \in CastNames :
        /\ \A i \in DOMAIN rcvbuf[r] : Acknowledged(rcvbuf[r][i])
        /\ \A i \in DOMAIN hub[r] : Acknowledged(hub[r][i])
        /\ \A i \in DOMAIN handed[r] : Acknowledged(handed[r][i])

CastInv ==
    /\ CastTypeOK
    /\ NewestInv
    /\ AcceptedInv
    /\ CastNeverGoesBack
    /\ CastNothingVanishes

\* A message has a key and a writer.
LEMMA KeysAreKeys ==
    \A m \in CastMessages :
        /\ KeyOf(m) \in CastKeys /\ m.from # Stranger
        /\ m.seq \in 1..MaxCast /\ m.from \in CastNames
<1> SUFFICES ASSUME NEW m \in CastMessages
             PROVE  /\ KeyOf(m) \in CastKeys /\ m.from # Stranger
                    /\ m.seq \in 1..MaxCast /\ m.from \in CastNames
  OBVIOUS
<1>1. m.from \in CastNames /\ m.seq \in 1..MaxCast /\ m.from # Stranger
  BY CastNamesAssumption DEF CastMessages
<1>2. m.seq % CastPaths \in 0..CastPaths - 1
  <2>1. m.seq \in Nat /\ CastPaths \in Nat \ {0}
    BY <1>1, CastBoundAssumption
  <2> QED BY <2>1
<1> QED BY <1>1, <1>2 DEF KeyOf, CastKeys, CastPathOf

\* What a stranger sends is no message.
LEMMA StrayIsNoMessage == Stray \notin CastMessages
<1>1. Stray.from = Stranger
  BY DEF Stray
<1> QED BY <1>1, KeysAreKeys

\* The invariant holds before anybody has come up.
LEMMA CastInitHolds == CastInit => CastInv
<1> SUFFICES ASSUME CastInit PROVE CastInv
  OBVIOUS
<1>1. CastTypeOK
  BY CastBoundAssumption DEF CastInit, CastTypeOK, NoneYet, CastUp, CastDatagrams
<1>2. NewestInv
  <2> SUFFICES ASSUME NEW r \in CastNames
               PROVE  /\ DOMAIN handed[r] = {}
                      /\ \A k \in CastKeys : ~(newest[r][k] > 0)
    BY DEF NewestInv
  <2> QED BY DEF CastInit, NoneYet
<1>3. AcceptedInv
  <2>1. \A m \in castSent : Acknowledged(m)
    BY DEF CastInit, Acknowledged, Stray
  <2>2. \A r \in CastNames : DOMAIN rcvbuf[r] = {} /\ DOMAIN hub[r] = {} /\ DOMAIN handed[r] = {}
    BY DEF CastInit
  <2> QED BY <2>1, <2>2 DEF AcceptedInv
<1>4. CastNeverGoesBack /\ CastNothingVanishes
  BY DEF CastInit, CastNeverGoesBack, CastNothingVanishes
<1> QED BY <1>1, <1>2, <1>3, <1>4 DEF CastInv

\* A poll takes the head of what it reads.
LEMMA TakesWell ==
    ASSUME CastTypeOK, NEW n \in CastNames, Takes(n)
    PROVE  /\ rcvbuf' \in [CastNames -> Seq(CastDatagrams)]
           /\ hub' \in [CastNames -> Seq(CastMessages)]
           /\ Head(Queue(n)) \in CastDatagrams
           /\ spent[n] + 1 \in 0..PollBudget
<1>1. /\ rcvbuf \in [CastNames -> Seq(CastDatagrams)] /\ hub \in [CastNames -> Seq(CastMessages)]
      /\ spent[n] \in 0..PollBudget /\ PollBudget \in Nat
  BY CastBoundAssumption DEF CastTypeOK
<1>2. spent[n] + 1 \in 0..PollBudget
  BY <1>1 DEF Takes
<1>3. CASE ReadsItself
  <2>1. rcvbuf[n] \in Seq(CastDatagrams) /\ rcvbuf[n] # <<>>
    BY <1>1, <1>3 DEF Takes, Queue
  <2>2. Head(rcvbuf[n]) \in CastDatagrams /\ Tail(rcvbuf[n]) \in Seq(CastDatagrams)
    BY <2>1
  <2> QED BY <1>1, <1>2, <1>3, <2>2 DEF Takes, Queue
<1>4. CASE ~ReadsItself
  <2>1. hub[n] \in Seq(CastMessages) /\ hub[n] # <<>>
    BY <1>1, <1>4 DEF Takes, Queue
  <2>2. Head(hub[n]) \in CastMessages /\ Tail(hub[n]) \in Seq(CastMessages)
    BY <2>1
  <2> QED BY <1>1, <1>2, <1>4, <2>2 DEF Takes, Queue, CastDatagrams
<1> QED BY <1>3, <1>4

\* Every step keeps the types.
LEMMA CastStepTyped ==
    ASSUME CastTypeOK, [CastNext]_castVars
    PROVE  CastTypeOK'
<1> DEFINE CastStages == CastUp \union {"down", "left", "failed"}
<1>t. /\ cast \in Casts /\ castStage \in [CastNames -> CastStages]
      /\ castPeers \in [CastNames -> SUBSET CastNames]
      /\ castIssued \in [CastNames -> 0..MaxCast]
      /\ accepted \in [CastNames -> SUBSET (1..MaxCast)]
      /\ draining \in [CastNames -> BOOLEAN] /\ spent \in [CastNames -> 0..PollBudget]
      /\ castSent \subseteq CastDatagrams /\ arrivals \in 0..MaxArrivals
      /\ rcvbuf \in [CastNames -> Seq(CastDatagrams)]
      /\ reading \in [CastNames -> BOOLEAN] /\ hub \in [CastNames -> Seq(CastMessages)]
      /\ newest \in [CastNames -> [CastKeys -> 0..MaxCast]]
      /\ castKept \in [CastNames -> SUBSET CastMessages]
      /\ handed \in [CastNames -> Seq(CastMessages)]
      /\ MaxCast \in Nat /\ MaxArrivals \in Nat /\ PollBudget \in Nat \ {0}
  BY CastBoundAssumption DEF CastTypeOK
<1>s. /\ CastUp \union {"left", "failed"} \subseteq CastStages
      /\ {"dialling", "accepting", "operate", "silent", "stopping"} \subseteq CastStages
      /\ NoneYet \in [CastKeys -> 0..MaxCast] /\ 0 \in 0..PollBudget
  BY <1>t DEF CastUp, NoneYet
<1> HIDE DEF CastStages
<1> USE DEF castWays, castIntake, castSender
<1>g. CastTypeOK' <=>
      /\ cast' \in Casts /\ castStage' \in [CastNames -> CastStages]
      /\ castPeers' \in [CastNames -> SUBSET CastNames]
      /\ castIssued' \in [CastNames -> 0..MaxCast]
      /\ accepted' \in [CastNames -> SUBSET (1..MaxCast)]
      /\ draining' \in [CastNames -> BOOLEAN] /\ spent' \in [CastNames -> 0..PollBudget]
      /\ castSent' \subseteq CastDatagrams /\ arrivals' \in 0..MaxArrivals
      /\ rcvbuf' \in [CastNames -> Seq(CastDatagrams)]
      /\ reading' \in [CastNames -> BOOLEAN] /\ hub' \in [CastNames -> Seq(CastMessages)]
      /\ newest' \in [CastNames -> [CastKeys -> 0..MaxCast]]
      /\ castKept' \in [CastNames -> SUBSET CastMessages]
      /\ handed' \in [CastNames -> Seq(CastMessages)]
  BY DEF CastTypeOK, CastStages
<1>1. ASSUME NEW n \in CastNames, NEW s \in CastStages, CastGoes(n, s),
             castPeers' \in [CastNames -> SUBSET CastNames], reading' \in [CastNames -> BOOLEAN],
             castSent' = castSent, arrivals' = arrivals, rcvbuf' = rcvbuf, hub' = hub
      PROVE  CastTypeOK'
  BY <1>1, <1>t, <1>g DEF CastGoes
<1>2. ASSUME NEW n \in CastNames,
             \/ Join(n) \/ CastDial(n) \/ CastDialFails(n) \/ ConnectReturns(n) \/ StartReaders(n)
             \/ PollBreaks(n) \/ EndOperateCast(n) \/ StopReading(n) \/ ReaderStops(n)
      PROVE  CastTypeOK'
  <2>1. CASE Join(n) \/ CastDialFails(n) \/ ConnectReturns(n) \/ PollBreaks(n)
             \/ EndOperateCast(n) \/ StopReading(n)
    BY <2>1, <1>1, <1>s, <1>t
       DEF Join, CastDialFails, ConnectReturns, PollBreaks, EndOperateCast, StopReading
  <2>2. CASE CastDial(n)
    <3>1. PICK p \in CastNames : castPeers' = [castPeers EXCEPT ![n] = castPeers[n] \union {p}]
      BY <2>2 DEF CastDial
    <3>2. castPeers' \in [CastNames -> SUBSET CastNames]
      BY <3>1, <1>t
    <3>3. /\ CastGoes(n, "dialling") /\ reading' = reading /\ castSent' = castSent
          /\ arrivals' = arrivals /\ rcvbuf' = rcvbuf /\ hub' = hub
      BY <2>2 DEF CastDial
    <3> QED BY <3>2, <3>3, <1>1, <1>s, <1>t
  <2>3. CASE StartReaders(n) \/ ReaderStops(n)
    BY <2>3, <1>1, <1>s, <1>t DEF StartReaders, ReaderStops
  <2> QED BY <1>2, <2>1, <2>2, <2>3
<1>3. ASSUME NEW n \in CastNames, TrySend(n) \/ SendWouldBlock(n) \/ SendBreaks(n)
      PROVE  CastTypeOK'
  <2>0. CastIssues(n)
    BY <1>3 DEF TrySend, SendWouldBlock, SendBreaks
  <2>1. castIssued[n] + 1 \in 1..MaxCast /\ castIssued' \in [CastNames -> 0..MaxCast]
    <3>1. castIssued[n] \in 0..MaxCast /\ castIssued[n] < MaxCast
      BY <2>0, <1>t DEF CastIssues
    <3>2. castIssued[n] + 1 \in 1..MaxCast /\ castIssued[n] + 1 \in 0..MaxCast
      BY <3>1, <1>t
    <3> QED BY <2>0, <3>2, <1>t DEF CastIssues
  <2>2. Issued(n) \in CastDatagrams
    BY <2>1 DEF Issued, CastDatagrams, CastMessages
  <2>3. CASE TrySend(n)
    BY <2>1, <2>2, <2>3, <1>t, <1>g DEF TrySend, CastIssues
  <2>4. CASE SendWouldBlock(n) \/ SendBreaks(n)
    <3>1. castStage' \in [CastNames -> CastStages]
      BY <2>4, <1>s, <1>t DEF SendWouldBlock, SendBreaks
    <3>2. castSent' = castSent /\ accepted' = accepted
      BY <2>4 DEF SendWouldBlock, SendBreaks, SendBlocks
    <3> QED BY <2>0, <2>1, <3>1, <3>2, <1>t, <1>g DEF CastIssues
  <2> QED BY <1>3, <2>3, <2>4
<1>4. ASSUME NEW n \in CastNames, CastArrive(n)
      PROVE  CastTypeOK'
  <2>1. PICK d \in castSent : rcvbuf' = [rcvbuf EXCEPT ![n] = Append(@, d)]
    BY <1>4 DEF CastArrive
  <2>2. Append(rcvbuf[n], d) \in Seq(CastDatagrams)
    BY <1>t
  <2>3. arrivals' \in 0..MaxArrivals
    BY <1>4, <1>t DEF CastArrive
  <2> QED BY <2>1, <2>2, <2>3, <1>4, <1>t, <1>g DEF CastArrive
<1>5. ASSUME NEW n \in CastNames, ReadAndPush(n)
      PROVE  CastTypeOK'
  <2> DEFINE m == Head(rcvbuf[n])
  <2>1. m \in CastDatagrams /\ Tail(rcvbuf[n]) \in Seq(CastDatagrams)
    BY <1>5, <1>t DEF ReadAndPush
  <2> HIDE DEF m
  <2>2. /\ hub' \in [CastNames -> Seq(CastMessages)]
        /\ castKept' \in [CastNames -> SUBSET CastMessages]
    <3>1. CASE m # Stray /\ Len(hub[n]) < HubRoom
      <4>1. m \in CastMessages /\ hub[n] \in Seq(CastMessages)
        BY <2>1, <3>1, <1>t DEF CastDatagrams
      <4>2. Append(hub[n], m) \in Seq(CastMessages)
        BY <4>1
      <4>3. /\ hub' = [hub EXCEPT ![n] = Append(hub[n], m)]
            /\ castKept' = [castKept EXCEPT ![n] = castKept[n] \union {m}]
        BY <1>5, <3>1 DEF ReadAndPush, CastPush, m
      <4>4. hub' \in [CastNames -> Seq(CastMessages)]
        BY <4>2, <4>3, <1>t
      <4>5. castKept[n] \union {m} \in SUBSET CastMessages
        BY <4>1, <1>t
      <4> QED BY <4>3, <4>4, <4>5, <1>t
    <3>2. CASE ~(m # Stray /\ Len(hub[n]) < HubRoom)
      BY <1>5, <3>2, <1>t DEF ReadAndPush, CastPush, m
    <3> QED BY <3>1, <3>2
  <2> QED BY <2>1, <2>2, <1>5, <1>t, <1>g DEF ReadAndPush
<1>6. ASSUME NEW n \in CastNames, ReaderBreaks(n)
      PROVE  CastTypeOK'
  BY <1>6, <1>t, <1>g DEF ReaderBreaks
<1>7. ASSUME NEW n \in CastNames, PollStale(n) \/ PollFresh(n) \/ PollGarbled(n)
      PROVE  CastTypeOK'
  <2> DEFINE m == Head(Queue(n))
  <2>1. Takes(n)
    BY <1>7 DEF PollStale, PollFresh, PollGarbled
  <2>2. /\ rcvbuf' \in [CastNames -> Seq(CastDatagrams)]
        /\ hub' \in [CastNames -> Seq(CastMessages)]
        /\ m \in CastDatagrams
        /\ spent[n] + 1 \in 0..PollBudget
    BY <2>1, TakesWell
  <2>m. ASSUME m # Stray
        PROVE  m \in CastMessages /\ KeyOf(m) \in CastKeys /\ m.seq \in 0..MaxCast
    BY <2>m, <2>2, KeysAreKeys DEF CastDatagrams
  <2> HIDE DEF m
  <2>3. CASE PollStale(n)
    <3>1. castKept' \in [CastNames -> SUBSET CastMessages]
      BY <2>3, <2>m, <1>t DEF PollStale, KeptHere, m
    <3>2. spent' \in [CastNames -> 0..PollBudget]
      BY <2>3, <2>2, <1>t DEF PollStale
    <3> QED BY <2>1, <2>2, <2>3, <3>1, <3>2, <1>t, <1>g DEF PollStale, Takes
  <2>4. CASE PollFresh(n)
    <3>1. /\ castKept' \in [CastNames -> SUBSET CastMessages]
          /\ spent' \in [CastNames -> 0..PollBudget]
      BY <2>4, <2>m, <1>t, <1>s DEF PollFresh, KeptHere, m
    <3>2. handed' \in [CastNames -> Seq(CastMessages)]
      <4>1. Append(handed[n], m) \in Seq(CastMessages)
        BY <2>4, <2>m, <1>t DEF PollFresh, m
      <4> QED BY <2>4, <4>1, <1>t DEF PollFresh, m
    <3>3. newest' \in [CastNames -> [CastKeys -> 0..MaxCast]]
      <4>1. newest[n] \in [CastKeys -> 0..MaxCast]
        BY <1>t
      <4>2. [newest[n] EXCEPT ![KeyOf(m)] = m.seq] \in [CastKeys -> 0..MaxCast]
        BY <4>1, <2>4, <2>m DEF PollFresh, m
      <4>3. \/ newest' = newest
            \/ newest' = [newest EXCEPT ![n] = [newest[n] EXCEPT ![KeyOf(m)] = m.seq]]
        BY <2>4 DEF PollFresh, m
      <4> QED BY <4>2, <4>3, <1>t
    <3> QED BY <2>1, <2>2, <2>4, <3>1, <3>2, <3>3, <1>t, <1>g DEF PollFresh, Takes
  <2>5. CASE PollGarbled(n)
    BY <2>1, <2>2, <2>5, <1>s, <1>t, <1>g DEF PollGarbled, Takes
  <2> QED BY <1>7, <2>3, <2>4, <2>5
<1>8. ASSUME NEW n \in CastNames, PollNone(n) \/ DrainEnds(n)
      PROVE  CastTypeOK'
  BY <1>8, <1>s, <1>t, <1>g DEF PollNone, DrainEnds
<1>9. ASSUME NEW n \in CastNames, CastDisconnect(n)
      PROVE  CastTypeOK'
  BY <1>9, <1>s, <1>t, <1>g DEF CastDisconnect
<1>10. CASE UNCHANGED castVars
  BY <1>10, <1>t, <1>g DEF castVars
<1> QED BY <1>2, <1>3, <1>4, <1>5, <1>6, <1>7, <1>8, <1>9, <1>10 DEF CastNext, CastStep

\* Who has left does not come back.
LEMMA LeftForGood ==
    ASSUME CastTypeOK, [CastNext]_castVars
    PROVE  /\ cast' = cast
           /\ \A r \in CastNames : castStage[r] = "left" => castStage'[r] = "left"
<1>t. castStage \in [CastNames -> CastUp \union {"down", "left", "failed"}]
  BY DEF CastTypeOK
<1> USE DEF castWays, castIntake, castSender, CastGoes
<1>1. ASSUME NEW n \in CastNames,
             \/ Join(n) \/ CastDial(n) \/ CastDialFails(n) \/ ConnectReturns(n) \/ StartReaders(n)
             \/ PollBreaks(n) \/ EndOperateCast(n) \/ StopReading(n) \/ ReaderStops(n)
             \/ CastDisconnect(n) \/ PollGarbled(n) \/ SendBreaks(n)
      PROVE  /\ cast' = cast /\ castStage[n] # "left"
             /\ \E s : castStage' = [castStage EXCEPT ![n] = s]
  <2>1. CASE Join(n) \/ CastDial(n) \/ CastDialFails(n) \/ ConnectReturns(n) \/ StartReaders(n)
    BY <2>1 DEF Join, CastDial, CastDialFails, ConnectReturns, StartReaders
  <2>2. CASE EndOperateCast(n) \/ StopReading(n) \/ ReaderStops(n) \/ CastDisconnect(n)
    BY <2>2 DEF EndOperateCast, StopReading, ReaderStops, CastDisconnect
  <2>3. CASE PollBreaks(n) \/ PollGarbled(n) \/ SendBreaks(n)
    BY <2>3 DEF PollBreaks, PollGarbled, SendBreaks, Takes, PollsCast, CastIssues
  <2> QED BY <1>1, <2>1, <2>2, <2>3
<1>2. ASSUME NEW n \in CastNames,
             \/ TrySend(n) \/ SendWouldBlock(n) \/ CastArrive(n) \/ ReadAndPush(n)
             \/ ReaderBreaks(n) \/ PollStale(n) \/ PollFresh(n) \/ PollNone(n) \/ DrainEnds(n)
      PROVE  cast' = cast /\ castStage' = castStage
  BY <1>2 DEF TrySend, SendWouldBlock, CastArrive, ReadAndPush, ReaderBreaks, PollStale, PollFresh,
              PollNone, DrainEnds, CastIssues, Takes
<1>3. CASE UNCHANGED castVars
  BY <1>3 DEF castVars
<1>4. ASSUME NEW n \in CastNames, CastStep(n)
      PROVE  cast' = cast /\ \A r \in CastNames : castStage[r] = "left" => castStage'[r] = "left"
  <2>1. CASE cast' = cast /\ castStage' = castStage
    BY <2>1
  <2>2. CASE /\ cast' = cast /\ castStage[n] # "left"
             /\ \E s : castStage' = [castStage EXCEPT ![n] = s]
    BY <2>2, <1>t
  <2> QED BY <1>1, <1>2, <1>4, <2>1, <2>2 DEF CastStep
<1> QED BY <1>3, <1>4 DEF CastNext

\* What a driver has received changes in PollFresh, what it has seen in
\* CastDisconnect as well.
LEMMA IntakeIsKept ==
    ASSUME [CastNext]_castVars, NEW r \in CastNames, ~PollFresh(r), ~CastDisconnect(r),
           CastTypeOK
    PROVE  newest'[r] = newest[r] /\ handed'[r] = handed[r]
<1>t. /\ newest \in [CastNames -> [CastKeys -> 0..MaxCast]]
      /\ handed \in [CastNames -> Seq(CastMessages)]
  BY DEF CastTypeOK
<1> USE DEF castWays, castIntake, castSender, CastGoes
<1>1. CASE UNCHANGED castVars
  BY <1>1 DEF castVars
<1>2. ASSUME NEW n \in CastNames, CastStep(n), ~PollFresh(n), ~CastDisconnect(n)
      PROVE  newest' = newest /\ handed' = handed
  <2>1. CASE Join(n) \/ CastDial(n) \/ CastDialFails(n) \/ ConnectReturns(n) \/ StartReaders(n)
    BY <2>1 DEF Join, CastDial, CastDialFails, ConnectReturns, StartReaders
  <2>2. CASE EndOperateCast(n) \/ StopReading(n) \/ ReaderStops(n)
    BY <2>2 DEF EndOperateCast, StopReading, ReaderStops
  <2>3. CASE PollBreaks(n) \/ PollGarbled(n) \/ SendBreaks(n) \/ PollStale(n)
    BY <2>3 DEF PollBreaks, PollGarbled, SendBreaks, CastIssues, PollStale
  <2>4. CASE TrySend(n) \/ SendWouldBlock(n) \/ CastArrive(n) \/ ReadAndPush(n)
             \/ ReaderBreaks(n) \/ PollNone(n) \/ DrainEnds(n)
    BY <2>4 DEF TrySend, SendWouldBlock, CastArrive, ReadAndPush, ReaderBreaks,
                PollNone, DrainEnds, CastIssues
  <2> QED BY <1>2, <2>1, <2>2, <2>3, <2>4 DEF CastStep
<1>3. ASSUME NEW n \in CastNames, PollFresh(n) \/ CastDisconnect(n), n # r
      PROVE  newest'[r] = newest[r] /\ handed'[r] = handed[r]
  <2>1. CASE CastDisconnect(n)
    BY <1>3, <2>1, <1>t DEF CastDisconnect
  <2>2. CASE PollFresh(n)
    BY <1>3, <2>2, <1>t DEF PollFresh
  <2> QED BY <1>3, <2>1, <2>2
<1> QED BY <1>1, <1>2, <1>3 DEF CastNext

\* latest_seq stays the newest of what was received, and only newer is received.
LEMMA CastStepNewest ==
    ASSUME CastInv, [CastNext]_castVars
    PROVE  NewestInv' /\ CastNeverGoesBack'
<1>t. /\ newest \in [CastNames -> [CastKeys -> 0..MaxCast]]
      /\ handed \in [CastNames -> Seq(CastMessages)]
      /\ CastTypeOK /\ CastTypeOK'
  BY CastStepTyped DEF CastInv, CastTypeOK
<1>c. cast' = cast /\ \A r \in CastNames : castStage[r] = "left" => castStage'[r] = "left"
  BY <1>t, LeftForGood
<1> DEFINE Known(r) ==
             /\ \A i \in DOMAIN handed[r] : handed[r][i].seq <= newest[r][KeyOf(handed[r][i])]
             /\ \A k \in CastKeys :
                 newest[r][k] > 0 =>
                     \E i \in DOMAIN handed[r] :
                         KeyOf(handed[r][i]) = k /\ handed[r][i].seq = newest[r][k]
<1> DEFINE Forward(r) ==
             \A i, j \in DOMAIN handed[r] :
                i < j /\ KeyOf(handed[r][i]) = KeyOf(handed[r][j]) =>
                    handed[r][i].seq < handed[r][j].seq
<1> SUFFICES ASSUME NEW r \in CastNames, cast.qos = 2
             PROVE  /\ castStage'[r] # "left" => Known(r)'
                    /\ Forward(r)'
  BY <1>c DEF NewestInv, CastNeverGoesBack, KeyOf, CastPathOf, CastKeys
<1>1. /\ castStage[r] # "left" => Known(r)
      /\ Forward(r)
  BY DEF CastInv, NewestInv, CastNeverGoesBack
<1>2. CASE ~PollFresh(r) /\ ~CastDisconnect(r)
  <2>1. newest'[r] = newest[r] /\ handed'[r] = handed[r]
    BY <1>2, <1>t, IntakeIsKept
  <2>2. castStage'[r] # "left" => castStage[r] # "left"
    BY <1>c
  <2> QED BY <2>1, <2>2, <1>1 DEF KeyOf, CastPathOf
<1>3. CASE CastDisconnect(r)
  <2>1. handed' = handed /\ castStage' = [castStage EXCEPT ![r] = "left"]
    BY <1>3 DEF CastDisconnect
  <2>2. castStage'[r] = "left"
    BY <2>1, <1>t DEF CastTypeOK
  <2> QED BY <2>1, <2>2, <1>1 DEF KeyOf, CastPathOf
<1>4. CASE PollFresh(r)
  <2> DEFINE m == Head(Queue(r))
  <2> DEFINE h == handed[r]
  <2>1. /\ m \in CastDatagrams /\ m # Stray
        /\ castStage[r] # "left" /\ ~CastStale(r, m)
    BY <1>4, <1>t, TakesWell DEF PollFresh, Takes, PollsCast
  <2>2. m \in CastMessages /\ KeyOf(m) \in CastKeys /\ m.seq \in 1..MaxCast
    BY <2>1, KeysAreKeys DEF CastDatagrams
  <2>3. newest[r] \in [CastKeys -> 0..MaxCast] /\ h \in Seq(CastMessages)
    BY <1>t
  <2>4. /\ handed' = [handed EXCEPT ![r] = Append(h, m)]
        /\ newest' = [newest EXCEPT ![r] = [newest[r] EXCEPT ![KeyOf(m)] = m.seq]]
    BY <1>4 DEF PollFresh
  <2>5. m.seq > newest[r][KeyOf(m)]
    BY <2>1, <2>2, <2>3, CastBoundAssumption DEF CastStale
  <2> HIDE DEF m, h
  <2>6. handed'[r] = Append(h, m) /\ newest'[r] = [newest[r] EXCEPT ![KeyOf(m)] = m.seq]
    BY <2>4, <1>t
  <2>7. /\ DOMAIN Append(h, m) = 1..Len(h) + 1 /\ DOMAIN h = 1..Len(h) /\ Len(h) \in Nat
        /\ \A i \in 1..Len(h) : Append(h, m)[i] = h[i]
        /\ Append(h, m)[Len(h) + 1] = m
    BY <2>2, <2>3
  <2>8. /\ \A k \in CastKeys : newest'[r][k] = IF k = KeyOf(m) THEN m.seq ELSE newest[r][k]
    BY <2>6, <2>3
  <2>9. \A i \in 1..Len(h) : h[i] \in CastMessages /\ KeyOf(h[i]) \in CastKeys /\ h[i].seq \in Nat
    BY <2>3, <2>7, KeysAreKeys
  <2>10. /\ \A i \in 1..Len(h) : h[i].seq <= newest[r][KeyOf(h[i])]
         /\ \A k \in CastKeys : newest[r][k] > 0 =>
                \E i \in 1..Len(h) : KeyOf(h[i]) = k /\ h[i].seq = newest[r][k]
         /\ \A i, j \in 1..Len(h) : i < j /\ KeyOf(h[i]) = KeyOf(h[j]) => h[i].seq < h[j].seq
    BY <1>1, <2>1, <2>7 DEF h
  <2>11. \A i \in 1..Len(h) + 1 : Append(h, m)[i].seq <= newest'[r][KeyOf(Append(h, m)[i])]
    <3> SUFFICES ASSUME NEW i \in 1..Len(h) + 1
                 PROVE  Append(h, m)[i].seq <= newest'[r][KeyOf(Append(h, m)[i])]
      OBVIOUS
    <3>1. CASE i = Len(h) + 1
      BY <3>1, <2>2, <2>7, <2>8
    <3>2. CASE i \in 1..Len(h)
      <4>1. h[i].seq <= newest[r][KeyOf(h[i])] /\ newest[r][KeyOf(h[i])] \in Nat
        BY <3>2, <2>3, <2>9, <2>10
      <4>2. CASE KeyOf(h[i]) = KeyOf(m)
        BY <4>1, <4>2, <3>2, <2>2, <2>5, <2>7, <2>8, <2>9
      <4>3. CASE KeyOf(h[i]) # KeyOf(m)
        BY <4>1, <4>3, <3>2, <2>7, <2>8, <2>9
      <4> QED BY <4>2, <4>3
    <3> QED BY <3>1, <3>2, <2>7
  <2>12. \A k \in CastKeys : newest'[r][k] > 0 =>
            \E i \in 1..Len(h) + 1 :
                KeyOf(Append(h, m)[i]) = k /\ Append(h, m)[i].seq = newest'[r][k]
    <3> SUFFICES ASSUME NEW k \in CastKeys, newest'[r][k] > 0
                 PROVE  \E i \in 1..Len(h) + 1 :
                            KeyOf(Append(h, m)[i]) = k /\ Append(h, m)[i].seq = newest'[r][k]
      OBVIOUS
    <3>1. CASE k = KeyOf(m)
      BY <3>1, <2>7, <2>8
    <3>2. CASE k # KeyOf(m)
      <4>1. PICK i \in 1..Len(h) : KeyOf(h[i]) = k /\ h[i].seq = newest[r][k]
        BY <3>2, <2>8, <2>10
      <4> QED BY <4>1, <3>2, <2>7, <2>8
    <3> QED BY <3>1, <3>2
  <2>13. \A i, j \in 1..Len(h) + 1 :
            i < j /\ KeyOf(Append(h, m)[i]) = KeyOf(Append(h, m)[j]) =>
                Append(h, m)[i].seq < Append(h, m)[j].seq
    <3> SUFFICES ASSUME NEW i \in 1..Len(h) + 1, NEW j \in 1..Len(h) + 1, i < j,
                        KeyOf(Append(h, m)[i]) = KeyOf(Append(h, m)[j])
                 PROVE  Append(h, m)[i].seq < Append(h, m)[j].seq
      OBVIOUS
    <3>1. i \in 1..Len(h) /\ Append(h, m)[i] = h[i]
      BY <2>7
    <3>2. CASE j = Len(h) + 1
      <4>1. h[i].seq <= newest[r][KeyOf(m)] /\ newest[r][KeyOf(m)] \in Nat /\ h[i].seq \in Nat
        BY <3>1, <3>2, <2>2, <2>3, <2>7, <2>9, <2>10
      <4>2. m.seq \in Nat
        BY <2>2
      <4>3. h[i].seq < m.seq
        BY <4>1, <4>2, <2>5
      <4> QED BY <4>3, <3>1, <3>2, <2>7
    <3>3. CASE j \in 1..Len(h)
      BY <3>1, <3>3, <2>7, <2>10
    <3> QED BY <3>2, <3>3, <2>7
  <2>14. Forward(r)'
    BY <2>6, <2>7, <2>13 DEF KeyOf, CastPathOf
  <2>15. Known(r)'
    <3>1. (\A i \in DOMAIN handed[r] : handed[r][i].seq <= newest[r][KeyOf(handed[r][i])])'
      BY <2>6, <2>7, <2>11 DEF KeyOf, CastPathOf
    <3>2. (\A k \in CastKeys : newest[r][k] > 0 =>
                \E i \in DOMAIN handed[r] :
                    KeyOf(handed[r][i]) = k /\ handed[r][i].seq = newest[r][k])'
      BY <2>6, <2>7, <2>12 DEF KeyOf, CastPathOf, CastKeys
    <3> QED BY <3>1, <3>2
  <2> QED BY <2>14, <2>15
<1> QED BY <1>2, <1>3, <1>4

\* A queue that is appended to, or loses its head, holds nothing that is new but
\* what is appended.
LEMMA AppendedOrOld ==
    ASSUME NEW S, NEW q \in Seq(S), NEW x \in S
    PROVE  /\ \A i \in DOMAIN Append(q, x) :
                Append(q, x)[i] = x \/ \E j \in DOMAIN q : Append(q, x)[i] = q[j]
           /\ \A j \in DOMAIN q : j \in DOMAIN Append(q, x) /\ Append(q, x)[j] = q[j]
           /\ \E i \in DOMAIN Append(q, x) : Append(q, x)[i] = x
<1>1. /\ DOMAIN Append(q, x) = 1..Len(q) + 1 /\ DOMAIN q = 1..Len(q) /\ Len(q) \in Nat
      /\ \A i \in 1..Len(q) : Append(q, x)[i] = q[i]
      /\ Append(q, x)[Len(q) + 1] = x
  OBVIOUS
<1>2. \A i \in 1..Len(q) + 1 : i \in 1..Len(q) \/ i = Len(q) + 1
  BY <1>1
<1>3. Len(q) + 1 \in 1..Len(q) + 1 /\ \A i \in 1..Len(q) : i \in 1..Len(q) + 1
  BY <1>1
<1> QED BY <1>1, <1>2, <1>3

\* What a queue holds when its head is gone.
LEMMA TailIsOld ==
    ASSUME NEW S, NEW q \in Seq(S), q # <<>>
    PROVE  /\ \A i \in DOMAIN Tail(q) : \E j \in DOMAIN q : Tail(q)[i] = q[j]
           /\ \A j \in DOMAIN q : q[j] = Head(q) \/ \E i \in DOMAIN Tail(q) : Tail(q)[i] = q[j]
           /\ \E j \in DOMAIN q : Head(q) = q[j]
<1>1. /\ Len(q) \in Nat \ {0} /\ DOMAIN q = 1..Len(q) /\ DOMAIN Tail(q) = 1..Len(q) - 1
      /\ Head(q) = q[1] /\ \A i \in 1..Len(q) - 1 : Tail(q)[i] = q[i + 1]
  OBVIOUS
<1>2. \A i \in 1..Len(q) - 1 : i + 1 \in 1..Len(q)
  BY <1>1
<1>3. \A j \in 1..Len(q) : j = 1 \/ (j - 1 \in 1..Len(q) - 1 /\ (j - 1) + 1 = j)
  BY <1>1
<1>4. 1 \in 1..Len(q)
  BY <1>1
<1> QED BY <1>1, <1>2, <1>3, <1>4

Holds(q, x) == \E i \in DOMAIN q : q[i] = x

\* What a queue holds after Append.
LEMMA AppendHolds ==
    ASSUME NEW S, NEW q \in Seq(S), NEW m \in S
    PROVE  \A x : Holds(Append(q, m), x) <=> Holds(q, x) \/ x = m
<1>1. \A x : Holds(Append(q, m), x) => Holds(q, x) \/ x = m
  BY AppendedOrOld DEF Holds
<1>2. \A x : Holds(q, x) => Holds(Append(q, m), x)
  BY AppendedOrOld DEF Holds
<1>3. Holds(Append(q, m), m)
  BY AppendedOrOld DEF Holds
<1> QED BY <1>1, <1>2, <1>3

\* Where what is under way after a step has come from.
LEMMA CastFlow ==
    ASSUME CastTypeOK, [CastNext]_castVars, NEW r \in CastNames
    PROVE  /\ \A x : Holds(rcvbuf'[r], x) => Holds(rcvbuf[r], x) \/ x \in castSent
           /\ \A x : Holds(hub'[r], x) => Holds(hub[r], x) \/ Holds(rcvbuf[r], x)
           /\ \A x : Holds(handed'[r], x) =>
                        Holds(handed[r], x) \/ Holds(hub[r], x) \/ Holds(rcvbuf[r], x)
<1>t. /\ castStage \in [CastNames -> CastUp \union {"down", "left", "failed"}]
      /\ castSent \subseteq CastDatagrams
      /\ rcvbuf \in [CastNames -> Seq(CastDatagrams)] /\ hub \in [CastNames -> Seq(CastMessages)]
      /\ handed \in [CastNames -> Seq(CastMessages)]
  BY DEF CastTypeOK
<1> USE DEF castWays, castIntake, castSender, CastGoes
<1>1. CASE rcvbuf'[r] = rcvbuf[r] /\ hub'[r] = hub[r] /\ handed'[r] = handed[r]
  BY <1>1
<1>2. CASE UNCHANGED castVars
  BY <1>1, <1>2 DEF castVars
<1>3. ASSUME NEW n \in CastNames,
             \/ Join(n) \/ CastDial(n) \/ CastDialFails(n) \/ ConnectReturns(n) \/ StartReaders(n)
             \/ TrySend(n) \/ SendWouldBlock(n) \/ SendBreaks(n) \/ ReaderBreaks(n) \/ PollNone(n)
             \/ DrainEnds(n) \/ PollBreaks(n) \/ EndOperateCast(n) \/ StopReading(n)
             \/ ReaderStops(n)
      PROVE  rcvbuf' = rcvbuf /\ hub' = hub /\ handed' = handed
  <2>1. CASE Join(n) \/ CastDial(n) \/ CastDialFails(n) \/ ConnectReturns(n) \/ StartReaders(n)
    BY <2>1 DEF Join, CastDial, CastDialFails, ConnectReturns, StartReaders
  <2>2. CASE EndOperateCast(n) \/ StopReading(n) \/ ReaderStops(n) \/ PollBreaks(n)
             \/ ReaderBreaks(n) \/ PollNone(n) \/ DrainEnds(n)
    BY <2>2 DEF EndOperateCast, StopReading, ReaderStops, PollBreaks, ReaderBreaks, PollNone,
                DrainEnds
  <2>3. CASE TrySend(n) \/ SendWouldBlock(n) \/ SendBreaks(n)
    BY <2>3 DEF TrySend, SendWouldBlock, SendBreaks, CastIssues
  <2> QED BY <1>3, <2>1, <2>2, <2>3
<1>4. ASSUME NEW n \in CastNames, n # r,
             \/ CastArrive(n) \/ ReadAndPush(n) \/ PollStale(n) \/ PollFresh(n) \/ PollGarbled(n)
             \/ CastDisconnect(n)
      PROVE  rcvbuf'[r] = rcvbuf[r] /\ hub'[r] = hub[r] /\ handed'[r] = handed[r]
  <2>1. CASE CastArrive(n)
    BY <1>4, <2>1, <1>t DEF CastArrive
  <2>2. CASE ReadAndPush(n)
    BY <1>4, <2>2, <1>t DEF ReadAndPush, CastPush
  <2>3. CASE PollStale(n) \/ PollGarbled(n)
    BY <1>4, <2>3, <1>t DEF PollStale, PollGarbled, Takes
  <2>4. CASE PollFresh(n)
    BY <1>4, <2>4, <1>t DEF PollFresh, Takes
  <2>5. CASE CastDisconnect(n)
    BY <1>4, <2>5, <1>t DEF CastDisconnect
  <2> QED BY <1>4, <2>1, <2>2, <2>3, <2>4, <2>5
<1>5. CASE CastArrive(r)
  <2>1. PICK d \in castSent : rcvbuf' = [rcvbuf EXCEPT ![r] = Append(@, d)]
    BY <1>5 DEF CastArrive
  <2>2. d \in CastDatagrams /\ rcvbuf[r] \in Seq(CastDatagrams) /\ rcvbuf'[r] = Append(rcvbuf[r], d)
    BY <2>1, <1>t
  <2>3. hub' = hub /\ handed' = handed
    BY <1>5 DEF CastArrive
  <2> QED BY <2>2, <2>3, AppendedOrOld DEF Holds
<1>6. CASE ReadAndPush(r)
  <2> DEFINE m == Head(rcvbuf[r])
  <2>1. rcvbuf[r] \in Seq(CastDatagrams) /\ rcvbuf[r] # <<>> /\ hub[r] \in Seq(CastMessages)
    BY <1>6, <1>t DEF ReadAndPush
  <2>2. rcvbuf'[r] = Tail(rcvbuf[r]) /\ handed' = handed
    BY <1>6, <1>t DEF ReadAndPush
  <2>3. hub'[r] = hub[r] \/ (m # Stray /\ hub'[r] = Append(hub[r], m))
    BY <1>6, <1>t DEF ReadAndPush, CastPush
  <2>4. m \in CastDatagrams /\ Holds(rcvbuf[r], m)
    BY <2>1, TailIsOld DEF Holds
  <2>5. \A x : Holds(hub'[r], x) => Holds(hub[r], x) \/ Holds(rcvbuf[r], x)
    <3>1. CASE hub'[r] = hub[r]
      BY <3>1
    <3>2. CASE m # Stray /\ hub'[r] = Append(hub[r], m)
      <4>1. m \in CastMessages
        BY <3>2, <2>4 DEF CastDatagrams
      <4> HIDE DEF m
      <4> QED BY <4>1, <3>2, <2>1, <2>4, AppendedOrOld DEF Holds
    <3> QED BY <2>3, <3>1, <3>2
  <2>6. \A x : Holds(rcvbuf'[r], x) => Holds(rcvbuf[r], x)
    BY <2>1, <2>2, TailIsOld DEF Holds
  <2> QED BY <2>2, <2>5, <2>6
<1>7. CASE PollStale(r) \/ PollFresh(r) \/ PollGarbled(r)
  <2> DEFINE m == Head(Queue(r))
  <2>1. Takes(r)
    BY <1>7 DEF PollStale, PollFresh, PollGarbled
  <2>2. /\ \A x : Holds(rcvbuf'[r], x) => Holds(rcvbuf[r], x)
        /\ \A x : Holds(hub'[r], x) => Holds(hub[r], x)
        /\ m \in CastDatagrams
        /\ Holds(hub[r], m) \/ Holds(rcvbuf[r], m)
    <3>1. CASE ReadsItself
      <4>1. rcvbuf[r] \in Seq(CastDatagrams) /\ rcvbuf[r] # <<>> /\ Queue(r) = rcvbuf[r]
        BY <2>1, <3>1, <1>t DEF Takes, Queue
      <4>2. rcvbuf'[r] = Tail(rcvbuf[r]) /\ hub' = hub
        BY <2>1, <3>1, <1>t DEF Takes
      <4>3. m \in CastDatagrams
        BY <4>1
      <4> QED BY <4>1, <4>2, <4>3, TailIsOld DEF Holds
    <3>2. CASE ~ReadsItself
      <4>1. hub[r] \in Seq(CastMessages) /\ hub[r] # <<>> /\ Queue(r) = hub[r]
        BY <2>1, <3>2, <1>t DEF Takes, Queue
      <4>2. hub'[r] = Tail(hub[r]) /\ rcvbuf' = rcvbuf
        BY <2>1, <3>2, <1>t DEF Takes
      <4>3. m \in CastDatagrams
        BY <4>1 DEF CastDatagrams
      <4> QED BY <4>1, <4>2, <4>3, TailIsOld DEF Holds
    <3> QED BY <3>1, <3>2
  <2>3. \A x : Holds(handed'[r], x) => Holds(handed[r], x) \/ x = m
    <3>1. CASE PollStale(r) \/ PollGarbled(r)
      BY <3>1 DEF PollStale, PollGarbled
    <3>2. CASE PollFresh(r)
      <4>1. m \in CastMessages /\ handed[r] \in Seq(CastMessages)
        BY <2>2, <3>2, <1>t DEF PollFresh, CastDatagrams
      <4>2. handed'[r] = Append(handed[r], m)
        BY <3>2, <1>t DEF PollFresh
      <4> HIDE DEF m
      <4> QED BY <4>1, <4>2, AppendedOrOld DEF Holds
    <3> QED BY <1>7, <3>1, <3>2
  <2> QED BY <2>2, <2>3
<1>8. CASE CastDisconnect(r)
  <2>1. rcvbuf'[r] = <<>> /\ hub'[r] = <<>> /\ handed' = handed
    BY <1>8, <1>t DEF CastDisconnect
  <2> QED BY <2>1 DEF Holds
<1> QED BY <1>1, <1>2, <1>3, <1>4, <1>5, <1>6, <1>7, <1>8 DEF CastNext, CastStep

\* Whatever is under way after a step was accepted.
LEMMA CastStepAccepted ==
    ASSUME CastTypeOK, AcceptedInv, [CastNext]_castVars
    PROVE  AcceptedInv'
<1>t. /\ castSent \subseteq CastDatagrams /\ accepted \in [CastNames -> SUBSET (1..MaxCast)]
      /\ rcvbuf \in [CastNames -> Seq(CastDatagrams)] /\ hub \in [CastNames -> Seq(CastMessages)]
      /\ handed \in [CastNames -> Seq(CastMessages)]
  BY DEF CastTypeOK
<1> USE DEF castWays, castIntake, castSender, CastGoes
<1>1. /\ \A n \in CastNames : accepted[n] \subseteq accepted'[n]
      /\ \A x \in castSent' :
            x \in castSent \/ (x.from \in CastNames /\ x.seq \in accepted'[x.from])
  <2>1. ASSUME NEW n \in CastNames, TrySend(n)
        PROVE  <1>1!2 /\ <1>1!1
    <3>1. /\ castSent' = castSent \union {Issued(n)}
          /\ accepted' = [accepted EXCEPT ![n] = accepted[n] \union {castIssued[n] + 1}]
      BY <2>1 DEF TrySend
    <3>2. Issued(n).from = n /\ Issued(n).seq = castIssued[n] + 1
      BY DEF Issued
    <3> QED BY <3>1, <3>2, <1>t
  <2>2. ASSUME NEW n \in CastNames, CastStep(n), ~TrySend(n)
        PROVE  accepted' = accepted /\ castSent' = castSent
    <3>1. CASE Join(n) \/ CastDial(n) \/ CastDialFails(n) \/ ConnectReturns(n) \/ StartReaders(n)
      BY <3>1 DEF Join, CastDial, CastDialFails, ConnectReturns, StartReaders
    <3>2. CASE EndOperateCast(n) \/ StopReading(n) \/ ReaderStops(n) \/ PollBreaks(n)
             \/ ReaderBreaks(n) \/ PollNone(n) \/ DrainEnds(n) \/ CastDisconnect(n)
      BY <3>2 DEF EndOperateCast, StopReading, ReaderStops, PollBreaks, ReaderBreaks, PollNone,
                  DrainEnds, CastDisconnect
    <3>3. CASE SendWouldBlock(n) \/ SendBreaks(n)
      BY <3>3 DEF SendWouldBlock, SendBreaks, SendBlocks, CastIssues
    <3>4. CASE CastArrive(n) \/ ReadAndPush(n) \/ PollStale(n) \/ PollFresh(n) \/ PollGarbled(n)
      BY <3>4 DEF CastArrive, ReadAndPush, PollStale, PollFresh, PollGarbled, Takes
    <3> QED BY <2>2, <3>1, <3>2, <3>3, <3>4 DEF CastStep
  <2>3. CASE UNCHANGED castVars
    BY <2>3 DEF castVars
  <2> QED BY <2>1, <2>2, <2>3 DEF CastNext
<1> DEFINE Still(x) == x.from # Stranger => x.seq \in accepted'[x.from]
<1>2. ASSUME NEW x \in CastDatagrams, Acknowledged(x)
      PROVE  Still(x)
  <2>1. x.from = Stranger \/ x.from \in CastNames
    BY DEF CastDatagrams, CastMessages, Stray
  <2> QED BY <1>1, <1>2, <2>1 DEF Acknowledged
<1>3. \A x \in castSent' : Still(x)
  BY <1>1, <1>2, <1>t DEF AcceptedInv
<1>4. ASSUME NEW r \in CastNames, NEW x,
             Holds(rcvbuf[r], x) \/ Holds(hub[r], x) \/ Holds(handed[r], x) \/ x \in castSent
      PROVE  Still(x)
  <2>1. Acknowledged(x) /\ x \in CastDatagrams
    <3>1. CASE Holds(rcvbuf[r], x)
      BY <3>1, <1>t DEF AcceptedInv, Holds
    <3>2. CASE Holds(hub[r], x) \/ Holds(handed[r], x)
      <4>1. hub[r] \in Seq(CastMessages) /\ handed[r] \in Seq(CastMessages)
        BY <1>t
      <4> QED BY <3>2, <4>1 DEF AcceptedInv, Holds, CastDatagrams
    <3>3. CASE x \in castSent
      BY <3>3, <1>t DEF AcceptedInv
    <3> QED BY <1>4, <3>1, <3>2, <3>3
  <2> QED BY <1>2, <2>1
<1>5. ASSUME NEW r \in CastNames
      PROVE  /\ \A i \in DOMAIN rcvbuf'[r] : Still(rcvbuf'[r][i])
             /\ \A i \in DOMAIN hub'[r] : Still(hub'[r][i])
             /\ \A i \in DOMAIN handed'[r] : Still(handed'[r][i])
  <2>1. /\ \A i \in DOMAIN rcvbuf'[r] : Holds(rcvbuf'[r], rcvbuf'[r][i])
        /\ \A i \in DOMAIN hub'[r] : Holds(hub'[r], hub'[r][i])
        /\ \A i \in DOMAIN handed'[r] : Holds(handed'[r], handed'[r][i])
    BY DEF Holds
  <2>2. /\ \A x : Holds(rcvbuf'[r], x) => Holds(rcvbuf[r], x) \/ x \in castSent
        /\ \A x : Holds(hub'[r], x) => Holds(hub[r], x) \/ Holds(rcvbuf[r], x)
        /\ \A x : Holds(handed'[r], x) =>
                      Holds(handed[r], x) \/ Holds(hub[r], x) \/ Holds(rcvbuf[r], x)
    <3> HIDE DEF castWays, castIntake, castSender, CastGoes
    <3> QED BY CastFlow
  <2>3. \A x : Holds(rcvbuf'[r], x) \/ Holds(hub'[r], x) \/ Holds(handed'[r], x) => Still(x)
    <3> HIDE DEF Still
    <3> QED BY <2>2, <1>4
  <2> HIDE DEF Still
  <2> QED BY <2>1, <2>3
<1> QED BY <1>3, <1>5 DEF AcceptedInv, Acknowledged

\* What was read is still in the channel, received or superseded after a step.
LEMMA CastStepKept ==
    ASSUME CastInv, [CastNext]_castVars
    PROVE  CastNothingVanishes'
<1>t. /\ castStage \in [CastNames -> CastUp \union {"down", "left", "failed"}]
      /\ rcvbuf \in [CastNames -> Seq(CastDatagrams)] /\ hub \in [CastNames -> Seq(CastMessages)]
      /\ handed \in [CastNames -> Seq(CastMessages)]
      /\ castKept \in [CastNames -> SUBSET CastMessages]
      /\ newest \in [CastNames -> [CastKeys -> 0..MaxCast]]
      /\ CastTypeOK
  BY DEF CastInv, CastTypeOK
<1>c. cast' = cast /\ \A r \in CastNames : castStage[r] = "left" => castStage'[r] = "left"
  BY <1>t, LeftForGood
<1> DEFINE Safe(h, g, m) == \/ Holds(h, m)
                            \/ Holds(g, m)
                            \/ \E x : /\ Holds(g, x) /\ cast.qos = 2
                                      /\ KeyOf(x) = KeyOf(m) /\ x.seq >= m.seq
<1>d. /\ CastNothingVanishes <=>
            \A r \in CastNames : castStage[r] # "left" =>
                \A m \in castKept[r] : Safe(hub[r], handed[r], m)
      /\ CastNothingVanishes' <=>
            \A r \in CastNames : castStage'[r] # "left" =>
                \A m \in castKept'[r] : Safe(hub'[r], handed'[r], m)
  BY <1>c DEF CastNothingVanishes, Holds, KeyOf, CastPathOf
<1> SUFFICES ASSUME NEW r \in CastNames, castStage'[r] # "left",
                    castStage[r] # "left",
                    \A m \in castKept[r] : Safe(hub[r], handed[r], m)
             PROVE  \A m \in castKept'[r] : Safe(hub'[r], handed'[r], m)
  BY <1>c, <1>d DEF CastInv
<1>1. CASE hub'[r] = hub[r] /\ handed'[r] = handed[r] /\ castKept'[r] = castKept[r]
  BY <1>1
<1>2. CASE UNCHANGED castVars
  BY <1>1, <1>2 DEF castVars, castWays, castIntake
<1>3. ASSUME NEW n \in CastNames,
             \/ Join(n) \/ CastDial(n) \/ CastDialFails(n) \/ ConnectReturns(n) \/ StartReaders(n)
             \/ TrySend(n) \/ SendWouldBlock(n) \/ SendBreaks(n) \/ ReaderBreaks(n) \/ PollNone(n)
             \/ DrainEnds(n) \/ PollBreaks(n) \/ EndOperateCast(n) \/ StopReading(n)
             \/ ReaderStops(n) \/ CastArrive(n)
      PROVE  hub' = hub /\ handed' = handed /\ castKept' = castKept
  <2> USE DEF castWays, castIntake, castSender, CastGoes
  <2>1. CASE Join(n) \/ CastDial(n) \/ CastDialFails(n) \/ ConnectReturns(n) \/ StartReaders(n)
    BY <2>1 DEF Join, CastDial, CastDialFails, ConnectReturns, StartReaders
  <2>2. CASE EndOperateCast(n) \/ StopReading(n) \/ ReaderStops(n) \/ PollBreaks(n)
             \/ ReaderBreaks(n) \/ PollNone(n) \/ DrainEnds(n)
    BY <2>2 DEF EndOperateCast, StopReading, ReaderStops, PollBreaks, ReaderBreaks, PollNone,
                DrainEnds
  <2>3. CASE TrySend(n) \/ SendWouldBlock(n) \/ SendBreaks(n) \/ CastArrive(n)
    BY <2>3 DEF TrySend, SendWouldBlock, SendBreaks, CastIssues, CastArrive
  <2> QED BY <1>3, <2>1, <2>2, <2>3
<1>4. ASSUME NEW n \in CastNames, n # r,
             ReadAndPush(n) \/ PollStale(n) \/ PollFresh(n) \/ PollGarbled(n) \/ CastDisconnect(n)
      PROVE  hub'[r] = hub[r] /\ handed'[r] = handed[r] /\ castKept'[r] = castKept[r]
  <2> USE DEF castIntake
  <2>2. CASE ReadAndPush(n)
    BY <1>4, <2>2, <1>t DEF ReadAndPush, CastPush
  <2>3. CASE PollStale(n) \/ PollGarbled(n)
    BY <1>4, <2>3, <1>t DEF PollStale, PollGarbled, Takes, KeptHere
  <2>4. CASE PollFresh(n)
    BY <1>4, <2>4, <1>t DEF PollFresh, Takes, KeptHere
  <2>5. CASE CastDisconnect(n)
    BY <1>4, <2>5, <1>t DEF CastDisconnect
  <2> QED BY <1>4, <2>2, <2>3, <2>4, <2>5
<1>5. CASE ReadAndPush(r)
  <2> DEFINE m == Head(rcvbuf[r])
  <2>1. handed' = handed
    BY <1>5 DEF ReadAndPush, castIntake
  <2>2. CASE ~(m # Stray /\ Len(hub[r]) < HubRoom)
    <3>1. hub' = hub /\ castKept' = castKept
      BY <1>5, <2>2 DEF ReadAndPush, CastPush
    <3> QED BY <1>1, <2>1, <3>1
  <2>3. CASE m # Stray /\ Len(hub[r]) < HubRoom
    <3>1. hub[r] \in Seq(CastMessages) /\ m \in CastMessages
      BY <1>5, <2>3, <1>t DEF ReadAndPush, CastDatagrams
    <3>2. hub'[r] = Append(hub[r], m) /\ castKept'[r] = castKept[r] \union {m}
      BY <1>5, <2>3, <1>t DEF ReadAndPush, CastPush
    <3> HIDE DEF m
    <3>3. Holds(hub'[r], m) /\ \A x : Holds(hub[r], x) => Holds(hub'[r], x)
      BY <3>1, <3>2, AppendHolds
    <3> QED BY <2>1, <3>2, <3>3
  <2> QED BY <2>2, <2>3
<1>6. CASE PollStale(r) \/ PollFresh(r) \/ PollGarbled(r)
  <2> DEFINE m == Head(Queue(r))
  <2>1. Takes(r) /\ m \in CastDatagrams
    <3>1. Takes(r)
      BY <1>6 DEF PollStale, PollFresh, PollGarbled
    <3> QED BY <3>1, <1>t, TakesWell
  <2>2. \A x \in CastMessages : Holds(hub[r], x) => Holds(hub'[r], x) \/ (~ReadsItself /\ x = m)
    <3>1. CASE ReadsItself
      BY <2>1, <3>1 DEF Takes
    <3>2. CASE ~ReadsItself
      <4>1. hub[r] \in Seq(CastMessages) /\ hub[r] # <<>> /\ Queue(r) = hub[r]
        BY <2>1, <3>2, <1>t DEF Takes, Queue
      <4>2. hub'[r] = Tail(hub[r])
        BY <2>1, <3>2, <1>t DEF Takes
      <4> QED BY <3>2, <4>1, <4>2, TailIsOld DEF Holds
    <3> QED BY <3>1, <3>2
  <2>3. ~ReadsItself => m \in CastMessages
    <3> SUFFICES ASSUME ~ReadsItself PROVE m \in CastMessages
      OBVIOUS
    <3>1. hub[r] \in Seq(CastMessages) /\ hub[r] # <<>> /\ Queue(r) = hub[r]
      BY <2>1, <1>t DEF Takes, Queue
    <3> QED BY <3>1
  <2>4. CASE PollGarbled(r)
    <3>1. m = Stray /\ handed' = handed /\ castKept' = castKept
      BY <2>4 DEF PollGarbled, castIntake
    <3>2. ReadsItself
      BY <3>1, <2>3, StrayIsNoMessage
    <3>3. hub' = hub
      BY <2>1, <3>2 DEF Takes
    <3> QED BY <1>1, <3>1, <3>3
  <2>5. ASSUME PollStale(r) \/ PollFresh(r)
        PROVE  /\ m \in CastMessages
               /\ castKept'[r] \subseteq castKept[r] \union {m}
               /\ \A x : Holds(handed[r], x) => Holds(handed'[r], x)
               /\ \/ Holds(handed'[r], m)
                  \/ \E x : /\ Holds(handed[r], x) /\ cast.qos = 2
                            /\ KeyOf(x) = KeyOf(m) /\ x.seq >= m.seq
    <3>1. m \in CastMessages
      BY <2>1, <2>5 DEF PollStale, PollFresh, CastDatagrams
    <3>2. castKept'[r] \subseteq castKept[r] \union {m}
      BY <2>5, <1>t DEF PollStale, PollFresh, KeptHere
    <3>3. CASE PollStale(r)
      <4>1. handed' = handed /\ CastStale(r, m)
        BY <3>3 DEF PollStale, castIntake
      <4>2. KeyOf(m) \in CastKeys /\ m.seq \in 1..MaxCast
        BY <3>1, KeysAreKeys
      <4>3. newest[r] \in [CastKeys -> 0..MaxCast] /\ cast.qos = 2 /\ m.seq <= newest[r][KeyOf(m)]
        BY <4>1, <1>t DEF CastStale
      <4>4. newest[r][KeyOf(m)] > 0 /\ newest[r][KeyOf(m)] \in Nat
        BY <4>2, <4>3, CastBoundAssumption
      <4>5. PICK i \in DOMAIN handed[r] :
                KeyOf(handed[r][i]) = KeyOf(m) /\ handed[r][i].seq = newest[r][KeyOf(m)]
        BY <4>2, <4>3, <4>4 DEF CastInv, NewestInv
      <4>6. Holds(handed[r], handed[r][i]) /\ handed[r][i].seq >= m.seq
        BY <4>2, <4>3, <4>4, <4>5 DEF Holds
      <4> QED BY <3>1, <3>2, <4>1, <4>3, <4>5, <4>6
    <3>4. CASE PollFresh(r)
      <4>1. handed[r] \in Seq(CastMessages)
        BY <1>t
      <4>2. handed'[r] = Append(handed[r], m)
        BY <3>4, <1>t DEF PollFresh
      <4> HIDE DEF m
      <4>3. Holds(handed'[r], m) /\ \A x : Holds(handed[r], x) => Holds(handed'[r], x)
        BY <4>1, <4>2, <3>1, AppendHolds
      <4> QED BY <3>1, <3>2, <4>3
    <3> QED BY <2>5, <3>3, <3>4
  <2>6. ASSUME PollStale(r) \/ PollFresh(r), NEW k \in castKept'[r]
        PROVE  Safe(hub'[r], handed'[r], k)
    <3> HIDE DEF m
    <3>1. CASE k = m
      BY <2>5, <2>6, <3>1
    <3>2. CASE k \in castKept[r]
      <4>1. Safe(hub[r], handed[r], k) /\ k \in CastMessages
        BY <3>2, <1>t
      <4>2. CASE Holds(hub[r], k)
        BY <2>2, <2>5, <2>6, <4>1, <4>2
      <4>3. CASE ~Holds(hub[r], k)
        BY <2>5, <2>6, <4>1, <4>3
      <4> QED BY <4>2, <4>3
    <3> QED BY <2>5, <2>6, <3>1, <3>2
  <2> QED BY <1>6, <2>4, <2>6
<1>7. CASE CastDisconnect(r)
  <2>1. castStage'[r] = "left"
    BY <1>7, <1>t DEF CastDisconnect
  <2> QED BY <2>1
<1>8. ASSUME NEW n \in CastNames, CastStep(n)
      PROVE  \A m \in castKept'[r] : Safe(hub'[r], handed'[r], m)
  <2> HIDE DEF Safe
  <2>1. CASE n = r
    BY <1>1, <1>3, <1>5, <1>6, <1>7, <1>8, <2>1 DEF CastStep
  <2>2. CASE n # r
    BY <1>1, <1>3, <1>4, <1>8, <2>2 DEF CastStep
  <2> QED BY <2>1, <2>2
<1> QED BY <1>2, <1>8 DEF CastNext

(* The types, the account of latest_seq, the acceptance of what is under way,
   and the three properties, in every state. *)
THEOREM CastInvariant == CastSpec => []CastInv
<1>1. CastInit => CastInv
  BY CastInitHolds
<1>2. CastInv /\ [CastNext]_castVars => CastInv'
  BY CastStepTyped, CastStepNewest, CastStepAccepted, CastStepKept DEF CastInv
<1> QED BY <1>1, <1>2, PTL DEF CastSpec

(* At QoS 2 a driver never goes back (is_stale_qos2), and what was read and
   found room in the channel is received unless something newer was: for any
   nodes, paths and buffers, and whatever the network loses, doubles or reorders. *)
THEOREM FilterIsExact == CastSpec => [](CastNeverGoesBack /\ CastNothingVanishes)
<1>1. CastInv => CastNeverGoesBack /\ CastNothingVanishes
  BY DEF CastInv
<1> QED BY <1>1, CastInvariant, PTL

LEMMA CastInvSkips == CastInv => CastSkipsAreHonest
<1> SUFFICES ASSUME CastInv, NEW r \in CastNames, NEW i \in DOMAIN handed[r]
             PROVE  handed[r][i].seq \in accepted[handed[r][i].from]
  BY DEF CastSkipsAreHonest
<1>1. handed[r] \in Seq(CastMessages)
  BY DEF CastInv, CastTypeOK
<1>2. handed[r][i] \in CastMessages
  BY <1>1
<1>3. handed[r][i].from # Stranger
  BY <1>2, KeysAreKeys
<1> QED BY <1>3 DEF CastInv, AcceptedInv, Acknowledged

(* try_publish never returns false for a message that somebody receives. *)
THEOREM SkipsAreTrue == CastSpec => []CastSkipsAreHonest
BY CastInvSkips, CastInvariant, PTL

-----------------------------------------------------------------------------
(* Zenoh: each message is in one place.                                    *)

LEMMA RowTyped ==
    ASSUME NEW S, NEW T, NEW f \in [S -> T], NEW a \in S, NEW b \in T
    PROVE  [f EXCEPT ![a] = b] \in [S -> T]
OBVIOUS

Carries(s, x) == \E i \in DOMAIN s : s[i] = x
CarriesOnce(s, x) == \A i, j \in DOMAIN s : s[i] = x /\ s[j] = x => i = j

LEMMA AppendCarries ==
    ASSUME NEW T, NEW s \in Seq(T), NEW y \in T, NEW x
    PROVE  /\ Carries(Append(s, y), x) <=> Carries(s, x) \/ x = y
           /\ CarriesOnce(s, x) /\ (x = y => ~Carries(s, x)) => CarriesOnce(Append(s, y), x)
<1> DEFINE t == Append(s, y)
<1>1. /\ Len(t) = Len(s) + 1 /\ t[Len(t)] = y /\ t \in Seq(T) /\ DOMAIN t = 1..Len(t)
      /\ \A i \in 1..Len(s) : t[i] = s[i]
  OBVIOUS
<1>2. Len(s) \in Nat /\ DOMAIN s = 1..Len(s)
  OBVIOUS
<1> HIDE DEF t
<1>3. Carries(t, x) <=> Carries(s, x) \/ x = y
  <2>1. ASSUME Carries(t, x) PROVE Carries(s, x) \/ x = y
    <3>1. PICK i \in 1..Len(t) : t[i] = x
      BY <1>1, <2>1 DEF Carries
    <3>2. i = Len(t) \/ i \in 1..Len(s)
      BY <1>1, <1>2, <3>1
    <3> QED BY <1>1, <1>2, <3>1, <3>2 DEF Carries
  <2>2. ASSUME Carries(s, x) PROVE Carries(t, x)
    <3>1. PICK i \in 1..Len(s) : s[i] = x
      BY <1>2, <2>2 DEF Carries
    <3> QED BY <1>1, <1>2, <3>1 DEF Carries
  <2>3. ASSUME x = y PROVE Carries(t, x)
    BY <1>1, <1>2, <2>3 DEF Carries
  <2> QED BY <2>1, <2>2, <2>3
<1>4. ASSUME CarriesOnce(s, x), x = y => ~Carries(s, x)
      PROVE  CarriesOnce(t, x)
  <2> SUFFICES ASSUME NEW i \in 1..Len(t), NEW j \in 1..Len(t), t[i] = x, t[j] = x
               PROVE  i = j
    BY <1>1 DEF CarriesOnce
  <2>1. \A k \in 1..Len(t) : k = Len(t) \/ k \in 1..Len(s)
    BY <1>1, <1>2
  <2>2. x = y => \A k \in 1..Len(s) : s[k] # x
    BY <1>2, <1>4 DEF Carries
  <2> QED BY <1>1, <1>2, <1>4, <2>1, <2>2 DEF CarriesOnce
<1> QED BY <1>3, <1>4 DEF t

LEMMA TailCarries ==
    ASSUME NEW T, NEW s \in Seq(T), s # <<>>, NEW x
    PROVE  /\ Carries(s, x) <=> Carries(Tail(s), x) \/ x = Head(s)
           /\ CarriesOnce(s, x) => CarriesOnce(Tail(s), x) /\ ~(x = Head(s) /\ Carries(Tail(s), x))
<1> DEFINE t == Tail(s)
<1>1. /\ Len(t) = Len(s) - 1 /\ DOMAIN t = 1..Len(t)
      /\ \A i \in 1..Len(t) : t[i] = s[i + 1]
      /\ Head(s) = s[1]
  OBVIOUS
<1>2. Len(s) \in Nat /\ Len(s) # 0 /\ DOMAIN s = 1..Len(s) /\ 1 \in 1..Len(s)
  OBVIOUS
<1> HIDE DEF t
<1>3. \A i \in 1..Len(s) : i = 1 \/ (i - 1 \in 1..Len(t) /\ t[i - 1] = s[i])
  BY <1>1, <1>2
<1>4. \A i \in 1..Len(t) : i + 1 \in 1..Len(s) /\ i + 1 # 1
  BY <1>1, <1>2
<1>5. Carries(s, x) <=> Carries(t, x) \/ x = Head(s)
  <2>1. ASSUME Carries(s, x) PROVE Carries(t, x) \/ x = Head(s)
    <3>1. PICK i \in 1..Len(s) : s[i] = x
      BY <1>2, <2>1 DEF Carries
    <3> QED BY <1>1, <1>3, <3>1 DEF Carries
  <2>2. ASSUME Carries(t, x) PROVE Carries(s, x)
    <3>1. PICK i \in 1..Len(t) : t[i] = x
      BY <1>1, <2>2 DEF Carries
    <3> QED BY <1>1, <1>2, <1>4, <3>1 DEF Carries
  <2>3. ASSUME x = Head(s) PROVE Carries(s, x)
    BY <1>1, <1>2, <2>3 DEF Carries
  <2> QED BY <2>1, <2>2, <2>3
<1>6. ASSUME CarriesOnce(s, x)
      PROVE  CarriesOnce(t, x) /\ ~(x = Head(s) /\ Carries(t, x))
  <2>1. \A i, j \in 1..Len(t) : t[i] = x /\ t[j] = x => i + 1 = j + 1
    BY <1>1, <1>2, <1>4, <1>6 DEF CarriesOnce
  <2>2. \A i, j \in 1..Len(t) : i + 1 = j + 1 => i = j
    BY <1>1, <1>2
  <2>3. CarriesOnce(t, x)
    BY <1>1, <2>1, <2>2 DEF CarriesOnce
  <2>4. ASSUME x = Head(s), Carries(t, x) PROVE FALSE
    <3>1. PICK i \in 1..Len(t) : t[i] = x
      BY <1>1, <2>4 DEF Carries
    <3> QED BY <1>1, <1>2, <1>4, <1>6, <2>4, <3>1 DEF CarriesOnce
  <2> QED BY <2>3, <2>4
<1> QED BY <1>5, <1>6 DEF t

LEMMA NothingCarried == \A x : ~Carries(<<>>, x) /\ CarriesOnce(<<>>, x)
BY DEF Carries, CarriesOnce

ZenPlaces == {"skipped", "missed", "task", "bridge", "link", "fifo", "log"}
SampleOf(w, m) == [from |-> w, seq |-> m]

LiesIn(w, m, k) ==
    \/ k = "skipped" /\ m \in skipped[w]
    \/ k = "missed" /\ m \in missed[w]
    \/ k = "task" /\ m \in spawned[w]
    \/ k = "bridge" /\ Carries(bridge[w], m)
    \/ k = "link" /\ Carries(link[w], m)
    \/ k = "fifo" /\ Carries(fifo[OtherOf(w)], SampleOf(w, m))
    \/ k = "log" /\ Carries(recorded[OtherOf(w)], m)

InOnePlace(w, m) == \A k, l \in ZenPlaces : LiesIn(w, m, k) /\ LiesIn(w, m, l) => k = l

OnceThere(w, m) ==
    /\ CarriesOnce(bridge[w], m) /\ CarriesOnce(link[w], m)
    /\ CarriesOnce(fifo[OtherOf(w)], SampleOf(w, m)) /\ CarriesOnce(recorded[OtherOf(w)], m)

ZenOpen == \A n \in ZenohNodes : zenStage[n] \notin {"closing", "left"}

\* What becomes of a message at QoS 1 and 2.
Located(w, m) ==
    /\ InOnePlace(w, m) /\ OnceThere(w, m)
    /\ \A k \in ZenPlaces : LiesIn(w, m, k) => m \in 1..tried[w]
    /\ ZenOpen /\ m \in 1..tried[w] => \E k \in ZenPlaces : LiesIn(w, m, k)

ZenTyped ==
    /\ zenStage \in [ZenohNodes -> ZenohStages]
    /\ tried \in [ZenohNodes -> Nat] /\ putting \in [ZenohNodes -> Nat]
    /\ skipped \in [ZenohNodes -> SUBSET Nat] /\ spawned \in [ZenohNodes -> SUBSET Nat]
    /\ missed \in [ZenohNodes -> SUBSET Nat]
    /\ bridge \in [ZenohNodes -> Seq(Nat)] /\ link \in [ZenohNodes -> Seq(Nat)]
    /\ recorded \in [ZenohNodes -> Seq(Nat)]
    /\ fifo \in [ZenohNodes -> Seq([from : ZenohNodes, seq : Nat])]

ZenInv ==
    /\ ZenTyped
    /\ ~InOrderOnly => /\ \A n \in ZenohNodes : putting[n] = 0
                       /\ \A w \in ZenohNodes, m \in Nat : Located(w, m)

LEMMA ZenInitHolds == ZenohInit => ZenInv
<1> SUFFICES ASSUME ZenohInit PROVE ZenInv
  OBVIOUS
<1>1. ZenTyped
  BY DEF ZenohInit, ZenTyped, ZenohStages
<1>2. ASSUME NEW w \in ZenohNodes, NEW m \in Nat PROVE Located(w, m)
  <2>1. OtherOf(w) \in ZenohNodes
    BY DEF OtherOf, ZenohNodes
  <2>2. /\ skipped[w] = {} /\ missed[w] = {} /\ spawned[w] = {} /\ tried[w] = 0
        /\ bridge[w] = <<>> /\ link[w] = <<>>
        /\ fifo[OtherOf(w)] = <<>> /\ recorded[OtherOf(w)] = <<>>
    BY <2>1 DEF ZenohInit
  <2>3. \A k : ~LiesIn(w, m, k)
    BY <2>2, NothingCarried DEF LiesIn
  <2>4. OnceThere(w, m)
    BY <2>2, NothingCarried DEF OnceThere
  <2>5. m \notin 1..tried[w]
    BY <2>2
  <2> QED BY <2>3, <2>4, <2>5 DEF Located, InOnePlace
<1>3. \A n \in ZenohNodes : putting[n] = 0
  BY DEF ZenohInit
<1> QED BY <1>1, <1>2, <1>3 DEF ZenInv

\* A message that is moved from one place to another one stays in one place.
LEMMA MovesOn ==
    ASSUME NEW w, NEW m, NEW a \in ZenPlaces, NEW b \in ZenPlaces, a # b,
           Located(w, m), LiesIn(w, m, a), ~LiesIn(w, m, a)', LiesIn(w, m, b)',
           \A k \in ZenPlaces \ {a, b} : LiesIn(w, m, k)' => LiesIn(w, m, k),
           OnceThere(w, m)', m \in 1..tried[w] => m \in 1..tried[w]'
    PROVE  Located(w, m)'
<1>1. \A k \in ZenPlaces : LiesIn(w, m, k) => k = a
  BY DEF Located, InOnePlace
<1>2. \A k \in ZenPlaces : LiesIn(w, m, k)' => k = b
  BY <1>1
<1>3. m \in 1..tried[w]'
  BY DEF Located
<1> QED BY <1>2, <1>3 DEF Located, InOnePlace

\* One that is not moved stays where it is.
LEMMA StaysThere ==
    ASSUME NEW w, NEW m, Located(w, m), OnceThere(w, m)',
           \A k \in ZenPlaces : LiesIn(w, m, k)' <=> LiesIn(w, m, k),
           m \in 1..tried[w] <=> m \in 1..tried[w]',
           ZenOpen' => ZenOpen
    PROVE  Located(w, m)'
BY DEF Located, InOnePlace

\* And when one end has closed, places may be emptied.
LEMMA OrIsGone ==
    ASSUME NEW w, NEW m, Located(w, m), OnceThere(w, m)',
           \A k \in ZenPlaces : LiesIn(w, m, k)' => LiesIn(w, m, k),
           tried' = tried, ~ZenOpen'
    PROVE  Located(w, m)'
BY DEF Located, InOnePlace

LEMMA ZenStepTyped == ZenTyped /\ [ZenohNext]_zenVars => ZenTyped'
<1> SUFFICES ASSUME ZenTyped, [ZenohNext]_zenVars PROVE ZenTyped'
  OBVIOUS
<1> DEFINE Tagged == [from : ZenohNodes, seq : Nat]
<1>t. /\ zenStage \in [ZenohNodes -> ZenohStages]
      /\ tried \in [ZenohNodes -> Nat] /\ putting \in [ZenohNodes -> Nat]
      /\ skipped \in [ZenohNodes -> SUBSET Nat] /\ spawned \in [ZenohNodes -> SUBSET Nat]
      /\ missed \in [ZenohNodes -> SUBSET Nat]
      /\ bridge \in [ZenohNodes -> Seq(Nat)] /\ link \in [ZenohNodes -> Seq(Nat)]
      /\ recorded \in [ZenohNodes -> Seq(Nat)]
      /\ fifo \in [ZenohNodes -> Seq(Tagged)]
  BY DEF ZenTyped
<1>h. \A S : \A s \in Seq(S) : s # <<>> => Head(s) \in S /\ Tail(s) \in Seq(S)
  OBVIOUS
<1>o. \A n \in ZenohNodes : OtherOf(n) \in ZenohNodes
  BY DEF OtherOf, ZenohNodes
<1>1. CASE UNCHANGED zenVars
  BY <1>t, <1>1 DEF zenVars, putVars, ZenTyped
<1>2. ASSUME NEW n \in ZenohNodes, NEW s \in ZenohStages, EnterStage(n, s),
             UNCHANGED <<tried, skipped, putVars, fifo, recorded, missed>>
      PROVE  ZenTyped'
  BY <1>t, <1>2 DEF EnterStage, putVars, ZenTyped
<1>3. ASSUME NEW n \in ZenohNodes,
             OpenSession(n) \/ AttachLogger(n) \/ StartOperate(n) \/ EndPublishing(n)
      PROVE  ZenTyped'
  BY <1>2, <1>3 DEF OpenSession, AttachLogger, StartOperate, EndPublishing, Before, ZenohStages
<1>4. ASSUME NEW n \in ZenohNodes, LearnInterest(n) PROVE ZenTyped'
  BY <1>t, <1>4 DEF LearnInterest, putVars, ZenTyped
<1>5. ASSUME NEW n \in ZenohNodes, ZenPublish(n) \/ ZenTryPublish(n) PROVE ZenTyped'
  <2>1. /\ tried' = [tried EXCEPT ![n] = @ + 1] /\ tried[n] + 1 \in Nat
        /\ UNCHANGED <<zenStage, putting, spawned, link, fifo, recorded, missed>>
    BY <1>t, <1>5 DEF ZenPublish, ZenTryPublish, Trying
  <2>2. \/ bridge' = [bridge EXCEPT ![n] = Append(@, tried[n] + 1)] /\ UNCHANGED skipped
        \/ skipped' = [skipped EXCEPT ![n] = @ \union {tried[n] + 1}] /\ UNCHANGED bridge
    BY <1>5 DEF ZenPublish, ZenTryPublish, Bridged
  <2>5. bridge[n] \in Seq(Nat) /\ skipped[n] \in SUBSET Nat
    BY <1>t
  <2>6. /\ Append(bridge[n], tried[n] + 1) \in Seq(Nat)
        /\ skipped[n] \union {tried[n] + 1} \in SUBSET Nat
    BY <2>1, <2>5
  <2>7. /\ [bridge EXCEPT ![n] = Append(@, tried[n] + 1)] \in [ZenohNodes -> Seq(Nat)]
        /\ [skipped EXCEPT ![n] = @ \union {tried[n] + 1}] \in [ZenohNodes -> SUBSET Nat]
    BY <1>t, <2>6, RowTyped, Zenon
  <2>3. bridge' \in [ZenohNodes -> Seq(Nat)] /\ skipped' \in [ZenohNodes -> SUBSET Nat]
    BY <1>t, <2>2, <2>7
  <2>4. tried' \in [ZenohNodes -> Nat]
    BY <1>t, <2>1
  <2> QED BY <1>t, <2>1, <2>3, <2>4 DEF ZenTyped
<1>6. ASSUME NEW n \in ZenohNodes, TakeFromBridge(n) \/ DeclareFails(n) PROVE ZenTyped'
  <2>1. bridge[n] \in Seq(Nat) /\ bridge[n] # <<>>
    BY <1>t, <1>6 DEF TakeFromBridge, DeclareFails
  <2>2. Head(bridge[n]) \in Nat /\ Tail(bridge[n]) \in Seq(Nat)
    BY <2>1, <1>h
  <2>3. bridge' = [bridge EXCEPT ![n] = Tail(bridge[n])]
    BY <1>6 DEF TakeFromBridge, DeclareFails
  <2>4. bridge' \in [ZenohNodes -> Seq(Nat)]
    BY <1>t, <2>2, <2>3
  <2>5. \/ putting' = [putting EXCEPT ![n] = Head(bridge[n])] /\ UNCHANGED <<spawned, missed>>
        \/ /\ spawned' = [spawned EXCEPT ![n] = @ \union {Head(bridge[n])}]
           /\ UNCHANGED <<putting, missed>>
        \/ /\ missed' = [missed EXCEPT ![n] = @ \union {Head(bridge[n])}]
           /\ UNCHANGED <<putting, spawned>>
    BY <1>6 DEF TakeFromBridge, DeclareFails
  <2>8. /\ spawned[n] \union {Head(bridge[n])} \in SUBSET Nat
        /\ missed[n] \union {Head(bridge[n])} \in SUBSET Nat
    BY <1>t, <2>2
  <2>9. /\ [putting EXCEPT ![n] = Head(bridge[n])] \in [ZenohNodes -> Nat]
        /\ [spawned EXCEPT ![n] = @ \union {Head(bridge[n])}] \in [ZenohNodes -> SUBSET Nat]
        /\ [missed EXCEPT ![n] = @ \union {Head(bridge[n])}] \in [ZenohNodes -> SUBSET Nat]
    BY <1>t, <2>2, <2>8, RowTyped, Zenon
  <2>6. /\ putting' \in [ZenohNodes -> Nat] /\ spawned' \in [ZenohNodes -> SUBSET Nat]
        /\ missed' \in [ZenohNodes -> SUBSET Nat]
    BY <1>t, <2>5, <2>9
  <2>7. UNCHANGED <<zenStage, tried, skipped, link, fifo, recorded>>
    BY <1>6 DEF TakeFromBridge, DeclareFails
  <2> QED BY <1>t, <2>4, <2>6, <2>7 DEF ZenTyped
<1>7. ASSUME NEW n \in ZenohNodes, PutEnds(n) PROVE ZenTyped'
  <2>1. PICK m \in Nat : ToItself(n, m) /\ ToPeer(n, m)
    <3>1. spawned[n] \subseteq Nat /\ putting[n] \in Nat
      BY <1>t
    <3> QED BY <1>7, <3>1 DEF PutEnds
  <2>2. /\ putting' \in [ZenohNodes -> Nat] /\ spawned' \in [ZenohNodes -> SUBSET Nat]
        /\ UNCHANGED <<zenStage, tried, skipped, bridge, recorded>>
    <3>1. \/ putting' = [putting EXCEPT ![n] = 0] /\ UNCHANGED spawned
          \/ \E x : spawned' = [spawned EXCEPT ![n] = @ \ {x}] /\ UNCHANGED putting
      BY <1>7 DEF PutEnds
    <3>2. \A x : spawned[n] \ {x} \in SUBSET Nat
      BY <1>t
    <3>3. \A x : [spawned EXCEPT ![n] = @ \ {x}] \in [ZenohNodes -> SUBSET Nat]
      BY <1>t, <3>2, RowTyped, Zenon
    <3>4. [putting EXCEPT ![n] = 0] \in [ZenohNodes -> Nat]
      BY <1>t
    <3>5. UNCHANGED <<zenStage, tried, skipped, bridge, recorded>>
      BY <1>7 DEF PutEnds
    <3>6. putting' \in [ZenohNodes -> Nat]
      BY <1>t, <3>1, <3>4
    <3>7. spawned' \in [ZenohNodes -> SUBSET Nat]
      BY <1>t, <3>1, <3>3
    <3> QED BY <3>5, <3>6, <3>7
  <2>3. fifo' = [fifo EXCEPT ![n] = Append(@, [from |-> n, seq |-> m])] \/ UNCHANGED fifo
    BY <2>1 DEF ToItself
  <2>4. [from |-> n, seq |-> m] \in Tagged /\ fifo[n] \in Seq(Tagged)
    BY <1>t
  <2>5. Append(fifo[n], [from |-> n, seq |-> m]) \in Seq(Tagged)
    BY <2>4
  <2>6. fifo' \in [ZenohNodes -> Seq(Tagged)]
    BY <1>t, <2>3, <2>5
  <2>8. link[n] \in Seq(Nat)
    BY <1>t
  <2>9. Append(link[n], m) \in Seq(Nat) /\ missed[n] \union {m} \in SUBSET Nat
    BY <1>t, <2>8
  <2>10. /\ [link EXCEPT ![n] = Append(@, m)] \in [ZenohNodes -> Seq(Nat)]
         /\ [missed EXCEPT ![n] = @ \union {m}] \in [ZenohNodes -> SUBSET Nat]
    BY <1>t, <2>9, RowTyped, Zenon
  <2>11. \/ link' = [link EXCEPT ![n] = Append(@, m)] /\ UNCHANGED missed
         \/ missed' = [missed EXCEPT ![n] = @ \union {m}] /\ UNCHANGED link
    BY <2>1 DEF ToPeer
  <2>7. link' \in [ZenohNodes -> Seq(Nat)] /\ missed' \in [ZenohNodes -> SUBSET Nat]
    BY <1>t, <2>10, <2>11
  <2> QED BY <1>t, <2>2, <2>6, <2>7 DEF ZenTyped
<1>8. ASSUME NEW n \in ZenohNodes, RouteSample(n) PROVE ZenTyped'
  <2>1. link[n] \in Seq(Nat) /\ link[n] # <<>>
    BY <1>t, <1>8 DEF RouteSample
  <2>2. Head(link[n]) \in Nat /\ Tail(link[n]) \in Seq(Nat)
    BY <2>1, <1>h
  <2>3. /\ link' = [link EXCEPT ![n] = Tail(link[n])]
        /\ fifo' = [fifo EXCEPT ![OtherOf(n)] = Append(@, [from |-> n, seq |-> Head(link[n])])]
        /\ UNCHANGED <<zenStage, tried, skipped, bridge, putting, spawned, recorded, missed>>
    BY <1>8 DEF RouteSample
  <2>4. [from |-> n, seq |-> Head(link[n])] \in Tagged
    BY <2>2
  <2>5. fifo[OtherOf(n)] \in Seq(Tagged)
    BY <1>t, <1>o
  <2>6. Append(fifo[OtherOf(n)], [from |-> n, seq |-> Head(link[n])]) \in Seq(Tagged)
    BY <2>4, <2>5
  <2>7. fifo' \in [ZenohNodes -> Seq(Tagged)] /\ link' \in [ZenohNodes -> Seq(Nat)]
    BY <1>t, <2>2, <2>3, <2>6
  <2> QED BY <1>t, <2>3, <2>7 DEF ZenTyped
<1>9. ASSUME NEW n \in ZenohNodes, ReceiveSample(n) PROVE ZenTyped'
  <2>1. fifo[n] \in Seq(Tagged) /\ fifo[n] # <<>>
    BY <1>t, <1>9 DEF ReceiveSample
  <2>2. Head(fifo[n]) \in Tagged /\ Tail(fifo[n]) \in Seq(Tagged)
    BY <2>1, <1>h
  <2>3. Head(fifo[n]).seq \in Nat /\ Head(fifo[n]).from \in ZenohNodes
    BY <2>2
  <2>4. /\ fifo' = [fifo EXCEPT ![n] = Tail(fifo[n])]
        /\ UNCHANGED <<zenStage, tried, skipped, putVars>>
    BY <1>9 DEF ReceiveSample
  <2>5. \/ UNCHANGED <<recorded, missed>>
        \/ recorded' = [recorded EXCEPT ![n] = Append(@, Head(fifo[n]).seq)] /\ UNCHANGED missed
        \/ /\ missed' = [missed EXCEPT ![Head(fifo[n]).from] = @ \union {Head(fifo[n]).seq}]
           /\ UNCHANGED recorded
    BY <1>9 DEF ReceiveSample
  <2>6. fifo' \in [ZenohNodes -> Seq(Tagged)]
    BY <1>t, <2>2, <2>4
  <2>8. recorded[n] \in Seq(Nat) /\ missed[Head(fifo[n]).from] \in SUBSET Nat
    BY <1>t, <2>3
  <2>9. /\ Append(recorded[n], Head(fifo[n]).seq) \in Seq(Nat)
        /\ missed[Head(fifo[n]).from] \union {Head(fifo[n]).seq} \in SUBSET Nat
    BY <2>3, <2>8
  <2>10. /\ [recorded EXCEPT ![n] = Append(@, Head(fifo[n]).seq)] \in [ZenohNodes -> Seq(Nat)]
         /\ [missed EXCEPT ![Head(fifo[n]).from] = @ \union {Head(fifo[n]).seq}]
               \in [ZenohNodes -> SUBSET Nat]
    BY <1>t, <2>3, <2>9, RowTyped, Zenon
  <2>7. recorded' \in [ZenohNodes -> Seq(Nat)] /\ missed' \in [ZenohNodes -> SUBSET Nat]
    BY <1>t, <2>5, <2>10
  <2> QED BY <1>t, <2>4, <2>6, <2>7 DEF ZenTyped, putVars
<1>10. ASSUME NEW n \in ZenohNodes, LeaveSession(n) PROVE ZenTyped'
  BY <1>t, <1>10 DEF LeaveSession, EnterStage, ZenohStages, putVars, ZenTyped
<1>11. ASSUME NEW n \in ZenohNodes, ShutDown(n) PROVE ZenTyped'
  <2>1. PICK left \in {link[n], <<>>} :
            link' = [link EXCEPT ![n] = left, ![OtherOf(n)] = <<>>]
    BY <1>11 DEF ShutDown
  <2>6. <<>> \in Seq(Nat) /\ link[n] \in Seq(Nat)
    BY <1>t
  <2>2. left \in Seq(Nat) /\ <<>> \in Seq(Nat)
    BY <2>1, <2>6
  <2>3. link' \in [ZenohNodes -> Seq(Nat)]
    BY <1>t, <1>o, <2>1, <2>2
  <2>4. /\ bridge' \in [ZenohNodes -> Seq(Nat)] /\ putting' \in [ZenohNodes -> Nat]
        /\ spawned' \in [ZenohNodes -> SUBSET Nat]
        /\ UNCHANGED <<tried, skipped, fifo, recorded, missed>>
    BY <1>t, <1>11, <2>2 DEF ShutDown
  <2>5. zenStage' \in [ZenohNodes -> ZenohStages]
    BY <1>t, <1>11 DEF ShutDown, EnterStage, ZenohStages
  <2> QED BY <1>t, <2>3, <2>4, <2>5 DEF ZenTyped
<1> QED
  BY <1>1, <1>3, <1>4, <1>5, <1>6, <1>7, <1>8, <1>9, <1>10, <1>11 DEF ZenohNext

\* A sequence that is changed, but not where x is concerned.
Same(s, t, x) == (Carries(t, x) <=> Carries(s, x)) /\ (CarriesOnce(s, x) => CarriesOnce(t, x))

LEMMA AppendIsSame ==
    ASSUME NEW T, NEW s \in Seq(T), NEW y \in T, NEW x, x # y
    PROVE  Same(s, Append(s, y), x)
BY AppendCarries DEF Same

LEMMA TailIsSame ==
    ASSUME NEW T, NEW s \in Seq(T), s # <<>>, NEW x, x # Head(s)
    PROVE  Same(s, Tail(s), x)
BY TailCarries DEF Same

LEMMA NotMoved ==
    ASSUME NEW w, NEW m, Located(w, m),
           m \in skipped'[w] <=> m \in skipped[w],
           m \in missed'[w] <=> m \in missed[w],
           m \in spawned'[w] <=> m \in spawned[w],
           Same(bridge[w], bridge'[w], m), Same(link[w], link'[w], m),
           Same(fifo[OtherOf(w)], fifo'[OtherOf(w)], SampleOf(w, m)),
           Same(recorded[OtherOf(w)], recorded'[OtherOf(w)], m),
           m \in 1..tried'[w] <=> m \in 1..tried[w],
           ZenOpen' => ZenOpen
    PROVE  Located(w, m)'
<1>1. OnceThere(w, m)'
  BY DEF Located, OnceThere, Same
<1>2. \A k \in ZenPlaces : LiesIn(w, m, k)' <=> LiesIn(w, m, k)
  BY DEF LiesIn, Same
<1> QED BY <1>1, <1>2, StaysThere

\* A message that the driver has just tried to publish is in its first place.
LEMMA TakesPlace ==
    ASSUME NEW w, NEW m, NEW b \in ZenPlaces, Located(w, m), m \notin 1..tried[w],
           \A k \in ZenPlaces : LiesIn(w, m, k)' => k = b \/ LiesIn(w, m, k),
           LiesIn(w, m, b)', OnceThere(w, m)', m \in 1..tried'[w]
    PROVE  Located(w, m)'
<1>1. \A k \in ZenPlaces : ~LiesIn(w, m, k)
  BY DEF Located
<1> QED BY <1>1 DEF Located, InOnePlace

LEMMA TwoNodes ==
    ASSUME NEW n \in ZenohNodes, NEW w \in ZenohNodes
    PROVE  /\ OtherOf(n) \in ZenohNodes /\ OtherOf(n) # n /\ OtherOf(OtherOf(n)) = n
           /\ w # n => w = OtherOf(n) /\ OtherOf(w) = n
BY DEF OtherOf, ZenohNodes

\* Stages that a node goes through before it closes its session.
LEMMA StagesMoveNothing ==
    ASSUME ZenTyped, NEW n \in ZenohNodes, NEW w \in ZenohNodes, NEW m \in Nat, Located(w, m),
           \/ OpenSession(n) \/ AttachLogger(n) \/ LearnInterest(n) \/ StartOperate(n)
           \/ EndPublishing(n)
    PROVE  Located(w, m)'
<1>1. UNCHANGED <<tried, skipped, bridge, putting, spawned, link, fifo, recorded, missed>>
  BY DEF OpenSession, AttachLogger, LearnInterest, StartOperate, EndPublishing, Before, putVars
<1>2. zenStage \in [ZenohNodes -> ZenohStages]
  BY DEF ZenTyped
<1>3. \/ zenStage' = zenStage
      \/ /\ zenStage[n] \in {"down", "connected", "attached", "operate"}
         /\ \E s : zenStage' = [zenStage EXCEPT ![n] = s]
  BY DEF OpenSession, AttachLogger, LearnInterest, StartOperate, EndPublishing, Before, EnterStage
<1>4. ZenOpen' => ZenOpen
  BY <1>2, <1>3 DEF ZenOpen
<1> QED BY <1>1, <1>4, NotMoved DEF Same

LEMMA PublishLocates ==
    ASSUME ZenTyped, ~InOrderOnly, NEW n \in ZenohNodes, NEW w \in ZenohNodes, NEW m \in Nat,
           Located(w, m), ZenPublish(n) \/ ZenTryPublish(n)
    PROVE  Located(w, m)'
<1> DEFINE x == tried[n] + 1
<1>1. /\ tried \in [ZenohNodes -> Nat] /\ bridge \in [ZenohNodes -> Seq(Nat)]
      /\ skipped \in [ZenohNodes -> SUBSET Nat]
  BY DEF ZenTyped
<1>2. /\ tried[n] \in Nat /\ x \in Nat /\ bridge[n] \in Seq(Nat) /\ skipped[n] \subseteq Nat
  BY <1>1
<1>3. /\ tried' = [tried EXCEPT ![n] = x]
      /\ UNCHANGED <<zenStage, putting, spawned, link, fifo, recorded, missed>>
      /\ \/ bridge' = [bridge EXCEPT ![n] = Append(@, x)] /\ UNCHANGED skipped
         \/ skipped' = [skipped EXCEPT ![n] = @ \union {x}] /\ UNCHANGED bridge
  BY DEF ZenPublish, ZenTryPublish, Trying, Bridged
<1>4. /\ tried'[n] = x
      /\ w # n => tried'[w] = tried[w] /\ bridge'[w] = bridge[w] /\ skipped'[w] = skipped[w]
      /\ \/ bridge'[n] = Append(bridge[n], x) /\ skipped'[n] = skipped[n]
         \/ skipped'[n] = skipped[n] \union {x} /\ bridge'[n] = bridge[n]
  BY <1>1, <1>3
<1>5. ZenOpen' => ZenOpen
  BY <1>3 DEF ZenOpen
<1> HIDE DEF x
<1>6. CASE w # n
  BY <1>3, <1>4, <1>5, <1>6, NotMoved DEF Same
<1>7. CASE w = n /\ m # x
  <2>1. Same(bridge[n], bridge'[n], m)
    BY <1>2, <1>4, <1>7, AppendIsSame DEF Same
  <2>2. m \in 1..tried'[n] <=> m \in 1..tried[n]
    BY <1>2, <1>4, <1>7 DEF x
  <2>3. m \in skipped'[n] <=> m \in skipped[n]
    BY <1>4, <1>7
  <2> QED BY <1>3, <1>5, <1>7, <2>1, <2>2, <2>3, NotMoved DEF Same
<1>8. CASE w = n /\ m = x
  <2>1. m \notin 1..tried[n] /\ m \in 1..tried'[n]
    BY <1>2, <1>4, <1>8 DEF x
  <2>2. OnceThere(n, m) /\ \A k \in ZenPlaces : ~LiesIn(n, m, k)
    BY <1>8, <2>1 DEF Located
  <2>3. ~Carries(bridge[n], m)
    BY <2>2 DEF LiesIn, ZenPlaces
  <2>4. CarriesOnce(bridge'[n], m)
    <3>1. CarriesOnce(bridge[n], x) /\ ~Carries(bridge[n], x)
      BY <1>8, <2>2, <2>3 DEF OnceThere
    <3>2. CarriesOnce(Append(bridge[n], x), x)
      BY <1>2, <3>1, AppendCarries
    <3> QED BY <1>4, <1>8, <3>1, <3>2
  <2>5. OnceThere(n, m)'
    BY <1>3, <2>2, <2>4 DEF OnceThere
  <2>6. CASE bridge'[n] = Append(bridge[n], x) /\ skipped'[n] = skipped[n]
    <3>1. Carries(bridge'[n], m)
      BY <1>2, <1>8, <2>6, AppendCarries
    <3>2. LiesIn(n, m, "bridge")'
      BY <3>1 DEF LiesIn
    <3>3. \A k \in ZenPlaces : LiesIn(n, m, k)' => k = "bridge" \/ LiesIn(n, m, k)
      BY <1>3, <2>6 DEF LiesIn
    <3>4. "bridge" \in ZenPlaces
      BY DEF ZenPlaces
    <3> QED BY <1>8, <2>1, <2>5, <3>2, <3>3, <3>4, TakesPlace
  <2>7. CASE skipped'[n] = skipped[n] \union {x} /\ bridge'[n] = bridge[n]
    <3>1. LiesIn(n, m, "skipped")'
      BY <1>8, <2>7 DEF LiesIn
    <3>2. \A k \in ZenPlaces : LiesIn(n, m, k)' => k = "skipped" \/ LiesIn(n, m, k)
      BY <1>3, <2>7 DEF LiesIn
    <3>3. "skipped" \in ZenPlaces
      BY DEF ZenPlaces
    <3> QED BY <1>8, <2>1, <2>5, <3>1, <3>2, <3>3, TakesPlace
  <2> QED BY <1>4, <2>6, <2>7
<1> QED BY <1>6, <1>7, <1>8

LEMMA TakeLocates ==
    ASSUME ZenTyped, ~InOrderOnly, NEW n \in ZenohNodes, NEW w \in ZenohNodes, NEW m \in Nat,
           Located(w, m), TakeFromBridge(n) \/ DeclareFails(n)
    PROVE  Located(w, m)'
<1> DEFINE x == Head(bridge[n])
<1>1. /\ bridge \in [ZenohNodes -> Seq(Nat)] /\ spawned \in [ZenohNodes -> SUBSET Nat]
      /\ missed \in [ZenohNodes -> SUBSET Nat]
  BY DEF ZenTyped
<1>2. bridge[n] \in Seq(Nat) /\ bridge[n] # <<>>
  BY <1>1 DEF TakeFromBridge, DeclareFails
<1>3. /\ bridge' = [bridge EXCEPT ![n] = Tail(@)]
      /\ UNCHANGED <<zenStage, tried, skipped, link, fifo, recorded>>
      /\ \/ spawned' = [spawned EXCEPT ![n] = @ \union {x}] /\ UNCHANGED missed
         \/ missed' = [missed EXCEPT ![n] = @ \union {x}] /\ UNCHANGED spawned
  BY DEF TakeFromBridge, DeclareFails, AwaitsPut
<1>4. /\ bridge'[n] = Tail(bridge[n])
      /\ w # n => bridge'[w] = bridge[w] /\ spawned'[w] = spawned[w] /\ missed'[w] = missed[w]
      /\ \/ spawned'[n] = spawned[n] \union {x} /\ missed'[n] = missed[n]
         \/ missed'[n] = missed[n] \union {x} /\ spawned'[n] = spawned[n]
  BY <1>1, <1>3
<1>5. ZenOpen' => ZenOpen
  BY <1>3 DEF ZenOpen
<1> HIDE DEF x
<1>6. CASE w # n
  BY <1>3, <1>4, <1>5, <1>6, NotMoved DEF Same
<1>7. CASE w = n /\ m # x
  <2>1. Same(bridge[n], bridge'[n], m)
    BY <1>2, <1>4, <1>7, TailIsSame DEF x
  <2>2. (m \in spawned'[n] <=> m \in spawned[n]) /\ (m \in missed'[n] <=> m \in missed[n])
    BY <1>4, <1>7
  <2> QED BY <1>3, <1>5, <1>7, <2>1, <2>2, NotMoved DEF Same
<1>8. CASE w = n /\ m = x
  <2>1. OnceThere(n, m)
    BY <1>8 DEF Located
  <2>2. Carries(bridge[n], m) /\ CarriesOnce(bridge'[n], m) /\ ~Carries(bridge'[n], m)
    BY <1>2, <1>4, <1>8, <2>1, TailCarries DEF OnceThere, x
  <2>3. OnceThere(n, m)'
    BY <1>3, <2>1, <2>2 DEF OnceThere
  <2>4. LiesIn(n, m, "bridge") /\ ~LiesIn(n, m, "bridge")'
    BY <2>2 DEF LiesIn
  <2>5. {"bridge", "task", "missed"} \subseteq ZenPlaces
    BY DEF ZenPlaces
  <2>6. PICK b \in {"task", "missed"} :
            /\ LiesIn(n, m, b)'
            /\ \A k \in ZenPlaces \ {"bridge", b} : LiesIn(n, m, k)' => LiesIn(n, m, k)
    <3>1. ASSUME spawned'[n] = spawned[n] \union {x}, missed'[n] = missed[n]
          PROVE  /\ LiesIn(n, m, "task")'
                 /\ \A k \in ZenPlaces \ {"bridge", "task"} :
                        LiesIn(n, m, k)' => LiesIn(n, m, k)
      BY <1>3, <1>8, <3>1 DEF LiesIn
    <3>2. ASSUME missed'[n] = missed[n] \union {x}, spawned'[n] = spawned[n]
          PROVE  /\ LiesIn(n, m, "missed")'
                 /\ \A k \in ZenPlaces \ {"bridge", "missed"} :
                        LiesIn(n, m, k)' => LiesIn(n, m, k)
      BY <1>3, <1>8, <3>2 DEF LiesIn
    <3> QED BY <1>4, <3>1, <3>2
  <2>7. b \in ZenPlaces /\ b # "bridge"
    BY <2>5, <2>6
  <2> QED BY <1>3, <1>8, <2>3, <2>4, <2>5, <2>6, <2>7, MovesOn
<1> QED BY <1>6, <1>7, <1>8

LEMMA PutLocates ==
    ASSUME ZenTyped, ~InOrderOnly, NEW n \in ZenohNodes, NEW w \in ZenohNodes, NEW m \in Nat,
           putting[n] = 0, Located(w, m), PutEnds(n)
    PROVE  Located(w, m)'
<1>1. /\ link \in [ZenohNodes -> Seq(Nat)] /\ spawned \in [ZenohNodes -> SUBSET Nat]
      /\ missed \in [ZenohNodes -> SUBSET Nat]
      /\ fifo \in [ZenohNodes -> Seq([from : ZenohNodes, seq : Nat])]
  BY DEF ZenTyped
<1>2. PICK x \in spawned[n] :
          /\ ToItself(n, x) /\ ToPeer(n, x) /\ spawned' = [spawned EXCEPT ![n] = @ \ {x}]
          /\ UNCHANGED <<zenStage, tried, skipped, bridge, recorded>>
  BY DEF PutEnds
<1>3. x \in Nat /\ link[n] \in Seq(Nat) /\ SampleOf(n, x) \in [from : ZenohNodes, seq : Nat]
  BY <1>1 DEF SampleOf
<1>4. fifo' = fifo \/ fifo' = [fifo EXCEPT ![n] = Append(@, SampleOf(n, x))]
  BY <1>2 DEF ToItself, SampleOf
<1>5. \/ link' = [link EXCEPT ![n] = Append(@, x)] /\ UNCHANGED missed
      \/ missed' = [missed EXCEPT ![n] = @ \union {x}] /\ UNCHANGED link
  BY <1>2 DEF ToPeer
<1>6. /\ spawned'[n] = spawned[n] \ {x}
      /\ w # n => link'[w] = link[w] /\ spawned'[w] = spawned[w] /\ missed'[w] = missed[w]
      /\ \/ link'[n] = Append(link[n], x) /\ missed'[n] = missed[n]
         \/ missed'[n] = missed[n] \union {x} /\ link'[n] = link[n]
  BY <1>1, <1>2, <1>5
<1>7. ZenOpen' => ZenOpen
  BY <1>2 DEF ZenOpen
<1>8. fifo'[OtherOf(n)] = fifo[OtherOf(n)]
  BY <1>1, <1>4, TwoNodes
<1>9. CASE w # n
  <2>1. w = OtherOf(n) /\ OtherOf(w) = n
    BY <1>9, TwoNodes
  <2>2. SampleOf(w, m) # SampleOf(n, x) /\ fifo[n] \in Seq([from : ZenohNodes, seq : Nat])
    BY <1>1, <1>9 DEF SampleOf
  <2>3. Same(fifo[n], Append(fifo[n], SampleOf(n, x)), SampleOf(w, m))
    BY <1>3, <2>2, AppendIsSame
  <2>4. fifo'[n] = fifo[n] \/ fifo'[n] = Append(fifo[n], SampleOf(n, x))
    BY <1>1, <1>4
  <2>5. Same(fifo[n], fifo'[n], SampleOf(w, m))
    BY <2>3, <2>4 DEF Same
  <2> QED BY <1>2, <1>6, <1>7, <1>9, <2>1, <2>5, NotMoved DEF Same
<1>10. CASE w = n /\ m # x
  <2>1. Same(link[n], link'[n], m)
    <3>1. Same(link[n], Append(link[n], x), m)
      BY <1>3, <1>10, AppendIsSame
    <3> QED BY <1>6, <3>1 DEF Same
  <2>2. (m \in spawned'[n] <=> m \in spawned[n]) /\ (m \in missed'[n] <=> m \in missed[n])
    BY <1>6, <1>10
  <2> QED BY <1>2, <1>7, <1>8, <1>10, <2>1, <2>2, NotMoved DEF Same
<1>11. CASE w = n /\ m = x
  <2>1. OnceThere(n, m) /\ LiesIn(n, m, "task")
    BY <1>11 DEF Located, LiesIn
  <2>2. {"task", "link", "missed"} \subseteq ZenPlaces
    BY DEF ZenPlaces
  <2>3. ~Carries(link[n], m) /\ CarriesOnce(link[n], m)
    <3>1. ~LiesIn(n, m, "link")
      BY <1>11, <2>1, <2>2 DEF Located, InOnePlace
    <3> QED BY <2>1, <3>1 DEF LiesIn, OnceThere
  <2>4. CarriesOnce(Append(link[n], x), m) /\ Carries(Append(link[n], x), m)
    BY <1>3, <1>11, <2>3, AppendCarries
  <2>5. CarriesOnce(link'[n], m)
    BY <1>6, <2>3, <2>4
  <2>6. OnceThere(n, m)'
    BY <1>2, <1>8, <2>1, <2>5 DEF OnceThere
  <2>7. ~LiesIn(n, m, "task")'
    BY <1>6, <1>11 DEF LiesIn
  <2>8. PICK b \in {"link", "missed"} :
            /\ LiesIn(n, m, b)'
            /\ \A k \in ZenPlaces \ {"task", b} : LiesIn(n, m, k)' => LiesIn(n, m, k)
    <3>1. ASSUME link'[n] = Append(link[n], x), missed'[n] = missed[n]
          PROVE  /\ LiesIn(n, m, "link")'
                 /\ \A k \in ZenPlaces \ {"task", "link"} :
                        LiesIn(n, m, k)' => LiesIn(n, m, k)
      BY <1>2, <1>8, <1>11, <2>4, <3>1 DEF LiesIn
    <3>2. ASSUME missed'[n] = missed[n] \union {x}, link'[n] = link[n]
          PROVE  /\ LiesIn(n, m, "missed")'
                 /\ \A k \in ZenPlaces \ {"task", "missed"} :
                        LiesIn(n, m, k)' => LiesIn(n, m, k)
      BY <1>2, <1>8, <1>11, <3>2 DEF LiesIn
    <3> QED BY <1>6, <3>1, <3>2
  <2>9. b \in ZenPlaces /\ b # "task"
    BY <2>2, <2>8
  <2> QED BY <1>2, <1>11, <2>1, <2>2, <2>6, <2>7, <2>8, <2>9, MovesOn
<1> QED BY <1>9, <1>10, <1>11

LEMMA RouteLocates ==
    ASSUME ZenTyped, ~InOrderOnly, NEW n \in ZenohNodes, NEW w \in ZenohNodes, NEW m \in Nat,
           Located(w, m), RouteSample(n)
    PROVE  Located(w, m)'
<1> DEFINE x == Head(link[n])
           r == OtherOf(n)
           Tagged == [from : ZenohNodes, seq : Nat]
<1>1. /\ link \in [ZenohNodes -> Seq(Nat)] /\ fifo \in [ZenohNodes -> Seq(Tagged)]
      /\ r \in ZenohNodes /\ r # n
  BY TwoNodes DEF ZenTyped
<1>2. link[n] \in Seq(Nat) /\ link[n] # <<>> /\ fifo[r] \in Seq(Tagged)
  BY <1>1 DEF RouteSample
<1>3. x \in Nat /\ SampleOf(n, x) \in Tagged
  BY <1>2 DEF SampleOf
<1>4. /\ link' = [link EXCEPT ![n] = Tail(@)]
      /\ fifo' = [fifo EXCEPT ![r] = Append(@, SampleOf(n, x))]
      /\ UNCHANGED <<zenStage, tried, skipped, bridge, putting, spawned, recorded, missed>>
  BY DEF RouteSample, SampleOf
<1>5. /\ link'[n] = Tail(link[n]) /\ fifo'[r] = Append(fifo[r], SampleOf(n, x))
      /\ fifo'[n] = fifo[n]
      /\ w # n => link'[w] = link[w]
  BY <1>1, <1>4
<1>6. ZenOpen' => ZenOpen
  BY <1>4 DEF ZenOpen
<1> HIDE DEF x, r
<1>7. CASE w # n
  <2>1. OtherOf(w) = n
    BY <1>7, TwoNodes
  <2> QED BY <1>4, <1>5, <1>6, <1>7, <2>1, NotMoved DEF Same
<1>8. CASE w = n /\ m # x
  <2>1. Same(link[n], link'[n], m)
    BY <1>2, <1>5, <1>8, TailIsSame DEF x
  <2>2. SampleOf(n, m) # SampleOf(n, x)
    BY <1>8 DEF SampleOf
  <2>3. Same(fifo[r], fifo'[r], SampleOf(n, m))
    BY <1>2, <1>3, <1>5, <2>2, AppendIsSame
  <2> QED BY <1>4, <1>6, <1>8, <2>1, <2>3, NotMoved DEF Same, r
<1>9. CASE w = n /\ m = x
  <2>1. OnceThere(n, m)
    BY <1>9 DEF Located
  <2>2. Carries(link[n], m) /\ CarriesOnce(link'[n], m) /\ ~Carries(link'[n], m)
    BY <1>2, <1>5, <1>9, <2>1, TailCarries DEF OnceThere, x
  <2>3. LiesIn(n, m, "link") /\ ~LiesIn(n, m, "link")'
    BY <2>2 DEF LiesIn
  <2>4. "link" \in ZenPlaces /\ "fifo" \in ZenPlaces /\ "link" # "fifo"
    BY DEF ZenPlaces
  <2>5. ~Carries(fifo[r], SampleOf(n, m)) /\ CarriesOnce(fifo[r], SampleOf(n, m))
    <3>1. ~LiesIn(n, m, "fifo")
      BY <1>9, <2>3, <2>4 DEF Located, InOnePlace
    <3> QED BY <2>1, <3>1 DEF LiesIn, OnceThere, r
  <2>6. Carries(fifo'[r], SampleOf(n, m)) /\ CarriesOnce(fifo'[r], SampleOf(n, m))
    <3>1. SampleOf(n, m) = SampleOf(n, x)
      BY <1>9
    <3>2. ~Carries(fifo[r], SampleOf(n, x)) /\ CarriesOnce(fifo[r], SampleOf(n, x))
      BY <2>5, <3>1
    <3>3. ASSUME NEW y \in Tagged, ~Carries(fifo[r], y), CarriesOnce(fifo[r], y)
          PROVE  Carries(Append(fifo[r], y), y) /\ CarriesOnce(Append(fifo[r], y), y)
      <4> HIDE DEF Tagged
      <4> QED BY <1>2, <3>3, AppendCarries
    <3> QED BY <1>3, <1>5, <3>1, <3>2, <3>3
  <2>7. OnceThere(n, m)'
    BY <1>4, <2>1, <2>2, <2>6 DEF OnceThere, r
  <2>8. LiesIn(n, m, "fifo")'
    BY <2>6 DEF LiesIn, r
  <2>9. \A k \in ZenPlaces \ {"link", "fifo"} : LiesIn(n, m, k)' => LiesIn(n, m, k)
    BY <1>4 DEF LiesIn
  <2> QED BY <1>4, <1>9, <2>3, <2>4, <2>7, <2>8, <2>9, MovesOn
<1> QED BY <1>7, <1>8, <1>9

LEMMA ReceiveLocates ==
    ASSUME ZenTyped, ~InOrderOnly, NEW n \in ZenohNodes, NEW w \in ZenohNodes, NEW m \in Nat,
           Located(w, m), ReceiveSample(n)
    PROVE  Located(w, m)'
<1> DEFINE s == Head(fifo[n])
           Tagged == [from : ZenohNodes, seq : Nat]
<1>1. /\ fifo \in [ZenohNodes -> Seq(Tagged)] /\ recorded \in [ZenohNodes -> Seq(Nat)]
      /\ missed \in [ZenohNodes -> SUBSET Nat]
  BY DEF ZenTyped
<1>2. fifo[n] \in Seq(Tagged) /\ fifo[n] # <<>> /\ recorded[n] \in Seq(Nat)
  BY <1>1 DEF ReceiveSample
<1>3. s \in Tagged
  <2>1. \A S : \A q \in Seq(S) : q # <<>> => Head(q) \in S
    OBVIOUS
  <2> QED BY <1>2, <2>1
<1>4. s.seq \in Nat /\ s.from \in ZenohNodes /\ s = SampleOf(s.from, s.seq)
  BY <1>3 DEF SampleOf
<1>5. /\ fifo' = [fifo EXCEPT ![n] = Tail(@)]
      /\ UNCHANGED <<zenStage, tried, skipped, bridge, putting, spawned, link>>
      /\ \/ s.from = n /\ UNCHANGED <<recorded, missed>>
         \/ /\ s.from # n /\ recorded' = [recorded EXCEPT ![n] = Append(@, s.seq)]
            /\ UNCHANGED missed
         \/ /\ s.from # n /\ missed' = [missed EXCEPT ![s.from] = @ \union {s.seq}]
            /\ UNCHANGED recorded
  BY DEF ReceiveSample, putVars, IsOwn
<1>6. ZenOpen' => ZenOpen
  BY <1>5 DEF ZenOpen
<1> HIDE DEF s
<1>7. fifo'[n] = Tail(fifo[n]) /\ fifo'[OtherOf(n)] = fifo[OtherOf(n)]
  BY <1>1, <1>5, TwoNodes
<1>8. \/ s.from = n /\ UNCHANGED <<recorded, missed>>
      \/ /\ s.from # n /\ recorded'[n] = Append(recorded[n], s.seq)
         /\ recorded'[OtherOf(n)] = recorded[OtherOf(n)] /\ UNCHANGED missed
      \/ /\ s.from # n /\ missed'[s.from] = missed[s.from] \union {s.seq}
         /\ missed'[n] = missed[n] /\ UNCHANGED recorded
  BY <1>1, <1>4, <1>5, TwoNodes
<1>9. CASE w = n
  <2>1. missed'[n] = missed[n] /\ recorded'[OtherOf(n)] = recorded[OtherOf(n)]
    BY <1>8
  <2> QED BY <1>5, <1>6, <1>7, <1>9, <2>1, NotMoved DEF Same
<1>10. CASE w # n /\ SampleOf(w, m) # s
  <2>1. w = OtherOf(n) /\ OtherOf(w) = n
    BY <1>10, TwoNodes
  <2>2. Same(fifo[n], fifo'[n], SampleOf(w, m))
    BY <1>2, <1>7, <1>10, TailIsSame DEF s
  <2>3. s.from # n => s.from = w /\ s.seq # m
    BY <1>4, <1>10, TwoNodes
  <2>4. m \in missed'[w] <=> m \in missed[w]
    BY <1>8, <2>3
  <2>5. Same(recorded[n], recorded'[n], m)
    <3>1. s.seq # m => Same(recorded[n], Append(recorded[n], s.seq), m)
      BY <1>2, <1>4, AppendIsSame
    <3> QED BY <1>8, <2>3, <3>1 DEF Same
  <2> QED BY <1>5, <1>6, <2>1, <2>2, <2>4, <2>5, NotMoved DEF Same
<1>11. CASE w # n /\ SampleOf(w, m) = s
  <2>1. w = OtherOf(n) /\ OtherOf(w) = n /\ s.from = w /\ s.seq = m
    BY <1>11, TwoNodes DEF SampleOf
  <2>2. OnceThere(w, m)
    BY DEF Located
  <2>3. /\ Carries(fifo[n], SampleOf(w, m)) /\ CarriesOnce(fifo'[n], SampleOf(w, m))
        /\ ~Carries(fifo'[n], SampleOf(w, m))
    BY <1>2, <1>7, <1>11, <2>1, <2>2, TailCarries DEF OnceThere, s
  <2>4. LiesIn(w, m, "fifo") /\ ~LiesIn(w, m, "fifo")'
    BY <2>1, <2>3 DEF LiesIn
  <2>5. {"fifo", "log", "missed"} \subseteq ZenPlaces
    BY DEF ZenPlaces
  <2>6. ~Carries(recorded[n], m) /\ CarriesOnce(recorded[n], m)
    <3>1. ~LiesIn(w, m, "log")
      BY <2>4, <2>5 DEF Located, InOnePlace
    <3> QED BY <2>1, <2>2, <3>1 DEF LiesIn, OnceThere
  <2>7. /\ CarriesOnce(Append(recorded[n], m), m) /\ Carries(Append(recorded[n], m), m)
    BY <1>2, <2>6, AppendCarries
  <2>8. CarriesOnce(recorded'[n], m)
    BY <1>8, <2>1, <2>6, <2>7
  <2>9. OnceThere(w, m)'
    BY <1>5, <2>1, <2>2, <2>3, <2>8 DEF OnceThere
  <2>10. PICK b \in {"log", "missed"} :
            /\ LiesIn(w, m, b)'
            /\ \A k \in ZenPlaces \ {"fifo", b} : LiesIn(w, m, k)' => LiesIn(w, m, k)
    <3>1. ASSUME recorded'[n] = Append(recorded[n], m), missed'[w] = missed[w]
          PROVE  /\ LiesIn(w, m, "log")'
                 /\ \A k \in ZenPlaces \ {"fifo", "log"} :
                        LiesIn(w, m, k)' => LiesIn(w, m, k)
      BY <1>5, <2>1, <2>7, <3>1 DEF LiesIn
    <3>2. ASSUME missed'[w] = missed[w] \union {m}, recorded'[n] = recorded[n]
          PROVE  /\ LiesIn(w, m, "missed")'
                 /\ \A k \in ZenPlaces \ {"fifo", "missed"} :
                        LiesIn(w, m, k)' => LiesIn(w, m, k)
      BY <1>5, <2>1, <3>2 DEF LiesIn
    <3> QED BY <1>8, <1>11, <2>1, <3>1, <3>2
  <2>11. b \in ZenPlaces /\ b # "fifo"
    BY <2>5, <2>10
  <2> QED BY <1>5, <2>4, <2>5, <2>9, <2>10, <2>11, MovesOn
<1> QED BY <1>9, <1>10, <1>11

LEMMA LeaveLocates ==
    ASSUME ZenTyped, NEW n \in ZenohNodes, NEW w \in ZenohNodes, NEW m \in Nat,
           Located(w, m), LeaveSession(n) \/ ShutDown(n)
    PROVE  Located(w, m)'
<1>1. /\ zenStage \in [ZenohNodes -> ZenohStages]
      /\ bridge \in [ZenohNodes -> Seq(Nat)] /\ spawned \in [ZenohNodes -> SUBSET Nat]
      /\ link \in [ZenohNodes -> Seq(Nat)]
      /\ fifo \in [ZenohNodes -> Seq([from : ZenohNodes, seq : Nat])]
  BY DEF ZenTyped
<1>2. ~ZenOpen'
  <2>1. zenStage'[n] \in {"closing", "left"}
    BY <1>1 DEF LeaveSession, ShutDown, EnterStage
  <2> QED BY <2>1 DEF ZenOpen
<1>3. UNCHANGED <<tried, skipped, recorded, missed>>
  BY DEF LeaveSession, ShutDown
<1>4. \A v \in ZenohNodes :
        /\ bridge'[v] = bridge[v] \/ bridge'[v] = <<>>
        /\ link'[v] = link[v] \/ link'[v] = <<>>
        /\ fifo'[v] = fifo[v] \/ fifo'[v] = <<>>
        /\ spawned'[v] = spawned[v] \/ spawned'[v] = {}
  <2>1. CASE LeaveSession(n)
    BY <1>1, <2>1 DEF LeaveSession, putVars
  <2>2. CASE ShutDown(n)
    <3>1. /\ bridge' = [bridge EXCEPT ![n] = <<>>] /\ spawned' = [spawned EXCEPT ![n] = {}]
          /\ fifo' = fifo
          /\ \E left \in {link[n], <<>>} :
                link' = [link EXCEPT ![n] = left, ![OtherOf(n)] = <<>>]
      BY <2>2 DEF ShutDown
    <3> QED BY <1>1, <3>1, TwoNodes
  <2> QED BY <2>1, <2>2
<1>5. OtherOf(w) \in ZenohNodes
  BY TwoNodes
<1>6. OnceThere(w, m)'
  BY <1>3, <1>4, <1>5, NothingCarried DEF Located, OnceThere
<1>7. \A k \in ZenPlaces : LiesIn(w, m, k)' => LiesIn(w, m, k)
  BY <1>3, <1>4, <1>5, NothingCarried DEF LiesIn
<1> QED BY <1>2, <1>3, <1>6, <1>7, OrIsGone

LEMMA ZenStep == ZenInv /\ [ZenohNext]_zenVars => ZenInv'
<1> SUFFICES ASSUME ZenInv, [ZenohNext]_zenVars PROVE ZenInv'
  OBVIOUS
<1>1. ZenTyped /\ ZenTyped'
  BY ZenStepTyped DEF ZenInv
<1>2. zen' = zen
  BY DEF ZenohNext, zenVars, OpenSession, AttachLogger, LearnInterest, StartOperate, ZenPublish,
         ZenTryPublish, Trying, TakeFromBridge, DeclareFails, PutEnds, RouteSample,
         ReceiveSample, EndPublishing, LeaveSession, ShutDown, Before
<1>3. InOrderOnly' <=> InOrderOnly
  BY <1>2 DEF InOrderOnly
<1>4. CASE InOrderOnly
  BY <1>1, <1>3, <1>4 DEF ZenInv
<1>5. CASE ~InOrderOnly
  <2>1. /\ \A n \in ZenohNodes : putting[n] = 0
        /\ \A w \in ZenohNodes, m \in Nat : Located(w, m)
    BY <1>5 DEF ZenInv
  <2>2. ASSUME NEW w \in ZenohNodes, NEW m \in Nat PROVE Located(w, m)'
    <3>1. Located(w, m)
      BY <2>1
    <3>2. CASE UNCHANGED zenVars
      BY <3>1, <3>2, NotMoved DEF zenVars, putVars, Same, ZenOpen
    <3>3. CASE ZenohNext
      BY <1>1, <1>5, <2>1, <3>1, <3>3, StagesMoveNothing, PublishLocates, TakeLocates,
         PutLocates, RouteLocates, ReceiveLocates, LeaveLocates DEF ZenohNext
    <3> QED BY <3>2, <3>3
  <2>3. ASSUME NEW n \in ZenohNodes PROVE putting'[n] = 0
    <3>1. putting \in [ZenohNodes -> Nat]
      BY <1>1 DEF ZenTyped
    <3>2. \/ putting' = putting
          \/ \E v \in ZenohNodes : putting' = [putting EXCEPT ![v] = 0]
      BY <1>5 DEF ZenohNext, zenVars, putVars, OpenSession, AttachLogger, LearnInterest,
         StartOperate, ZenPublish, ZenTryPublish, Trying, TakeFromBridge, DeclareFails, PutEnds,
         RouteSample, ReceiveSample, EndPublishing, LeaveSession, ShutDown, Before, AwaitsPut
    <3> QED BY <2>1, <3>1, <3>2
  <2> QED BY <1>1, <2>2, <2>3 DEF ZenInv
<1> QED BY <1>4, <1>5

LEMMA ZenInvImplies == ZenInv => ZenohSkipsAreHonest
<1> SUFFICES ASSUME ZenInv, ~InOrderOnly, NEW w \in ZenohNodes, NEW m \in Puts
             PROVE  /\ \A p, q \in Whereabouts(w, m) : p = q
                    /\ Whereabouts(w, m) # {} => m <= tried[w]
                    /\ m <= tried[w] /\ ZenOpen => Whereabouts(w, m) # {}
  BY DEF ZenohSkipsAreHonest, ZenOpen
<1> DEFINE r == OtherOf(w)
           Kind(p) == p[1]
<1>1. m \in Nat /\ m >= 1 /\ tried[w] \in Nat
  BY ZenohBoundAssumption DEF Puts, ZenInv, ZenTyped
<1>2. Located(w, m)
  BY <1>1 DEF ZenInv
<1>3. \A p \in Whereabouts(w, m) :
        \/ p = <<"skipped", 0>> /\ m \in skipped[w]
        \/ p = <<"missed", 0>> /\ m \in missed[w]
        \/ p = <<"task", 0>> /\ m \in spawned[w]
        \/ \E i \in DOMAIN bridge[w] : p = <<"bridge", i>> /\ bridge[w][i] = m
        \/ \E i \in DOMAIN link[w] : p = <<"link", i>> /\ link[w][i] = m
        \/ \E i \in DOMAIN fifo[r] : p = <<"fifo", i>> /\ fifo[r][i] = SampleOf(w, m)
        \/ \E i \in DOMAIN recorded[r] : p = <<"log", i>> /\ recorded[r][i] = m
  BY DEF Whereabouts, Spots, SampleOf
<1>4. \A p \in Whereabouts(w, m) : Kind(p) \in ZenPlaces /\ LiesIn(w, m, Kind(p))
  BY <1>3 DEF LiesIn, Carries, ZenPlaces
<1>5. ASSUME NEW p \in Whereabouts(w, m), NEW q \in Whereabouts(w, m) PROVE p = q
  <2>1. Kind(p) = Kind(q)
    BY <1>2, <1>4 DEF Located, InOnePlace
  <2> QED BY <1>2, <1>3, <2>1 DEF Located, OnceThere, CarriesOnce
<1>6. Whereabouts(w, m) # {} => m <= tried[w]
  <2> SUFFICES ASSUME NEW p \in Whereabouts(w, m) PROVE m <= tried[w]
    OBVIOUS
  <2> QED BY <1>1, <1>2, <1>4 DEF Located
<1>7. ASSUME m <= tried[w], ZenOpen PROVE Whereabouts(w, m) # {}
  <2>1. PICK k \in ZenPlaces : LiesIn(w, m, k)
    BY <1>1, <1>2, <1>7 DEF Located
  <2>9. \A S, x : \A i \in S : <<x, i>> \in {x} \X S
    OBVIOUS
  <2>2. CASE k \in {"skipped", "missed", "task"}
    BY <2>1, <2>2 DEF LiesIn, Whereabouts
  <2>3. CASE k = "bridge"
    <3>1. Spots(bridge[w], m) # {}
      BY <2>1, <2>3 DEF LiesIn, Carries, Spots
    <3>2. PICK p : p \in {"bridge"} \X Spots(bridge[w], m)
      BY <2>9, <3>1
    <3>3. p \in Whereabouts(w, m)
      BY <3>2 DEF Whereabouts
    <3> QED BY <3>3
  <2>4. CASE k = "link"
    <3>1. Spots(link[w], m) # {}
      BY <2>1, <2>4 DEF LiesIn, Carries, Spots
    <3>2. PICK p : p \in {"link"} \X Spots(link[w], m)
      BY <2>9, <3>1
    <3>3. p \in Whereabouts(w, m)
      BY <3>2 DEF Whereabouts
    <3> QED BY <3>3
  <2>5. CASE k = "fifo"
    <3>1. Spots(fifo[r], [from |-> w, seq |-> m]) # {}
      BY <2>1, <2>5 DEF LiesIn, Carries, Spots, SampleOf
    <3>2. PICK p : p \in {"fifo"} \X Spots(fifo[r], [from |-> w, seq |-> m])
      BY <2>9, <3>1
    <3>3. p \in Whereabouts(w, m)
      BY <3>2 DEF Whereabouts
    <3> QED BY <3>3
  <2>6. CASE k = "log"
    <3>1. Spots(recorded[r], m) # {}
      BY <2>1, <2>6 DEF LiesIn, Carries, Spots
    <3>2. PICK p : p \in {"log"} \X Spots(recorded[r], m)
      BY <2>9, <3>1
    <3>3. p \in Whereabouts(w, m)
      BY <3>2 DEF Whereabouts
    <3> QED BY <3>3
  <2> QED BY <2>2, <2>3, <2>4, <2>5, <2>6 DEF ZenPlaces
<1> QED BY <1>5, <1>6, <1>7

-----------------------------------------------------------------------------
(* WebRTC: the counter of a channel.                                       *)

RtcInv ==
    /\ written \in [RtcNodes -> Nat] /\ sent \in [RtcNodes -> Nat]
    /\ outbox \in [RtcNodes -> Seq(Nat \ {0})] /\ inflight \in [RtcNodes -> Int]
    /\ InflightIsExact

LEMMA RtcInitHolds == RtcInit => RtcInv
<1> SUFFICES ASSUME RtcInit PROVE RtcInv
  OBVIOUS
<1>1. <<>> \in Seq(Nat \ {0}) /\ Len(<<>>) = 0
  OBVIOUS
<1>2. /\ written = [n \in RtcNodes |-> 0] /\ sent = written /\ inflight = written
      /\ outbox = [n \in RtcNodes |-> <<>>]
  BY DEF RtcInit
<1> QED BY <1>1, <1>2 DEF RtcInv, InflightIsExact

LEMMA RtcStep == RtcInv /\ [RtcNext]_rtcVars => RtcInv'
<1> SUFFICES ASSUME RtcInv, [RtcNext]_rtcVars PROVE RtcInv'
  OBVIOUS
<1> DEFINE Msgs == Nat \ {0}
           Adds(s) == IF s = 0 THEN 0 ELSE 1
<1>t. /\ written \in [RtcNodes -> Nat] /\ sent \in [RtcNodes -> Nat]
      /\ outbox \in [RtcNodes -> Seq(Msgs)] /\ inflight \in [RtcNodes -> Int]
  BY DEF RtcInv
<1>e. \A n \in RtcNodes : inflight[n] = Len(outbox[n]) + Adds(sent[n])
  BY DEF RtcInv, InflightIsExact
<1>s. Adds(0) = 0 /\ \A s : s # 0 => Adds(s) = 1
  OBVIOUS
<1>a. \A n \in RtcNodes : outbox[n] \in Seq(Msgs) /\ Len(outbox[n]) \in Nat
  BY <1>t
<1>1. CASE UNCHANGED sendVars
  BY <1>t, <1>e, <1>1 DEF sendVars, RtcInv, InflightIsExact
<1>i. ASSUME \A n \in RtcNodes : inflight'[n] = Len(outbox'[n]) + Adds(sent'[n])
      PROVE  InflightIsExact'
  BY <1>i DEF InflightIsExact
<1> HIDE DEF Adds
\* A step that leaves the other node's rows alone.
<1>2. ASSUME NEW n \in RtcNodes, NEW w \in Nat, NEW o \in Seq(Msgs), NEW s \in Nat, NEW c \in Int,
             written' = [written EXCEPT ![n] = w], outbox' = [outbox EXCEPT ![n] = o],
             sent' = [sent EXCEPT ![n] = s], inflight' = [inflight EXCEPT ![n] = c],
             c = Len(o) + Adds(s)
      PROVE  RtcInv'
  <2>1. /\ written' \in [RtcNodes -> Nat] /\ sent' \in [RtcNodes -> Nat]
        /\ outbox' \in [RtcNodes -> Seq(Msgs)] /\ inflight' \in [RtcNodes -> Int]
    BY <1>t, <1>2, RowTyped, Zenon
  <2>2. \A m \in RtcNodes : inflight'[m] = Len(outbox'[m]) + Adds(sent'[m])
    BY <1>t, <1>e, <1>2
  <2> QED BY <1>i, <2>1, <2>2 DEF RtcInv
<1>3. ASSUME NEW n \in RtcNodes, RtcPublish(n) \/ RtcTryPublish(n) PROVE RtcInv'
  <2>1. /\ written' = [written EXCEPT ![n] = written[n] + 1] /\ sent' = sent
    BY <1>3 DEF RtcPublish, RtcTryPublish, Issuing
  <2>2. written[n] + 1 \in Msgs
    BY <1>t
  <2>3. \/ UNCHANGED <<outbox, inflight>>
        \/ /\ outbox' = [outbox EXCEPT ![n] = Append(outbox[n], written[n] + 1)]
           /\ inflight' = [inflight EXCEPT ![n] = inflight[n] + 1]
    BY <1>3 DEF RtcPublish, RtcTryPublish, Enqueue, Overflowed
  <2>4. sent' = [sent EXCEPT ![n] = sent[n]]
    BY <1>t, <2>1
  <2>5. CASE UNCHANGED <<outbox, inflight>>
    <3>1. /\ outbox' = [outbox EXCEPT ![n] = outbox[n]]
          /\ inflight' = [inflight EXCEPT ![n] = inflight[n]]
      BY <1>t, <2>5
    <3> QED BY <1>t, <1>e, <1>2, <2>1, <2>2, <2>4, <3>1
  <2>6. CASE /\ outbox' = [outbox EXCEPT ![n] = Append(outbox[n], written[n] + 1)]
             /\ inflight' = [inflight EXCEPT ![n] = inflight[n] + 1]
    <3>1. /\ Append(outbox[n], written[n] + 1) \in Seq(Msgs)
          /\ Len(Append(outbox[n], written[n] + 1)) = Len(outbox[n]) + 1
      BY <1>a, <2>2
    <3>2. Adds(sent[n]) \in Nat
      BY <1>s
    <3>3. inflight[n] + 1 = Len(outbox[n]) + 1 + Adds(sent[n])
      BY <1>a, <1>e, <3>2
    <3>4. inflight[n] + 1 \in Int /\ sent[n] \in Nat /\ written[n] + 1 \in Nat
      BY <1>t
    <3> QED BY <1>2, <2>1, <2>4, <2>6, <3>1, <3>3, <3>4
  <2> QED BY <2>3, <2>5, <2>6
<1>4. ASSUME NEW n \in RtcNodes, TakeOut(n) PROVE RtcInv'
  <2>1. /\ sent[n] = 0 /\ outbox[n] # <<>>
        /\ sent' = [sent EXCEPT ![n] = Head(outbox[n])]
        /\ outbox' = [outbox EXCEPT ![n] = Tail(outbox[n])]
        /\ UNCHANGED <<written, inflight>>
    BY <1>4 DEF TakeOut
  <2>2. \A q \in Seq(Msgs) : q # <<>> =>
            Head(q) \in Msgs /\ Tail(q) \in Seq(Msgs) /\ Len(Tail(q)) = Len(q) - 1
    OBVIOUS
  <2>3. /\ Head(outbox[n]) \in Nat /\ Head(outbox[n]) # 0 /\ Tail(outbox[n]) \in Seq(Msgs)
        /\ Len(Tail(outbox[n])) = Len(outbox[n]) - 1
    BY <1>a, <2>1, <2>2
  <2>4. /\ written' = [written EXCEPT ![n] = written[n]]
        /\ inflight' = [inflight EXCEPT ![n] = inflight[n]]
    BY <1>t, <2>1
  <2>7. inflight[n] = Len(outbox[n]) + 0 /\ Adds(Head(outbox[n])) = 1
    BY <1>e, <1>s, <2>1, <2>3
  <2>5. inflight[n] = Len(Tail(outbox[n])) + Adds(Head(outbox[n]))
    BY <1>a, <2>3, <2>7
  <2>6. written[n] \in Nat /\ inflight[n] \in Int
    BY <1>t
  <2> QED BY <1>2, <2>1, <2>3, <2>4, <2>5, <2>6
<1>5. ASSUME NEW n \in RtcNodes, SendOn(n) PROVE RtcInv'
  <2>1. /\ sent[n] # 0 /\ sent' = [sent EXCEPT ![n] = 0]
        /\ inflight' = [inflight EXCEPT ![n] = inflight[n] - 1]
        /\ UNCHANGED <<written, outbox>>
    BY <1>5 DEF SendOn
  <2>2. written' = [written EXCEPT ![n] = written[n]] /\ outbox' = [outbox EXCEPT ![n] = outbox[n]]
    BY <1>t, <2>1
  <2>3. inflight[n] = Len(outbox[n]) + 1
    BY <1>e, <1>s, <2>1
  <2>5. inflight[n] - 1 = Len(outbox[n]) + Adds(0)
    BY <1>a, <1>s, <2>3
  <2>4. written[n] \in Nat /\ inflight[n] - 1 \in Int /\ 0 \in Nat
    BY <1>t
  <2> QED BY <1>a, <1>2, <2>1, <2>2, <2>4, <2>5
<1>6. ASSUME NEW n \in RtcNodes, Close(n) PROVE RtcInv'
  <2>1. /\ outbox' = [outbox EXCEPT ![n] = <<>>] /\ sent' = [sent EXCEPT ![n] = 0]
        /\ inflight' = [inflight EXCEPT ![n] = 0] /\ written' = written
    BY <1>6 DEF Close
  <2>2. written' = [written EXCEPT ![n] = written[n]] /\ written[n] \in Nat
    BY <1>t, <2>1
  <2>3. <<>> \in Seq(Msgs) /\ 0 = Len(<<>>) + Adds(0) /\ 0 \in Nat /\ 0 \in Int
    BY <1>s
  <2> QED BY <1>2, <2>1, <2>2, <2>3, Zenon
<1>7. ASSUME NEW n \in RtcNodes,
             \/ ComeUp(n) \/ NobodyThere(n) \/ Discover(n) \/ ForwardCandidate(n)
             \/ ReadEnvelope(n) \/ ReadHungUp(n) \/ SignalingFails(n) \/ GraceTimer(n)
             \/ EndSignaling(n) \/ Open(n) \/ NeverOpens(n) \/ Die(n)
             \/ Carry(n, Peer(n)) \/ LoseMessage(n)
             \/ RtcPoll(n) \/ EndOperate(n) \/ DropSenders(n) \/ AwaitLoops(n)
      PROVE  RtcInv'
  <2>1. UNCHANGED sendVars
    BY <1>7 DEF ComeUp, NobodyThere, Discover, ForwardCandidate, ReadEnvelope, ReadHungUp,
         SignalingFails, GraceTimer, EndSignaling, Open, NeverOpens, Die, Carry, LoseMessage,
         RtcPoll, EndOperate, DropSenders, AwaitLoops, AfterStage
  <2> QED BY <1>1, <2>1
<1>8. CASE Call \/ AcceptCall
  <2>1. UNCHANGED sendVars
    BY <1>8 DEF Call, AcceptCall, AfterStage
  <2> QED BY <1>1, <2>1
<1>9. CASE UNCHANGED rtcVars
  <2>1. UNCHANGED sendVars
    BY <1>9 DEF rtcVars
  <2> QED BY <1>1, <2>1
<1> QED BY <1>3, <1>4, <1>5, <1>6, <1>7, <1>8, <1>9 DEF RtcNext

-----------------------------------------------------------------------------
(* QUIC: no datagram is thrown out.                                        *)

LEMMA QuicStep == NothingEvicted /\ [QuicNext]_quicVars => NothingEvicted'
<1> SUFFICES ASSUME NothingEvicted, [QuicNext]_quicVars PROVE NothingEvicted'
  OBVIOUS
<1>1. CASE UNCHANGED evicted
  BY <1>1 DEF NothingEvicted
<1>2. ASSUME NEW n, PublishDatagram(n) PROVE NothingEvicted'
  <2>1. PICK taking \in SUBSET Roomy(n) :
            evicted' = evicted \union {<<n, p, Head(unsent[n][p])>> :
                                         p \in {q \in taking : Len(unsent[n][q]) = SendRoom}}
    BY <1>2 DEF PublishDatagram
  <2>2. \A q \in taking : Len(unsent[n][q]) # SendRoom
    BY <2>1, QuicBoundAssumption DEF Roomy
  <2>3. evicted' = evicted
    BY <2>1, <2>2
  <2> QED BY <2>3 DEF NothingEvicted
<1>3. ASSUME NEW n, QuicDriver(n) PROVE NothingEvicted'
  <2>1. PublishDatagram(n) \/ UNCHANGED evicted
    BY <1>3 DEF QuicDriver, BindEndpoint, Dial, DialFails, Dialled, EndConnect, PublishReliable,
         PollReceive, EndDrain, EndSilent, FinishStreams, AwaitStopped, Leave
  <2> QED BY <1>1, <1>2, <2>1
<1>4. CASE QuicTasks
  <2>1. UNCHANGED evicted
    BY <1>4 DEF QuicTasks, TakeMessage, WriteStream, Transmit, ReadReliableStream,
         DispatchDecoded
  <2> QED BY <1>1, <2>1
<1> QED BY <1>1, <1>3, <1>4 DEF QuicNext, quicVars

-----------------------------------------------------------------------------
(* Zenoh in Single mode: what zenohd has taken.                            *)

TimesIn(s, m) == Cardinality({k \in DOMAIN s : s[k] = m})

LEMMA TimesAfterAppend ==
    ASSUME NEW s \in Seq(Nat), NEW x \in Nat, NEW m \in Nat
    PROVE  /\ TimesIn(s, m) \in Nat
           /\ TimesIn(Append(s, x), m) = IF m = x THEN TimesIn(s, m) + 1 ELSE TimesIn(s, m)
<1> DEFINE t == Append(s, x)
           At(q) == {k \in DOMAIN q : q[k] = m}
<1>1. /\ Len(s) \in Nat /\ DOMAIN s = 1..Len(s) /\ Len(t) = Len(s) + 1 /\ DOMAIN t = 1..Len(t)
      /\ t[Len(s) + 1] = x /\ \A i \in 1..Len(s) : t[i] = s[i]
  OBVIOUS
<1> HIDE DEF t
<1>2. IsFiniteSet(At(s)) /\ TimesIn(s, m) \in Nat
  <2>1. IsFiniteSet(1..Len(s)) /\ At(s) \in SUBSET (1..Len(s))
    BY <1>1, FS_Interval
  <2> QED BY <2>1, FS_Subset, FS_CardinalityType DEF TimesIn
<1>3. Len(s) + 1 \notin At(s) /\ \A k \in 1..Len(t) : k = Len(s) + 1 \/ k \in 1..Len(s)
  BY <1>1
<1>4. CASE m = x
  <2>1. At(t) = At(s) \union {Len(s) + 1}
    BY <1>1, <1>3, <1>4
  <2> QED BY <1>2, <1>3, <1>4, <2>1, FS_AddElement DEF TimesIn, t
<1>5. CASE m # x
  <2>1. At(t) = At(s)
    BY <1>1, <1>3, <1>5
  <2> QED BY <1>2, <1>5, <2>1 DEF TimesIn, t
<1> QED BY <1>4, <1>5

LEMMA FirstSamples ==
    ASSUME NEW c \in Nat
    PROVE  Cardinality(1..c) = c /\ (1..c) \union {c + 1} = 1..(c + 1)
<1>1. Cardinality(1..c) = IF 1 > c THEN 0 ELSE c - 1 + 1
  BY FS_Interval
<1>2. (1..c) \union {c + 1} = 1..(c + 1)
  OBVIOUS
<1> QED BY <1>1, <1>2

\* zenohd is gone for good.
ServerIsLost == zenohd[PutHost] # "ready" /\ restStage[PutHost] \notin {"down", "launching"}

HostStages == {"down", "launching", "operate", "silent", "stopping", "left", "failed"}
SidecarStates == {"none", "starting", "ready"}

PutTypes ==
    /\ restStage \in [Hosts -> HostStages] /\ zenohd \in [Hosts -> SidecarStates]
    /\ requested \in Nat /\ givenUp \in Nat /\ attempt \in 0..2 /\ served \in BOOLEAN
    /\ taken \in Seq(Nat)
    /\ \E c \in Nat : confirmed = 1..c
    /\ requested # 0 => /\ restStage[PutHost] = "operate" /\ attempt # 0
                        /\ requested = Cardinality(confirmed) + 1

\* How often a sample has been taken and may yet be.
Budget(m) ==
    /\ requested = m /\ served => TimesIn(taken, m) > 0
    /\ m \in confirmed => TimesIn(taken, m) > 0
    /\ restStage[PutHost] # "failed" /\ m \notin confirmed /\ requested # m =>
           TimesIn(taken, m) = 0 /\ givenUp # m
    /\ TimesIn(taken, m) <= 2
    /\ givenUp = m => TimesIn(taken, m) <= 1
    /\ requested = m /\ ~served => TimesIn(taken, m) <= IF givenUp = m THEN 0 ELSE 1
    /\ requested = m /\ attempt = 1 =>
           givenUp # m /\ TimesIn(taken, m) <= IF served THEN 1 ELSE 0
    /\ ~rest.slowPuts => TimesIn(taken, m) <= 1

PutInv ==
    /\ PutTypes
    /\ \A m \in Nat \ {0} : Budget(m)
    /\ ~rest.slowPuts /\ (attempt = 2 \/ givenUp # 0) => ServerIsLost

LEMMA PutInitHolds == ZenohRestInit => PutInv
<1> SUFFICES ASSUME ZenohRestInit PROVE PutInv
  OBVIOUS
<1>1. PutTypes
  <2>1. confirmed = 1..0 /\ <<>> \in Seq(Nat)
    BY DEF ZenohRestInit
  <2>2. \E c \in Nat : confirmed = 1..c
    BY <2>1
  <2>3. restStage \in [Hosts -> HostStages] /\ zenohd \in [Hosts -> SidecarStates]
    BY DEF ZenohRestInit, HostStages, SidecarStates
  <2>4. requested = 0 /\ givenUp = 0 /\ attempt = 0 /\ served = FALSE /\ taken = <<>>
    BY DEF ZenohRestInit
  <2>5. 0 \in Nat /\ 0 \in 0..2 /\ FALSE \in BOOLEAN
    OBVIOUS
  <2> QED BY <2>1, <2>2, <2>3, <2>4, <2>5 DEF PutTypes
<1>2. \A m : TimesIn(<<>>, m) = 0
  <2>1. \A m : {k \in DOMAIN <<>> : <<>>[k] = m} = {}
    OBVIOUS
  <2> QED BY <2>1, FS_EmptySet DEF TimesIn
<1>3. ASSUME NEW m \in Nat \ {0} PROVE Budget(m)
  BY <1>2 DEF Budget, ZenohRestInit
<1> QED BY <1>1, <1>3 DEF PutInv, ZenohRestInit

\* Steps that are not about a PUT.
LEMMA QuietStep ==
    ASSUME PutInv, UNCHANGED <<rest, putState>>,
           restStage' \in [Hosts -> HostStages], zenohd' \in [Hosts -> SidecarStates],
           requested # 0 => restStage'[PutHost] = "operate",
           restStage[PutHost] = "failed" => restStage'[PutHost] = "failed",
           ServerIsLost => ServerIsLost'
    PROVE  PutInv'
<1>1. PutTypes'
  BY DEF PutInv, PutTypes, putState
<1>2. ASSUME NEW m \in Nat \ {0} PROVE Budget(m)'
  <2>1. Budget(m)
    BY DEF PutInv
  <2> QED BY <2>1 DEF Budget, putState
<1> QED BY <1>1, <1>2 DEF PutInv, putState

LEMMA HostSteps ==
    ASSUME PutInv, NEW n \in Hosts,
           \/ LaunchSidecar(n) \/ RestReady(n) \/ LaunchFails(n) \/ SetStopFlag(n)
           \/ StopSidecar(n) \/ ZenohdDies(n) \/ Reap(n)
    PROVE  PutInv'
<1>1. /\ restStage \in [Hosts -> HostStages] /\ zenohd \in [Hosts -> SidecarStates]
      /\ PutHost \in Hosts
      /\ requested # 0 => restStage[PutHost] = "operate"
  BY DEF PutInv, PutTypes, PutHost, Hosts
<1>2. UNCHANGED <<rest, putState>>
  BY DEF LaunchSidecar, RestReady, LaunchFails, SetStopFlag, StopSidecar, ZenohdDies, Reap
<1>3. PICK s \in HostStages, z \in SidecarStates :
          /\ restStage' = [restStage EXCEPT ![n] = s] /\ zenohd' = [zenohd EXCEPT ![n] = z]
          /\ \/ restStage[n] = "down" /\ s = "launching"
             \/ restStage[n] = "launching"
             \/ restStage[n] = "silent" /\ s = "stopping" /\ z = zenohd[n]
             \/ restStage[n] = "stopping" /\ s = "left" /\ z = "none"
             \/ restStage[n] \in {"operate", "silent", "failed"} /\ s = restStage[n] /\ z = "none"
  <2>1. restStage[n] \in HostStages /\ zenohd[n] \in SidecarStates
    BY <1>1
  <2>2. /\ restStage = [restStage EXCEPT ![n] = restStage[n]]
        /\ zenohd = [zenohd EXCEPT ![n] = zenohd[n]]
    BY <1>1
  <2>3. CASE LaunchSidecar(n)
    BY <2>3 DEF LaunchSidecar, RestGoes, ZenohdGoes, HostStages, SidecarStates
  <2>4. CASE RestReady(n)
    BY <2>4 DEF RestReady, RestGoes, ZenohdGoes, HostStages, SidecarStates
  <2>5. CASE LaunchFails(n)
    BY <2>5 DEF LaunchFails, RestGoes, ZenohdGoes, HostStages, SidecarStates
  <2>6. CASE SetStopFlag(n)
    BY <2>1, <2>2, <2>6 DEF SetStopFlag, RestGoes, HostStages, SidecarStates
  <2>7. CASE StopSidecar(n)
    BY <2>7 DEF StopSidecar, RestGoes, ZenohdGoes, HostStages, SidecarStates
  <2>8. CASE ZenohdDies(n) \/ Reap(n)
    BY <2>1, <2>2, <2>8 DEF ZenohdDies, Reap, ZenohdGoes, HostStages, SidecarStates
  <2> QED BY <2>3, <2>4, <2>5, <2>6, <2>7, <2>8
<1>4. restStage' \in [Hosts -> HostStages] /\ zenohd' \in [Hosts -> SidecarStates]
  BY <1>1, <1>3
<1>5. CASE n = PutHost
  <2>1. restStage'[PutHost] = s /\ zenohd'[PutHost] = z
    BY <1>1, <1>3, <1>5
  <2> QED BY <1>1, <1>2, <1>3, <1>4, <1>5, <2>1, QuietStep DEF ServerIsLost
<1>6. CASE n # PutHost
  <2>1. restStage'[PutHost] = restStage[PutHost] /\ zenohd'[PutHost] = zenohd[PutHost]
    BY <1>1, <1>3, <1>6
  <2> QED BY <1>1, <1>2, <1>4, <2>1, QuietStep DEF ServerIsLost
<1> QED BY <1>5, <1>6

LEMMA StreamSteps ==
    ASSUME PutInv,
           \/ Subscribe \/ Arrive \/ ReadLine \/ ReadTimesOut \/ StreamEnds \/ EndPuts \/ JoinReader
           \/ UNCHANGED restVars
    PROVE  PutInv'
<1>1. /\ restStage \in [Hosts -> HostStages] /\ zenohd \in [Hosts -> SidecarStates]
      /\ PutHost \in Hosts
      /\ requested # 0 => restStage[PutHost] = "operate"
  BY DEF PutInv, PutTypes, PutHost, Hosts
<1>2. UNCHANGED <<rest, putState>> /\ zenohd' = zenohd
  BY DEF Subscribe, Arrive, ReadLine, ReadTimesOut, StreamEnds, EndPuts, JoinReader, restVars
<1>3. CASE EndPuts
  <2>1. /\ restStage' = [restStage EXCEPT ![PutHost] = "silent"] /\ requested = 0
        /\ restStage[PutHost] = "operate"
    BY <1>3 DEF EndPuts, RestGoes
  <2>2. restStage'[PutHost] = "silent" /\ restStage' \in [Hosts -> HostStages]
    BY <1>1, <2>1 DEF HostStages
  <2> QED BY <1>1, <1>2, <2>1, <2>2, QuietStep DEF ServerIsLost
<1>4. CASE UNCHANGED restStage
  BY <1>1, <1>2, <1>4, QuietStep DEF ServerIsLost
<1> QED BY <1>3, <1>4 DEF Subscribe, Arrive, ReadLine, ReadTimesOut, StreamEnds, JoinReader,
           restVars

\* The end of a PUT that has no answer, and the start of one.
LEMMA PutIsOver ==
    ASSUME PutInv, requested' = 0, restStage' = [restStage EXCEPT ![PutHost] = "failed"],
           zenohd' = zenohd \/ zenohd' = [zenohd EXCEPT ![PutHost] = "none"],
           UNCHANGED <<rest, attempt, served, givenUp, confirmed, taken>>
    PROVE  PutInv'
<1>1. /\ restStage \in [Hosts -> HostStages] /\ zenohd \in [Hosts -> SidecarStates]
      /\ PutHost \in Hosts
  BY DEF PutInv, PutTypes, PutHost, Hosts
<1>2. /\ restStage' \in [Hosts -> HostStages] /\ zenohd' \in [Hosts -> SidecarStates]
      /\ restStage'[PutHost] = "failed" /\ zenohd'[PutHost] \in {zenohd[PutHost], "none"}
  BY <1>1 DEF HostStages, SidecarStates
<1>3. PutTypes'
  BY <1>2 DEF PutInv, PutTypes
<1>4. ASSUME NEW m \in Nat \ {0} PROVE Budget(m)'
  <2>1. Budget(m)
    BY DEF PutInv
  <2> QED BY <1>2, <2>1 DEF Budget
<1>5. ServerIsLost => ServerIsLost'
  BY <1>2 DEF ServerIsLost
<1> QED BY <1>3, <1>4, <1>5 DEF PutInv

LEMMA StartStep == ASSUME PutInv, StartPut PROVE PutInv'
<1>1. /\ restStage[PutHost] = "operate" /\ requested = 0 /\ requested' = Cardinality(confirmed) + 1
      /\ attempt' = 1 /\ served' = FALSE
      /\ UNCHANGED <<rest, restStage, zenohd, givenUp, confirmed, taken>>
  BY DEF StartPut
<1>2. PutTypes
  BY DEF PutInv
<1>3. PICK c \in Nat : confirmed = 1..c
  BY <1>2 DEF PutTypes
<1>4. Cardinality(confirmed) = c
  BY <1>3, FirstSamples
<1>5. requested' = c + 1 /\ c + 1 \notin confirmed /\ requested' # 0
  BY <1>1, <1>3, <1>4
<1>6. PutTypes'
  <2>1. confirmed' = 1..c /\ requested' \in Nat /\ requested' = Cardinality(confirmed') + 1
    BY <1>1, <1>3, <1>5
  <2>2. \E d \in Nat : confirmed' = 1..d
    BY <2>1
  <2>3. attempt' \in 0..2 /\ attempt' # 0
    BY <1>1
  <2>4. served' \in BOOLEAN
    BY <1>1, Zenon
  <2> QED BY <1>1, <1>2, <2>1, <2>2, <2>3, <2>4 DEF PutTypes
<1>7. ASSUME NEW m \in Nat \ {0} PROVE Budget(m)'
  <2>1. Budget(m)
    BY DEF PutInv
  <2> QED BY <1>1, <1>5, <2>1 DEF Budget
<1>8. ServerIsLost' <=> ServerIsLost
  BY <1>1 DEF ServerIsLost
<1> QED BY <1>1, <1>6, <1>7, <1>8 DEF PutInv

LEMMA ServeStep ==
    ASSUME PutInv, Serve \/ ServeLate
    PROVE  PutInv'
<1>1. PutTypes
  BY DEF PutInv
<1>2. /\ zenohd[PutHost] = "ready"
      /\ UNCHANGED <<rest, restStage, zenohd, requested, attempt, confirmed>>
      /\ \/ /\ requested # 0 /\ ~served /\ taken' = Append(taken, requested) /\ served' = TRUE
            /\ givenUp' = givenUp
         \/ /\ givenUp # 0 /\ taken' = Append(taken, givenUp) /\ givenUp' = 0 /\ served' = served
  BY DEF Serve, ServeLate, TakenIn
<1>3. rest.slowPuts \/ (attempt # 2 /\ givenUp = 0)
  BY <1>2 DEF PutInv, ServerIsLost
<1>4. /\ requested \in Nat /\ givenUp \in Nat /\ taken \in Seq(Nat) /\ attempt \in 0..2
      /\ requested # 0 => attempt # 0
  BY <1>1 DEF PutTypes
<1>5. PutTypes'
  <2>1. \A y \in Nat : Append(taken, y) \in Seq(Nat)
    BY <1>4
  <2>2. taken' \in Seq(Nat) /\ givenUp' \in Nat
    BY <1>2, <1>4, <2>1
  <2>3. served' \in BOOLEAN
    <3>1. served \in BOOLEAN /\ served' \in {TRUE, served}
      BY <1>1, <1>2, Zenon DEF PutTypes
    <3> QED BY <3>1, Zenon
  <2> QED BY <1>1, <1>2, <2>2, <2>3 DEF PutTypes
<1>6. ASSUME NEW m \in Nat \ {0} PROVE Budget(m)'
  <2>1. Budget(m)
    BY DEF PutInv
  <2>2. TimesIn(taken, m) \in Nat
    BY <1>4, TimesAfterAppend
  <2>3. CASE /\ requested # 0 /\ ~served /\ taken' = Append(taken, requested) /\ served' = TRUE
             /\ givenUp' = givenUp
    <3>1. TimesIn(taken', m) = IF m = requested THEN TimesIn(taken, m) + 1 ELSE TimesIn(taken, m)
      BY <1>4, <2>3, TimesAfterAppend
    <3>2. CASE m = requested
      <4>1. TimesIn(taken', m) = TimesIn(taken, m) + 1
        BY <3>1, <3>2
      <4>2. ~rest.slowPuts => attempt = 1
        BY <1>3, <1>4, <2>3
      <4>3. TimesIn(taken, m) <= 1 /\ (givenUp = m => TimesIn(taken, m) <= 0)
            /\ (attempt = 1 => givenUp # m /\ TimesIn(taken, m) <= 0)
        BY <2>1, <2>2, <2>3, <3>2 DEF Budget
      <4> QED BY <1>2, <2>2, <2>3, <3>2, <4>1, <4>2, <4>3 DEF Budget
    <3>3. CASE m # requested
      BY <1>2, <2>1, <2>3, <3>1, <3>3 DEF Budget
    <3> QED BY <3>2, <3>3
  <2>4. CASE givenUp # 0 /\ taken' = Append(taken, givenUp) /\ givenUp' = 0 /\ served' = served
    <3>1. TimesIn(taken', m) = IF m = givenUp THEN TimesIn(taken, m) + 1 ELSE TimesIn(taken, m)
      BY <1>4, <2>4, TimesAfterAppend
    <3>2. CASE m = givenUp
      <4>1. TimesIn(taken', m) = TimesIn(taken, m) + 1 /\ givenUp' # m
        BY <2>4, <3>1, <3>2
      <4>2. /\ rest.slowPuts /\ TimesIn(taken, m) <= 1
            /\ (requested = m /\ ~served => TimesIn(taken, m) <= 0)
            /\ (requested = m => attempt # 1)
            /\ ~(restStage[PutHost] # "failed" /\ m \notin confirmed /\ requested # m)
        BY <1>3, <2>1, <2>4, <3>2 DEF Budget
      <4> QED BY <1>2, <2>2, <2>4, <4>1, <4>2 DEF Budget
    <3>3. CASE m # givenUp
      BY <1>2, <2>1, <2>2, <2>4, <3>1, <3>3 DEF Budget
    <3> QED BY <3>2, <3>3
  <2> QED BY <1>2, <2>3, <2>4
<1>7. ServerIsLost' <=> ServerIsLost
  BY <1>2 DEF ServerIsLost
<1>8. attempt' = attempt /\ givenUp' \in {0, givenUp}
  BY <1>2
<1> QED BY <1>2, <1>5, <1>6, <1>7, <1>8 DEF PutInv

LEMMA AnswerStep == ASSUME PutInv, PutAnswered PROVE PutInv'
<1>1. /\ requested # 0 /\ served /\ confirmed' = confirmed \union {requested} /\ requested' = 0
      /\ UNCHANGED <<rest, restStage, zenohd, attempt, served, givenUp, taken>>
  BY DEF PutAnswered
<1>2. PutTypes
  BY DEF PutInv
<1>3. PICK c \in Nat : confirmed = 1..c
  BY <1>2 DEF PutTypes
<1>4. requested = c + 1
  BY <1>1, <1>2, <1>3, FirstSamples DEF PutTypes
<1>5. confirmed' = 1..(c + 1) /\ c + 1 \in Nat
  BY <1>1, <1>3, <1>4, FirstSamples
<1>6. PutTypes'
  <2>1. \E d \in Nat : confirmed' = 1..d
    BY <1>5
  <2>2. requested' \in Nat
    BY <1>1
  <2> QED BY <1>1, <1>2, <2>1, <2>2 DEF PutTypes
<1>7. ASSUME NEW m \in Nat \ {0} PROVE Budget(m)'
  <2>1. Budget(m)
    BY DEF PutInv
  <2> QED BY <1>1, <2>1 DEF Budget
<1>8. ServerIsLost' <=> ServerIsLost
  BY <1>1 DEF ServerIsLost
<1> QED BY <1>1, <1>6, <1>7, <1>8 DEF PutInv

LEMMA AttemptStep == ASSUME PutInv, AttemptFails PROVE PutInv'
<1>1. /\ requested # 0 /\ attempt = 1 /\ (rest.slowPuts \/ zenohd[PutHost] # "ready")
      /\ attempt' = 2 /\ served' = FALSE
      /\ givenUp' \in IF served THEN {givenUp} ELSE {givenUp, requested}
      /\ UNCHANGED <<rest, restStage, zenohd, requested, confirmed, taken>>
  BY DEF AttemptFails
<1>2. PutTypes
  BY DEF PutInv
<1>3. PutTypes'
  <2>1. attempt' \in 0..2 /\ attempt' # 0
    BY <1>1
  <2>2. served' \in BOOLEAN
    BY <1>1, Zenon
  <2>3. givenUp' \in {givenUp, requested} /\ givenUp \in Nat /\ requested \in Nat
    BY <1>1, <1>2 DEF PutTypes
  <2>4. givenUp' \in Nat
    BY <2>3
  <2> QED BY <1>1, <1>2, <2>1, <2>2, <2>4 DEF PutTypes
<1>4. taken \in Seq(Nat) /\ restStage[PutHost] = "operate"
  BY <1>1, <1>2 DEF PutTypes
<1>5. ASSUME NEW m \in Nat \ {0} PROVE Budget(m)'
  <2>1. Budget(m)
    BY DEF PutInv
  <2>2. TimesIn(taken, m) \in Nat
    BY <1>4, TimesAfterAppend
  <2> QED BY <1>1, <2>1, <2>2 DEF Budget
<1>6. rest.slowPuts \/ ServerIsLost'
  BY <1>1, <1>4 DEF ServerIsLost
<1> QED BY <1>1, <1>3, <1>5, <1>6 DEF PutInv

LEMMA PutStep == PutInv /\ [ZenohRestNext]_restVars => PutInv'
<1> SUFFICES ASSUME PutInv, [ZenohRestNext]_restVars PROVE PutInv'
  OBVIOUS
<1>1. ASSUME PutFails PROVE PutInv'
  BY <1>1, PutIsOver DEF PutFails, GivesUp, RestGoes, ZenohdGoes
<1>2. ASSUME NEW n \in Hosts, KillVariant(n) PROVE PutInv'
  <2>1. CASE n = PutHost
    BY <1>2, <2>1, PutIsOver DEF KillVariant, RestGoes
  <2>2. CASE n # PutHost
    <3>1. /\ restStage' = [restStage EXCEPT ![n] = "failed"]
          /\ UNCHANGED <<rest, putState, zenohd>>
      BY <1>2, <2>2 DEF KillVariant, RestGoes
    <3>2. /\ restStage \in [Hosts -> HostStages] /\ zenohd \in [Hosts -> SidecarStates]
          /\ PutHost \in Hosts /\ (requested # 0 => restStage[PutHost] = "operate")
      BY DEF PutInv, PutTypes, PutHost, Hosts
    <3>3. restStage'[PutHost] = restStage[PutHost] /\ restStage' \in [Hosts -> HostStages]
      BY <2>2, <3>1, <3>2 DEF HostStages
    <3> QED BY <3>1, <3>2, <3>3, QuietStep DEF ServerIsLost
  <2> QED BY <2>1, <2>2
<1> QED
  BY <1>1, <1>2, StartStep, ServeStep, AnswerStep, AttemptStep, StreamSteps, HostSteps
     DEF ZenohRestNext

LEMMA PutInvImplies == PutInv => PutsAreHonest
<1> SUFFICES ASSUME PutInv
             PROVE  /\ \A m \in confirmed : TimesIn(taken, m) > 0
                    /\ \A m \in Samples : TimesIn(taken, m) <= IF rest.slowPuts THEN 2 ELSE 1
  BY DEF PutsAreHonest, TimesIn
<1>1. \A m \in confirmed : m \in Nat \ {0}
  BY DEF PutInv, PutTypes
<1>2. \A m \in Samples : m \in Nat \ {0}
  BY MaxSamplesAssumption DEF Samples
<1> QED BY <1>1, <1>2 DEF PutInv, Budget

-----------------------------------------------------------------------------
(* All of them, in one state space.                                        *)

PressureInv == CastInv /\ NothingEvicted /\ RtcInv /\ ZenInv /\ PutInv

LEMMA CastStepInv == CastInv /\ [CastNext]_castVars => CastInv'
BY CastStepTyped, CastStepNewest, CastStepAccepted, CastStepKept DEF CastInv

LEMMA PressureInitHolds == VariantsInit => PressureInv
<1> SUFFICES ASSUME VariantsInit PROVE PressureInv
  OBVIOUS
<1>1. CastInit
  BY DEF VariantsInit, CastRests
<1>2. QuicInit
  BY DEF VariantsInit, QuicRests
<1>3. RtcInit
  BY DEF VariantsInit, RtcRests
<1>4. ZenohInit
  BY DEF VariantsInit, ZenohRests
<1>5. ZenohRestInit
  BY DEF VariantsInit, ZenohRestRests
<1>6. NothingEvicted
  BY <1>2 DEF QuicInit, NothingEvicted
<1> QED BY <1>1, <1>3, <1>4, <1>5, <1>6, CastInitHolds, RtcInitHolds, ZenInitHolds, PutInitHolds
       DEF PressureInv

\* A step of the whole is a step of one module at most.
LEMMA PartSteps ==
    [VariantsNext]_variantsVars =>
        /\ [CastNext]_castVars /\ [QuicNext]_quicVars /\ [RtcNext]_rtcVars
        /\ [ZenohNext]_zenVars /\ [ZenohRestNext]_restVars
BY DEF VariantsNext, variantsVars, UdpPart, WsPart, HybridPart, CastPart, QuicPart, RtcPart,
       ZenohPart, ZenohdPart, RecordingPart

LEMMA PressureStep == PressureInv /\ [VariantsNext]_variantsVars => PressureInv'
BY PartSteps, CastStepInv, QuicStep, RtcStep, ZenStep, PutStep DEF PressureInv

(* For every number of messages and every capacity: quic throws no datagram out
   to make room, webrtc's in-flight counter is exact, a message that zenoh or
   hybrid says it skipped is on no way to the peer, and a PUT that zenohd
   answered with Ok was taken.  (Nothing is said of a webrtc message at QoS 1
   or 2 that finds the queue full.) *)
THEOREM ToldTheTruth == VariantsSpec => []HonestBackPressure
<1>1. PressureInv => HonestBackPressure
  <2>1. CastInv => CastSkipsAreHonest
    BY CastInvSkips
  <2>2. RtcInv => InflightIsExact
    BY DEF RtcInv
  <2> QED BY <2>1, <2>2, ZenInvImplies, PutInvImplies DEF PressureInv, HonestBackPressure
<1> QED BY <1>1, PressureInitHolds, PressureStep, PTL DEF VariantsSpec

-----------------------------------------------------------------------------
(* Sequences that are written one after the other.                         *)

LEMMA JoinTyped ==
    ASSUME NEW T, NEW a \in Seq(T), NEW b \in Seq(T)
    PROVE  a \o b \in Seq(T)
BY ConcatProperties

LEMMA JoinIsAssociative ==
    ASSUME NEW T, NEW a \in Seq(T), NEW b \in Seq(T), NEW c \in Seq(T)
    PROVE  (a \o b) \o c = a \o (b \o c)
BY ConcatAssociative

\* What is written to the end is written to the end of the whole.
LEMMA AppendToJoin ==
    ASSUME NEW T, NEW a \in Seq(T), NEW b \in Seq(T), NEW x \in T
    PROVE  a \o Append(b, x) = Append(a \o b, x)
<1>1. <<x>> \in Seq(T) /\ a \o b \in Seq(T)
  BY JoinTyped
<1>2. Append(b, x) = b \o <<x>> /\ Append(a \o b, x) = (a \o b) \o <<x>>
  BY <1>1, AppendIsConcat
<1> QED BY <1>1, <1>2, JoinIsAssociative

LEMMA HeadThenTail ==
    ASSUME NEW T, NEW s \in Seq(T), s # <<>>
    PROVE  Head(s) \in T /\ Tail(s) \in Seq(T) /\ s = <<Head(s)>> \o Tail(s)
<1>1. /\ Head(s) \in T /\ Tail(s) \in Seq(T) /\ Len(Tail(s)) = Len(s) - 1
      /\ \A i \in 1..Len(Tail(s)) : Tail(s)[i] = s[i + 1]
  BY HeadTailProperties
<1> DEFINE h == <<Head(s)>>
           t == Tail(s)
<1>2. h \in Seq(T) /\ Len(h) = 1 /\ h[1] = s[1] /\ Len(s) \in Nat /\ Len(s) >= 1
  BY <1>1
<1>3. /\ h \o t \in Seq(T) /\ Len(h \o t) = 1 + Len(t)
      /\ \A i \in 1..1 + Len(t) : (h \o t)[i] = IF i <= 1 THEN h[i] ELSE t[i - 1]
  BY <1>1, <1>2, ConcatProperties
<1> HIDE DEF h, t
<1>4. \A i \in 1..Len(s) : (h \o t)[i] = s[i]
  <2> SUFFICES ASSUME NEW i \in 1..Len(s) PROVE (h \o t)[i] = s[i]
    OBVIOUS
  <2>1. CASE i = 1
    BY <1>1, <1>2, <1>3, <2>1 DEF t
  <2>2. CASE i # 1
    <3>1. i - 1 \in 1..Len(t) /\ i \in 1..1 + Len(t) /\ ~(i <= 1) /\ i - 1 + 1 = i
      BY <1>1, <1>2, <2>2 DEF t
    <3>2. t[i - 1] = s[i - 1 + 1]
      BY <1>1, <3>1 DEF t
    <3> QED BY <1>3, <3>1, <3>2
  <2> QED BY <2>1, <2>2
<1>5. Len(h \o t) = Len(s)
  BY <1>1, <1>2, <1>3 DEF t
<1>6. h \o t = s
  BY <1>3, <1>4, <1>5, SeqEqual
<1> QED BY <1>1, <1>6 DEF h, t

\* The first of the rest may be written to the end of what is before it.
LEMMA HeadMoves ==
    ASSUME NEW T, NEW a \in Seq(T), NEW s \in Seq(T), s # <<>>
    PROVE  Append(a, Head(s)) \o Tail(s) = a \o s
<1>1. Head(s) \in T /\ Tail(s) \in Seq(T) /\ s = <<Head(s)>> \o Tail(s)
  BY HeadThenTail
<1>2. <<Head(s)>> \in Seq(T)
  BY <1>1
<1>3. Append(a, Head(s)) = a \o <<Head(s)>>
  BY <1>1, AppendIsConcat
<1> QED BY <1>1, <1>2, <1>3, JoinIsAssociative

LEMMA NothingJoined ==
    ASSUME NEW T, NEW s \in Seq(T)
    PROVE  s \o <<>> = s /\ <<>> \o s = s /\ <<>> \in Seq(T)
BY ConcatEmptySeq

\* The numbers of the messages that have been written.
FirstOnes(k) == [i \in 1..k |-> i]

LEMMA OneMore ==
    ASSUME NEW k \in Nat
    PROVE  FirstOnes(k) \in Seq(Nat) /\ FirstOnes(k + 1) = Append(FirstOnes(k), k + 1)
<1>1. FirstOnes(k) \in Seq(Nat) /\ Len(FirstOnes(k)) = k /\ FirstOnes(k + 1) \in Seq(Nat)
      /\ Len(FirstOnes(k + 1)) = k + 1
  BY DEF FirstOnes
<1>2. /\ Append(FirstOnes(k), k + 1) \in Seq(Nat) /\ Len(Append(FirstOnes(k), k + 1)) = k + 1
      /\ \A i \in 1..k : Append(FirstOnes(k), k + 1)[i] = i
      /\ Append(FirstOnes(k), k + 1)[k + 1] = k + 1
  BY <1>1, AppendProperties DEF FirstOnes
<1>3. \A i \in 1..k + 1 : FirstOnes(k + 1)[i] = i
  BY DEF FirstOnes
<1>4. \A i \in 1..k + 1 : i \in 1..k \/ i = k + 1
  OBVIOUS
<1>5. \A i \in 1..k + 1 : FirstOnes(k + 1)[i] = Append(FirstOnes(k), k + 1)[i]
  BY <1>2, <1>3, <1>4
<1> QED BY <1>1, <1>2, <1>5, SeqEqual

LEMMA AfterRemoveAt ==
    ASSUME NEW T, NEW s \in Seq(T), NEW i \in DOMAIN s
    PROVE  /\ RemoveAt(s, i) \in Seq(T) /\ Len(RemoveAt(s, i)) = Len(s) - 1
           /\ \A j \in 1..Len(s) - 1 : RemoveAt(s, i)[j] = IF j < i THEN s[j] ELSE s[j + 1]
<1> DEFINE a == SubSeq(s, 1, i - 1)
           b == SubSeq(s, i + 1, Len(s))
<1>1. /\ Len(s) \in Nat /\ i \in 1..Len(s) /\ i \in Int /\ i - 1 \in Int /\ i + 1 \in Int
      /\ \A j \in 1..Len(s) : s[j] \in T
  BY LenProperties
<1>2. /\ a \in Seq(T) /\ Len(a) = i - 1 /\ \A j \in 1..i - 1 : a[j] = s[j]
  <2>1. \A j \in 1..i - 1 : s[j] \in T
    BY <1>1
  <2>2. /\ a \in Seq(T) /\ Len(a) = IF 1 <= i - 1 THEN i - 1 - 1 + 1 ELSE 0
        /\ \A j \in 1..i - 1 - 1 + 1 : a[j] = s[1 + j - 1]
    BY <1>1, <2>1, SubSeqProperties
  <2> QED BY <1>1, <2>2
<1>3. /\ b \in Seq(T) /\ Len(b) = Len(s) - i /\ \A j \in 1..Len(s) - i : b[j] = s[i + j]
  <2>1. \A j \in i + 1..Len(s) : s[j] \in T
    BY <1>1
  <2>2. /\ b \in Seq(T) /\ Len(b) = IF i + 1 <= Len(s) THEN Len(s) - (i + 1) + 1 ELSE 0
        /\ \A j \in 1..Len(s) - (i + 1) + 1 : b[j] = s[i + 1 + j - 1]
    BY <1>1, <2>1, SubSeqProperties
  <2> HIDE DEF b
  <2>3. \A j \in 1..Len(s) - i : j \in 1..Len(s) - (i + 1) + 1 /\ i + 1 + j - 1 = i + j
    <3>1. \A L, k \in Int : \A j \in 1..L - k : j \in 1..L - (k + 1) + 1 /\ k + 1 + j - 1 = k + j
      OBVIOUS
    <3>2. Len(s) \in Int /\ i \in Int
      BY <1>1
    <3> QED BY <3>1, <3>2, Zenon
  <2>4. \A j \in 1..Len(s) - i : b[j] = s[i + j]
    BY <2>2, <2>3
  <2>5. Len(b) = Len(s) - i
    BY <1>1, <2>2
  <2> QED BY <2>2, <2>4, <2>5
<1>4. RemoveAt(s, i) = a \o b
  BY DEF RemoveAt
<1> HIDE DEF a, b
<1>5. /\ a \o b \in Seq(T) /\ Len(a \o b) = Len(a) + Len(b)
      /\ \A j \in 1..Len(a) + Len(b) : (a \o b)[j] = IF j <= Len(a) THEN a[j] ELSE b[j - Len(a)]
  BY <1>2, <1>3, ConcatProperties
<1>6. ASSUME NEW j \in 1..Len(s) - 1 PROVE (a \o b)[j] = IF j < i THEN s[j] ELSE s[j + 1]
  <2>1. (a \o b)[j] = IF j <= i - 1 THEN a[j] ELSE b[j - (i - 1)]
    <3>1. j \in 1..Len(a) + Len(b) /\ Len(a) = i - 1
      BY <1>1, <1>2, <1>3
    <3> QED BY <1>5, <3>1
  <2>2. CASE j < i
    BY <1>1, <1>2, <2>1, <2>2
  <2>3. CASE ~(j < i)
    <3>1. j - (i - 1) \in 1..Len(s) - i /\ i + (j - (i - 1)) = j + 1 /\ ~(j <= i - 1)
      BY <1>1, <2>3
    <3>2. b[j - (i - 1)] = s[i + (j - (i - 1))]
      BY <1>3, <3>1
    <3> QED BY <2>1, <2>3, <3>1, <3>2
  <2> QED BY <2>2, <2>3
<1>7. Len(a \o b) = Len(s) - 1
  BY <1>1, <1>2, <1>3, <1>5
<1> QED BY <1>4, <1>5, <1>6, <1>7

LEMMA RemovingFirst ==
    ASSUME NEW T, NEW s \in Seq(T), s # <<>>
    PROVE  RemoveAt(s, 1) = Tail(s)
<1>1. Len(s) \in Nat /\ Len(s) >= 1 /\ 1 \in DOMAIN s
  BY LenProperties
<1>2. /\ RemoveAt(s, 1) \in Seq(T) /\ Len(RemoveAt(s, 1)) = Len(s) - 1
      /\ \A j \in 1..Len(s) - 1 : RemoveAt(s, 1)[j] = IF j < 1 THEN s[j] ELSE s[j + 1]
  BY <1>1, AfterRemoveAt
<1>3. /\ Tail(s) \in Seq(T) /\ Len(Tail(s)) = Len(s) - 1
      /\ \A j \in 1..Len(Tail(s)) : Tail(s)[j] = s[j + 1]
  BY HeadTailProperties
<1>4. \A j \in 1..Len(s) - 1 : RemoveAt(s, 1)[j] = Tail(s)[j]
  BY <1>2, <1>3
<1> DEFINE a == RemoveAt(s, 1)
           b == Tail(s)
<1>5. a \in Seq(T) /\ b \in Seq(T) /\ Len(a) = Len(b) /\ \A j \in 1..Len(a) : a[j] = b[j]
  BY <1>2, <1>3, <1>4
<1> HIDE DEF a, b
<1>6. a = b
  BY <1>5, SeqEqual
<1> QED BY <1>6 DEF a, b

-----------------------------------------------------------------------------
(* WebRTC: what is written arrives, in order, at QoS 3 and 4.              *)

RtcMsgs == Nat \ {0}

FlowTypes ==
    /\ rtcStage \in [RtcNodes -> Stages] /\ given \in [RtcNodes -> BOOLEAN]
    /\ written \in [RtcNodes -> Nat] /\ sent \in [RtcNodes -> Nat]
    /\ outbox \in [RtcNodes -> Seq(RtcMsgs)] /\ sctp \in [RtcNodes -> Seq(RtcMsgs)]
    /\ inbox \in [RtcNodes -> Seq(RtcMsgs)] /\ received \in [RtcNodes -> Seq(RtcMsgs)]

\* Both ends of the stream of w are there, or w left in time.
FlowsFrom(w) ==
    /\ rtcStage[Peer(w)] \notin {"left", "failed"}
    /\ rtcStage[w] = "left" => ~given[w]

FlowOf(w) ==
    /\ rtcStage[w] = "flushing" /\ ~given[w] => outbox[w] = <<>> /\ sent[w] = 0
    /\ FlowsFrom(w) => HasCome(Peer(w)) \o OnTheWay(w) = FirstOnes(written[w])

FlowInv == FlowTypes /\ (Reliable => \A w \in RtcNodes : FlowOf(w))

LEMMA TwoEnds ==
    ASSUME NEW n \in RtcNodes, NEW w \in RtcNodes
    PROVE  /\ Peer(n) \in RtcNodes /\ Peer(n) # n /\ Peer(Peer(n)) = n
           /\ w # n => w = Peer(n) /\ Peer(w) = n
BY DEF Peer, RtcNodes

LEMMA FlowInitHolds == RtcInit => FlowInv
<1> SUFFICES ASSUME RtcInit PROVE FlowInv
  OBVIOUS
<1>1. <<>> \in Seq(RtcMsgs) /\ <<>> \o <<>> = <<>> /\ FirstOnes(0) = <<>>
  <2>1. FirstOnes(0) \in Seq(Nat) /\ Len(FirstOnes(0)) = 0
    BY DEF FirstOnes
  <2> QED BY <2>1, NothingJoined
<1>2. FlowTypes
  BY <1>1 DEF RtcInit, FlowTypes, Stages
<1>3. ASSUME NEW w \in RtcNodes
      PROVE  /\ outbox[w] = <<>> /\ sent[w] = 0
             /\ HasCome(Peer(w)) \o OnTheWay(w) = FirstOnes(written[w])
  BY <1>1, <1>3, TwoEnds DEF RtcInit, HasCome, OnTheWay
<1> QED BY <1>2, <1>3 DEF FlowInv, FlowOf

LEMMA FlowTypesStep == FlowTypes /\ [RtcNext]_rtcVars => FlowTypes'
<1> SUFFICES ASSUME FlowTypes, [RtcNext]_rtcVars PROVE FlowTypes'
  OBVIOUS
<1>t. /\ rtcStage \in [RtcNodes -> Stages] /\ given \in [RtcNodes -> BOOLEAN]
      /\ written \in [RtcNodes -> Nat] /\ sent \in [RtcNodes -> Nat]
      /\ outbox \in [RtcNodes -> Seq(RtcMsgs)] /\ sctp \in [RtcNodes -> Seq(RtcMsgs)]
      /\ inbox \in [RtcNodes -> Seq(RtcMsgs)] /\ received \in [RtcNodes -> Seq(RtcMsgs)]
  BY DEF FlowTypes
<1>q. \A s \in Seq(RtcMsgs) : s # <<>> => Head(s) \in RtcMsgs /\ Tail(s) \in Seq(RtcMsgs)
  BY HeadTailProperties
<1>n. RtcMsgs \subseteq Nat /\ <<>> \in Seq(RtcMsgs) /\ 0 \in Nat
  BY DEF RtcMsgs
<1>1. CASE UNCHANGED rtcVars
  BY <1>1 DEF FlowTypes, rtcVars, sendVars, rtcIntakeVars
<1>2. ASSUME NEW n \in RtcNodes, NEW s \in Stages, AfterStage(n, s) PROVE FlowTypes'
  BY <1>t, <1>2 DEF AfterStage, FlowTypes, sendVars, rtcIntakeVars
<1>3. CASE Call \/ AcceptCall
  BY <1>2, <1>3 DEF Call, AcceptCall, Stages, RtcNodes, Initiator, Responder
<1>4. ASSUME NEW n \in RtcNodes,
             \/ ComeUp(n) \/ NobodyThere(n) \/ SignalingFails(n) \/ EndSignaling(n)
             \/ Open(n) \/ NeverOpens(n) \/ Die(n) \/ EndOperate(n) \/ DropSenders(n)
      PROVE  FlowTypes'
  BY <1>2, <1>4 DEF ComeUp, NobodyThere, SignalingFails, EndSignaling, Open, NeverOpens, Die,
     EndOperate, DropSenders, Stages
<1>5. ASSUME NEW n \in RtcNodes,
             \/ Discover(n) \/ ForwardCandidate(n) \/ ReadEnvelope(n) \/ ReadHungUp(n)
             \/ GraceTimer(n)
      PROVE  FlowTypes'
  <2>1. UNCHANGED <<rtcStage, sendVars, sctp, rtcIntakeVars, given>>
    BY <1>5 DEF Discover, ForwardCandidate, ReadEnvelope, ReadHungUp, GraceTimer
  <2> QED BY <2>1 DEF FlowTypes, sendVars, rtcIntakeVars
<1>6. ASSUME NEW n \in RtcNodes, RtcPublish(n) \/ RtcTryPublish(n) PROVE FlowTypes'
  <2>1. /\ written' = [written EXCEPT ![n] = written[n] + 1] /\ written[n] + 1 \in RtcMsgs
        /\ UNCHANGED <<rtcStage, sent, sctp, rtcIntakeVars, given>>
        /\ \/ outbox' = outbox
           \/ outbox' = [outbox EXCEPT ![n] = Append(outbox[n], written[n] + 1)]
    BY <1>t, <1>6 DEF RtcPublish, RtcTryPublish, Issuing, Enqueue, RtcMsgs
  <2>2. outbox[n] \in Seq(RtcMsgs)
    BY <1>t
  <2>3. Append(outbox[n], written[n] + 1) \in Seq(RtcMsgs)
    BY <2>1, <2>2, AppendProperties
  <2>4. outbox' \in [RtcNodes -> Seq(RtcMsgs)]
    BY <1>t, <2>1, <2>3
  <2>5. written' \in [RtcNodes -> Nat]
    BY <1>t, <1>n, <2>1
  <2> QED BY <1>t, <2>1, <2>4, <2>5 DEF FlowTypes, rtcIntakeVars
<1>7. ASSUME NEW n \in RtcNodes, TakeOut(n) \/ SendOn(n) \/ Close(n) PROVE FlowTypes'
  <2>1. sctp[n] \in Seq(RtcMsgs) /\ outbox[n] \in Seq(RtcMsgs) /\ sent[n] \in Nat /\ Peer(n) \in RtcNodes
    BY <1>t, TwoEnds
  <2>2. CASE TakeOut(n)
    <3>1. /\ Head(outbox[n]) \in RtcMsgs /\ Tail(outbox[n]) \in Seq(RtcMsgs)
          /\ sent' = [sent EXCEPT ![n] = Head(outbox[n])]
          /\ outbox' = [outbox EXCEPT ![n] = Tail(outbox[n])]
          /\ UNCHANGED <<rtcStage, written, sctp, rtcIntakeVars, given>>
      BY <1>q, <2>1, <2>2 DEF TakeOut
    <3>2. sent' \in [RtcNodes -> Nat] /\ outbox' \in [RtcNodes -> Seq(RtcMsgs)]
      BY <1>t, <1>n, <3>1
    <3> QED BY <1>t, <3>1, <3>2 DEF FlowTypes, rtcIntakeVars
  <2>3. CASE SendOn(n)
    <3>1. /\ sent' = [sent EXCEPT ![n] = 0] /\ sent[n] # 0
          /\ sctp' = sctp \/ sctp' = [sctp EXCEPT ![n] = Append(sctp[n], sent[n])]
          /\ UNCHANGED <<rtcStage, written, outbox, rtcIntakeVars, given>>
      BY <2>3 DEF SendOn
    <3>2. sent[n] \in RtcMsgs
      BY <2>1, <3>1 DEF RtcMsgs
    <3>3. Append(sctp[n], sent[n]) \in Seq(RtcMsgs)
      BY <2>1, <3>2, AppendProperties
    <3>4. sctp' \in [RtcNodes -> Seq(RtcMsgs)]
      BY <1>t, <3>1, <3>3
    <3>5. sent' \in [RtcNodes -> Nat]
      BY <1>t, <1>n, <3>1
    <3> QED BY <1>t, <3>1, <3>4, <3>5 DEF FlowTypes, rtcIntakeVars
  <2>4. CASE Close(n)
    <3>1. /\ rtcStage' = [rtcStage EXCEPT ![n] = "left"] /\ outbox' = [outbox EXCEPT ![n] = <<>>]
          /\ sent' = [sent EXCEPT ![n] = 0]
          /\ sctp' = [sctp EXCEPT ![n] = <<>>, ![Peer(n)] = <<>>]
          /\ inbox' = [inbox EXCEPT ![n] = <<>>]
          /\ UNCHANGED <<written, received>>
      BY <2>4 DEF Close
    <3>2. \E b \in BOOLEAN : given' = [given EXCEPT ![n] = b]
      BY <2>4, <1>t DEF Close
    <3>3. rtcStage' \in [RtcNodes -> Stages] /\ given' \in [RtcNodes -> BOOLEAN]
      BY <1>t, <3>1, <3>2 DEF Stages
    <3>4. sent' \in [RtcNodes -> Nat]
      BY <1>t, <1>n, <3>1
    <3>5. /\ outbox' \in [RtcNodes -> Seq(RtcMsgs)] /\ inbox' \in [RtcNodes -> Seq(RtcMsgs)]
          /\ sctp' \in [RtcNodes -> Seq(RtcMsgs)]
      BY <1>t, <1>n, <2>1, <3>1
    <3> QED BY <1>t, <3>1, <3>3, <3>4, <3>5 DEF FlowTypes
  <2> QED BY <1>7, <2>2, <2>3, <2>4
<1>8. ASSUME NEW n \in RtcNodes, Carry(n, Peer(n)) \/ LoseMessage(n) PROVE FlowTypes'
  <2>1. PICK i \in DOMAIN sctp[n] : sctp' = [sctp EXCEPT ![n] = RemoveAt(sctp[n], i)]
    BY <1>8 DEF Carry, LoseMessage
  <2>2. sctp[n] \in Seq(RtcMsgs) /\ Peer(n) \in RtcNodes
    BY <1>t, TwoEnds
  <2>3. RemoveAt(sctp[n], i) \in Seq(RtcMsgs)
    BY <2>1, <2>2, AfterRemoveAt
  <2>4. sctp' \in [RtcNodes -> Seq(RtcMsgs)]
    BY <1>t, <2>1, <2>3
  <2>5. UNCHANGED <<rtcStage, sendVars, received, given>>
    BY <1>8 DEF Carry, LoseMessage, rtcIntakeVars
  <2>6. \/ inbox' = inbox
        \/ \E j \in DOMAIN sctp[n] :
              inbox' = [inbox EXCEPT ![Peer(n)] = Append(inbox[Peer(n)], sctp[n][j])]
    BY <1>8 DEF Carry, LoseMessage, OnMessage, rtcIntakeVars
  <2>7. \A j \in DOMAIN sctp[n] : sctp[n][j] \in RtcMsgs
    BY <2>2, LenProperties
  <2>8. \A j \in DOMAIN sctp[n] : Append(inbox[Peer(n)], sctp[n][j]) \in Seq(RtcMsgs)
    <3>1. inbox[Peer(n)] \in Seq(RtcMsgs)
      BY <1>t, <2>2
    <3> QED BY <2>7, <3>1, AppendProperties
  <2>9. inbox' \in [RtcNodes -> Seq(RtcMsgs)]
    BY <1>t, <2>2, <2>6, <2>8
  <2> QED BY <1>t, <2>4, <2>5, <2>9 DEF FlowTypes, sendVars
<1>9. ASSUME NEW n \in RtcNodes, RtcPoll(n) PROVE FlowTypes'
  <2>1. /\ inbox[n] # <<>> /\ received' = [received EXCEPT ![n] = Append(received[n], Head(inbox[n]))]
        /\ inbox' = [inbox EXCEPT ![n] = Tail(inbox[n])]
        /\ UNCHANGED <<rtcStage, sendVars, sctp, given>>
    BY <1>9 DEF RtcPoll
  <2>2. received[n] \in Seq(RtcMsgs) /\ Head(inbox[n]) \in RtcMsgs /\ Tail(inbox[n]) \in Seq(RtcMsgs)
    BY <1>t, <1>q, <2>1
  <2>3. Append(received[n], Head(inbox[n])) \in Seq(RtcMsgs)
    BY <2>2, AppendProperties
  <2>4. received' \in [RtcNodes -> Seq(RtcMsgs)] /\ inbox' \in [RtcNodes -> Seq(RtcMsgs)]
    BY <1>t, <2>1, <2>2, <2>3
  <2> QED BY <1>t, <2>1, <2>4 DEF FlowTypes, sendVars
<1>10. ASSUME NEW n \in RtcNodes, AwaitLoops(n) PROVE FlowTypes'
  <2>1. /\ rtcStage' = [rtcStage EXCEPT ![n] = "flushing"]
        /\ given' = [given EXCEPT ![n] = ~LoopsEnded(n)]
        /\ UNCHANGED <<sendVars, sctp, rtcIntakeVars>>
    BY <1>10 DEF AwaitLoops
  <2>2. rtcStage' \in [RtcNodes -> Stages] /\ given' \in [RtcNodes -> BOOLEAN]
    BY <1>t, <2>1 DEF Stages
  <2> QED BY <1>t, <2>1, <2>2 DEF FlowTypes, sendVars, rtcIntakeVars
<1> QED BY <1>1, <1>3, <1>4, <1>5, <1>6, <1>7, <1>8, <1>9, <1>10 DEF RtcNext

\* a \o b under a name of its own: the facts below are used as they are stated.
Strung(a, b) == a \o b

LEMMA StrungTyped ==
    ASSUME NEW T, NEW a, NEW b, a \in Seq(T) /\ b \in Seq(T)
    PROVE  Strung(a, b) \in Seq(T)
BY JoinTyped DEF Strung

LEMMA StrungTwice ==
    ASSUME NEW T, NEW a, NEW b, NEW c, a \in Seq(T) /\ b \in Seq(T) /\ c \in Seq(T)
    PROVE  Strung(Strung(a, b), c) = Strung(a, Strung(b, c))
BY JoinIsAssociative DEF Strung

LEMMA StrungEnd ==
    ASSUME NEW T, NEW a, NEW b, NEW x, a \in Seq(T) /\ b \in Seq(T) /\ x \in T
    PROVE  Strung(a, Append(b, x)) = Append(Strung(a, b), x)
BY AppendToJoin DEF Strung

LEMMA StrungHead ==
    ASSUME NEW T, NEW a, NEW s, a \in Seq(T) /\ s \in Seq(T) /\ s # <<>>
    PROVE  Strung(Append(a, Head(s)), Tail(s)) = Strung(a, s)
BY HeadMoves DEF Strung

\* What is written last.
LEMMA LastPartGrows ==
    ASSUME NEW T
    PROVE  \A a, b, d, x : a \in Seq(T) /\ b \in Seq(T) /\ d \in Seq(T) /\ x \in T =>
              Strung(a, Strung(b, Append(d, x))) = Append(Strung(a, Strung(b, d)), x)
<1>1. ASSUME NEW a, NEW b, NEW d, NEW x,
             a \in Seq(T) /\ b \in Seq(T) /\ d \in Seq(T) /\ x \in T
      PROVE  Strung(a, Strung(b, Append(d, x))) = Append(Strung(a, Strung(b, d)), x)
  <2>1. b \in Seq(T) /\ d \in Seq(T) /\ x \in T
    BY <1>1
  <2>2. Strung(b, Append(d, x)) = Append(Strung(b, d), x)
    BY <2>1, StrungEnd
  <2>3. a \in Seq(T) /\ Strung(b, d) \in Seq(T) /\ x \in T
    BY <1>1, StrungTyped
  <2>4. Strung(a, Append(Strung(b, d), x)) = Append(Strung(a, Strung(b, d)), x)
    BY <2>3, StrungEnd
  <2> QED BY <2>2, <2>4
<1> QED BY <1>1

\* What is carried from the third part to the second.
LEMMA InnerHeadMoves ==
    ASSUME NEW T
    PROVE  \A a, b, c, k :
              a \in Seq(T) /\ b \in Seq(T) /\ c \in Seq(T) /\ k \in Seq(T) /\ c # <<>> =>
              Strung(Strung(a, Append(b, Head(c))), Strung(Tail(c), k))
                 = Strung(Strung(a, b), Strung(c, k))
<1>1. ASSUME NEW a, NEW b, NEW c, NEW k,
             a \in Seq(T) /\ b \in Seq(T) /\ c \in Seq(T) /\ k \in Seq(T) /\ c # <<>>
      PROVE  Strung(Strung(a, Append(b, Head(c))), Strung(Tail(c), k))
                = Strung(Strung(a, b), Strung(c, k))
  <2> DEFINE ab == Strung(a, b)
             x == Head(c)
             t == Tail(c)
             abx == Append(ab, x)
  <2>1. c \in Seq(T) /\ c # <<>> /\ k \in Seq(T)
    BY <1>1
  <2>2. x \in T /\ t \in Seq(T)
    BY <2>1, HeadThenTail
  <2>3. a \in Seq(T) /\ b \in Seq(T) /\ x \in T
    BY <1>1, <2>2
  <2>4. ab \in Seq(T)
    BY <2>3, StrungTyped
  <2> HIDE DEF ab
  <2>5. Strung(abx, t) = Strung(ab, c)
    BY <2>1, <2>4, StrungHead
  <2> HIDE DEF x, t
  <2>6. abx \in Seq(T)
    BY <2>3, <2>4, AppendProperties
  <2>7. Strung(a, Append(b, x)) = abx
    BY <2>3, StrungEnd DEF ab
  <2> HIDE DEF abx
  <2>8. abx \in Seq(T) /\ t \in Seq(T) /\ k \in Seq(T)
    BY <2>1, <2>2, <2>6
  <2>9. Strung(Strung(abx, t), k) = Strung(abx, Strung(t, k))
    BY <2>8, StrungTwice
  <2>10. ab \in Seq(T) /\ c \in Seq(T) /\ k \in Seq(T)
    BY <2>1, <2>4
  <2>11. Strung(Strung(ab, c), k) = Strung(ab, Strung(c, k))
    BY <2>10, StrungTwice
  <2>12. Strung(Strung(a, Append(b, x)), Strung(t, k)) = Strung(ab, Strung(c, k))
    BY <2>5, <2>7, <2>9, <2>11
  <2> QED BY <2>12 DEF ab, x, t
<1> QED BY <1>1

\* The parts of a stream are received and inbox of the reader, the SCTP buffer,
\* the message in dc.send, and the queue.  SCTP carries the oldest message over.
LEMMA PartsMove ==
    ASSUME NEW T
    PROVE  \A a, b, c, h, d :
           a \in Seq(T) /\ b \in Seq(T) /\ c \in Seq(T) /\ h \in Seq(T) /\ d \in Seq(T)
           /\ c # <<>> =>
              Strung(Strung(a, Append(b, Head(c))), Strung(Strung(Tail(c), h), d))
                 = Strung(Strung(a, b), Strung(Strung(c, h), d))
<1>1. ASSUME NEW a, NEW b, NEW c, NEW h, NEW d,
             /\ a \in Seq(T) /\ b \in Seq(T) /\ c \in Seq(T) /\ h \in Seq(T)
             /\ d \in Seq(T) /\ c # <<>>
      PROVE  Strung(Strung(a, Append(b, Head(c))), Strung(Strung(Tail(c), h), d))
                = Strung(Strung(a, b), Strung(Strung(c, h), d))
  <2> DEFINE ab == Strung(a, b)
             ch == Strung(c, h)
             hd == Strung(h, d)
             t == Tail(c)
  <2>0. /\ a \in Seq(T) /\ b \in Seq(T) /\ c \in Seq(T) /\ h \in Seq(T)
        /\ d \in Seq(T) /\ c # <<>>
    BY <1>1
  <2>1. t \in Seq(T)
    BY <2>0, HeadThenTail
  <2>2. hd \in Seq(T)
    BY <2>0, StrungTyped
  <2>3. Strung(ch, d) = Strung(c, hd)
    BY <2>0, StrungTwice
  <2> HIDE DEF t
  <2>4. Strung(Strung(t, h), d) = Strung(t, hd)
    BY <2>0, <2>1, StrungTwice
  <2> HIDE DEF ab, ch, hd
  <2>5. Strung(Strung(a, Append(b, Head(c))), Strung(Tail(c), hd))
           = Strung(Strung(a, b), Strung(c, hd))
    BY <2>0, <2>2, InnerHeadMoves
  <2>6. Strung(Strung(a, Append(b, Head(c))), Strung(t, hd)) = Strung(ab, Strung(c, hd))
    BY <2>5 DEF t, ab
  <2>7. Strung(Strung(a, Append(b, Head(c))), Strung(Strung(t, h), d)) = Strung(ab, Strung(ch, d))
    BY <2>3, <2>4, <2>6
  <2> QED BY <2>7 DEF t, ab, ch
<1> QED BY <1>1

HandOf(w) == IF sent[w] = 0 THEN <<>> ELSE <<sent[w]>>

LEMMA FlowParts ==
    ASSUME FlowTypes, NEW w \in RtcNodes
    PROVE  /\ received[Peer(w)] \in Seq(RtcMsgs) /\ inbox[Peer(w)] \in Seq(RtcMsgs)
           /\ sctp[w] \in Seq(RtcMsgs) /\ HandOf(w) \in Seq(RtcMsgs) /\ outbox[w] \in Seq(RtcMsgs)
           /\ HasCome(Peer(w)) = received[Peer(w)] \o inbox[Peer(w)]
           /\ OnTheWay(w) = (sctp[w] \o HandOf(w)) \o outbox[w]
<1>1. Peer(w) \in RtcNodes
  BY TwoEnds
<1>2. /\ received[Peer(w)] \in Seq(RtcMsgs) /\ inbox[Peer(w)] \in Seq(RtcMsgs)
      /\ sctp[w] \in Seq(RtcMsgs) /\ outbox[w] \in Seq(RtcMsgs) /\ sent[w] \in Nat
  BY <1>1 DEF FlowTypes
<1>3. HandOf(w) \in Seq(RtcMsgs)
  <2>1. CASE sent[w] = 0
    BY <2>1, NothingJoined DEF HandOf
  <2>2. CASE sent[w] # 0
    <3>1. sent[w] \in RtcMsgs
      BY <1>2, <2>2 DEF RtcMsgs
    <3> QED BY <2>2, <3>1 DEF HandOf
  <2> QED BY <2>1, <2>2
<1> QED BY <1>2, <1>3 DEF HasCome, OnTheWay, HandOf

\* A step after which the stream is made of the same messages.
LEMMA FlowStays ==
    ASSUME NEW w \in RtcNodes, FlowOf(w),
           FlowsFrom(w)' => FlowsFrom(w),
           FlowsFrom(w)' => (HasCome(Peer(w)) \o OnTheWay(w))' = HasCome(Peer(w)) \o OnTheWay(w),
           written'[w] = written[w],
           rtcStage'[w] = "flushing" /\ ~given'[w] => outbox'[w] = <<>> /\ sent'[w] = 0
    PROVE  FlowOf(w)'
BY DEF FlowOf, FirstOnes

\* Steps of run_signaling and of the driver that move no message.
LEMMA StageFlow ==
    ASSUME FlowTypes, NEW n \in RtcNodes, NEW w \in RtcNodes, FlowOf(w), Reliable,
           UNCHANGED <<sendVars, sctp, rtcIntakeVars, given>>,
           \/ UNCHANGED rtcStage
           \/ /\ rtcStage[n] \notin {"flushing", "left", "failed"}
              /\ \E s : s \notin {"flushing", "left"} /\ rtcStage' = [rtcStage EXCEPT ![n] = s]
    PROVE  FlowOf(w)'
<1>1. rtcStage \in [RtcNodes -> Stages] /\ Peer(w) \in RtcNodes
  BY TwoEnds DEF FlowTypes
<1>2. /\ \A v \in RtcNodes : rtcStage'[v] \in {"flushing", "left"} => rtcStage'[v] = rtcStage[v]
      /\ \A v \in RtcNodes : rtcStage[v] \in {"left", "failed"} => rtcStage'[v] = rtcStage[v]
  BY <1>1
<1>3. FlowsFrom(w)' => FlowsFrom(w)
  <2> SUFFICES ASSUME FlowsFrom(w)' PROVE FlowsFrom(w)
    OBVIOUS
  <2>1. /\ rtcStage'[Peer(w)] \notin {"left", "failed"}
        /\ rtcStage'[w] = "left" => ~given[w]
    BY DEF FlowsFrom
  <2> QED BY <1>1, <1>2, <2>1 DEF FlowsFrom
<1>4. (HasCome(Peer(w)) \o OnTheWay(w))' = HasCome(Peer(w)) \o OnTheWay(w)
  BY DEF HasCome, OnTheWay, sendVars, rtcIntakeVars
<1>5. rtcStage'[w] = "flushing" /\ ~given'[w] => outbox'[w] = <<>> /\ sent'[w] = 0
  BY <1>2 DEF FlowOf, sendVars
<1> QED BY <1>3, <1>4, <1>5, FlowStays DEF sendVars

\* A step that leaves the parts of the stream of w alone.
LEMMA FlowUntouched ==
    ASSUME NEW w \in RtcNodes, FlowOf(w),
           received'[Peer(w)] = received[Peer(w)], inbox'[Peer(w)] = inbox[Peer(w)],
           sctp'[w] = sctp[w], sent'[w] = sent[w], outbox'[w] = outbox[w],
           written'[w] = written[w], given'[w] = given[w], rtcStage'[w] = rtcStage[w],
           rtcStage'[Peer(w)] \notin {"left", "failed"} => rtcStage[Peer(w)] \notin {"left", "failed"}
    PROVE  FlowOf(w)'
<1>1. FlowsFrom(w)' => FlowsFrom(w)
  BY DEF FlowsFrom
<1>2. (HasCome(Peer(w)) \o OnTheWay(w))' = HasCome(Peer(w)) \o OnTheWay(w)
  BY DEF HasCome, OnTheWay
<1>3. rtcStage'[w] = "flushing" /\ ~given'[w] => outbox'[w] = <<>> /\ sent'[w] = 0
  BY DEF FlowOf
<1> QED BY <1>1, <1>2, <1>3, FlowStays

\* publish: the message is the last of the queue.
LEMMA FlowPublish ==
    ASSUME FlowTypes, FlowTypes', NEW n \in RtcNodes, RtcPublish(n), NEW w \in RtcNodes, FlowOf(w)
    PROVE  FlowOf(w)'
<1>1. /\ written' = [written EXCEPT ![n] = written[n] + 1]
      /\ outbox' = [outbox EXCEPT ![n] = Append(outbox[n], written[n] + 1)]
      /\ UNCHANGED <<rtcStage, sent, sctp, received, inbox, given>> /\ rtcStage[n] = "operate"
  BY DEF RtcPublish, Issuing, Enqueue, rtcIntakeVars
<1>2. /\ written \in [RtcNodes -> Nat] /\ outbox \in [RtcNodes -> Seq(RtcMsgs)]
  BY DEF FlowTypes
<1>3. CASE w # n
  <2>1. written'[w] = written[w] /\ outbox'[w] = outbox[w]
    BY <1>1, <1>2, <1>3
  <2> QED BY <1>1, <2>1, FlowUntouched
<1>4. CASE w = n
  <2> DEFINE a == received[Peer(w)]
             b == inbox[Peer(w)]
             c == sctp[w]
             h == HandOf(w)
             d == outbox[w]
             x == written[w] + 1
  <2>1. /\ a \in Seq(RtcMsgs) /\ b \in Seq(RtcMsgs) /\ c \in Seq(RtcMsgs) /\ h \in Seq(RtcMsgs)
        /\ d \in Seq(RtcMsgs)
        /\ HasCome(Peer(w)) = a \o b /\ OnTheWay(w) = (c \o h) \o d
    BY FlowParts
  <2>2. written[w] \in Nat /\ x \in RtcMsgs /\ written'[w] = x /\ outbox'[w] = Append(d, x)
    BY <1>1, <1>2, <1>4 DEF RtcMsgs
  <2>3. HasCome(Peer(w))' = a \o b /\ OnTheWay(w)' = (c \o h) \o Append(d, x)
    BY <1>1, <2>2 DEF HasCome, OnTheWay, HandOf
  <2>4. FlowsFrom(w)' = FlowsFrom(w) /\ rtcStage'[w] # "flushing"
    BY <1>1, <1>4 DEF FlowsFrom
  <2> HIDE DEF a, b, c, h, d
  <2>5. (a \o b) \o ((c \o h) \o Append(d, x)) = Append((a \o b) \o ((c \o h) \o d), x)
    <3> DEFINE ab == a \o b
               ch == c \o h
    <3>1. ab \in Seq(RtcMsgs) /\ ch \in Seq(RtcMsgs)
      BY <2>1, JoinTyped
    <3>3. ab \in Seq(RtcMsgs) /\ ch \in Seq(RtcMsgs) /\ d \in Seq(RtcMsgs) /\ x \in RtcMsgs
      BY <2>1, <2>2, <3>1
    <3> HIDE DEF ab, ch, x
    <3>2. Strung(ab, Strung(ch, Append(d, x))) = Append(Strung(ab, Strung(ch, d)), x)
      BY <3>3, LastPartGrows
    <3> QED BY <3>2 DEF Strung, ab, ch
  <2>6. FirstOnes(x) = Append(FirstOnes(written[w]), x)
    BY <2>2, OneMore
  <2>7. FlowsFrom(w)' => (HasCome(Peer(w)) \o OnTheWay(w))' = FirstOnes(written'[w])
    <3> SUFFICES ASSUME FlowsFrom(w)'
                 PROVE  (HasCome(Peer(w)) \o OnTheWay(w))' = FirstOnes(written'[w])
      OBVIOUS
    <3>1. (a \o b) \o ((c \o h) \o d) = FirstOnes(written[w])
      BY <2>1, <2>4 DEF FlowOf
    <3>2. Append((a \o b) \o ((c \o h) \o d), x) = FirstOnes(x)
      BY <2>6, <3>1
    <3>3. (a \o b) \o ((c \o h) \o Append(d, x)) = FirstOnes(written'[w])
      BY <2>2, <2>5, <3>2
    <3> QED BY <2>3, <3>3
  <2> QED BY <2>4, <2>7 DEF FlowOf, FirstOnes
<1> QED BY <1>3, <1>4

\* The send loop takes a message out of the queue, and SCTP takes it.
LEMMA FlowSend ==
    ASSUME FlowTypes, NEW n \in RtcNodes, TakeOut(n) \/ SendOn(n), NEW w \in RtcNodes, FlowOf(w)
    PROVE  FlowOf(w)'
<1>1. /\ sent \in [RtcNodes -> Nat] /\ outbox \in [RtcNodes -> Seq(RtcMsgs)]
      /\ sctp \in [RtcNodes -> Seq(RtcMsgs)]
  BY DEF FlowTypes
<1>2. /\ UNCHANGED <<rtcStage, written, received, inbox, given>>
      /\ \A m \in RtcNodes \ {n} :
            outbox'[m] = outbox[m] /\ sent'[m] = sent[m] /\ sctp'[m] = sctp[m]
  BY <1>1 DEF TakeOut, SendOn, rtcIntakeVars
<1>3. CASE w # n
  BY <1>2, <1>3, FlowUntouched
<1>4. CASE w = n
  <2> DEFINE a == received[Peer(w)]
             b == inbox[Peer(w)]
             c == sctp[w]
             h == HandOf(w)
             d == outbox[w]
  <2>1. /\ a \in Seq(RtcMsgs) /\ b \in Seq(RtcMsgs) /\ c \in Seq(RtcMsgs) /\ h \in Seq(RtcMsgs)
        /\ d \in Seq(RtcMsgs) /\ sent[w] \in Nat
        /\ HasCome(Peer(w)) = a \o b /\ OnTheWay(w) = (c \o h) \o d
    BY <1>1, FlowParts
  <2>2. HasCome(Peer(w))' = HasCome(Peer(w)) /\ FlowsFrom(w)' = FlowsFrom(w)
    BY <1>2 DEF HasCome, FlowsFrom
  <2>3. ~(rtcStage[w] = "flushing" /\ ~given[w])
    BY <1>4 DEF TakeOut, SendOn, FlowOf
  <2>4. ASSUME FlowsFrom(w)' PROVE OnTheWay(w)' = OnTheWay(w)
    <3>1. CASE TakeOut(n)
      <4>1. /\ d # <<>> /\ sent[w] = 0 /\ sctp' = sctp
            /\ sent'[w] = Head(d) /\ outbox'[w] = Tail(d)
        BY <1>1, <1>4, <3>1 DEF TakeOut
      <4>2. sent'[w] # 0
        <5>1. Head(d) \in RtcMsgs
          BY <2>1, <4>1, HeadThenTail
        <5> QED BY <4>1, <5>1 DEF RtcMsgs
      <4>3. OnTheWay(w)' = (c \o <<Head(d)>>) \o Tail(d)
        BY <4>1, <4>2 DEF OnTheWay
      <4>4. h = <<>>
        BY <4>1 DEF HandOf
      <4> HIDE DEF a, b, c, h, d
      <4>5. (c \o <<Head(d)>>) \o Tail(d) = (c \o <<>>) \o d
        <5>1. Head(d) \in RtcMsgs
          BY <2>1, <4>1, HeadThenTail
        <5>2. c \o <<Head(d)>> = Append(c, Head(d)) /\ c \o <<>> = c
          BY <2>1, <5>1, AppendIsConcat, NothingJoined
        <5> QED BY <2>1, <4>1, <5>2, HeadMoves
      <4> QED BY <2>1, <4>3, <4>4, <4>5
    <3>2. CASE SendOn(n)
      <4>1. rtcStage[Peer(w)] \notin {"left", "failed"}
        BY <1>2, <2>4 DEF FlowsFrom
      <4>2. /\ sent[w] # 0 /\ outbox' = outbox
            /\ sent'[w] = 0 /\ sctp'[w] = Append(c, sent[w])
        BY <1>1, <1>4, <3>2, <4>1 DEF SendOn
      <4>3. sent[w] \in RtcMsgs
        BY <2>1, <4>2 DEF RtcMsgs
      <4>4. OnTheWay(w)' = (Append(c, sent[w]) \o <<>>) \o d
        BY <4>2 DEF OnTheWay
      <4>5. h = <<sent[w]>>
        BY <4>2 DEF HandOf
      <4> HIDE DEF a, b, c, h, d
      <4>6. (Append(c, sent[w]) \o <<>>) \o d = (c \o <<sent[w]>>) \o d
        <5>1. Append(c, sent[w]) \in Seq(RtcMsgs) /\ c \o <<sent[w]>> = Append(c, sent[w])
          BY <2>1, <4>3, AppendProperties, AppendIsConcat
        <5> QED BY <5>1, NothingJoined
      <4> QED BY <2>1, <4>4, <4>5, <4>6
    <3> QED BY <3>1, <3>2
  <2>5. FlowsFrom(w)' => (HasCome(Peer(w)) \o OnTheWay(w))' = HasCome(Peer(w)) \o OnTheWay(w)
    BY <2>2, <2>4
  <2>6. FlowsFrom(w)' => FlowsFrom(w)
    BY <2>2
  <2> QED BY <1>2, <2>3, <2>5, <2>6, FlowStays
<1> QED BY <1>3, <1>4

\* SCTP carries the oldest message over, and the callback passes it on.
LEMMA FlowCarry ==
    ASSUME FlowTypes, Reliable, NEW n \in RtcNodes, Carry(n, Peer(n)), NEW w \in RtcNodes, FlowOf(w)
    PROVE  FlowOf(w)'
<1>1. /\ sctp \in [RtcNodes -> Seq(RtcMsgs)] /\ inbox \in [RtcNodes -> Seq(RtcMsgs)]
      /\ Peer(n) \in RtcNodes /\ Peer(n) # n
  BY TwoEnds DEF FlowTypes
<1>2. /\ sctp[n] # <<>> /\ 1 \in DOMAIN sctp[n]
      /\ sctp' = [sctp EXCEPT ![n] = RemoveAt(sctp[n], 1)]
      /\ inbox' = [inbox EXCEPT ![Peer(n)] = Append(inbox[Peer(n)], sctp[n][1])]
      /\ UNCHANGED <<rtcStage, written, outbox, sent, received, given>>
  <2>1. PICK i \in DOMAIN sctp[n] :
           /\ i = 1 /\ sctp' = [sctp EXCEPT ![n] = RemoveAt(sctp[n], i)]
           /\ OnMessage(Peer(n), sctp[n][i])
    BY DEF Carry, Arrives
  <2>2. ~Outdated(Peer(n), sctp[n][i])
    BY DEF Reliable, Outdated
  <2>3. sctp[n] # <<>>
    <3>1. sctp[n] \in Seq(RtcMsgs)
      BY <1>1
    <3> QED BY <2>1, <3>1
  <2> QED BY <2>1, <2>2, <2>3 DEF OnMessage, Carry, sendVars
<1>3. sctp[n] \in Seq(RtcMsgs)
  BY <1>1
<1>4. sctp[n][1] = Head(sctp[n]) /\ RemoveAt(sctp[n], 1) = Tail(sctp[n])
  <2> DEFINE s == sctp[n]
  <2>1. s \in Seq(RtcMsgs) /\ s # <<>>
    BY <1>2, <1>3
  <2> HIDE DEF s
  <2>2. s[1] = Head(s)
    BY <2>1
  <2>3. RemoveAt(s, 1) = Tail(s)
    BY <2>1, RemovingFirst
  <2> QED BY <2>2, <2>3 DEF s
<1>5. CASE w # n
  <2>1. Peer(w) # Peer(n) /\ Peer(w) \in RtcNodes
    BY <1>5, TwoEnds
  <2>2. sctp'[w] = sctp[w] /\ inbox'[Peer(w)] = inbox[Peer(w)]
    BY <1>1, <1>2, <1>5, <2>1
  <2> QED BY <1>2, <2>2, FlowUntouched
<1>6. CASE w = n
  <2> DEFINE a == received[Peer(w)]
             b == inbox[Peer(w)]
             c == sctp[w]
             h == HandOf(w)
             d == outbox[w]
  <2>1. /\ a \in Seq(RtcMsgs) /\ b \in Seq(RtcMsgs) /\ c \in Seq(RtcMsgs) /\ h \in Seq(RtcMsgs)
        /\ d \in Seq(RtcMsgs) /\ c # <<>>
        /\ HasCome(Peer(w)) = a \o b /\ OnTheWay(w) = (c \o h) \o d
    BY <1>2, <1>6, FlowParts
  <2>2. sctp'[w] = Tail(c) /\ inbox'[Peer(w)] = Append(b, Head(c))
    BY <1>1, <1>2, <1>4, <1>6
  <2>3. /\ HasCome(Peer(w))' = a \o Append(b, Head(c))
        /\ OnTheWay(w)' = (Tail(c) \o h) \o d
    BY <1>2, <2>2 DEF HasCome, OnTheWay, HandOf
  <2> HIDE DEF a, b, c, h, d
  <2>4. Strung(Strung(a, Append(b, Head(c))), Strung(Strung(Tail(c), h), d))
           = Strung(Strung(a, b), Strung(Strung(c, h), d))
    BY <2>1, PartsMove
  <2>5. (a \o Append(b, Head(c))) \o ((Tail(c) \o h) \o d) = (a \o b) \o ((c \o h) \o d)
    BY <2>4 DEF Strung
  <2>6. (HasCome(Peer(w)) \o OnTheWay(w))' = HasCome(Peer(w)) \o OnTheWay(w)
    BY <2>1, <2>3, <2>5
  <2>7. FlowsFrom(w)' => FlowsFrom(w)
    BY <1>2 DEF FlowsFrom
  <2>8. rtcStage'[w] = "flushing" /\ ~given'[w] => outbox'[w] = <<>> /\ sent'[w] = 0
    BY <1>2 DEF FlowOf
  <2> QED BY <1>2, <2>6, <2>7, <2>8, FlowStays
<1> QED BY <1>5, <1>6

\* The driver takes a message over.
LEMMA FlowPoll ==
    ASSUME FlowTypes, NEW n \in RtcNodes, RtcPoll(n), NEW w \in RtcNodes, FlowOf(w)
    PROVE  FlowOf(w)'
<1>1. /\ received \in [RtcNodes -> Seq(RtcMsgs)] /\ inbox \in [RtcNodes -> Seq(RtcMsgs)]
      /\ Peer(w) \in RtcNodes
  BY TwoEnds DEF FlowTypes
<1>2. /\ inbox[n] # <<>>
      /\ received' = [received EXCEPT ![n] = Append(received[n], Head(inbox[n]))]
      /\ inbox' = [inbox EXCEPT ![n] = Tail(inbox[n])]
      /\ UNCHANGED <<rtcStage, written, outbox, sent, sctp, given>>
  BY DEF RtcPoll, sendVars
<1>3. CASE Peer(w) # n
  <2>1. received'[Peer(w)] = received[Peer(w)] /\ inbox'[Peer(w)] = inbox[Peer(w)]
    BY <1>1, <1>2, <1>3
  <2> QED BY <1>2, <2>1, FlowUntouched
<1>4. CASE Peer(w) = n
  <2> DEFINE a == received[n]
             b == inbox[n]
  <2>1. a \in Seq(RtcMsgs) /\ b \in Seq(RtcMsgs) /\ b # <<>>
    BY <1>1, <1>2, <1>4
  <2>2. HasCome(n)' = Append(a, Head(b)) \o Tail(b)
    BY <1>1, <1>2, <1>4 DEF HasCome
  <2> HIDE DEF a, b
  <2>3. Append(a, Head(b)) \o Tail(b) = a \o b
    BY <2>1, HeadMoves
  <2>4. HasCome(n)' = HasCome(n)
    BY <2>2, <2>3 DEF HasCome, a, b
  <2>5. OnTheWay(w)' = OnTheWay(w)
    BY <1>2 DEF OnTheWay
  <2>6. (HasCome(Peer(w)) \o OnTheWay(w))' = HasCome(Peer(w)) \o OnTheWay(w)
    BY <1>4, <2>4, <2>5
  <2>7. FlowsFrom(w)' => FlowsFrom(w)
    BY <1>2 DEF FlowsFrom
  <2>8. rtcStage'[w] = "flushing" /\ ~given'[w] => outbox'[w] = <<>> /\ sent'[w] = 0
    BY <1>2 DEF FlowOf
  <2> QED BY <1>2, <2>6, <2>7, <2>8, FlowStays
<1> QED BY <1>3, <1>4

\* disconnect: the wait for the send loops.
LEMMA FlowAwait ==
    ASSUME FlowTypes, NEW n \in RtcNodes, AwaitLoops(n), NEW w \in RtcNodes, FlowOf(w)
    PROVE  FlowOf(w)'
<1>1. /\ rtcStage \in [RtcNodes -> Stages] /\ given \in [RtcNodes -> BOOLEAN]
      /\ Peer(w) \in RtcNodes
  BY TwoEnds DEF FlowTypes
<1>2. /\ rtcStage[n] = "stopping" /\ rtcStage' = [rtcStage EXCEPT ![n] = "flushing"]
      /\ given' = [given EXCEPT ![n] = ~LoopsEnded(n)]
      /\ UNCHANGED <<written, outbox, sent, sctp, received, inbox>>
  BY DEF AwaitLoops, sendVars, rtcIntakeVars
<1>3. rtcStage'[Peer(w)] \notin {"left", "failed"} => rtcStage[Peer(w)] \notin {"left", "failed"}
  BY <1>1, <1>2
<1>4. CASE w # n
  <2>1. rtcStage'[w] = rtcStage[w] /\ given'[w] = given[w]
    BY <1>1, <1>2, <1>4
  <2> QED BY <1>2, <1>3, <2>1, FlowUntouched
<1>5. CASE w = n
  <2>1. FlowsFrom(w)' => FlowsFrom(w)
    BY <1>2, <1>3, <1>5 DEF FlowsFrom
  <2>2. given'[w] = ~LoopsEnded(w)
    BY <1>1, <1>2, <1>5
  <2>3. ~given'[w] => outbox'[w] = <<>> /\ sent'[w] = 0
    BY <1>2, <2>2 DEF LoopsEnded
  <2>4. (HasCome(Peer(w)) \o OnTheWay(w))' = HasCome(Peer(w)) \o OnTheWay(w)
    BY <1>2 DEF HasCome, OnTheWay
  <2> QED BY <1>2, <2>1, <2>3, <2>4, FlowStays
<1> QED BY <1>4, <1>5

\* disconnect: the end.  What is thrown away then is nothing, unless a deadline
\* has passed.
LEMMA FlowClose ==
    ASSUME FlowTypes, Reliable, NEW n \in RtcNodes, Close(n), NEW w \in RtcNodes, FlowOf(w)
    PROVE  FlowOf(w)'
<1>1. /\ rtcStage \in [RtcNodes -> Stages] /\ given \in [RtcNodes -> BOOLEAN]
      /\ outbox \in [RtcNodes -> Seq(RtcMsgs)] /\ sctp \in [RtcNodes -> Seq(RtcMsgs)]
      /\ inbox \in [RtcNodes -> Seq(RtcMsgs)] /\ sent \in [RtcNodes -> Nat]
      /\ Peer(n) \in RtcNodes /\ Peer(n) # n /\ Peer(w) \in RtcNodes
  BY TwoEnds DEF FlowTypes
<1>2. /\ rtcStage[n] = "flushing" /\ rtcStage' = [rtcStage EXCEPT ![n] = "left"]
      /\ given' = [given EXCEPT ![n] = given[n] \/ (Reliable /\ sctp[n] # <<>>)]
      /\ outbox' = [outbox EXCEPT ![n] = <<>>] /\ sent' = [sent EXCEPT ![n] = 0]
      /\ sctp' = [sctp EXCEPT ![n] = <<>>, ![Peer(n)] = <<>>]
      /\ inbox' = [inbox EXCEPT ![n] = <<>>]
      /\ UNCHANGED <<written, received>>
  BY DEF Close
<1>3. CASE w # n
  <2>1. /\ Peer(w) = n /\ rtcStage'[w] = rtcStage[w] /\ outbox'[w] = outbox[w]
        /\ sent'[w] = sent[w] /\ given'[w] = given[w]
    BY <1>1, <1>2, <1>3, TwoEnds
  <2>2. ~FlowsFrom(w)'
    BY <1>1, <1>2, <2>1 DEF FlowsFrom
  <2> QED BY <2>1, <2>2 DEF FlowOf
<1>4. CASE w = n
  <2>1. /\ rtcStage'[w] = "left" /\ outbox'[w] = <<>> /\ sent'[w] = 0 /\ sctp'[w] = <<>>
        /\ rtcStage'[Peer(w)] = rtcStage[Peer(w)] /\ inbox'[Peer(w)] = inbox[Peer(w)]
        /\ given'[w] = (given[w] \/ (Reliable /\ sctp[w] # <<>>))
    BY <1>1, <1>2, <1>4
  <2>2. ASSUME FlowsFrom(w)'
        PROVE  FlowsFrom(w) /\ sctp[w] = <<>> /\ outbox[w] = <<>> /\ sent[w] = 0
    <3>1. ~given[w] /\ sctp[w] = <<>> /\ rtcStage[Peer(w)] \notin {"left", "failed"}
      BY <2>1, <2>2 DEF FlowsFrom
    <3> QED BY <1>2, <1>4, <3>1 DEF FlowsFrom, FlowOf
  <2>3. ASSUME FlowsFrom(w)'
        PROVE  (HasCome(Peer(w)) \o OnTheWay(w))' = HasCome(Peer(w)) \o OnTheWay(w)
    BY <1>2, <2>1, <2>2, <2>3 DEF HasCome, OnTheWay
  <2>4. FlowsFrom(w)' => FlowsFrom(w)
    BY <2>2
  <2>5. rtcStage'[w] = "flushing" /\ ~given'[w] => outbox'[w] = <<>> /\ sent'[w] = 0
    BY <2>1
  <2> QED BY <1>2, <2>3, <2>4, <2>5, FlowStays
<1> QED BY <1>3, <1>4

LEMMA FlowStep == FlowInv /\ [RtcNext]_rtcVars => FlowInv'
<1> SUFFICES ASSUME FlowInv, [RtcNext]_rtcVars PROVE FlowInv'
  OBVIOUS
<1>1. FlowTypes /\ FlowTypes'
  BY FlowTypesStep DEF FlowInv
<1>2. rtc' = rtc
  BY DEF RtcNext, rtcVars, Call, AcceptCall, ComeUp, NobodyThere, Discover, ForwardCandidate,
     ReadEnvelope, ReadHungUp, SignalingFails, GraceTimer, EndSignaling, Open, NeverOpens, Die,
     RtcPublish, RtcTryPublish, Issuing, TakeOut, SendOn, Carry, LoseMessage, RtcPoll, EndOperate,
     DropSenders, AwaitLoops, Close, AfterStage
<1>3. Reliable' = Reliable
  BY <1>2 DEF Reliable
<1>4. ASSUME Reliable, NEW w \in RtcNodes PROVE FlowOf(w)'
  <2>1. FlowOf(w)
    BY <1>4 DEF FlowInv
  <2>2. CASE UNCHANGED rtcVars
    BY <2>1, <2>2, FlowUntouched DEF rtcVars, sendVars, rtcIntakeVars
  <2>3. ASSUME NEW n \in RtcNodes, NEW s, AfterStage(n, s), s \notin {"flushing", "left"},
               rtcStage[n] \notin {"flushing", "left", "failed"}
        PROVE  FlowOf(w)'
    BY <1>1, <1>4, <2>1, <2>3, StageFlow DEF AfterStage
  <2>4. CASE Call \/ AcceptCall
    BY <2>3, <2>4 DEF Call, AcceptCall, RtcNodes, Initiator, Responder
  <2>5. ASSUME NEW n \in RtcNodes,
               \/ ComeUp(n) \/ NobodyThere(n) \/ SignalingFails(n) \/ EndSignaling(n)
               \/ Open(n) \/ NeverOpens(n) \/ Die(n) \/ EndOperate(n) \/ DropSenders(n)
        PROVE  FlowOf(w)'
    BY <2>3, <2>5 DEF ComeUp, NobodyThere, SignalingFails, EndSignaling, InLoop, Open,
       NeverOpens, Die, EndOperate, DropSenders
  <2>6. ASSUME NEW n \in RtcNodes,
               \/ Discover(n) \/ ForwardCandidate(n) \/ ReadEnvelope(n) \/ ReadHungUp(n)
               \/ GraceTimer(n)
        PROVE  FlowOf(w)'
    <3>1. UNCHANGED <<rtcStage, sendVars, sctp, rtcIntakeVars, given>>
      BY <2>6 DEF Discover, ForwardCandidate, ReadEnvelope, ReadHungUp, GraceTimer
    <3> QED BY <2>1, <3>1, FlowUntouched DEF sendVars, rtcIntakeVars
  <2>7. ASSUME NEW n \in RtcNodes,
               \/ RtcPublish(n) \/ TakeOut(n) \/ SendOn(n) \/ Carry(n, Peer(n)) \/ RtcPoll(n)
               \/ AwaitLoops(n) \/ Close(n)
        PROVE  FlowOf(w)'
    BY <1>1, <1>4, <2>1, <2>7, FlowPublish, FlowSend, FlowCarry, FlowPoll, FlowAwait, FlowClose
  <2>8. ASSUME NEW n \in RtcNodes, RtcTryPublish(n) \/ LoseMessage(n) PROVE FALSE
    BY <1>4, <2>8 DEF RtcTryPublish, LoseMessage
  <2> QED BY <2>2, <2>4, <2>5, <2>6, <2>7, <2>8 DEF RtcNext
<1> QED BY <1>1, <1>3, <1>4 DEF FlowInv

LEMMA FlowTellsTheStream == FlowInv => RtcStreamsHold
BY DEF FlowInv, FlowOf, FlowsFrom, RtcStreamsHold, FirstOnes

LEMMA RemoveAtCarries ==
    ASSUME NEW T, NEW s \in Seq(T), NEW i \in DOMAIN s, NEW x
    PROVE  /\ Carries(RemoveAt(s, i), x) => Carries(s, x)
           /\ CarriesOnce(s, x) => CarriesOnce(RemoveAt(s, i), x)
                                      /\ ~(x = s[i] /\ Carries(RemoveAt(s, i), x))
<1> DEFINE t == RemoveAt(s, i)
           k == Len(s)
           at(j) == IF j < i THEN j ELSE j + 1
<1>1. /\ t \in Seq(T) /\ Len(t) = k - 1
      /\ \A j \in 1..k - 1 : t[j] = IF j < i THEN s[j] ELSE s[j + 1]
  BY AfterRemoveAt
<1>2. k \in Nat /\ DOMAIN s = 1..k /\ i \in 1..k /\ i \in Int
  BY LenProperties
<1>3. DOMAIN t = 1..k - 1
  BY <1>1, LenProperties
<1> HIDE DEF t, k
<1>4. \A j \in DOMAIN t : at(j) \in DOMAIN s /\ at(j) # i /\ t[j] = s[at(j)]
  BY <1>1, <1>2, <1>3
<1>5. \A j, l \in DOMAIN t : at(j) = at(l) => j = l
  BY <1>2, <1>3
<1> HIDE DEF at
<1>6. Carries(t, x) => Carries(s, x)
  BY <1>4 DEF Carries
<1>7. ASSUME CarriesOnce(s, x) PROVE CarriesOnce(t, x) /\ ~(x = s[i] /\ Carries(t, x))
  BY <1>4, <1>5, <1>7 DEF Carries, CarriesOnce
<1> QED BY <1>6, <1>7 DEF t

-----------------------------------------------------------------------------
(* WebRTC: at QoS 2 what is passed on is the newest of its path.           *)

MsgPaths == 0..NumPaths - 1

LEMMA MsgPathsTyped == \A m \in Nat : PathOfMsg(m) \in MsgPaths
BY RtcBoundAssumption DEF PathOfMsg, MsgPaths

\* A message of w is in one place: the queue, dc.send, SCTP or the other side.
OnceUnderWay(w, m) ==
    /\ CarriesOnce(outbox[w], m) /\ CarriesOnce(sctp[w], m)
    /\ ~(Carries(outbox[w], m) /\ sent[w] = m)
    /\ ~(Carries(outbox[w], m) /\ Carries(sctp[w], m))
    /\ ~(sent[w] = m /\ Carries(sctp[w], m))
    /\ m \in reached[Peer(w)] =>
           ~Carries(outbox[w], m) /\ sent[w] # m /\ ~Carries(sctp[w], m)
    /\ Carries(outbox[w], m) \/ sent[w] = m \/ Carries(sctp[w], m) \/ m \in reached[Peer(w)] =>
           m <= written[w]

\* What s says of the messages R that have come and of latest, L.
GoesUp(s) ==
    \A i, j \in DOMAIN s : i < j /\ PathOfMsg(s[i]) = PathOfMsg(s[j]) => s[i] < s[j]
AreKnown(s, R, L) == \A i \in DOMAIN s : s[i] \in R /\ s[i] <= L[PathOfMsg(s[i])]
NoneIsNewer(R, L) == \A m \in R : m <= L[PathOfMsg(m)]
HasLatest(s, L) ==
    \A p \in MsgPaths : L[p] > 0 => \E i \in DOMAIN s : s[i] = L[p] /\ PathOfMsg(s[i]) = p

NewestFirst(n) ==
    /\ GoesUp(HasCome(n)) /\ AreKnown(HasCome(n), reached[n], latest[n])
    /\ rtcStage[n] # "left" =>
           NoneIsNewer(reached[n], latest[n]) /\ HasLatest(HasCome(n), latest[n])

LatestTypes ==
    /\ reached \in [RtcNodes -> SUBSET RtcMsgs]
    /\ latest \in [RtcNodes -> [MsgPaths -> Nat]]

LatestInv ==
    /\ FlowTypes /\ LatestTypes
    /\ \A w \in RtcNodes, m \in RtcMsgs : OnceUnderWay(w, m)
    /\ rtc.qos = 2 => \A n \in RtcNodes : NewestFirst(n)

\* on_message: a message that has not come before and is not older than latest.
LEMMA NewestIsAdded ==
    ASSUME NEW s \in Seq(RtcMsgs), NEW R \in SUBSET RtcMsgs, NEW L \in [MsgPaths -> Nat],
           NEW m \in RtcMsgs, m \notin R, ~(m < L[PathOfMsg(m)]),
           GoesUp(s), AreKnown(s, R, L), NoneIsNewer(R, L), HasLatest(s, L)
    PROVE  LET t == Append(s, m)
               S == R \union {m}
               M == [L EXCEPT ![PathOfMsg(m)] = m]
           IN  GoesUp(t) /\ AreKnown(t, S, M) /\ NoneIsNewer(S, M) /\ HasLatest(t, M)
<1> DEFINE t == Append(s, m)
           S == R \union {m}
           q == PathOfMsg(m)
           M == [L EXCEPT ![q] = m]
           k == Len(s)
<1>1. /\ \A x \in RtcMsgs : x \in Nat /\ PathOfMsg(x) \in MsgPaths
      /\ q \in MsgPaths /\ m \in Nat /\ m > 0
  BY MsgPathsTyped DEF RtcMsgs
<1>2. /\ k \in Nat /\ DOMAIN s = 1..k /\ DOMAIN t = 1..k + 1 /\ t[k + 1] = m
      /\ \A i \in 1..k : t[i] = s[i] /\ s[i] \in RtcMsgs
  BY AppendProperties, LenProperties
<1>3. M[q] = m /\ \A p \in MsgPaths : p # q => M[p] = L[p]
  BY <1>1
<1>4. L[q] <= m /\ \A p \in MsgPaths : L[p] \in Nat
  BY <1>1
<1> HIDE DEF t, M, q, k
<1>5. \A i \in 1..k + 1 : i \in 1..k \/ i = k + 1
  BY <1>2
<1>6. GoesUp(t)
  <2> SUFFICES ASSUME NEW i \in DOMAIN t, NEW j \in DOMAIN t, i < j,
                      PathOfMsg(t[i]) = PathOfMsg(t[j])
               PROVE  t[i] < t[j]
    BY DEF GoesUp
  <2>1. i \in 1..k
    BY <1>2
  <2>2. CASE j \in 1..k
    BY <1>2, <2>1, <2>2 DEF GoesUp
  <2>3. CASE j = k + 1
    <3>1. /\ t[i] = s[i] /\ s[i] \in R /\ s[i] <= L[PathOfMsg(s[i])] /\ t[j] = m
          /\ s[i] \in RtcMsgs
      BY <1>2, <2>1, <2>3 DEF AreKnown
    <3>2. PathOfMsg(s[i]) = q /\ s[i] # m
      BY <3>1 DEF q
    <3>3. s[i] \in Nat /\ L[q] \in Nat /\ s[i] <= L[q] /\ L[q] <= m /\ m \in Nat
      BY <1>1, <1>4, <3>1, <3>2
    <3>4. \A x, y, z \in Nat : x <= y /\ y <= z /\ x # z => x < z
      OBVIOUS
    <3> QED BY <3>1, <3>2, <3>3, <3>4
  <2> QED BY <1>2, <1>5, <2>2, <2>3
<1>7. NoneIsNewer(S, M)
  <2> SUFFICES ASSUME NEW x \in S PROVE x <= M[PathOfMsg(x)]
    BY DEF NoneIsNewer
  <2>1. CASE x = m
    BY <1>1, <1>3, <2>1 DEF q
  <2>2. CASE x \in R
    <3>1. x <= L[PathOfMsg(x)] /\ x \in Nat /\ PathOfMsg(x) \in MsgPaths
      BY <1>1, <2>2 DEF NoneIsNewer
    <3> QED BY <1>1, <1>3, <1>4, <3>1
  <2> QED BY <2>1, <2>2
<1>8. AreKnown(t, S, M)
  <2> SUFFICES ASSUME NEW i \in DOMAIN t PROVE t[i] \in S
    BY <1>7 DEF AreKnown, NoneIsNewer
  <2>1. CASE i \in 1..k
    BY <1>2, <2>1 DEF AreKnown
  <2>2. CASE i = k + 1
    BY <1>2, <2>2
  <2> QED BY <1>2, <1>5, <2>1, <2>2
<1>9. HasLatest(t, M)
  <2> SUFFICES ASSUME NEW p \in MsgPaths, M[p] > 0
               PROVE  \E i \in DOMAIN t : t[i] = M[p] /\ PathOfMsg(t[i]) = p
    BY DEF HasLatest
  <2>1. CASE p = q
    <3>1. k + 1 \in DOMAIN t
      BY <1>2
    <3> QED BY <1>2, <1>3, <2>1, <3>1 DEF q
  <2>2. CASE p # q
    <3>1. PICK i \in 1..k : s[i] = L[p] /\ PathOfMsg(s[i]) = p
      BY <1>2, <1>3, <2>2 DEF HasLatest
    <3>2. i \in DOMAIN t
      BY <1>2
    <3> QED BY <1>2, <1>3, <2>2, <3>1, <3>2
  <2> QED BY <2>1, <2>2
<1> QED BY <1>6, <1>7, <1>8, <1>9 DEF t, M, q

\* on_message: an older one is dropped.
LEMMA OlderIsDropped ==
    ASSUME NEW s \in Seq(RtcMsgs), NEW R \in SUBSET RtcMsgs, NEW L \in [MsgPaths -> Nat],
           NEW m \in RtcMsgs, m < L[PathOfMsg(m)], AreKnown(s, R, L), NoneIsNewer(R, L)
    PROVE  AreKnown(s, R \union {m}, L) /\ NoneIsNewer(R \union {m}, L)
<1>1. m \in Nat /\ L[PathOfMsg(m)] \in Nat
  BY MsgPathsTyped DEF RtcMsgs
<1> QED BY <1>1 DEF AreKnown, NoneIsNewer

\* What disconnect forgets is the end of what has come.
LEMMA FrontIsSound ==
    ASSUME NEW s \in Seq(RtcMsgs), NEW t \in Seq(RtcMsgs), NEW R, NEW L,
           GoesUp(s \o t), AreKnown(s \o t, R, L)
    PROVE  GoesUp(s) /\ AreKnown(s, R, L)
<1> DEFINE u == s \o t
<1>1. \A i \in DOMAIN s : i \in DOMAIN u /\ u[i] = s[i] /\ i \in Int
  <2>1. /\ Len(s) \in Nat /\ Len(t) \in Nat /\ DOMAIN s = 1..Len(s)
        /\ DOMAIN u = 1..Len(s) + Len(t)
        /\ \A i \in 1..Len(s) + Len(t) : u[i] = IF i <= Len(s) THEN s[i] ELSE t[i - Len(s)]
    BY LenProperties, ConcatProperties
  <2> HIDE DEF u
  <2> QED BY <2>1
<1> HIDE DEF u
<1>2. GoesUp(u) /\ AreKnown(u, R, L)
  BY DEF u
<1> QED BY <1>1, <1>2 DEF GoesUp, AreKnown

LEMMA LatestInitHolds == RtcInit => LatestInv
<1> SUFFICES ASSUME RtcInit PROVE LatestInv
  OBVIOUS
<1>1. FlowTypes
  BY FlowInitHolds DEF FlowInv
<1>2. LatestTypes
  BY DEF RtcInit, LatestTypes, MsgPaths
<1>3. ASSUME NEW w \in RtcNodes, NEW m \in RtcMsgs PROVE OnceUnderWay(w, m)
  <2>1. /\ outbox[w] = <<>> /\ sctp[w] = <<>> /\ sent[w] = 0 /\ reached[Peer(w)] = {}
    BY TwoEnds DEF RtcInit
  <2>2. m # 0
    BY DEF RtcMsgs
  <2> QED BY <2>1, <2>2, NothingCarried, Zenon DEF OnceUnderWay
<1>4. ASSUME NEW n \in RtcNodes PROVE NewestFirst(n)
  <2>1. HasCome(n) = <<>> /\ reached[n] = {} /\ latest[n] = [p \in MsgPaths |-> 0]
    <3>1. <<>> \o <<>> = <<>>
      BY NothingJoined
    <3> QED BY <3>1 DEF RtcInit, HasCome, MsgPaths
  <2> QED BY <2>1 DEF NewestFirst, GoesUp, AreKnown, NoneIsNewer, HasLatest
<1> QED BY <1>1, <1>2, <1>3, <1>4 DEF LatestInv

LEMMA LatestTypesStep ==
    ASSUME FlowTypes, LatestTypes, [RtcNext]_rtcVars
    PROVE  LatestTypes'
<1>1. CASE UNCHANGED <<reached, latest>>
  BY <1>1 DEF LatestTypes
<1>2. ASSUME NEW n \in RtcNodes, Carry(n, Peer(n)) PROVE LatestTypes'
  <2>1. PICK i \in DOMAIN sctp[n] :
           IF Listens(Peer(n)) THEN OnMessage(Peer(n), sctp[n][i])
           ELSE UNCHANGED <<reached, latest, inbox>>
    BY <1>2 DEF Carry
  <2>2. sctp[n] \in Seq(RtcMsgs) /\ Peer(n) \in RtcNodes
    BY TwoEnds DEF FlowTypes
  <2>3. sctp[n][i] \in RtcMsgs
    BY <2>2, LenProperties
  <2> DEFINE m == sctp[n][i]
             r == Peer(n)
  <2> HIDE DEF m
  <2>4. CASE ~Listens(r)
    BY <1>1, <2>1, <2>4 DEF m
  <2>5. CASE Listens(r)
    <3>1. /\ reached' = [reached EXCEPT ![r] = reached[r] \union {m}]
          /\ \/ latest' = latest
             \/ latest' = [latest EXCEPT ![r][PathOfMsg(m)] = m]
             \/ latest' = [latest EXCEPT ![r][PathOfMsg(m)] = latest[r][PathOfMsg(m)]]
      BY <2>1, <2>5 DEF OnMessage, m
    <3>2. /\ reached \in [RtcNodes -> SUBSET RtcMsgs] /\ latest \in [RtcNodes -> [MsgPaths -> Nat]]
          /\ m \in RtcMsgs /\ m \in Nat /\ PathOfMsg(m) \in MsgPaths
      BY <2>3, MsgPathsTyped DEF LatestTypes, RtcMsgs, m
    <3>3. reached' \in [RtcNodes -> SUBSET RtcMsgs]
      BY <2>2, <3>1, <3>2
    <3>4. latest' \in [RtcNodes -> [MsgPaths -> Nat]]
      <4> DEFINE q == PathOfMsg(m)
      <4>1. /\ latest[r] \in [MsgPaths -> Nat] /\ r \in RtcNodes /\ q \in MsgPaths
            /\ latest[r][q] \in Nat /\ m \in Nat
        BY <2>2, <3>2
      <4>2. \/ latest' = latest
            \/ latest' = [latest EXCEPT ![r] = [latest[r] EXCEPT ![q] = m]]
            \/ latest' = [latest EXCEPT ![r] = [latest[r] EXCEPT ![q] = latest[r][q]]]
        BY <3>1
      <4> HIDE DEF q, r
      <4>3. /\ [latest[r] EXCEPT ![q] = m] \in [MsgPaths -> Nat]
            /\ [latest[r] EXCEPT ![q] = latest[r][q]] \in [MsgPaths -> Nat]
        BY <4>1, RowTyped, Zenon
      <4>4. \A row \in [MsgPaths -> Nat] :
               [latest EXCEPT ![r] = row] \in [RtcNodes -> [MsgPaths -> Nat]]
        BY <3>2, <4>1, RowTyped, Zenon
      <4> QED BY <3>2, <4>2, <4>3, <4>4, Zenon
    <3> QED BY <3>3, <3>4 DEF LatestTypes
  <2> QED BY <2>4, <2>5
<1>3. ASSUME NEW n \in RtcNodes,
             \/ ComeUp(n) \/ NobodyThere(n) \/ Discover(n) \/ ForwardCandidate(n)
             \/ ReadEnvelope(n) \/ ReadHungUp(n) \/ SignalingFails(n) \/ GraceTimer(n)
             \/ EndSignaling(n) \/ Open(n) \/ NeverOpens(n) \/ Die(n)
             \/ RtcPublish(n) \/ RtcTryPublish(n) \/ TakeOut(n) \/ SendOn(n) \/ LoseMessage(n)
             \/ RtcPoll(n) \/ EndOperate(n) \/ DropSenders(n) \/ AwaitLoops(n) \/ Close(n)
      PROVE  UNCHANGED <<reached, latest>>
  BY <1>3 DEF ComeUp, NobodyThere, Discover, ForwardCandidate,
     ReadEnvelope, ReadHungUp, SignalingFails, GraceTimer, EndSignaling, Open, NeverOpens, Die,
     RtcPublish, RtcTryPublish, Issuing, TakeOut, SendOn, LoseMessage, RtcPoll, EndOperate,
     DropSenders, AwaitLoops, Close, AfterStage, rtcIntakeVars
<1>4. CASE Call \/ AcceptCall \/ UNCHANGED rtcVars
  BY <1>1, <1>4 DEF Call, AcceptCall, AfterStage, rtcIntakeVars, rtcVars
<1> QED BY <1>1, <1>2, <1>3, <1>4 DEF RtcNext

\* A step after which a message is nowhere where it was not.
LEMMA StaysOnce ==
    ASSUME NEW w \in RtcNodes, NEW m \in RtcMsgs, OnceUnderWay(w, m),
           CarriesOnce(outbox[w], m) => CarriesOnce(outbox'[w], m),
           CarriesOnce(sctp[w], m) => CarriesOnce(sctp'[w], m),
           Carries(outbox'[w], m) => Carries(outbox[w], m),
           Carries(sctp'[w], m) => Carries(sctp[w], m),
           sent'[w] = m => sent[w] = m,
           m \in reached'[Peer(w)] => m \in reached[Peer(w)],
           written'[w] = written[w]
    PROVE  OnceUnderWay(w, m)'
BY Zenon DEF OnceUnderWay, Carries, CarriesOnce

\* A message that changes its place is in one place still.
LEMMA PublishOnce ==
    ASSUME FlowTypes, NEW n \in RtcNodes, RtcPublish(n) \/ RtcTryPublish(n),
           NEW w \in RtcNodes, NEW m \in RtcMsgs, OnceUnderWay(w, m)
    PROVE  OnceUnderWay(w, m)'
<1>1. /\ written' = [written EXCEPT ![n] = written[n] + 1]
      /\ outbox' = outbox \/ outbox' = [outbox EXCEPT ![n] = Append(outbox[n], written[n] + 1)]
      /\ UNCHANGED <<sent, sctp, reached>>
  BY DEF RtcPublish, RtcTryPublish, Issuing, Enqueue, rtcIntakeVars
<1>2. /\ written \in [RtcNodes -> Nat] /\ outbox \in [RtcNodes -> Seq(RtcMsgs)]
  BY DEF FlowTypes
<1>3. CASE w # n
  <2>1. written'[w] = written[w] /\ outbox'[w] = outbox[w]
    BY <1>1, <1>2, <1>3
  <2> QED BY <1>1, <2>1, StaysOnce
<1>4. CASE w = n
  <2> DEFINE x == written[w] + 1
             s == outbox[w]
  <2>1. /\ x \in RtcMsgs /\ written'[w] = x /\ s \in Seq(RtcMsgs) /\ m \in Nat /\ written[w] \in Nat
        /\ outbox'[w] = s \/ outbox'[w] = Append(s, x)
    BY <1>1, <1>2, <1>4 DEF RtcMsgs
  <2>2. m <= written[w] => m <= x /\ m # x
    BY <2>1
  <2>3. m = x => m <= x
    BY <2>1
  <2> HIDE DEF x, s
  <2>4. /\ Carries(Append(s, x), m) <=> Carries(s, m) \/ m = x
        /\ CarriesOnce(s, m) /\ (m = x => ~Carries(s, m)) => CarriesOnce(Append(s, x), m)
    BY <2>1, AppendCarries
  <2>5. CASE m = x
    <3>1. /\ ~Carries(s, m) /\ sent[w] # m /\ ~Carries(sctp[w], m) /\ m \notin reached[Peer(w)]
          /\ CarriesOnce(s, m) /\ CarriesOnce(sctp[w], m)
      BY <2>2, <2>5 DEF OnceUnderWay, s
    <3>2. CarriesOnce(outbox'[w], m)
      BY <2>1, <2>4, <3>1
    <3> QED BY <1>1, <2>1, <2>3, <2>5, <3>1, <3>2, Zenon DEF OnceUnderWay, Carries, CarriesOnce
  <2>6. CASE m # x
    <3>1. Carries(outbox'[w], m) => Carries(outbox[w], m)
      BY <2>1, <2>4, <2>6 DEF s
    <3>2. CarriesOnce(outbox[w], m) => CarriesOnce(outbox'[w], m)
      BY <2>1, <2>4, <2>6 DEF s
    <3>3. m <= written[w] => m <= written'[w]
      BY <2>1, <2>2
    <3> QED BY <1>1, <3>1, <3>2, <3>3, Zenon DEF OnceUnderWay, Carries, CarriesOnce
  <2> QED BY <2>5, <2>6
<1> QED BY <1>3, <1>4

LEMMA SendOnce ==
    ASSUME FlowTypes, NEW n \in RtcNodes, TakeOut(n) \/ SendOn(n),
           NEW w \in RtcNodes, NEW m \in RtcMsgs, OnceUnderWay(w, m)
    PROVE  OnceUnderWay(w, m)'
<1>1. /\ sent \in [RtcNodes -> Nat] /\ outbox \in [RtcNodes -> Seq(RtcMsgs)]
      /\ sctp \in [RtcNodes -> Seq(RtcMsgs)]
  BY DEF FlowTypes
<1>2. /\ UNCHANGED <<written, reached>>
      /\ \A v \in RtcNodes \ {n} :
            outbox'[v] = outbox[v] /\ sent'[v] = sent[v] /\ sctp'[v] = sctp[v]
  BY <1>1 DEF TakeOut, SendOn, rtcIntakeVars
<1>3. CASE w # n
  BY <1>2, <1>3, StaysOnce
<1>4. CASE w = n /\ TakeOut(n)
  <2> DEFINE s == outbox[w]
  <2>1. /\ s \in Seq(RtcMsgs) /\ s # <<>> /\ sent[w] = 0 /\ sctp'[w] = sctp[w]
        /\ sent'[w] = Head(s) /\ outbox'[w] = Tail(s)
    BY <1>1, <1>4 DEF TakeOut
  <2> HIDE DEF s
  <2>2. /\ Carries(s, m) <=> Carries(Tail(s), m) \/ m = Head(s)
        /\ CarriesOnce(s, m) => CarriesOnce(Tail(s), m) /\ ~(m = Head(s) /\ Carries(Tail(s), m))
    BY <2>1, TailCarries
  <2>3. /\ Carries(outbox[w], m) <=> Carries(outbox'[w], m) \/ m = sent'[w]
        /\ CarriesOnce(outbox[w], m) =>
              CarriesOnce(outbox'[w], m) /\ ~(m = sent'[w] /\ Carries(outbox'[w], m))
    BY <2>1, <2>2 DEF s
  <2> QED BY <1>2, <2>1, <2>3, Zenon DEF OnceUnderWay, Carries, CarriesOnce
<1>5. CASE w = n /\ SendOn(n)
  <2> DEFINE s == sctp[w]
             x == sent[w]
  <2>1. /\ s \in Seq(RtcMsgs) /\ x # 0 /\ outbox'[w] = outbox[w] /\ sent'[w] = 0
        /\ sctp'[w] = s \/ sctp'[w] = Append(s, x)
    BY <1>1, <1>5 DEF SendOn
  <2>2. x \in RtcMsgs /\ m # 0
    BY <1>1, <2>1 DEF RtcMsgs
  <2> HIDE DEF s, x
  <2>3. /\ Carries(Append(s, x), m) <=> Carries(s, m) \/ m = x
        /\ CarriesOnce(s, m) /\ (m = x => ~Carries(s, m)) => CarriesOnce(Append(s, x), m)
    BY <2>1, <2>2, AppendCarries
  <2>4. /\ Carries(sctp'[w], m) => Carries(sctp[w], m) \/ sent[w] = m
        /\ CarriesOnce(sctp[w], m) /\ (sent[w] = m => ~Carries(sctp[w], m))
              => CarriesOnce(sctp'[w], m)
    BY <2>1, <2>3 DEF s, x
  <2> QED BY <1>2, <2>1, <2>2, <2>4, Zenon DEF OnceUnderWay, Carries, CarriesOnce
<1> QED BY <1>3, <1>4, <1>5

LEMMA CarryOnce ==
    ASSUME FlowTypes, LatestTypes, NEW n \in RtcNodes, Carry(n, Peer(n)) \/ LoseMessage(n),
           NEW w \in RtcNodes, NEW m \in RtcMsgs, OnceUnderWay(w, m)
    PROVE  OnceUnderWay(w, m)'
<1>1. /\ sctp \in [RtcNodes -> Seq(RtcMsgs)] /\ reached \in [RtcNodes -> SUBSET RtcMsgs]
      /\ Peer(n) \in RtcNodes /\ Peer(w) \in RtcNodes
  BY TwoEnds DEF FlowTypes, LatestTypes
<1>2. PICK i \in DOMAIN sctp[n] :
         /\ sctp' = [sctp EXCEPT ![n] = RemoveAt(sctp[n], i)]
         /\ \/ reached' = reached
            \/ reached' = [reached EXCEPT ![Peer(n)] = reached[Peer(n)] \union {sctp[n][i]}]
  BY DEF Carry, LoseMessage, OnMessage, rtcIntakeVars
<1>3. UNCHANGED <<written, outbox, sent>>
  BY DEF Carry, LoseMessage, sendVars
<1>4. CASE w # n
  <2>1. Peer(w) # Peer(n)
    BY <1>4, TwoEnds
  <2>2. sctp'[w] = sctp[w] /\ reached'[Peer(w)] = reached[Peer(w)]
    BY <1>1, <1>2, <1>4, <2>1
  <2> QED BY <1>3, <2>2, StaysOnce
<1>5. CASE w = n
  <2> DEFINE s == sctp[w]
             x == s[i]
  <2>1. /\ s \in Seq(RtcMsgs) /\ sctp'[w] = RemoveAt(s, i) /\ i \in DOMAIN s
        /\ m \in reached'[Peer(w)] => m \in reached[Peer(w)] \/ m = x
    BY <1>1, <1>2, <1>5
  <2>2. Carries(s, x)
    BY <2>1 DEF Carries
  <2> HIDE DEF s
  <2>3. /\ Carries(RemoveAt(s, i), m) => Carries(s, m)
        /\ CarriesOnce(s, m) => CarriesOnce(RemoveAt(s, i), m)
                                   /\ ~(m = s[i] /\ Carries(RemoveAt(s, i), m))
    BY <2>1, RemoveAtCarries
  <2> HIDE DEF x
  <2>4. /\ Carries(sctp'[w], m) => Carries(sctp[w], m)
        /\ CarriesOnce(sctp[w], m) => CarriesOnce(sctp'[w], m) /\ ~(m = x /\ Carries(sctp'[w], m))
        /\ m = x => Carries(sctp[w], m)
    BY <2>1, <2>2, <2>3 DEF s, x
  <2> QED BY <1>3, <2>1, <2>4, Zenon DEF OnceUnderWay, Carries, CarriesOnce
<1> QED BY <1>4, <1>5

LEMMA CloseOnce ==
    ASSUME FlowTypes, NEW n \in RtcNodes, Close(n),
           NEW w \in RtcNodes, NEW m \in RtcMsgs, OnceUnderWay(w, m)
    PROVE  OnceUnderWay(w, m)'
<1>1. /\ outbox' = [outbox EXCEPT ![n] = <<>>] /\ sent' = [sent EXCEPT ![n] = 0]
      /\ sctp' = [sctp EXCEPT ![n] = <<>>, ![Peer(n)] = <<>>] /\ UNCHANGED <<written, reached>>
      /\ outbox \in [RtcNodes -> Seq(RtcMsgs)] /\ sent \in [RtcNodes -> Nat]
      /\ sctp \in [RtcNodes -> Seq(RtcMsgs)] /\ Peer(n) \in RtcNodes
  BY TwoEnds DEF Close, FlowTypes
<1>2. /\ outbox'[w] = <<>> \/ outbox'[w] = outbox[w]
      /\ sctp'[w] = <<>> \/ sctp'[w] = sctp[w]
      /\ sent'[w] = 0 \/ sent'[w] = sent[w]
  BY <1>1
<1>3. m # 0 /\ ~Carries(<<>>, m) /\ CarriesOnce(<<>>, m)
  BY NothingCarried DEF RtcMsgs
<1>4. /\ CarriesOnce(outbox[w], m) => CarriesOnce(outbox'[w], m)
      /\ Carries(outbox'[w], m) => Carries(outbox[w], m)
  BY <1>2, <1>3
<1>5. /\ CarriesOnce(sctp[w], m) => CarriesOnce(sctp'[w], m)
      /\ Carries(sctp'[w], m) => Carries(sctp[w], m)
  BY <1>2, <1>3
<1>6. /\ sent'[w] = m => sent[w] = m
      /\ m \in reached'[Peer(w)] => m \in reached[Peer(w)]
      /\ written'[w] = written[w]
  BY <1>1, <1>2, <1>3
<1> QED BY <1>4, <1>5, <1>6, StaysOnce

\* A step after which n has and knows what it had and knew.
LEMMA NewestStays ==
    ASSUME NEW n \in RtcNodes, NewestFirst(n), HasCome(n)' = HasCome(n),
           reached'[n] = reached[n], latest'[n] = latest[n],
           rtcStage'[n] # "left" => rtcStage[n] # "left"
    PROVE  NewestFirst(n)'
BY DEF NewestFirst, GoesUp, AreKnown, NoneIsNewer, HasLatest, PathOfMsg, MsgPaths

LEMMA NewestCarried ==
    ASSUME FlowTypes, LatestTypes, rtc.qos = 2, rtc' = rtc, NEW w \in RtcNodes, Carry(w, Peer(w)),
           \A m \in RtcMsgs : OnceUnderWay(w, m),
           NEW n \in RtcNodes, NewestFirst(n)
    PROVE  NewestFirst(n)'
<1> DEFINE r == Peer(w)
<1>1. /\ r \in RtcNodes /\ inbox \in [RtcNodes -> Seq(RtcMsgs)]
      /\ received \in [RtcNodes -> Seq(RtcMsgs)] /\ sctp[w] \in Seq(RtcMsgs)
      /\ reached \in [RtcNodes -> SUBSET RtcMsgs] /\ latest \in [RtcNodes -> [MsgPaths -> Nat]]
  BY TwoEnds DEF FlowTypes, LatestTypes
<1>2. PICK i \in DOMAIN sctp[w] :
         IF Listens(r) THEN OnMessage(r, sctp[w][i]) ELSE UNCHANGED <<reached, latest, inbox>>
  BY DEF Carry
<1>3. UNCHANGED <<rtcStage, received>>
  BY DEF Carry
<1> DEFINE m == sctp[w][i]
<1>4. m \in RtcMsgs /\ m \notin reached[r]
  <2>1. m \in RtcMsgs /\ Carries(sctp[w], m)
    BY <1>1, LenProperties DEF Carries
  <2> QED BY <2>1 DEF OnceUnderWay
<1> HIDE DEF m, r
<1>5. CASE n # r \/ ~Listens(r)
  <2>1. /\ inbox'[n] = inbox[n] /\ reached'[n] = reached[n] /\ latest'[n] = latest[n]
    <3>1. CASE ~Listens(r)
      BY <1>2, <3>1
    <3>2. CASE n # r /\ Listens(r)
      BY <1>1, <1>2, <3>2 DEF OnMessage
    <3> QED BY <1>5, <3>1, <3>2
  <2> QED BY <1>3, <2>1, NewestStays DEF HasCome
<1>6. CASE n = r /\ Listens(r)
  <2> DEFINE s == HasCome(n)
             R == reached[n]
             L == latest[n]
             q == PathOfMsg(m)
  <2>1. /\ received[n] \in Seq(RtcMsgs) /\ inbox[n] \in Seq(RtcMsgs)
        /\ R \in SUBSET RtcMsgs /\ L \in [MsgPaths -> Nat] /\ q \in MsgPaths
    BY <1>1, <1>4, MsgPathsTyped DEF RtcMsgs
  <2>2. s \in Seq(RtcMsgs)
    BY <2>1, JoinTyped DEF HasCome
  <2>3. rtcStage[n] # "left" /\ rtcStage'[n] # "left"
    BY <1>3, <1>6 DEF Listens, LoopRuns
  <2>4. GoesUp(s) /\ AreKnown(s, R, L) /\ NoneIsNewer(R, L) /\ HasLatest(s, L)
    BY <2>3 DEF NewestFirst
  <2>5. reached'[n] = R \union {m}
    BY <1>1, <1>2, <1>6 DEF OnMessage, m
  <2>6. CASE m < L[q]
    <3>1. inbox' = inbox /\ latest' = latest
      BY <1>2, <1>6, <2>6 DEF OnMessage, Outdated, m
    <3>2. HasCome(n)' = s /\ latest'[n] = L
      BY <1>3, <3>1 DEF HasCome
    <3> HIDE DEF s, R, L, q
    <3>3. AreKnown(s, R \union {m}, L) /\ NoneIsNewer(R \union {m}, L)
      BY <1>4, <2>1, <2>2, <2>4, <2>6, OlderIsDropped DEF q
    <3> QED BY <2>3, <2>4, <2>5, <3>2, <3>3 DEF NewestFirst, GoesUp, AreKnown, NoneIsNewer,
            HasLatest, PathOfMsg, MsgPaths
  <2>7. CASE ~(m < L[q])
    <3>1. /\ inbox' = [inbox EXCEPT ![r] = Append(inbox[r], m)]
          /\ latest' = [latest EXCEPT ![r][q] = m]
      BY <1>2, <1>6, <2>7 DEF OnMessage, Outdated, m
    <3>2. inbox'[n] = Append(inbox[n], m) /\ latest'[n] = [L EXCEPT ![q] = m]
      BY <1>1, <1>6, <3>1
    <3>3. HasCome(n)' = Append(s, m)
      <4>1. HasCome(n)' = received[n] \o Append(inbox[n], m)
        BY <1>3, <3>2 DEF HasCome
      <4>2. received[n] \o Append(inbox[n], m) = Append(received[n] \o inbox[n], m)
        <5> DEFINE a == received[n]
                   b == inbox[n]
        <5>1. a \in Seq(RtcMsgs) /\ b \in Seq(RtcMsgs) /\ m \in RtcMsgs
          BY <1>4, <2>1
        <5> HIDE DEF a, b
        <5>2. a \o Append(b, m) = Append(a \o b, m)
          BY <5>1, AppendToJoin
        <5> QED BY <5>2 DEF a, b
      <4> QED BY <4>1, <4>2 DEF HasCome
    <3> HIDE DEF s, R, L, q
    <3>4. LET t == Append(s, m)
              S == R \union {m}
              M == [L EXCEPT ![PathOfMsg(m)] = m]
          IN  GoesUp(t) /\ AreKnown(t, S, M) /\ NoneIsNewer(S, M) /\ HasLatest(t, M)
      <4>1. m \notin R /\ ~(m < L[PathOfMsg(m)])
        BY <1>4, <1>6, <2>7 DEF R, q
      <4> QED BY <1>4, <2>1, <2>2, <2>4, <4>1, NewestIsAdded
    <3>5. /\ GoesUp(HasCome(n)') /\ AreKnown(HasCome(n)', reached'[n], latest'[n])
          /\ NoneIsNewer(reached'[n], latest'[n]) /\ HasLatest(HasCome(n)', latest'[n])
      BY <2>5, <3>2, <3>3, <3>4 DEF q
    <3> QED BY <3>5 DEF NewestFirst, GoesUp, AreKnown, NoneIsNewer, HasLatest, PathOfMsg, MsgPaths
  <2> QED BY <2>6, <2>7
<1> QED BY <1>5, <1>6

LEMMA NewestPolled ==
    ASSUME FlowTypes, NEW v \in RtcNodes, RtcPoll(v), NEW n \in RtcNodes, NewestFirst(n)
    PROVE  NewestFirst(n)'
<1>1. /\ received \in [RtcNodes -> Seq(RtcMsgs)] /\ inbox \in [RtcNodes -> Seq(RtcMsgs)]
  BY DEF FlowTypes
<1>2. /\ inbox[v] # <<>>
      /\ received' = [received EXCEPT ![v] = Append(received[v], Head(inbox[v]))]
      /\ inbox' = [inbox EXCEPT ![v] = Tail(inbox[v])]
      /\ UNCHANGED <<rtcStage, reached, latest>>
  BY DEF RtcPoll
<1>3. HasCome(n)' = HasCome(n)
  <2>1. CASE n # v
    BY <1>1, <1>2, <2>1 DEF HasCome
  <2>2. CASE n = v
    <3>1. received[n] \in Seq(RtcMsgs) /\ inbox[n] \in Seq(RtcMsgs)
      BY <1>1
    <3>2. HasCome(n)' = Append(received[n], Head(inbox[n])) \o Tail(inbox[n])
      BY <1>1, <1>2, <2>2 DEF HasCome
    <3>3. Append(received[n], Head(inbox[n])) \o Tail(inbox[n]) = received[n] \o inbox[n]
      BY <1>2, <2>2, <3>1, HeadMoves
    <3> QED BY <3>2, <3>3 DEF HasCome
  <2> QED BY <2>1, <2>2
<1> QED BY <1>2, <1>3, NewestStays

LEMMA NewestClosed ==
    ASSUME FlowTypes, NEW v \in RtcNodes, Close(v), NEW n \in RtcNodes, NewestFirst(n)
    PROVE  NewestFirst(n)'
<1>1. /\ received \in [RtcNodes -> Seq(RtcMsgs)] /\ inbox \in [RtcNodes -> Seq(RtcMsgs)]
      /\ rtcStage \in [RtcNodes -> Stages]
  BY DEF FlowTypes
<1>2. /\ inbox' = [inbox EXCEPT ![v] = <<>>] /\ rtcStage' = [rtcStage EXCEPT ![v] = "left"]
      /\ UNCHANGED <<received, reached, latest>>
  BY DEF Close
<1>3. CASE n # v
  <2>1. HasCome(n)' = HasCome(n) /\ rtcStage'[n] = rtcStage[n]
    BY <1>1, <1>2, <1>3 DEF HasCome
  <2> QED BY <1>2, <2>1, NewestStays
<1>4. CASE n = v
  <2>1. received[n] \in Seq(RtcMsgs) /\ inbox[n] \in Seq(RtcMsgs)
    BY <1>1
  <2>2. HasCome(n)' = received[n]
    BY <1>1, <1>2, <1>4, <2>1, NothingJoined DEF HasCome
  <2>3. GoesUp(received[n]) /\ AreKnown(received[n], reached[n], latest[n])
    BY <2>1, FrontIsSound DEF NewestFirst, HasCome
  <2>4. rtcStage'[n] = "left"
    BY <1>1, <1>2, <1>4
  <2>5. GoesUp(HasCome(n)') /\ AreKnown(HasCome(n)', reached'[n], latest'[n])
    BY <1>2, <2>2, <2>3
  <2> QED BY <2>4, <2>5 DEF NewestFirst, GoesUp, AreKnown, PathOfMsg
<1> QED BY <1>3, <1>4

LEMMA LatestStep == LatestInv /\ [RtcNext]_rtcVars => LatestInv'
<1> SUFFICES ASSUME LatestInv, [RtcNext]_rtcVars PROVE LatestInv'
  OBVIOUS
<1>1. FlowTypes /\ LatestTypes /\ FlowTypes' /\ LatestTypes'
  BY FlowTypesStep, LatestTypesStep DEF LatestInv
<1>2. rtc' = rtc
  BY DEF RtcNext, rtcVars, Call, AcceptCall, ComeUp, NobodyThere, Discover, ForwardCandidate,
     ReadEnvelope, ReadHungUp, SignalingFails, GraceTimer, EndSignaling, Open, NeverOpens, Die,
     RtcPublish, RtcTryPublish, Issuing, TakeOut, SendOn, Carry, LoseMessage, RtcPoll, EndOperate,
     DropSenders, AwaitLoops, Close, AfterStage
<1> DEFINE Quiet == UNCHANGED <<sendVars, sctp, rtcIntakeVars>>
           NoComeback == \A n \in RtcNodes : rtcStage'[n] # "left" => rtcStage[n] # "left"
<1>3. ASSUME NEW n \in RtcNodes, NEW s, AfterStage(n, s), rtcStage[n] # "left"
      PROVE  Quiet /\ NoComeback
  <2>1. rtcStage \in [RtcNodes -> Stages]
    BY <1>1 DEF FlowTypes
  <2> QED BY <1>3, <2>1 DEF AfterStage
<1>4. Call \/ AcceptCall => Quiet /\ NoComeback
  BY <1>3 DEF Call, AcceptCall, RtcNodes, Initiator, Responder
<1>5. ASSUME NEW n \in RtcNodes,
             \/ ComeUp(n) \/ NobodyThere(n) \/ SignalingFails(n) \/ EndSignaling(n)
             \/ Open(n) \/ NeverOpens(n) \/ Die(n) \/ EndOperate(n) \/ DropSenders(n)
      PROVE  Quiet /\ NoComeback
  BY <1>3, <1>5 DEF ComeUp, NobodyThere, SignalingFails, EndSignaling, InLoop, Open,
     NeverOpens, Die, EndOperate, DropSenders
<1>6. ASSUME NEW n \in RtcNodes,
             \/ Discover(n) \/ ForwardCandidate(n) \/ ReadEnvelope(n) \/ ReadHungUp(n)
             \/ GraceTimer(n)
      PROVE  Quiet /\ NoComeback
  BY <1>6 DEF Discover, ForwardCandidate, ReadEnvelope, ReadHungUp, GraceTimer
<1>7. ASSUME NEW n \in RtcNodes, AwaitLoops(n) PROVE Quiet /\ NoComeback
  <2>1. rtcStage \in [RtcNodes -> Stages]
    BY <1>1 DEF FlowTypes
  <2> QED BY <1>7, <2>1 DEF AwaitLoops
<1>8. UNCHANGED rtcVars => Quiet /\ NoComeback
  BY DEF rtcVars
<1>9. ASSUME NEW n \in RtcNodes,
             RtcPublish(n) \/ RtcTryPublish(n) \/ TakeOut(n) \/ SendOn(n) \/ LoseMessage(n)
      PROVE  NoComeback /\ UNCHANGED rtcIntakeVars
  BY <1>9 DEF RtcPublish, RtcTryPublish, Issuing, TakeOut, SendOn, LoseMessage
<1> HIDE DEF Quiet, NoComeback
<1>10. ASSUME NEW w \in RtcNodes, NEW m \in RtcMsgs PROVE OnceUnderWay(w, m)'
  <2>1. OnceUnderWay(w, m)
    BY DEF LatestInv
  <2>2. CASE Quiet
    BY <2>1, <2>2, StaysOnce DEF Quiet, sendVars, rtcIntakeVars
  <2>3. ASSUME NEW n \in RtcNodes, RtcPoll(n) PROVE OnceUnderWay(w, m)'
    BY <2>1, <2>3, StaysOnce DEF RtcPoll, sendVars
  <2>4. ASSUME NEW n \in RtcNodes,
               \/ RtcPublish(n) \/ RtcTryPublish(n) \/ TakeOut(n) \/ SendOn(n)
               \/ Carry(n, Peer(n)) \/ LoseMessage(n) \/ Close(n)
        PROVE  OnceUnderWay(w, m)'
    BY <1>1, <2>1, <2>4, PublishOnce, SendOnce, CarryOnce, CloseOnce
  <2> QED BY <1>4, <1>5, <1>6, <1>7, <1>8, <2>2, <2>3, <2>4 DEF RtcNext
<1>11. ASSUME rtc.qos = 2, NEW n \in RtcNodes PROVE NewestFirst(n)'
  <2>1. NewestFirst(n)
    BY <1>11 DEF LatestInv
  <2>2. CASE NoComeback /\ UNCHANGED rtcIntakeVars
    BY <2>1, <2>2, NewestStays DEF NoComeback, rtcIntakeVars, HasCome
  <2>5. CASE Quiet /\ NoComeback
    BY <2>2, <2>5 DEF Quiet
  <2>3. ASSUME NEW v \in RtcNodes, Carry(v, Peer(v)) PROVE NewestFirst(n)'
    <3>1. \A m \in RtcMsgs : OnceUnderWay(v, m)
      BY DEF LatestInv
    <3> QED BY <1>1, <1>2, <1>11, <2>1, <2>3, <3>1, NewestCarried
  <2>4. ASSUME NEW v \in RtcNodes, RtcPoll(v) \/ Close(v) PROVE NewestFirst(n)'
    BY <1>1, <2>1, <2>4, NewestPolled, NewestClosed
  <2> QED BY <1>4, <1>5, <1>6, <1>7, <1>8, <1>9, <2>2, <2>3, <2>4, <2>5 DEF RtcNext
<1> QED BY <1>1, <1>2, <1>10, <1>11 DEF LatestInv

LEMMA LatestTells == LatestInv => RtcFreshest
<1> SUFFICES ASSUME LatestInv, rtc.qos = 2, NEW n \in RtcNodes
             PROVE  LET s == HasCome(n) IN
                    /\ \A i, j \in DOMAIN s :
                           i < j /\ PathOfMsg(s[i]) = PathOfMsg(s[j]) => s[i] < s[j]
                    /\ rtcStage[n] # "left" => \A m \in reached[n] :
                           \E i \in DOMAIN s : PathOfMsg(s[i]) = PathOfMsg(m) /\ s[i] >= m
  BY DEF RtcFreshest
<1> DEFINE s == HasCome(n)
<1>1. NewestFirst(n) /\ reached[n] \in SUBSET RtcMsgs /\ latest[n] \in [MsgPaths -> Nat]
  BY DEF LatestInv, LatestTypes
<1> HIDE DEF s
<1>2. GoesUp(s)
  BY <1>1 DEF NewestFirst, s
<1>3. ASSUME rtcStage[n] # "left", NEW m \in reached[n]
      PROVE  \E i \in DOMAIN s : PathOfMsg(s[i]) = PathOfMsg(m) /\ s[i] >= m
  <2>1. m \in Nat /\ m > 0 /\ PathOfMsg(m) \in MsgPaths
    BY <1>1, MsgPathsTyped DEF RtcMsgs
  <2>2. m <= latest[n][PathOfMsg(m)] /\ latest[n][PathOfMsg(m)] \in Nat
    BY <1>1, <1>3, <2>1 DEF NewestFirst, NoneIsNewer
  <2>3. PICK i \in DOMAIN s : s[i] = latest[n][PathOfMsg(m)] /\ PathOfMsg(s[i]) = PathOfMsg(m)
    BY <1>1, <1>3, <2>1, <2>2 DEF NewestFirst, HasLatest, s
  <2> QED BY <2>1, <2>2, <2>3
<1> QED BY <1>2, <1>3 DEF GoesUp, s

-----------------------------------------------------------------------------
(* Both, in the state space of all variants.                               *)

LEMMA RtcInvariants == VariantsSpec => [](FlowInv /\ LatestInv)
<1>1. VariantsInit => FlowInv /\ LatestInv
  <2>1. VariantsInit => RtcInit
    BY DEF VariantsInit, RtcRests
  <2> QED BY <2>1, FlowInitHolds, LatestInitHolds
<1>2. FlowInv /\ LatestInv /\ [VariantsNext]_variantsVars => (FlowInv /\ LatestInv)'
  BY PartSteps, FlowStep, LatestStep
<1> QED BY <1>1, <1>2, PTL DEF VariantsSpec

(* webrtc at QoS 3 and 4: what a node has published is, in its order, received,
   on its way or queued, and all of it is handed over before the node leaves,
   unless a deadline of disconnect passes. *)
THEOREM RtcStreamsAreWhole == VariantsSpec => []RtcStreamsHold
BY RtcInvariants, FlowTellsTheStream, PTL

(* webrtc at QoS 2: no path goes back, and the newest message of a path that has
   come to the callback is the last one of its path that it passes on. *)
THEOREM RtcNewestIsLast == VariantsSpec => []RtcFreshest
BY RtcInvariants, LatestTells, PTL

-----------------------------------------------------------------------------
(* WebSocket: what is logged and under way is what was written.            *)

WsMsgs == Nat \ {0}
ElementsOf(s) == {s[i] : i \in DOMAIN s}
Rising(s) == \A i, j \in DOMAIN s : i < j => s[i] < s[j]

\* s and the forgotten ones are all messages up to the k-th.
MakesUp(s, U, k) == Rising(s) /\ ElementsOf(s) \union U = 1..k /\ ElementsOf(s) \intersect U = {}

LEMMA NextIsAdded ==
    ASSUME NEW s \in Seq(WsMsgs), NEW U, NEW k \in Nat, MakesUp(s, U, k)
    PROVE  MakesUp(Append(s, k + 1), U, k + 1)
<1> DEFINE t == Append(s, k + 1)
           l == Len(s)
<1>1. k + 1 \in WsMsgs
  BY DEF WsMsgs
<1>2. /\ l \in Nat /\ DOMAIN s = 1..l /\ DOMAIN t = 1..l + 1 /\ t[l + 1] = k + 1
      /\ \A i \in 1..l : t[i] = s[i]
  BY <1>1, AppendProperties, LenProperties
<1>3. \A i \in 1..l : s[i] \in 1..k
  BY <1>2 DEF MakesUp, ElementsOf
<1> HIDE DEF t, l
<1>4. Rising(t)
  <2> SUFFICES ASSUME NEW i \in 1..l + 1, NEW j \in 1..l + 1, i < j PROVE t[i] < t[j]
    BY <1>2 DEF Rising
  <2>1. i \in 1..l /\ (j \in 1..l \/ j = l + 1)
    BY <1>2
  <2>2. CASE j \in 1..l
    <3>1. s[i] < s[j]
      BY <1>2, <2>1, <2>2 DEF MakesUp, Rising
    <3> QED BY <1>2, <2>1, <2>2, <3>1
  <2>3. CASE j = l + 1
    <3>1. t[i] \in 1..k /\ t[j] = k + 1
      BY <1>2, <1>3, <2>1, <2>3
    <3> QED BY <3>1
  <2> QED BY <2>1, <2>2, <2>3
<1>5. ElementsOf(t) = ElementsOf(s) \union {k + 1}
  <2>1. \A i \in 1..l + 1 : i \in 1..l \/ i = l + 1
    BY <1>2
  <2>2. \A x \in ElementsOf(t) : x \in ElementsOf(s) \union {k + 1}
    BY <1>2, <2>1 DEF ElementsOf
  <2>3. \A x \in ElementsOf(s) : x \in ElementsOf(t)
    BY <1>2 DEF ElementsOf
  <2>4. k + 1 \in ElementsOf(t)
    BY <1>2 DEF ElementsOf
  <2> QED BY <2>2, <2>3, <2>4
<1>6. k + 1 \notin U
  <2>1. k + 1 \notin 1..k
    OBVIOUS
  <2> QED BY <2>1 DEF MakesUp
<1>7. (1..k) \union {k + 1} = 1..k + 1
  OBVIOUS
<1>8. ElementsOf(t) \union U = 1..k + 1 /\ ElementsOf(t) \intersect U = {}
  BY <1>5, <1>6, <1>7 DEF MakesUp
<1> QED BY <1>4, <1>8 DEF MakesUp, t

\* The first one under way is read and forgotten.
LEMMA OneIsForgotten ==
    ASSUME NEW a \in Seq(WsMsgs), NEW b \in Seq(WsMsgs), b # <<>>, NEW U, NEW k \in Nat,
           MakesUp(a \o b, U, k)
    PROVE  MakesUp(a \o Tail(b), U \union {Head(b)}, k)
<1> DEFINE s == a \o b
           c == Tail(b)
           t == a \o c
           m == Len(a)
           n == Len(b)
           at(j) == IF j <= m THEN j ELSE j + 1
<1>1. /\ c \in Seq(WsMsgs) /\ Len(c) = n - 1 /\ Head(b) = b[1]
      /\ \A i \in 1..n - 1 : c[i] = b[i + 1]
  BY HeadTailProperties
<1>2. m \in Nat /\ n \in Nat /\ n >= 1
  BY LenProperties
<1> HIDE DEF c
<1>3. /\ Len(s) = m + n /\ s \in Seq(WsMsgs)
      /\ \A i \in 1..m + n : s[i] = IF i <= m THEN a[i] ELSE b[i - m]
  BY ConcatProperties
<1>4. /\ Len(t) = m + n - 1 /\ t \in Seq(WsMsgs)
      /\ \A i \in 1..m + n - 1 : t[i] = IF i <= m THEN a[i] ELSE c[i - m]
  <2>1. /\ Len(t) = m + Len(c) /\ t \in Seq(WsMsgs)
        /\ \A i \in 1..m + Len(c) : t[i] = IF i <= m THEN a[i] ELSE c[i - m]
    BY <1>1, ConcatProperties
  <2>2. m + Len(c) = m + n - 1
    BY <1>1, <1>2
  <2> HIDE DEF t
  <2> QED BY <2>1, <2>2
<1>5. DOMAIN s = 1..m + n /\ DOMAIN t = 1..m + n - 1
  BY <1>3, <1>4, LenProperties
<1> HIDE DEF s, t, m, n
<1>6. \A j \in 1..m + n - 1 : at(j) \in 1..m + n /\ at(j) # m + 1 /\ t[j] = s[at(j)]
  <2> SUFFICES ASSUME NEW j \in 1..m + n - 1
               PROVE  at(j) \in 1..m + n /\ at(j) # m + 1 /\ t[j] = s[at(j)]
    OBVIOUS
  <2>1. CASE j <= m
    BY <1>2, <1>3, <1>4, <2>1
  <2>2. CASE ~(j <= m)
    <3> DEFINE q == j + 1
               r == j - m
    <3>1. r \in 1..n - 1 /\ q \in 1..m + n /\ ~(q <= m) /\ r + 1 = q - m
      BY <1>2, <2>2
    <3>2. t[j] = c[r]
      BY <1>4, <2>2
    <3> HIDE DEF q, r
    <3>3. c[r] = b[r + 1]
      BY <1>1, <3>1
    <3>4. s[q] = b[q - m]
      BY <1>3, <3>1
    <3>5. at(j) = q /\ q # m + 1
      BY <1>2, <2>2 DEF q
    <3>6. t[j] = s[q]
      BY <3>1, <3>2, <3>3, <3>4
    <3> HIDE DEF at
    <3> QED BY <3>1, <3>5, <3>6
  <2> QED BY <2>1, <2>2
<1>7. /\ \A i \in 1..m + n : i = m + 1 \/ \E j \in 1..m + n - 1 : at(j) = i
      /\ \A i, j \in 1..m + n - 1 : i < j => at(i) < at(j)
  <2>1. ASSUME NEW i \in 1..m + n, i # m + 1 PROVE \E j \in 1..m + n - 1 : at(j) = i
    <3>1. CASE i <= m
      <4>1. i \in 1..m + n - 1 /\ at(i) = i
        BY <1>2, <3>1
      <4> QED BY <4>1
    <3>2. CASE ~(i <= m)
      <4>1. i - 1 \in 1..m + n - 1 /\ ~(i - 1 <= m) /\ i - 1 + 1 = i
        BY <1>2, <2>1, <3>2
      <4>2. at(i - 1) = i
        BY <4>1
      <4> QED BY <4>1, <4>2
    <3> QED BY <3>1, <3>2
  <2>2. \A i, j \in 1..m + n - 1 : i < j => at(i) < at(j)
    BY <1>2
  <2> QED BY <2>1, <2>2
<1>8. s[m + 1] = Head(b) /\ m + 1 \in 1..m + n
  BY <1>1, <1>2, <1>3
<1> HIDE DEF at
<1>9. /\ Rising(s) /\ ElementsOf(s) \union U = 1..k /\ ElementsOf(s) \intersect U = {}
      /\ \A i \in 1..m + n : s[i] \in 1..k
  BY <1>5 DEF MakesUp, ElementsOf, s
<1>10. Rising(t)
  BY <1>5, <1>6, <1>7, <1>9 DEF Rising
<1>11. ElementsOf(s) = ElementsOf(t) \union {Head(b)}
  <2>1. ASSUME NEW x \in ElementsOf(s) PROVE x \in ElementsOf(t) \union {Head(b)}
    <3>1. PICK i \in 1..m + n : s[i] = x
      BY <1>5 DEF ElementsOf
    <3>2. CASE i = m + 1
      BY <1>8, <3>1, <3>2
    <3>3. CASE i # m + 1
      <4>1. PICK j \in 1..m + n - 1 : at(j) = i
        BY <1>7, <3>3
      <4> QED BY <1>5, <1>6, <3>1, <4>1 DEF ElementsOf
    <3> QED BY <3>2, <3>3
  <2>2. \A x \in ElementsOf(t) : x \in ElementsOf(s)
    BY <1>5, <1>6 DEF ElementsOf
  <2>3. Head(b) \in ElementsOf(s)
    BY <1>5, <1>8 DEF ElementsOf
  <2> QED BY <2>1, <2>2, <2>3
<1>12. Head(b) \notin ElementsOf(t)
  <2> SUFFICES ASSUME NEW j \in 1..m + n - 1, t[j] = Head(b) PROVE FALSE
    BY <1>5 DEF ElementsOf
  <2>1. at(j) \in 1..m + n /\ at(j) # m + 1 /\ s[at(j)] = s[m + 1]
    BY <1>6, <1>8
  <2>2. at(j) < m + 1 \/ m + 1 < at(j)
    BY <1>2, <2>1
  <2>3. s[at(j)] < s[m + 1] \/ s[m + 1] < s[at(j)]
    BY <1>5, <1>8, <1>9, <2>1, <2>2 DEF Rising
  <2>4. s[m + 1] \in 1..k
    BY <1>8, <1>9
  <2> QED BY <2>1, <2>3, <2>4
<1>13. /\ ElementsOf(t) \union (U \union {Head(b)}) = 1..k
       /\ ElementsOf(t) \intersect (U \union {Head(b)}) = {}
  BY <1>9, <1>11, <1>12
<1> QED BY <1>10, <1>13 DEF MakesUp, t, c


\* Where the peer of a node that takes part may be.
HasPeer(n, p) ==
    p \in links[n] \/ p \in kept[n] \/ p = sending[n] \/ p \in dialing[n] \/ p \in awaiting[n]

LinkInv ==
    /\ notices \in [WsNames -> SUBSET WsNames]
    /\ \A n \in WsNames :
        /\ links[n] \union kept[n] \union dialing[n] \union awaiting[n] \subseteq spawn.names \ {n}
        /\ sending[n] \in (spawn.names \ {n}) \union {NoPeer}
        /\ stage[n] # "left" => \A p \in notices[n] : Gone(p)
    /\ \A n, p \in spawn.names : n # p /\ ~Gone(n) /\ ~Gone(p) => HasPeer(n, p)

LEMMA LinkInitHolds == WsInit => LinkInv
<1> SUFFICES ASSUME WsInit PROVE LinkInv
  OBVIOUS
<1>1. spawn.names \subseteq WsNames
  BY WsSpawnsAssumption DEF WsInit
<1>n. \A n \in WsNames : n \in Nat
  BY WsNamesAssumption, Zenon
<1>o. \A a, b \in Nat : ~(a < a) /\ (a # b => a < b \/ b < a)
  OBVIOUS
<1>2. \A n, p \in spawn.names : n # p => n < p \/ p < n
  BY <1>1, <1>n, <1>o, Zenon
<1>3. \A n \in WsNames : ~(n < n)
  BY <1>n, <1>o, Zenon
<1>4. \A n \in WsNames :
         /\ links[n] = {} /\ kept[n] = {} /\ sending[n] = NoPeer /\ notices[n] = {}
         /\ dialing[n] = {p \in spawn.names : n < p} /\ awaiting[n] = {p \in spawn.names : p < n}
  BY DEF WsInit, ServersOf, ClientsOf
<1>5. notices \in [WsNames -> SUBSET WsNames]
  BY DEF WsInit
<1>6. \A n, p \in spawn.names : n # p => HasPeer(n, p)
  BY <1>1, <1>2, <1>4 DEF HasPeer
<1>7. \A n \in WsNames :
         links[n] \union kept[n] \union dialing[n] \union awaiting[n] \subseteq spawn.names \ {n}
  BY <1>3, <1>4
<1> QED BY <1>4, <1>5, <1>6, <1>7 DEF LinkInv

\* A broadcast goes to everyone who is left.
LEMMA AdvanceKeepsLinks ==
    ASSUME WaitInv, LinkInv, NEW n \in spawn.names,
           NEW left \in SUBSET (spawn.names \ {n}), NEW done \in SUBSET (spawn.names \ {n}),
           Advance(n, left, done), UNCHANGED <<connectVars, stage, notices>>,
           \A p \in spawn.names \ {n} : ~Gone(n) /\ ~Gone(p) => p \in left \union done
    PROVE  LinkInv'
<1>1. /\ n \in WsNames /\ spawn.names \subseteq WsNames
      /\ links \in [WsNames -> SUBSET WsNames] /\ kept \in [WsNames -> SUBSET WsNames]
      /\ sending \in [WsNames -> WsNames \union {NoPeer}]
  BY DEF WaitInv, PlaceTypes
<1>2. PICK s \in left \union {NoPeer} :
         /\ links' = [links EXCEPT ![n] = IF left = {} THEN done ELSE left \ {s}]
         /\ kept' = [kept EXCEPT ![n] = IF left = {} THEN {} ELSE done]
         /\ sending' = [sending EXCEPT ![n] = s]
         /\ left # {} => s \in left
         /\ left = {} => s = NoPeer
  BY DEF Advance
<1>3. /\ links'[n] = (IF left = {} THEN done ELSE left \ {s})
      /\ kept'[n] = (IF left = {} THEN {} ELSE done) /\ sending'[n] = s
      /\ \A m \in WsNames \ {n} : links'[m] = links[m] /\ kept'[m] = kept[m] /\ sending'[m] = sending[m]
  BY <1>1, <1>2
<1>4. UNCHANGED <<spawn, dialing, awaiting, stage, notices>>
  BY DEF connectVars
<1>5. ASSUME NEW m \in WsNames
      PROVE  /\ (links[m] \union kept[m] \union dialing[m] \union awaiting[m])'
                    \subseteq spawn'.names \ {m}
             /\ sending'[m] \in (spawn'.names \ {m}) \union {NoPeer}
             /\ stage'[m] # "left" => \A p \in notices'[m] : Gone(p)'
  <2>1. /\ dialing[m] \union awaiting[m] \subseteq spawn.names \ {m}
        /\ stage[m] # "left" => \A p \in notices[m] : Gone(p)
    BY DEF LinkInv
  <2>2. CASE m = n
    BY <1>2, <1>3, <1>4, <2>1, <2>2 DEF Gone
  <2>3. CASE m # n
    BY <1>3, <1>4, <2>1, <2>3 DEF Gone, LinkInv
  <2> QED BY <2>2, <2>3
<1>6. ASSUME NEW m \in spawn.names, NEW p \in spawn.names, m # p, ~Gone(m)', ~Gone(p)'
      PROVE  HasPeer(m, p)'
  <2>1. ~Gone(m) /\ ~Gone(p)
    BY <1>4, <1>6 DEF Gone
  <2>2. CASE m = n
    BY <1>1, <1>2, <1>3, <1>4, <1>6, <2>1, <2>2 DEF HasPeer
  <2>3. CASE m # n
    BY <1>1, <1>3, <1>4, <1>6, <2>1, <2>3 DEF HasPeer, LinkInv
  <2> QED BY <2>2, <2>3
<1> QED BY <1>4, <1>5, <1>6 DEF LinkInv

\* What is taken out of a list is gone.
LEMMA FewerLinks ==
    ASSUME WaitInv, LinkInv, NEW n \in spawn.names,
           UNCHANGED <<connectVars, kept, sending>>,
           links' \in [WsNames -> SUBSET WsNames],
           \A m \in WsNames : links'[m] \subseteq links[m],
           \A m \in WsNames : stage[m] = "left" => stage'[m] = "left",
           \A m \in WsNames : stage'[m] # "left" => \A p \in links[m] \ links'[m] : Gone(p),
           notices' \in [WsNames -> SUBSET WsNames],
           \A m \in WsNames : stage'[m] # "left" => \A p \in notices'[m] : Gone(p)
    PROVE  LinkInv'
<1>1. spawn.names \subseteq WsNames
  BY DEF WaitInv, PlaceTypes
<1>2. UNCHANGED <<spawn, dialing, awaiting>>
  BY DEF connectVars
<1>3. \A p \in WsNames : Gone(p) => Gone(p)'
  BY DEF Gone
<1>4. ASSUME NEW m \in WsNames
      PROVE  /\ (links[m] \union kept[m] \union dialing[m] \union awaiting[m])'
                    \subseteq spawn'.names \ {m}
             /\ sending'[m] \in (spawn'.names \ {m}) \union {NoPeer}
             /\ stage'[m] # "left" => \A p \in notices'[m] : Gone(p)'
  BY <1>2, <1>3 DEF LinkInv
<1>5. ASSUME NEW m \in spawn.names, NEW p \in spawn.names, m # p, ~Gone(m)', ~Gone(p)'
      PROVE  HasPeer(m, p)'
  <2>1. ~Gone(m) /\ ~Gone(p) /\ stage'[m] # "left"
    BY <1>1, <1>3, <1>5 DEF Gone
  <2>2. HasPeer(m, p)
    BY <1>5, <2>1 DEF LinkInv
  <2>3. p \in links[m] => p \in links'[m]
    BY <1>1, <2>1
  <2> QED BY <1>2, <2>2, <2>3 DEF HasPeer
<1> QED BY <1>2, <1>4, <1>5 DEF LinkInv

LEMMA HandshakeLinks ==
    ASSUME WaitInv, LinkInv, NEW n \in spawn.names, NEW p \in spawn.names, Handshake(n, p)
    PROVE  LinkInv'
<1>1. /\ n \in WsNames /\ spawn.names \subseteq WsNames /\ n # p
      /\ links \in [WsNames -> SUBSET WsNames]
      /\ dialing \in [WsNames -> SUBSET WsNames] /\ awaiting \in [WsNames -> SUBSET WsNames]
  BY DEF WaitInv, PlaceTypes, LinkInv, Handshake
<1>2. /\ dialing' = [dialing EXCEPT ![n] = @ \ {p}] /\ awaiting' = [awaiting EXCEPT ![p] = @ \ {n}]
      /\ links' = [links EXCEPT ![n] = @ \union {p}, ![p] = @ \union {n}]
      /\ UNCHANGED <<spawn, stage, kept, sending, notices>>
  BY DEF Handshake
<1>3. \A m \in WsNames :
         /\ dialing'[m] = (IF m = n THEN dialing[m] \ {p} ELSE dialing[m])
         /\ awaiting'[m] = (IF m = p THEN awaiting[m] \ {n} ELSE awaiting[m])
         /\ links'[m] = (IF m = n THEN links[m] \union {p}
                         ELSE IF m = p THEN links[m] \union {n} ELSE links[m])
  BY <1>1, <1>2
<1>4. ASSUME NEW m \in WsNames
      PROVE  /\ (links[m] \union kept[m] \union dialing[m] \union awaiting[m])'
                    \subseteq spawn'.names \ {m}
             /\ sending'[m] \in (spawn'.names \ {m}) \union {NoPeer}
             /\ stage'[m] # "left" => \A q \in notices'[m] : Gone(q)'
  <2>1. /\ links[m] \union kept[m] \union dialing[m] \union awaiting[m] \subseteq spawn.names \ {m}
        /\ sending[m] \in (spawn.names \ {m}) \union {NoPeer}
        /\ stage[m] # "left" => \A q \in notices[m] : Gone(q)
    BY DEF LinkInv
  <2>2. links'[m] \union dialing'[m] \union awaiting'[m]
            \subseteq links[m] \union dialing[m] \union awaiting[m]
                      \union (IF m = n THEN {p} ELSE {}) \union (IF m = p THEN {n} ELSE {})
    BY <1>3
  <2> QED BY <1>1, <1>2, <2>1, <2>2 DEF Gone
<1>5. ASSUME NEW m \in spawn.names, NEW q \in spawn.names, m # q, ~Gone(m)', ~Gone(q)'
      PROVE  HasPeer(m, q)'
  <2>1. HasPeer(m, q)
    BY <1>2, <1>5 DEF LinkInv, Gone
  <2> QED BY <1>1, <1>2, <1>3, <2>1 DEF HasPeer
<1> QED BY <1>2, <1>4, <1>5 DEF LinkInv

LEMMA LinkStep == WaitInv /\ LinkInv /\ [WsNext]_wsVars => LinkInv'
<1> SUFFICES ASSUME WaitInv, LinkInv, [WsNext]_wsVars PROVE LinkInv'
  OBVIOUS
<1> USE NoPeerIsNoName
<1>t. /\ spawn.names \subseteq WsNames
      /\ links \in [WsNames -> SUBSET WsNames] /\ notices \in [WsNames -> SUBSET WsNames]
      /\ stage \in [WsNames -> {"connecting", "running", "stopping", "left"}]
  BY DEF WaitInv, PlaceTypes, LinkInv
<1>n. \A m \in WsNames : stage[m] # "left" => \A p \in notices[m] : Gone(p)
  BY DEF LinkInv
<1>1. CASE UNCHANGED wsVars
  BY <1>1 DEF wsVars, connectVars, LinkInv, HasPeer, Gone
<1>2. ASSUME NEW n \in spawn.names, NEW p \in spawn.names, Handshake(n, p) PROVE LinkInv'
  BY <1>2, HandshakeLinks
<1>3. ASSUME NEW n \in spawn.names, NEW p \in spawn.names, WsReader(n, p) PROVE LinkInv'
  <2>1. UNCHANGED <<connectVars, kept, sending, links, stage>>
    BY <1>3 DEF WsReader, ReadFrame, ReadClosed
  <2>2. notices' = notices \/ (Gone(p) /\ notices' = [notices EXCEPT ![n] = @ \union {p}])
    BY <1>3 DEF WsReader, ReadFrame, ReadClosed
  <2>3. /\ notices' \in [WsNames -> SUBSET WsNames]
        /\ \A m \in WsNames : notices'[m] \subseteq notices[m] \union {p}
        /\ \A m \in WsNames : \A q \in notices'[m] : q \in notices[m] \/ Gone(q)
    BY <1>t, <2>2
  <2> QED BY <1>t, <1>n, <2>1, <2>3, FewerLinks
<1>4. ASSUME NEW n \in spawn.names, Start(n) \/ Stop(n) PROVE LinkInv'
  <2>1. UNCHANGED <<connectVars, kept, sending, links, notices>>
    BY <1>4 DEF Start, Stop
  <2>2. \A m \in WsNames : stage'[m] = "left" <=> stage[m] = "left"
    BY <1>t, <1>4 DEF Start, Stop
  <2> QED BY <1>t, <1>n, <2>1, <2>2, FewerLinks
<1>5. ASSUME NEW n \in spawn.names, PublishFrame(n) \/ Send(n) \/ SendFails(n) PROVE LinkInv'
  <2>1. n \in WsNames /\ stage[n] # "connecting" /\ dialing[n] = {} /\ awaiting[n] = {}
    BY <1>t, <1>5 DEF PublishFrame, Send, SendFails, WaitInv, StageInv
  <2>2. /\ links[n] \in SUBSET (spawn.names \ {n}) /\ kept[n] \in SUBSET (spawn.names \ {n})
        /\ sending[n] \in (spawn.names \ {n}) \union {NoPeer}
    BY <2>1 DEF LinkInv
  <2>3. \A p \in spawn.names \ {n} :
            ~Gone(n) /\ ~Gone(p) => p \in links[n] \/ p \in kept[n] \/ p = sending[n]
    BY <2>1 DEF LinkInv, HasPeer
  <2>4. UNCHANGED <<connectVars, stage, notices>>
    BY <1>5 DEF PublishFrame, Send, SendFails
  <2>5. CASE PublishFrame(n)
    <3>1. sending[n] = NoPeer /\ kept[n] = {} /\ Advance(n, links[n], {})
      BY <2>1, <2>5 DEF PublishFrame, WaitInv, ServiceInv
    <3>2. NoPeer \notin spawn.names
      BY <1>t
    <3>3. \A p \in spawn.names \ {n} : ~Gone(n) /\ ~Gone(p) => p \in links[n] \union {}
      BY <2>3, <3>1, <3>2
    <3> QED BY <2>2, <2>4, <3>1, <3>3, AdvanceKeepsLinks
  <2>6. CASE Send(n)
    <3>1. sending[n] # NoPeer /\ Advance(n, links[n], kept[n] \union {sending[n]})
      BY <2>6 DEF Send
    <3>2. kept[n] \union {sending[n]} \in SUBSET (spawn.names \ {n})
      BY <2>2, <3>1
    <3>3. \A p \in spawn.names \ {n} :
              ~Gone(n) /\ ~Gone(p) => p \in links[n] \union (kept[n] \union {sending[n]})
      BY <2>3
    <3> QED BY <2>2, <2>4, <3>1, <3>2, <3>3, AdvanceKeepsLinks
  <2>7. CASE SendFails(n)
    <3>1. Gone(sending[n]) /\ Advance(n, links[n], kept[n])
      BY <2>7 DEF SendFails
    <3>3. \A p \in spawn.names \ {n} : ~Gone(n) /\ ~Gone(p) => p \in links[n] \union kept[n]
      BY <2>3, <3>1
    <3> QED BY <2>2, <2>4, <3>1, <3>3, AdvanceKeepsLinks
  <2> QED BY <1>5, <2>5, <2>6, <2>7
<1>6. ASSUME NEW n \in spawn.names, Poll(n) \/ Retry(n) \/ PollNotices(n) PROVE LinkInv'
  <2>1. UNCHANGED <<connectVars, kept, sending, stage>>
    BY <1>6 DEF Poll, Retry, PollNotices
  <2>2. n \in WsNames
    BY <1>t
  <2>3. /\ \/ links' = [links EXCEPT ![n] = @ \ Closed(n)] /\ notices' = notices
           \/ /\ stage[n] = "running" /\ links' = [links EXCEPT ![n] = @ \ notices[n]]
              /\ notices' = [notices EXCEPT ![n] = {}]
    BY <1>6 DEF Poll, Retry, PollNotices
  <2>4. \A p \in Closed(n) : Gone(p)
    BY DEF Closed
  <2>5. stage[n] = "running" => \A p \in notices[n] : Gone(p)
    BY <1>n, <2>2
  <2>6. /\ links' \in [WsNames -> SUBSET WsNames] /\ notices' \in [WsNames -> SUBSET WsNames]
        /\ \A m \in WsNames : links'[m] \subseteq links[m] /\ notices'[m] \subseteq notices[m]
        /\ \A m \in WsNames : \A p \in links[m] \ links'[m] : Gone(p)
    BY <1>t, <2>2, <2>3, <2>4, <2>5
  <2> QED BY <1>n, <2>1, <2>6, FewerLinks
<1>7. ASSUME NEW n \in spawn.names, Disconnect(n) PROVE LinkInv'
  <2>1. /\ UNCHANGED <<connectVars, kept, sending>> /\ stage' = [stage EXCEPT ![n] = "left"]
        /\ links' = [links EXCEPT ![n] = {}] /\ notices' = [notices EXCEPT ![n] = {}]
    BY <1>7 DEF Disconnect
  <2>2. /\ links' \in [WsNames -> SUBSET WsNames] /\ notices' \in [WsNames -> SUBSET WsNames]
        /\ stage'[n] = "left"
        /\ \A m \in WsNames : m # n => links'[m] = links[m] /\ notices'[m] = notices[m]
                                       /\ stage'[m] = stage[m]
        /\ links'[n] = {} /\ notices'[n] = {}
    BY <1>t, <2>1
  <2>3. /\ \A m \in WsNames : links'[m] \subseteq links[m]
        /\ \A m \in WsNames : stage[m] = "left" => stage'[m] = "left"
        /\ \A m \in WsNames : stage'[m] # "left" => \A p \in links[m] \ links'[m] : Gone(p)
        /\ \A m \in WsNames : stage'[m] # "left" => \A p \in notices'[m] : Gone(p)
    BY <1>n, <2>2
  <2> QED BY <2>1, <2>2, <2>3, FewerLinks
<1> QED BY <1>1, <1>2, <1>3, <1>4, <1>5, <1>6, <1>7 DEF WsNext, WsDriver

-----------------------------------------------------------------------------
(* The streams.                                                            *)

WireTypes ==
    /\ wire \in [WsNames -> [WsNames -> Seq(WsMsgs)]]
    /\ logged \in [WsNames -> [WsNames -> Seq(WsMsgs)]]
    /\ unlogged \in [WsNames -> [WsNames -> SUBSET WsMsgs]]
    /\ wrote \in [WsNames -> Nat]
    /\ \A n \in WsNames : sending[n] # NoPeer => wrote[n] > 0

\* The last message of w that is on its way to r.
Reached(w, r) == IF sending[w] # NoPeer /\ r \notin kept[w] THEN wrote[w] - 1 ELSE wrote[w]

FlowsTo(r, w) == r # w /\ stage[r] \in {"connecting", "running"} /\ ~Gone(w)

Whole(r, w) ==
    /\ MakesUp(Stream(w, r), unlogged[r][w], Reached(w, r))
    /\ Multi \/ Cardinality(spawn.names) <= 2 => unlogged[r][w] = {}

NoneSkipped == \A r, w \in spawn.names : FlowsTo(r, w) => Whole(r, w)

LEMMA WireInitHolds == WsInit => WireTypes /\ NoneSkipped
<1> SUFFICES ASSUME WsInit PROVE WireTypes /\ NoneSkipped
  OBVIOUS
<1>1. spawn.names \subseteq WsNames
  BY WsSpawnsAssumption DEF WsInit
<1>2. <<>> \in Seq(WsMsgs)
  OBVIOUS
<1>3. WireTypes
  BY <1>2 DEF WsInit, WireTypes
<1>4. MakesUp(<<>>, {}, 0)
  BY DEF MakesUp, Rising, ElementsOf
<1>5. <<>> \o <<>> = <<>>
  BY <1>2, NothingJoined
<1>6. ASSUME NEW r \in spawn.names, NEW w \in spawn.names PROVE Whole(r, w)
  <2>1. /\ logged[r][w] = <<>> /\ wire[w][r] = <<>> /\ unlogged[r][w] = {} /\ wrote[w] = 0
        /\ sending[w] = NoPeer
    BY <1>1 DEF WsInit
  <2>2. Stream(w, r) = <<>> /\ Reached(w, r) = 0
    BY <1>5, <2>1 DEF Stream, Reached
  <2> QED BY <1>4, <2>1, <2>2 DEF Whole
<1> QED BY <1>3, <1>6 DEF NoneSkipped

\* The types of a column and of one place.
LEMMA ColumnTyped ==
    ASSUME NEW S, NEW T, NEW f \in [S -> [S -> T]], NEW n \in S, NEW g, \A w \in S : g[w] \in T,
           NEW h, h = [w \in S |-> [f[w] EXCEPT ![n] = g[w]]]
    PROVE  /\ h \in [S -> [S -> T]]
           /\ \A w, r \in S : h[w][r] = IF r = n THEN g[w] ELSE f[w][r]
<1>1. \A w \in S : f[w] \in [S -> T]
  OBVIOUS
<1>2. \A w \in S : [f[w] EXCEPT ![n] = g[w]] \in [S -> T]
  BY <1>1, RowTyped, Zenon
<1>3. \A w, r \in S : [f[w] EXCEPT ![n] = g[w]][r] = IF r = n THEN g[w] ELSE f[w][r]
  BY <1>1
<1> QED BY <1>2, <1>3

LEMMA PlaceTyped ==
    ASSUME NEW S, NEW T, NEW f \in [S -> [S -> T]], NEW a \in S, NEW b \in S, NEW x \in T,
           NEW h, h = [f EXCEPT ![a][b] = x]
    PROVE  /\ h \in [S -> [S -> T]]
           /\ \A w, r \in S : h[w][r] = IF w = a /\ r = b THEN x ELSE f[w][r]
<1>1. f[a] \in [S -> T]
  OBVIOUS
<1>2. [f[a] EXCEPT ![b] = x] \in [S -> T]
  BY <1>1, RowTyped, Zenon
<1>3. \A r \in S : [f[a] EXCEPT ![b] = x][r] = IF r = b THEN x ELSE f[a][r]
  BY <1>1
<1> QED BY <1>2, <1>3

\* Nothing new for r of w.
LEMMA WholeStays ==
    ASSUME NEW r, NEW w, Whole(r, w), Stream(w, r)' = Stream(w, r), spawn' = spawn,
           unlogged'[r][w] = unlogged[r][w], Reached(w, r)' = Reached(w, r)
    PROVE  Whole(r, w)'
BY DEF Whole, MakesUp, Rising, ElementsOf, Multi

LEMMA FlowsBefore ==
    ASSUME WaitInv, [WsNext]_wsVars, NEW r \in spawn.names, NEW w \in spawn.names, FlowsTo(r, w)'
    PROVE  FlowsTo(r, w)
<1>1. /\ spawn.names \subseteq WsNames
      /\ stage \in [WsNames -> {"connecting", "running", "stopping", "left"}]
  BY DEF WaitInv, PlaceTypes
<1>2. ASSUME NEW n \in WsNames,
             \/ stage' = stage
             \/ stage[n] = "connecting" /\ stage' = [stage EXCEPT ![n] = "running"]
             \/ stage[n] = "running" /\ stage' = [stage EXCEPT ![n] = "stopping"]
             \/ stage' = [stage EXCEPT ![n] = "left"]
      PROVE  FlowsTo(r, w)
  <2>1. \A m \in WsNames :
            /\ stage'[m] \in {"connecting", "running"} => stage[m] \in {"connecting", "running"}
            /\ stage'[m] # "left" => stage[m] # "left"
    BY <1>1, <1>2
  <2> QED BY <1>1, <2>1 DEF FlowsTo, Gone
<1>3. CASE UNCHANGED wsVars
  BY <1>1, <1>3 DEF wsVars, FlowsTo, Gone
<1>4. ASSUME NEW n \in spawn.names, NEW p \in spawn.names, Handshake(n, p) \/ WsReader(n, p)
      PROVE  FlowsTo(r, w)
  BY <1>1, <1>2, <1>4 DEF Handshake, WsReader, ReadFrame, ReadClosed
<1>5. ASSUME NEW n \in spawn.names, Start(n) \/ Stop(n) \/ Disconnect(n) PROVE FlowsTo(r, w)
  BY <1>1, <1>2, <1>5 DEF Start, Stop, Disconnect
<1>6. ASSUME NEW n \in spawn.names,
             \/ PublishFrame(n) \/ Send(n) \/ SendFails(n) \/ Retry(n) \/ Poll(n) \/ PollNotices(n)
      PROVE  FlowsTo(r, w)
  BY <1>1, <1>2, <1>6 DEF PublishFrame, Send, SendFails, Retry, Poll, PollNotices
<1> QED BY <1>3, <1>4, <1>5, <1>6 DEF WsNext, WsDriver

\* A step that changes neither buffers nor logs, and no broadcast.
LEMMA NothingFlows ==
    ASSUME WaitInv, WireTypes, NoneSkipped, [WsNext]_wsVars,
           UNCHANGED <<spawn, kept, sending, wrote, wire, logged, unlogged>>
    PROVE  WireTypes' /\ NoneSkipped'
<1>1. WireTypes'
  BY DEF WireTypes
<1>2. ASSUME NEW r \in spawn.names, NEW w \in spawn.names, FlowsTo(r, w)' PROVE Whole(r, w)'
  <2>1. Whole(r, w)
    BY <1>2, FlowsBefore DEF NoneSkipped
  <2>2. Stream(w, r)' = Stream(w, r) /\ Reached(w, r)' = Reached(w, r)
    BY DEF Stream, Reached
  <2> QED BY <2>1, <2>2, WholeStays
<1> QED BY <1>1, <1>2 DEF NoneSkipped

LEMMA OneRead ==
    ASSUME WireTypes, NEW r \in WsNames, NEW w \in WsNames, wire[w][r] # <<>>,
           logged'[r][w] = Append(logged[r][w], Head(wire[w][r])),
           wire'[w][r] = Tail(wire[w][r])
    PROVE  Stream(w, r)' = Stream(w, r)
<1> DEFINE a == logged[r][w]
           s == wire[w][r]
<1>1. a \in Seq(WsMsgs) /\ s \in Seq(WsMsgs) /\ s # <<>>
  BY DEF WireTypes
<1>2. Stream(w, r)' = Append(a, Head(s)) \o Tail(s) /\ Stream(w, r) = a \o s
  BY DEF Stream
<1> HIDE DEF a, s
<1>3. Append(a, Head(s)) \o Tail(s) = a \o s
  BY <1>1, HeadMoves
<1> QED BY <1>2, <1>3

LEMMA HeadIsTyped ==
    ASSUME NEW T, NEW s \in Seq(T), s # <<>>
    PROVE  Head(s) \in T /\ Tail(s) \in Seq(T)
BY HeadThenTail

\* A poll reads the first frame of one peer.
LEMMA PollStreams ==
    ASSUME WaitInv, LinkInv, WireTypes, NoneSkipped, [WsNext]_wsVars,
           NEW n \in spawn.names, Poll(n)
    PROVE  WireTypes' /\ NoneSkipped'
<1>1. /\ n \in WsNames /\ spawn.names \subseteq WsNames /\ links[n] \subseteq WsNames
      /\ wire \in [WsNames -> [WsNames -> Seq(WsMsgs)]]
      /\ logged \in [WsNames -> [WsNames -> Seq(WsMsgs)]]
  BY DEF WaitInv, PlaceTypes, WireTypes
<1> DEFINE g == [w \in WsNames |-> IF Hit(n, w) THEN Tail(wire[w][n]) ELSE wire[w][n]]
           l == [w \in WsNames |->
                    IF Hit(n, w) THEN Append(logged[n][w], Head(wire[w][n])) ELSE logged[n][w]]
<1>2. \A w \in WsNames : Hit(n, w) => wire[w][n] # <<>>
  BY DEF Hit, Ready
<1>3. \A w \in WsNames : wire[w][n] \in Seq(WsMsgs) /\ logged[n][w] \in Seq(WsMsgs)
  BY <1>1
<1>4. \A w \in WsNames : Hit(n, w) =>
         /\ Tail(wire[w][n]) \in Seq(WsMsgs)
         /\ Append(logged[n][w], Head(wire[w][n])) \in Seq(WsMsgs)
  <2> SUFFICES ASSUME NEW w \in WsNames, Hit(n, w)
               PROVE  /\ Tail(wire[w][n]) \in Seq(WsMsgs)
                      /\ Append(logged[n][w], Head(wire[w][n])) \in Seq(WsMsgs)
    OBVIOUS
  <2>1. Head(wire[w][n]) \in WsMsgs /\ Tail(wire[w][n]) \in Seq(WsMsgs)
    BY <1>2, <1>3, HeadIsTyped
  <2> QED BY <1>3, <2>1, AppendProperties
<1>5. (\A w \in WsNames : g[w] \in Seq(WsMsgs)) /\ l \in [WsNames -> Seq(WsMsgs)]
  BY <1>3, <1>4
<1>6. /\ wire' = [w \in WsNames |-> [wire[w] EXCEPT ![n] = g[w]]]
      /\ logged' = [logged EXCEPT ![n] = l]
      /\ UNCHANGED <<spawn, kept, sending, wrote, unlogged>>
  BY DEF Poll, connectVars
<1>g. \A w \in WsNames :
         /\ g[w] = IF Hit(n, w) THEN Tail(wire[w][n]) ELSE wire[w][n]
         /\ l[w] = IF Hit(n, w) THEN Append(logged[n][w], Head(wire[w][n])) ELSE logged[n][w]
  OBVIOUS
<1> HIDE DEF g, l
<1>7. /\ wire' \in [WsNames -> [WsNames -> Seq(WsMsgs)]]
      /\ \A w, r \in WsNames : wire'[w][r] = IF r = n THEN g[w] ELSE wire[w][r]
  BY <1>1, <1>5, <1>6, ColumnTyped
<1>8. logged' \in [WsNames -> [WsNames -> Seq(WsMsgs)]]
  BY <1>1, <1>5, <1>6
<1>9. \A r, w \in WsNames : logged'[r][w] = IF r = n THEN l[w] ELSE logged[r][w]
  BY <1>1, <1>6
<1>10. WireTypes'
  BY <1>6, <1>7, <1>8 DEF WireTypes
<1>11. ASSUME NEW r \in spawn.names, NEW w \in spawn.names, FlowsTo(r, w)' PROVE Whole(r, w)'
  <2>1. Whole(r, w) /\ r \in WsNames /\ w \in WsNames
    BY <1>1, <1>11, FlowsBefore DEF NoneSkipped
  <2>2. Reached(w, r)' = Reached(w, r)
    BY <1>6 DEF Reached
  <2>3. CASE r = n /\ Hit(n, w)
    <3>1. Stream(w, r)' = Stream(w, r)
      BY <1>2, <1>7, <1>9, <1>g, <2>1, <2>3, OneRead
    <3> QED BY <1>6, <2>1, <2>2, <3>1, WholeStays
  <2>4. CASE ~(r = n /\ Hit(n, w))
    <3>1. logged'[r][w] = logged[r][w] /\ wire'[w][r] = wire[w][r]
      BY <1>7, <1>9, <1>g, <2>1, <2>4
    <3>2. Stream(w, r)' = Stream(w, r)
      BY <3>1 DEF Stream
    <3> QED BY <1>6, <2>1, <2>2, <3>2, WholeStays
  <2> QED BY <2>3, <2>4
<1> QED BY <1>6, <1>10, <1>11 DEF NoneSkipped

\* So does a reader thread.
LEMMA ReadStreams ==
    ASSUME WaitInv, LinkInv, WireTypes, NoneSkipped, [WsNext]_wsVars,
           NEW n \in spawn.names, NEW p \in spawn.names, ReadFrame(n, p)
    PROVE  WireTypes' /\ NoneSkipped'
<1>1. /\ n \in WsNames /\ p \in WsNames /\ spawn.names \subseteq WsNames
      /\ wire \in [WsNames -> [WsNames -> Seq(WsMsgs)]]
      /\ logged \in [WsNames -> [WsNames -> Seq(WsMsgs)]]
      /\ wire[p][n] \in Seq(WsMsgs) /\ logged[n][p] \in Seq(WsMsgs)
  BY DEF WaitInv, PlaceTypes, WireTypes
<1>2. /\ wire[p][n] # <<>>
      /\ logged' = [logged EXCEPT ![n][p] = Append(logged[n][p], Head(wire[p][n]))]
      /\ wire' = [wire EXCEPT ![p][n] = Tail(wire[p][n])]
      /\ UNCHANGED <<spawn, kept, sending, wrote, unlogged>>
  BY DEF ReadFrame, connectVars
<1>3. Head(wire[p][n]) \in WsMsgs /\ Tail(wire[p][n]) \in Seq(WsMsgs)
  BY <1>1, <1>2, HeadIsTyped
<1>4. Append(logged[n][p], Head(wire[p][n])) \in Seq(WsMsgs)
  BY <1>1, <1>3, AppendProperties
<1> DEFINE a == Append(logged[n][p], Head(wire[p][n]))
           t == Tail(wire[p][n])
<1>5. wire' = [wire EXCEPT ![p][n] = t] /\ t \in Seq(WsMsgs)
  BY <1>2, <1>3
<1>6. logged' = [logged EXCEPT ![n][p] = a] /\ a \in Seq(WsMsgs)
  BY <1>2, <1>4
<1> HIDE DEF a, t
<1>o. n \in WsNames /\ p \in WsNames
  BY <1>1
<1>w. wire \in [WsNames -> [WsNames -> Seq(WsMsgs)]]
  BY <1>1
<1>l. logged \in [WsNames -> [WsNames -> Seq(WsMsgs)]]
  BY <1>1
<1>7. /\ wire' \in [WsNames -> [WsNames -> Seq(WsMsgs)]]
      /\ \A w, r \in WsNames : wire'[w][r] = IF w = p /\ r = n THEN t ELSE wire[w][r]
  BY <1>5, <1>o, <1>w, PlaceTyped
<1>8. /\ logged' \in [WsNames -> [WsNames -> Seq(WsMsgs)]]
      /\ \A r, w \in WsNames : logged'[r][w] = IF r = n /\ w = p THEN a ELSE logged[r][w]
  BY <1>6, <1>l, <1>o, PlaceTyped
<1>10. WireTypes'
  BY <1>2, <1>7, <1>8 DEF WireTypes
<1>11. ASSUME NEW r \in spawn.names, NEW w \in spawn.names, FlowsTo(r, w)' PROVE Whole(r, w)'
  <2>1. Whole(r, w) /\ r \in WsNames /\ w \in WsNames
    BY <1>1, <1>11, FlowsBefore DEF NoneSkipped
  <2>2. Reached(w, r)' = Reached(w, r)
    BY <1>2 DEF Reached
  <2>3. CASE r = n /\ w = p
    <3>1. Stream(w, r)' = Stream(w, r)
      BY <1>2, <1>7, <1>8, <2>1, <2>3, OneRead DEF a, t
    <3> QED BY <1>2, <2>1, <2>2, <3>1, WholeStays
  <2>4. CASE ~(r = n /\ w = p)
    <3>1. logged'[r][w] = logged[r][w] /\ wire'[w][r] = wire[w][r]
      BY <1>7, <1>8, <2>1, <2>4
    <3>2. Stream(w, r)' = Stream(w, r)
      BY <3>1 DEF Stream
    <3> QED BY <1>2, <2>1, <2>2, <3>2, WholeStays
  <2> QED BY <2>3, <2>4
<1> QED BY <1>2, <1>10, <1>11 DEF NoneSkipped

\* Whoever leaves reads nothing any more.
LEMMA DisconnectStreams ==
    ASSUME WaitInv, WireTypes, NoneSkipped, [WsNext]_wsVars,
           NEW n \in spawn.names, Disconnect(n)
    PROVE  WireTypes' /\ NoneSkipped'
<1>1. /\ n \in WsNames /\ spawn.names \subseteq WsNames
      /\ wire \in [WsNames -> [WsNames -> Seq(WsMsgs)]]
      /\ stage \in [WsNames -> {"connecting", "running", "stopping", "left"}]
  BY DEF WaitInv, PlaceTypes, WireTypes
<1>2. /\ stage' = [stage EXCEPT ![n] = "left"]
      /\ \/ wire' = [w \in WsNames |-> [wire[w] EXCEPT ![n] = <<>>]]
         \/ wire' = wire
      /\ UNCHANGED <<spawn, kept, sending, wrote, logged, unlogged>>
  BY DEF Disconnect, connectVars
<1>3. /\ wire' \in [WsNames -> [WsNames -> Seq(WsMsgs)]]
      /\ \A w, r \in WsNames : r # n => wire'[w][r] = wire[w][r]
  <2>1. CASE wire' = wire
    BY <1>1, <2>1
  <2>2. CASE wire' = [w \in WsNames |-> [wire[w] EXCEPT ![n] = <<>>]]
    <3> DEFINE g == [w \in WsNames |-> <<>>]
    <3>1. \A w \in WsNames : g[w] \in Seq(WsMsgs)
      OBVIOUS
    <3>2. wire' = [w \in WsNames |-> [wire[w] EXCEPT ![n] = g[w]]]
      BY <2>2
    <3> HIDE DEF g
    <3> QED BY <1>1, <3>1, <3>2, ColumnTyped
  <2> QED BY <1>2, <2>1, <2>2
<1>4. WireTypes'
  BY <1>2, <1>3 DEF WireTypes
<1>5. ASSUME NEW r \in spawn.names, NEW w \in spawn.names, FlowsTo(r, w)' PROVE Whole(r, w)'
  <2>1. Whole(r, w) /\ r \in WsNames /\ w \in WsNames
    BY <1>1, <1>5, FlowsBefore DEF NoneSkipped
  <2>2. r # n
    BY <1>1, <1>2, <1>5 DEF FlowsTo
  <2>3. Stream(w, r)' = Stream(w, r) /\ Reached(w, r)' = Reached(w, r)
    BY <1>2, <1>3, <2>1, <2>2 DEF Stream, Reached
  <2> QED BY <1>2, <2>1, <2>3, WholeStays
<1> QED BY <1>2, <1>4, <1>5 DEF NoneSkipped

LEMMA ReachedTyped ==
    ASSUME WaitInv, WireTypes, NEW w \in WsNames, NEW r
    PROVE  Reached(w, r) \in Nat
BY DEF WaitInv, PlaceTypes, WireTypes, Reached

\* A blocked sender takes all of the peer it writes to, and forgets a frame of
\* another one.
LEMMA RetryStreams ==
    ASSUME WaitInv, LinkInv, WireTypes, NoneSkipped, [WsNext]_wsVars,
           NEW n \in spawn.names, Retry(n)
    PROVE  WireTypes' /\ NoneSkipped'
<1> DEFINE p == sending[n]
           g == [w \in WsNames |->
                    IF Drained(n, w) # <<>> THEN <<>>
                    ELSE IF Hit(n, w) THEN Tail(wire[w][n]) ELSE wire[w][n]]
           l == [w \in WsNames |-> LogDrained(n, w)]
           u == [w \in WsNames |->
                    IF Hit(n, w) THEN unlogged[n][w] \union {Head(wire[w][n])} ELSE unlogged[n][w]]
<1>1. /\ n \in WsNames /\ spawn.names \subseteq WsNames /\ p # NoPeer /\ p \in spawn.names \ {n}
      /\ links[n] \subseteq spawn.names \ {n} /\ p \in WsNames
      /\ wire \in [WsNames -> [WsNames -> Seq(WsMsgs)]]
      /\ logged \in [WsNames -> [WsNames -> Seq(WsMsgs)]]
      /\ unlogged \in [WsNames -> [WsNames -> SUBSET WsMsgs]]
  BY DEF WaitInv, PlaceTypes, LinkInv, WireTypes, Retry
<1>2. p \notin links[n]
  <2>1. \A q \in links[n] : place[n][q] < place[n][p]
    BY <1>1 DEF WaitInv, ServiceInv
  <2>2. place[n][p] \in Nat
    BY <1>1 DEF WaitInv, PlaceTypes
  <2> HIDE DEF p
  <2>3. ~(place[n][p] < place[n][p])
    BY <2>2
  <2> QED BY <2>1, <2>3
<1>3. \A w \in WsNames : Hit(n, w) => w \in links[n] /\ wire[w][n] # <<>>
  BY DEF Hit, Ready
<1>4. \A w \in WsNames :
         /\ wire[w][n] \in Seq(WsMsgs) /\ logged[n][w] \in Seq(WsMsgs)
         /\ unlogged[n][w] \in SUBSET WsMsgs
  BY <1>1
<1>5. \A w \in WsNames : Hit(n, w) => Head(wire[w][n]) \in WsMsgs /\ Tail(wire[w][n]) \in Seq(WsMsgs)
  <2> SUFFICES ASSUME NEW w \in WsNames, Hit(n, w)
               PROVE  Head(wire[w][n]) \in WsMsgs /\ Tail(wire[w][n]) \in Seq(WsMsgs)
    OBVIOUS
  <2> QED BY <1>3, <1>4, HeadIsTyped
<1>6. /\ wire' = [w \in WsNames |-> [wire[w] EXCEPT ![n] = g[w]]]
      /\ logged' = [logged EXCEPT ![n] = l] /\ unlogged' = [unlogged EXCEPT ![n] = u]
      /\ UNCHANGED <<spawn, kept, sending, wrote>>
  BY DEF Retry, connectVars
<1>s. Single
  BY DEF Retry
<1>7. ASSUME NEW w \in WsNames
      PROVE  /\ l[w] = IF w = p THEN logged[n][w] \o wire[w][n] ELSE logged[n][w]
             /\ l[w] \in Seq(WsMsgs)
  <2>1. LogDrained(n, w) = logged[n][w] \o Drained(n, w)
    BY DEF LogDrained
  <2>2. CASE w = p
    <3>1. LogDrained(n, w) = logged[n][w] \o wire[w][n]
      BY <2>1, <2>2 DEF Drained
    <3>2. logged[n][w] \o wire[w][n] \in Seq(WsMsgs)
      BY <1>4, JoinTyped
    <3> QED BY <2>2, <3>1, <3>2
  <2>3. CASE w # p
    <3>1. LogDrained(n, w) = logged[n][w] \o <<>>
      BY <2>1, <2>3 DEF Drained
    <3>2. logged[n][w] \o <<>> = logged[n][w]
      BY <1>4, NothingJoined
    <3> QED BY <1>4, <2>3, <3>1, <3>2
  <2> QED BY <2>2, <2>3
<1>8. ASSUME NEW w \in WsNames
      PROVE  /\ w = p => g[w] = <<>> /\ u[w] = unlogged[n][w]
             /\ w # p /\ Hit(n, w) =>
                    g[w] = Tail(wire[w][n]) /\ u[w] = unlogged[n][w] \union {Head(wire[w][n])}
             /\ w # p /\ ~Hit(n, w) => g[w] = wire[w][n] /\ u[w] = unlogged[n][w]
             /\ g[w] \in Seq(WsMsgs) /\ u[w] \in SUBSET WsMsgs
  <2>1. <<>> \in Seq(WsMsgs)
    OBVIOUS
  <2>2. Drained(n, w) = IF w = p THEN wire[w][n] ELSE <<>>
    BY DEF Drained
  <2>3. w = p => ~Hit(n, w)
    BY <1>2, <1>3
  <2> HIDE DEF p
  <2> QED BY <1>4, <1>5, <2>1, <2>2, <2>3
<1>9. /\ l \in [WsNames -> Seq(WsMsgs)] /\ u \in [WsNames -> SUBSET WsMsgs]
      /\ \A w \in WsNames : g[w] \in Seq(WsMsgs)
  <2> DEFINE lw(w) == l[w]
  <2> QED BY <1>7, <1>8
<1> HIDE DEF g, l, u, p
<1>10. /\ wire' \in [WsNames -> [WsNames -> Seq(WsMsgs)]]
       /\ \A w, r \in WsNames : wire'[w][r] = IF r = n THEN g[w] ELSE wire[w][r]
  BY <1>1, <1>6, <1>9, ColumnTyped
<1>11. /\ logged' \in [WsNames -> [WsNames -> Seq(WsMsgs)]]
       /\ unlogged' \in [WsNames -> [WsNames -> SUBSET WsMsgs]]
  BY <1>1, <1>6, <1>9, RowTyped, Zenon
<1>12. \A r, w \in WsNames : /\ logged'[r][w] = IF r = n THEN l[w] ELSE logged[r][w]
                             /\ unlogged'[r][w] = IF r = n THEN u[w] ELSE unlogged[r][w]
  BY <1>1, <1>6
<1>13. WireTypes'
  BY <1>6, <1>10, <1>11 DEF WireTypes
<1>14. ASSUME NEW r \in spawn.names, NEW w \in spawn.names, FlowsTo(r, w)' PROVE Whole(r, w)'
  <2>1. Whole(r, w) /\ r \in WsNames /\ w \in WsNames
    BY <1>1, <1>14, FlowsBefore DEF NoneSkipped
  <2>2. Reached(w, r)' = Reached(w, r)
    BY <1>6 DEF Reached
  <2>3. CASE r # n
    <3>1. /\ logged'[r][w] = logged[r][w] /\ wire'[w][r] = wire[w][r]
          /\ unlogged'[r][w] = unlogged[r][w]
      BY <1>10, <1>12, <2>1, <2>3
    <3>2. Stream(w, r)' = Stream(w, r)
      BY <3>1 DEF Stream
    <3> QED BY <1>6, <2>1, <2>2, <3>1, <3>2, WholeStays
  <2>4. CASE r = n /\ w = p
    <3>1. /\ logged'[r][w] = logged[r][w] \o wire[w][r] /\ wire'[w][r] = <<>>
          /\ unlogged'[r][w] = unlogged[r][w]
      BY <1>7, <1>8, <1>10, <1>12, <2>1, <2>4
    <3>2. Stream(w, r)' = (logged[r][w] \o wire[w][r]) \o <<>>
      BY <3>1 DEF Stream
    <3>3. logged[r][w] \o wire[w][r] \in Seq(WsMsgs)
      BY <1>4, <2>1, <2>4, JoinTyped
    <3>4. Stream(w, r)' = logged[r][w] \o wire[w][r]
      BY <3>2, <3>3, NothingJoined
    <3>5. Stream(w, r)' = Stream(w, r)
      BY <3>4 DEF Stream
    <3> QED BY <1>6, <2>1, <2>2, <3>1, <3>5, WholeStays
  <2>5. CASE r = n /\ w # p /\ ~Hit(n, w)
    <3>1. /\ logged'[r][w] = logged[r][w] /\ wire'[w][r] = wire[w][r]
          /\ unlogged'[r][w] = unlogged[r][w]
      BY <1>7, <1>8, <1>10, <1>12, <2>1, <2>5
    <3>2. Stream(w, r)' = Stream(w, r)
      BY <3>1 DEF Stream
    <3> QED BY <1>6, <2>1, <2>2, <3>1, <3>2, WholeStays
  <2>6. CASE r = n /\ w # p /\ Hit(n, w)
    <3>1. /\ logged'[r][w] = logged[r][w] /\ wire'[w][r] = Tail(wire[w][r])
          /\ unlogged'[r][w] = unlogged[r][w] \union {Head(wire[w][r])}
      BY <1>7, <1>8, <1>10, <1>12, <2>1, <2>6
    <3>2. Stream(w, r)' = logged[r][w] \o Tail(wire[w][r])
      BY <3>1 DEF Stream
    <3>3. /\ logged[r][w] \in Seq(WsMsgs) /\ wire[w][r] \in Seq(WsMsgs) /\ wire[w][r] # <<>>
          /\ Reached(w, r) \in Nat /\ w \in links[n]
      BY <1>3, <1>4, <2>1, <2>6, ReachedTyped
    <3>4. MakesUp(logged[r][w] \o wire[w][r], unlogged[r][w], Reached(w, r))
      BY <2>1 DEF Whole, Stream
    <3>5. MakesUp(logged[r][w] \o Tail(wire[w][r]), unlogged[r][w] \union {Head(wire[w][r])},
                  Reached(w, r))
      BY <3>3, <3>4, OneIsForgotten
    <3>6. MakesUp(Stream(w, r)', unlogged'[r][w], Reached(w, r)')
      BY <2>2, <3>1, <3>2, <3>5
    <3>7. MakesUp(Stream(w, r), unlogged[r][w], Reached(w, r))'
      BY <3>6 DEF MakesUp, Rising, ElementsOf
    <3>8. ~(Multi \/ Cardinality(spawn.names) <= 2)'
      <4>1. ~Multi
        BY <1>s DEF Single, Multi
      <4>2. w \in spawn.names /\ n \in spawn.names /\ p \in spawn.names /\ w # n /\ p # n /\ w # p
        BY <1>1, <2>6, <3>3
      <4>3. IsFiniteSet(spawn.names) /\ Cardinality(spawn.names) \in Nat
        BY <1>1, WsNamesAssumption, FS_Subset, FS_CardinalityType
      <4>4. IsFiniteSet(spawn.names \ {n}) /\ Cardinality(spawn.names \ {n}) = Cardinality(spawn.names) - 1
        BY <4>2, <4>3, FS_RemoveElement
      <4>5. /\ IsFiniteSet((spawn.names \ {n}) \ {w})
            /\ Cardinality((spawn.names \ {n}) \ {w}) = Cardinality(spawn.names \ {n}) - 1
        BY <4>2, <4>4, FS_RemoveElement
      <4>6. Cardinality((spawn.names \ {n}) \ {w}) # 0
        <5>1. (spawn.names \ {n}) \ {w} # {}
          BY <4>2
        <5> QED BY <4>5, <5>1, FS_EmptySet
      <4>7. Cardinality((spawn.names \ {n}) \ {w}) \in Nat
        BY <4>5, FS_CardinalityType
      <4>8. ~(Cardinality(spawn.names) <= 2)
        BY <4>3, <4>4, <4>5, <4>6, <4>7
      <4> QED BY <1>6, <4>1, <4>8 DEF Multi
    <3> QED BY <3>7, <3>8 DEF Whole
  <2> QED BY <2>3, <2>4, <2>5, <2>6
<1> QED BY <1>6, <1>13, <1>14 DEF NoneSkipped

\* Whom the broadcast has reached is known by the list he is in.
LEMMA AdvanceReaches ==
    ASSUME WaitInv, NEW n \in WsNames, NEW left \in SUBSET WsNames, NEW done \in SUBSET WsNames,
           Advance(n, left, done), NEW r, r \in left \/ r \in done, ~(r \in left /\ r \in done)
    PROVE  Reached(n, r)' = IF r \in done THEN wrote'[n] ELSE wrote'[n] - 1
<1>1. kept \in [WsNames -> SUBSET WsNames] /\ sending \in [WsNames -> WsNames \union {NoPeer}]
  BY DEF WaitInv, PlaceTypes
<1>2. CASE left = {}
  <2>1. sending'[n] = NoPeer /\ r \in done
    BY <1>1, <1>2 DEF Advance
  <2> QED BY <2>1 DEF Reached
<1>3. CASE left # {}
  <2>1. PICK s \in left : /\ kept' = [kept EXCEPT ![n] = done]
                          /\ sending' = [sending EXCEPT ![n] = s]
    BY <1>3 DEF Advance
  <2>2. kept'[n] = done /\ sending'[n] # NoPeer
    BY <1>1, <2>1, NoPeerIsNoName
  <2> QED BY <2>2 DEF Reached
<1> QED BY <1>2, <1>3

LEMMA AdvanceElsewhere ==
    ASSUME WaitInv, NEW n \in WsNames, NEW left, NEW done, Advance(n, left, done),
           NEW w \in WsNames, w # n
    PROVE  kept'[w] = kept[w] /\ sending'[w] = sending[w]
BY DEF WaitInv, PlaceTypes, Advance

\* A message is begun, goes to the next peer, or passes over one that has gone.
LEMMA BroadcastStreams ==
    ASSUME WaitInv, LinkInv, WireTypes, NoneSkipped, [WsNext]_wsVars,
           NEW n \in spawn.names, PublishFrame(n) \/ Send(n) \/ SendFails(n)
    PROVE  WireTypes' /\ NoneSkipped'
<1> DEFINE p == sending[n]
           done == IF PublishFrame(n) THEN {} ELSE IF Send(n) THEN kept[n] \union {p} ELSE kept[n]
<1>1. /\ n \in WsNames /\ spawn.names \subseteq WsNames
      /\ p = NoPeer \/ p \in spawn.names \ {n}
      /\ links[n] \in SUBSET WsNames /\ kept[n] \in SUBSET WsNames
      /\ wire \in [WsNames -> [WsNames -> Seq(WsMsgs)]]
      /\ logged \in [WsNames -> [WsNames -> Seq(WsMsgs)]]
      /\ wrote \in [WsNames -> Nat]
  BY DEF WaitInv, PlaceTypes, LinkInv, WireTypes
<1>2. UNCHANGED <<spawn, stage, logged, unlogged>>
  BY DEF PublishFrame, Send, SendFails, connectVars
<1>3. /\ PublishFrame(n) => p = NoPeer
      /\ Send(n) \/ SendFails(n) => p # NoPeer
      /\ SendFails(n) => Gone(p)
  BY DEF PublishFrame, Send, SendFails
<1>4. Advance(n, links[n], done)
  <2>1. CASE PublishFrame(n)
    BY <2>1 DEF PublishFrame
  <2>2. CASE ~PublishFrame(n) /\ Send(n)
    BY <2>2 DEF Send
  <2>3. CASE ~PublishFrame(n) /\ ~Send(n)
    BY <2>3 DEF SendFails
  <2> QED BY <2>1, <2>2, <2>3
<1>5. done \in SUBSET WsNames
  BY <1>1, <1>3
<1>6. p # NoPeer => /\ p \notin links[n] /\ p \notin kept[n] /\ wrote[n] > 0
                    /\ \A q \in links[n] : q \notin kept[n]
  <2> SUFFICES ASSUME p # NoPeer
               PROVE  /\ p \notin links[n] /\ p \notin kept[n] /\ wrote[n] > 0
                      /\ \A q \in links[n] : q \notin kept[n]
    OBVIOUS
  <2>1. /\ \A q \in links[n] : place[n][q] < place[n][p]
        /\ \A q \in kept[n] : place[n][p] < place[n][q]
    BY <1>1 DEF WaitInv, ServiceInv
  <2>2. \A q \in WsNames : place[n][q] \in Nat
    BY <1>1 DEF WaitInv, PlaceTypes
  <2>3. wrote[n] > 0 /\ p \in WsNames
    BY <1>1 DEF WireTypes
  <2> HIDE DEF p
  <2>4. ASSUME NEW q \in links[n], q \in kept[n] PROVE FALSE
    <3>1. place[n][q] < place[n][p] /\ place[n][p] < place[n][q]
      BY <2>1, <2>4
    <3>2. place[n][q] \in Nat /\ place[n][p] \in Nat
      BY <1>1, <2>2, <2>3
    <3> QED BY <3>1, <3>2
  <2>5. ~(place[n][p] < place[n][p])
    BY <2>2, <2>3
  <2> QED BY <2>1, <2>3, <2>4, <2>5
<1>7. p = NoPeer => kept[n] = {}
  BY <1>1 DEF WaitInv, ServiceInv
<1>8. \A r \in spawn.names : r # n /\ ~Gone(n) /\ ~Gone(r) => r \in links[n] \/ r \in kept[n] \/ r = p
  <2>1. stage[n] # "connecting"
    BY <1>1 DEF PublishFrame, Send, SendFails, WaitInv, StageInv
  <2>2. dialing[n] = {} /\ awaiting[n] = {}
    BY <1>1, <2>1 DEF WaitInv, StageInv
  <2> QED BY <2>2 DEF LinkInv, HasPeer
<1>9. wrote' = [wrote EXCEPT ![n] = IF p = NoPeer THEN wrote[n] + 1 ELSE wrote[n]]
  <2>1. CASE PublishFrame(n)
    BY <1>3, <2>1 DEF PublishFrame
  <2>2. CASE Send(n) \/ SendFails(n)
    <3>1. wrote' = wrote /\ wrote = [wrote EXCEPT ![n] = wrote[n]]
      BY <1>1, <2>2 DEF Send, SendFails
    <3> QED BY <1>3, <2>2, <3>1
  <2> QED BY <2>1, <2>2
<1>10. /\ wrote' \in [WsNames -> Nat]
       /\ wrote'[n] = IF p = NoPeer THEN wrote[n] + 1 ELSE wrote[n]
       /\ \A w \in WsNames : w # n => wrote'[w] = wrote[w]
  BY <1>1, <1>9
<1>11. wrote[n] \in Nat
  BY <1>1
<1> DEFINE Goes == Send(n) /\ ~Gone(p)
           more == Append(wire[n][p], wrote[n])
<1>12. Goes => /\ wire' = [wire EXCEPT ![n][p] = more]
               /\ p \in WsNames /\ wrote[n] \in WsMsgs
  <2> SUFFICES ASSUME Goes PROVE /\ wire' = [wire EXCEPT ![n][p] = more]
                                 /\ p \in WsNames /\ wrote[n] \in WsMsgs
    OBVIOUS
  <2>1. wire' = [wire EXCEPT ![n][p] = more]
    BY DEF Send
  <2>2. p \in WsNames /\ wrote[n] \in WsMsgs
    BY <1>1, <1>3, <1>6 DEF WsMsgs
  <2> QED BY <2>1, <2>2
<1>13. ~Goes => wire' = wire
  BY DEF PublishFrame, Send, SendFails
<1> HIDE DEF Goes
<1>14. Goes => more \in Seq(WsMsgs)
  <2> SUFFICES ASSUME Goes PROVE more \in Seq(WsMsgs)
    OBVIOUS
  <2>1. wire[n][p] \in Seq(WsMsgs) /\ wrote[n] \in WsMsgs
    BY <1>1, <1>12
  <2> QED BY <2>1, AppendProperties
<1>g. Goes => Send(n) /\ ~Gone(p)
  BY DEF Goes
<1> HIDE DEF more
<1>15. /\ wire' \in [WsNames -> [WsNames -> Seq(WsMsgs)]]
       /\ \A w, r \in WsNames :
              wire'[w][r] = IF Goes /\ w = n /\ r = p THEN more ELSE wire[w][r]
  <2>1. CASE Goes
    <3>2. /\ wire' = [wire EXCEPT ![n][p] = more] /\ more \in Seq(WsMsgs)
          /\ n \in WsNames /\ p \in WsNames
          /\ wire \in [WsNames -> [WsNames -> Seq(WsMsgs)]]
      BY <1>1, <1>12, <1>14, <2>1
    <3> HIDE DEF p
    <3>1. /\ wire' \in [WsNames -> [WsNames -> Seq(WsMsgs)]]
          /\ \A w, r \in WsNames : wire'[w][r] = IF w = n /\ r = p THEN more ELSE wire[w][r]
      BY <3>2, PlaceTyped
    <3> QED BY <2>1, <3>1
  <2>2. CASE ~Goes
    BY <1>1, <1>13, <2>2
  <2> QED BY <2>1, <2>2
<1>16. \A w \in WsNames : w # n => kept'[w] = kept[w] /\ sending'[w] = sending[w]
  BY <1>1, <1>4, AdvanceElsewhere
<1>17. WireTypes'
  <2>1. ASSUME NEW w \in WsNames, sending'[w] # NoPeer PROVE wrote'[w] > 0
    <3>1. CASE w = n
      BY <1>6, <1>10, <1>11, <3>1
    <3>2. CASE w # n
      BY <1>10, <1>16, <2>1, <3>2 DEF WireTypes
    <3> QED BY <3>1, <3>2
  <2> QED BY <1>2, <1>10, <1>15, <2>1 DEF WireTypes
<1>18. ASSUME NEW r \in spawn.names, NEW w \in spawn.names, FlowsTo(r, w)' PROVE Whole(r, w)'
  <2>1. Whole(r, w) /\ FlowsTo(r, w) /\ r \in WsNames /\ w \in WsNames
    BY <1>1, <1>18, FlowsBefore DEF NoneSkipped
  <2>2. CASE w # n
    <3>1. Stream(w, r)' = Stream(w, r)
      BY <1>2, <1>15, <2>1, <2>2 DEF Stream
    <3>2. Reached(w, r)' = Reached(w, r)
      BY <1>10, <1>16, <2>1, <2>2 DEF Reached
    <3> QED BY <1>2, <2>1, <3>1, <3>2, WholeStays
  <2>3. CASE w = n
    <3>1. r # n /\ ~Gone(n) /\ ~Gone(r)
      BY <2>1, <2>3 DEF FlowsTo, Gone
    <3>2. r \in links[n] \/ r \in kept[n] \/ r = p
      BY <1>8, <3>1
    <3>3. r # NoPeer
      BY <2>1, NoPeerIsNoName
    <3>4. (PublishFrame(n) \/ SendFails(n)) /\ ~Send(n) => r # p
      BY <1>3, <3>1, <3>3
    <3>5. /\ r \in links[n] \/ r \in done
          /\ ~(r \in links[n] /\ r \in done)
          /\ r \in done <=> p # NoPeer /\ r \notin links[n]
      BY <1>3, <1>6, <1>7, <3>2, <3>3, <3>4
    <3>t. n \in WsNames /\ links[n] \in SUBSET WsNames
      BY <1>1
    <3>6. Reached(n, r)' = IF r \in done THEN wrote'[n] ELSE wrote'[n] - 1
      <4> HIDE DEF done
      <4> QED BY <1>4, <1>5, <3>5, <3>t, AdvanceReaches, Zenon
    <3> HIDE DEF done
    <3>7. CASE r # p
      <4>1. Stream(w, r)' = Stream(w, r)
        BY <1>2, <1>15, <2>1, <2>3, <3>7 DEF Stream
      <4>2. r \in kept[n] <=> p # NoPeer /\ r \notin links[n]
        BY <1>6, <1>7, <3>2, <3>7
      <4>3. Reached(n, r) = IF p # NoPeer /\ r \notin kept[n] THEN wrote[n] - 1 ELSE wrote[n]
        BY DEF Reached
      <4> HIDE DEF p
      <4>4. Reached(w, r)' = Reached(w, r)
        BY <1>10, <1>11, <2>3, <3>5, <3>6, <4>2, <4>3
      <4> QED BY <1>2, <2>1, <4>1, <4>4, WholeStays
    <3>8. CASE r = p
      <4>1. Goes
        BY <1>3, <3>1, <3>3, <3>4, <3>8 DEF Goes
      <4>2. Reached(n, r)' = wrote[n]
        BY <1>6, <1>10, <3>3, <3>5, <3>6, <3>8
      <4>3. Reached(n, r) = wrote[n] - 1 /\ wrote[n] - 1 \in Nat /\ wrote[n] = (wrote[n] - 1) + 1
        BY <1>6, <1>11, <3>3, <3>8 DEF Reached
      <4>4. wire[n][r] \in Seq(WsMsgs) /\ logged[r][n] \in Seq(WsMsgs) /\ wrote[n] \in WsMsgs
        BY <1>1, <1>12, <2>1, <4>1
      <4>5. Stream(w, r)' = logged[r][n] \o Append(wire[n][r], wrote[n])
        <5>1. logged'[r][n] = logged[r][n] /\ wire'[n][r] = Append(wire[n][r], wrote[n])
          BY <1>2, <1>15, <2>1, <2>3, <3>8, <4>1 DEF more
        <5> QED BY <2>3, <5>1 DEF Stream
      <4>6. Stream(w, r)' = Append(Stream(w, r), wrote[n])
        <5> DEFINE a == logged[r][n]
                   b == wire[n][r]
                   x == wrote[n]
        <5>0. a \in Seq(WsMsgs) /\ b \in Seq(WsMsgs) /\ x \in WsMsgs
          BY <4>4
        <5> HIDE DEF a, b, x
        <5>2. a \o Append(b, x) = Append(a \o b, x)
          BY <5>0, AppendToJoin
        <5>3. Stream(w, r)' = a \o Append(b, x)
          BY <4>5 DEF a, b, x
        <5>4. Stream(w, r) = a \o b
          BY <2>3 DEF Stream, a, b
        <5>5. Stream(w, r)' = Append(Stream(w, r), x)
          BY <5>2, <5>3, <5>4
        <5> QED BY <5>5 DEF x
      <4>7. Stream(w, r) \in Seq(WsMsgs)
        <5>1. logged[r][n] \o wire[n][r] \in Seq(WsMsgs)
          BY <4>4, JoinTyped
        <5> QED BY <2>3, <5>1 DEF Stream
      <4>8. MakesUp(Stream(w, r), unlogged[r][w], wrote[n] - 1)
        BY <2>1, <2>3, <4>3 DEF Whole
      <4>9. MakesUp(Append(Stream(w, r), (wrote[n] - 1) + 1), unlogged[r][w], (wrote[n] - 1) + 1)
        BY <4>3, <4>7, <4>8, NextIsAdded
      <4>10. MakesUp(Stream(w, r)', unlogged'[r][w], Reached(w, r)')
        BY <1>2, <2>3, <4>2, <4>3, <4>6, <4>9
      <4>11. MakesUp(Stream(w, r), unlogged[r][w], Reached(w, r))'
        BY <4>10 DEF MakesUp, Rising, ElementsOf
      <4> QED BY <1>2, <2>1, <4>11 DEF Whole, Multi
    <3> QED BY <3>7, <3>8
  <2> QED BY <2>2, <2>3
<1> QED BY <1>2, <1>17, <1>18 DEF NoneSkipped

WsInv == WaitInv /\ LinkInv /\ WireTypes /\ NoneSkipped

LEMMA WsInitHolds == WsInit => WsInv
BY InitOrdered, LinkInitHolds, WireInitHolds DEF WsInv

LEMMA WsStep == WsInv /\ [WsNext]_wsVars => WsInv'
<1> SUFFICES ASSUME WsInv, [WsNext]_wsVars PROVE WsInv'
  OBVIOUS
<1>1. WaitInv' /\ LinkInv' /\ WaitInv /\ LinkInv /\ WireTypes /\ NoneSkipped
  BY StepKeepsOrder, LinkStep DEF WsInv
<1> DEFINE Goal == WireTypes' /\ NoneSkipped'
<1>2. UNCHANGED <<spawn, kept, sending, wrote, wire, logged, unlogged>> => Goal
  BY <1>1, NothingFlows
<1>3. UNCHANGED wsVars => Goal
  BY <1>2 DEF wsVars, connectVars
<1>4. ASSUME NEW n \in spawn.names, NEW p \in spawn.names, Handshake(n, p) \/ ReadClosed(n, p)
      PROVE  Goal
  BY <1>2, <1>4 DEF Handshake, ReadClosed, connectVars
<1>5. ASSUME NEW n \in spawn.names, Start(n) \/ Stop(n) \/ PollNotices(n) PROVE Goal
  BY <1>2, <1>5 DEF Start, Stop, PollNotices, connectVars
<1>6. ASSUME NEW n \in spawn.names, NEW p \in spawn.names, ReadFrame(n, p) PROVE Goal
  BY <1>1, <1>6, ReadStreams
<1>7. ASSUME NEW n \in spawn.names, PublishFrame(n) \/ Send(n) \/ SendFails(n) PROVE Goal
  BY <1>1, <1>7, BroadcastStreams
<1>8. ASSUME NEW n \in spawn.names, Poll(n) \/ Retry(n) \/ Disconnect(n) PROVE Goal
  BY <1>1, <1>8, PollStreams, RetryStreams, DisconnectStreams
<1> HIDE DEF Goal
<1>9. Goal
  BY <1>3, <1>4, <1>5, <1>6, <1>7, <1>8 DEF WsNext, WsDriver, WsReader
<1> QED BY <1>1, <1>9 DEF Goal, WsInv

LEMMA WholeSkipsNothing == WsInv => NothingSkipped
<1> SUFFICES ASSUME WsInv, NEW r \in spawn.names, NEW w \in spawn.names, FlowsTo(r, w)
             PROVE  LET stream == Stream(w, r)
                        read == {stream[i] : i \in DOMAIN stream}
                    IN  /\ \A i, j \in DOMAIN stream : i < j => stream[i] < stream[j]
                        /\ \E k \in 0..wrote[w] :
                            /\ read \union unlogged[r][w] = 1..k
                            /\ sending[w] = NoPeer => k = wrote[w]
                        /\ read \intersect unlogged[r][w] = {}
                        /\ (Multi \/ Cardinality(spawn.names) <= 2) => unlogged[r][w] = {}
  BY DEF NothingSkipped, FlowsTo
<1>1. WaitInv /\ WireTypes /\ Whole(r, w) /\ w \in WsNames
  BY DEF WsInv, NoneSkipped, WaitInv, PlaceTypes
<1>2. /\ Reached(w, r) \in 0..wrote[w]
      /\ sending[w] = NoPeer => Reached(w, r) = wrote[w]
  BY <1>1 DEF Reached, WireTypes
<1>3. /\ Rising(Stream(w, r))
      /\ ElementsOf(Stream(w, r)) \union unlogged[r][w] = 1..Reached(w, r)
      /\ ElementsOf(Stream(w, r)) \intersect unlogged[r][w] = {}
      /\ Multi \/ Cardinality(spawn.names) <= 2 => unlogged[r][w] = {}
  BY <1>1 DEF Whole, MakesUp
<1> QED BY <1>2, <1>3 DEF Rising, ElementsOf

(* websocket: a full buffer costs no message and changes no order. As long as
   two nodes take part, the log of the one and what is still on its way to it
   are messages of the other in their order; with those that the poll of a
   blocked sender reads and forgets (send_to_peer_with_retry), which takes
   Single mode and a third node, they are all messages from the first one on,
   up to the last one whose broadcast has got there. *)
THEOREM WsSkipsNothing == VariantsSpec => []NothingSkipped
<1>1. VariantsInit => WsInv
  <2>1. VariantsInit => WsInit
    BY DEF VariantsInit, WsRests
  <2> QED BY <2>1, WsInitHolds
<1>2. [VariantsNext]_variantsVars => [WsNext]_wsVars
  BY DEF VariantsNext, variantsVars, UdpPart, WsPart, HybridPart, CastPart, QuicPart, RtcPart,
     ZenohPart, ZenohdPart, RecordingPart
<1> QED BY <1>1, <1>2, WsStep, WholeSkipsNothing, PTL DEF VariantsSpec

=============================================================================
