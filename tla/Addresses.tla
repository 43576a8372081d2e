------------------------------ MODULE Addresses ------------------------------
(***************************************************************************)
(* How runners and children find one another: the hosts a runner takes     *)
(* from the datagrams of discovery (protocol.rs, local_addrs.rs), and the  *)
(* ports that every process works out for itself and for its peers, from a *)
(* base port and the place of a name in a list.  Nobody is told a port, so *)
(* all have to come to the same ones.                                      *)
(*                                                                         *)
(* A layout is what the operator has chosen: which runner is on which      *)
(* machine, the order in the configuration, a use (a variant's transport   *)
(* or one of the runner's own), its base port and QoS, and the build.      *)
(* Runners are numbers, ordered as their names are.  A host is a pair of a *)
(* machine and one of its interfaces.                                      *)
(*                                                                         *)
(* A definition under the heading "Wrong on purpose" is the next one with  *)
(* a plausible bug; nothing uses it.                                       *)
(***************************************************************************)
EXTENDS Integers, FiniteSets

CONSTANTS
    Hosted,      \* the runners of the configuration
    Machines,    \* the machines
    Interfaces,  \* the network interfaces of a machine
    Layouts,     \* the layouts of interest
    MaxPort      \* u16::MAX

Own == [machine |-> 0, interface |-> 0]        \* "127.0.0.1"
Unheard == [machine |-> 0, interface |-> 1]    \* no entry in peer_hosts
HostsOf(m) == [machine : {m}, interface : Interfaces]
AllHosts == [machine : Machines, interface : Interfaces] \union {Own}

-----------------------------------------------------------------------------
(* The uses.  "dials" says who dials whom, "listed" whether runners count  *)
(* by the list of the configuration instead of the sorted names, "stride"  *)
(* how far apart the levels of QoS are.  "plus" is added unchecked.  "miss" *)
(* is what becomes of a process that cannot reach a peer in time.  "alone": *)
(* who has no port of its own fails, whatever the others have.             *)

VariantUse(who, then) == [dials |-> who, listed |-> FALSE, offset |-> 0, stride |-> 10,
                          plus |-> 0, face |-> "any", miss |-> then, alone |-> FALSE]
CustomUdpUse == VariantUse("all", "goes on")
HybridUse == VariantUse("all", "ends")
QuicUse == VariantUse("all", "goes on")
WebSocketUse == VariantUse("lower", "ends")
WebRtcUse == VariantUse("lower", "ends")
ZenohUse == [VariantUse("all", "dials again") EXCEPT !.stride = 0]

\* The daemon listens on 127.0.0.1, 1000 ports above its REST port.
ZenohdUse == [ZenohUse EXCEPT !.plus = 1000, !.face = "own"]

RunnerUse(distance) == [dials |-> "higher", listed |-> TRUE, offset |-> distance, stride |-> 0,
                        plus |-> 0, face |-> "any", miss |-> "goes on", alone |-> TRUE]
ManifestUse == RunnerUse(32)
ProgressUse == RunnerUse(64)
BarrierUse == RunnerUse(96)

Uses == {CustomUdpUse, HybridUse, QuicUse, WebSocketUse, WebRtcUse, ZenohUse, ZenohdUse,
         ManifestUse, ProgressUse, BarrierUse}

\* A name is in the configuration once, and so has a place of its own.
ASSUME HostedAssumption ==
    /\ IsFiniteSet(Hosted) /\ Hosted \subseteq Nat
    /\ Machines \subseteq Nat \ {0}
    /\ MaxPort \in Nat /\ MaxPort >= 1000
ASSUME LayoutsAssumption ==
    /\ Layouts \subseteq [home : [Hosted -> Machines], order : [Hosted -> Nat], use : Uses,
                          base : 0..MaxPort, qos : 1..4, release : BOOLEAN]
    /\ \A y \in Layouts : \A p, q \in Hosted : y.order[p] = y.order[q] => p = q

VARIABLES
    layout,      \* what the operator has chosen
    peerHosts,   \* peerHosts[r][p]: the host r has noted for p
    status,      \* status[r]: how far r, or its child, is
    toDial,      \* toDial[r]: addresses r has yet to dial
    sockets,     \* the listening sockets
    met          \* connections: who dialled, whom it meant, whom it got

addressVars == <<layout, peerHosts, status, toDial, sockets, met>>

-----------------------------------------------------------------------------
(* Ports.                                                                  *)

SortedIndex(q) == Cardinality({p \in Hosted : p < q})
PeerIndex(q) == IF layout.use.listed THEN layout.order[q] ELSE SortedIndex(q)

\* The checked sum; beyond MaxPort it is an error.
SumFor(q) ==
    layout.base + layout.use.offset + PeerIndex(q) + (layout.qos - 1) * layout.use.stride
HasPort(q) == SumFor(q) <= MaxPort
Unchecked(q) == SumFor(q) + layout.use.plus

\* The sum of two u16s as a u16.
Wrapped(n) == IF n <= MaxPort THEN n ELSE n - (MaxPort + 1)

\* Wrong on purpose: peers are counted without oneself.
PortAmongOthers(r, q) == Wrapped(Unchecked(q) - (IF r < q THEN 1 ELSE 0))

\* The port that r works out for q.
PortFor(r, q) == Wrapped(Unchecked(q))

\* A variant works out the ports of all, and fails on any of them.  The
\* unchecked sum panics in a debug build.
NoPortFor(r) ==
    IF layout.use.alone
    THEN ~HasPort(r)
    ELSE \E q \in Hosted : ~HasPort(q) \/ (Unchecked(q) > MaxPort /\ ~layout.release)

-----------------------------------------------------------------------------

\* A host that a process on r's machine can be reached at, seen from there.
HostFits(r, q, h) ==
    IF layout.home[r] = layout.home[q] THEN h = Own ELSE h \in HostsOf(layout.home[q])

AddressTypeOK ==
    /\ layout \in Layouts
    /\ peerHosts \in [Hosted -> [Hosted -> AllHosts \union {Unheard}]]
    /\ status \in [Hosted -> {"discovery", "derived", "listening", "unfit", "taken", "gone"}]
    /\ toDial \in [Hosted -> SUBSET [peer : Hosted, host : AllHosts, port : 0..MaxPort]]
    /\ sockets \subseteq [machine : Machines, face : {"any", "own"}, port : 0..MaxPort,
                          owner : Hosted]
    /\ met \subseteq [from : Hosted, meant : Hosted, got : Hosted]

AddressInit ==
    /\ layout \in Layouts
    /\ peerHosts = [r \in Hosted |-> [p \in Hosted |-> IF p = r THEN Own ELSE Unheard]]
    /\ status = [r \in Hosted |-> "discovery"]
    /\ toDial = [r \in Hosted |-> {}]
    /\ sockets = {}
    /\ met = {}

\* canonical_peer_host: a source that is one of this machine's interfaces
\* is noted as 127.0.0.1.
Canonical(r, h) == IF h = Own \/ h.machine = layout.home[r] THEN Own ELSE h

\* A runner on this machine is heard by way of the loopback, or of the
\* network; another one by way of any of its interfaces.
SourcesOf(r, p) ==
    HostsOf(layout.home[p]) \union (IF layout.home[p] = layout.home[r] THEN {Own} ELSE {})

\* Only what was heard first is noted.
HearPeer(r, p) ==
    /\ status[r] = "discovery" /\ peerHosts[r][p] = Unheard
    /\ \E h \in SourcesOf(r, p) : peerHosts' = [peerHosts EXCEPT ![r][p] = Canonical(r, h)]
    /\ UNCHANGED <<layout, status, toDial, sockets, met>>

DialsTo(r) ==
    {q \in Hosted \ {r} : /\ HasPort(q)
                          /\ CASE layout.use.dials = "all" -> TRUE
                               [] layout.use.dials = "lower" -> r < q
                               [] layout.use.dials = "higher" -> q < r}

\* With all peers heard, r or its child works out the ports.
DeriveEndpoints(r) ==
    /\ status[r] = "discovery"
    /\ \A p \in Hosted : peerHosts[r][p] # Unheard
    /\ IF NoPortFor(r)
       THEN /\ status' = [status EXCEPT ![r] = "unfit"]
            /\ UNCHANGED toDial
       ELSE /\ status' = [status EXCEPT ![r] = "derived"]
            /\ toDial' = [toDial EXCEPT ![r] =
                   {[peer |-> q, host |-> peerHosts[r][q], port |-> PortFor(r, q)] : q \in DialsTo(r)}]
    /\ UNCHANGED <<layout, peerHosts, sockets, met>>

SocketOf(r) == [machine |-> layout.home[r], face |-> layout.use.face, port |-> PortFor(r, r),
                owner |-> r]

\* bind fails where the port is in use on the machine.
BindListener(r) ==
    /\ status[r] = "derived"
    /\ IF \E s \in sockets : s.machine = layout.home[r] /\ s.port = PortFor(r, r)
       THEN status' = [status EXCEPT ![r] = "taken"] /\ UNCHANGED sockets
       ELSE /\ status' = [status EXCEPT ![r] = "listening"]
            /\ sockets' = sockets \union {SocketOf(r)}
    /\ UNCHANGED <<layout, peerHosts, toDial, met>>

\* The sockets that a connection from r to address a can come to.
ReachedBy(r, a) ==
    {s \in sockets : /\ s.port = a.port
                     /\ IF a.host = Own THEN s.machine = layout.home[r]
                        ELSE s.machine = a.host.machine /\ s.face = "any"}

DialAddress(r) ==
    /\ status[r] = "listening"
    /\ \E a \in toDial[r] : \E s \in ReachedBy(r, a) :
        /\ toDial' = [toDial EXCEPT ![r] = @ \ {a}]
        /\ met' = met \union {[from |-> r, meant |-> a.peer, got |-> s.owner]}
    /\ UNCHANGED <<layout, peerHosts, status, sockets>>

\* The time for an address is over, and r goes on without the peer.
GoOnWithout(r) ==
    /\ status[r] = "listening" /\ layout.use.miss = "goes on"
    /\ \E a \in toDial[r] :
        /\ ReachedBy(r, a) = {}
        /\ toDial' = [toDial EXCEPT ![r] = @ \ {a}]
    /\ UNCHANGED <<layout, peerHosts, status, sockets, met>>

\* Or r ends.
EndForWant(r) ==
    /\ status[r] = "listening" /\ layout.use.miss = "ends"
    /\ \E a \in toDial[r] : ReachedBy(r, a) = {}
    /\ status' = [status EXCEPT ![r] = "gone"]
    /\ toDial' = [toDial EXCEPT ![r] = {}]
    /\ sockets' = {s \in sockets : s.owner # r}
    /\ UNCHANGED <<layout, peerHosts, met>>

AddressNext ==
    \E r \in Hosted :
        \/ \E p \in Hosted : HearPeer(r, p)
        \/ DeriveEndpoints(r) \/ BindListener(r) \/ DialAddress(r)
        \/ GoOnWithout(r) \/ EndForWant(r)

AddressSpec == AddressInit /\ [][AddressNext]_addressVars

-----------------------------------------------------------------------------
(* Properties.                                                             *)

(* Nobody is connected to anybody else than it meant, whichever way it heard
   of it. *)
NobodyElse == \A c \in met : c.got = c.meant

(* An address that is still to be dialled leads to its peer as soon as that
   peer listens.  Except for the daemon of zenoh, that cannot be reached from
   another machine. *)
AddressesLead ==
    \A r \in Hosted :
        \A a \in toDial[r] :
            /\ status[a.peer] = "listening"
            /\ layout.use.face = "any" \/ layout.home[r] = layout.home[a.peer]
            => \E s \in ReachedBy(r, a) : s.owner = a.peer

(* Ports do not get into each other's way on one machine. *)
PortsAreFree == \A r \in Hosted : status[r] # "taken"

(* When there are not enough ports above the base port, all children of a
   variant fail at once, before anyone listens: nobody waits for a peer that
   could never come up. *)
AllOrNone ==
    ~layout.use.alone /\ (\E r \in Hosted : status[r] = "unfit") =>
        \A q \in Hosted : status[q] \in {"discovery", "unfit"}

PeersMeet == NobodyElse /\ AddressesLead /\ PortsAreFree /\ AllOrNone
=============================================================================
