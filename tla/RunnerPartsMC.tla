---------------------------- MODULE RunnerPartsMC ----------------------------
(***************************************************************************)
(* Five parts of a runner's work on a job in one state space: the          *)
(* synchronisation and the connections before it (RunnerSetup), one        *)
(* measurement of a clock (ClockSync), the spawn (ChildMonitor), what the  *)
(* runners tell one another meanwhile (ProgressExchange), and the hosts    *)
(* and ports that all connections go by (Addresses).  They share no state. *)
(* "part" says which of them a behaviour is about; the others rest in an   *)
(* initial state.                                                          *)
(***************************************************************************)
EXTENDS RunnerSetup, ClockSync, ChildMonitor, ProgressExchange, Addresses

ThreeRunners == <<1, 2, 3>>
Differences == {-1, 2}
TwoSpawns == <<"first", "second">>

\* Two runners on one machine and one on another, listed in reverse; with
\* ports for all, for one of them, and without room for those of zenohd.
TwoAndOne == [r \in 1..3 |-> IF r = 3 THEN 2 ELSE 1]
Reversed == [r \in 1..3 |-> 3 - r]
LayoutOf(u, b, rel) == [home |-> TwoAndOne, order |-> Reversed, use |-> u, base |-> b,
                        qos |-> 4, release |-> rel]
SomeLayouts ==
    {LayoutOf(u, b, TRUE) : u \in Uses, b \in {19800, 65534 - 30, 65534}}
        \union {LayoutOf(ZenohdUse, 64534, rel) : rel \in BOOLEAN}

VARIABLE part

partVars == <<part, setupVars, clockVars, childVars, exchangeVars, addressVars>>

SetupRests ==
    /\ SetupInit
    /\ \A r \in Runners : timer[r] = 0

ClockRests == ClockInit /\ theta = 2

AddressesRest == AddressInit /\ layout = LayoutOf(QuicUse, 19800, TRUE)

PartsInit ==
    /\ part \in {"setup", "clock", "child", "exchange", "addresses"}
    /\ IF part = "setup" THEN SetupInit ELSE SetupRests
    /\ IF part = "clock" THEN ClockInit ELSE ClockRests
    /\ ChildInit
    /\ ExchangeInit
    /\ IF part = "addresses" THEN AddressInit ELSE AddressesRest

SetupPart == part = "setup" /\ SetupNext
             /\ UNCHANGED <<part, clockVars, childVars, exchangeVars, addressVars>>
ClockPart == part = "clock" /\ ClockNext
             /\ UNCHANGED <<part, setupVars, childVars, exchangeVars, addressVars>>
ChildPart == part = "child" /\ ChildNext
             /\ UNCHANGED <<part, setupVars, clockVars, exchangeVars, addressVars>>
ExchangePart == part = "exchange" /\ ExchangeNext
                /\ UNCHANGED <<part, setupVars, clockVars, childVars, addressVars>>
AddressPart == part = "addresses" /\ AddressNext
               /\ UNCHANGED <<part, setupVars, clockVars, childVars, exchangeVars>>

PartsNext == SetupPart \/ ClockPart \/ ChildPart \/ ExchangePart \/ AddressPart

PartsSpec == PartsInit /\ [][PartsNext]_partVars /\ (part = "child" => ChildFairness)

\* The types of the five parts (the state described in their VARIABLES).
PartsTypeOK == SetupTypeOK /\ ClockTypeOK /\ ChildTypeOK /\ ExchangeTypeOK /\ AddressTypeOK

(* The connections of the runners are complete and agreed upon by both ends,
   and whatever host and port is worked out for somebody is his: SetupIsComplete
   and PeersMeet. *)
ConnectionsAreRight == SetupIsComplete /\ PeersMeet

\* In every behaviour about a spawn, spawn_and_monitor returns.
SpawnsEnd == part = "child" => EverySpawnEnds
=============================================================================
