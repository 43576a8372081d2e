----------------------------- MODULE RunnerSetup -----------------------------
(***************************************************************************)
(* What a runner does between discovery and its first child: the initial   *)
(* clock synchronisation (clock_sync.rs), the start of the progress and    *)
(* the barrier connections (progress_coord.rs and barrier_coord.rs, start) *)
(* and, after the ready barrier of a job, the resynchronisation.           *)
(*                                                                         *)
(* A runner measures its peers one after the other.  A sample is one probe *)
(* and a wait for its answer; a runner that waits, and one in a barrier,   *)
(* answers the probes it reads from the UDP socket.  Nothing else reads    *)
(* that socket: not the start of the connections, not the child monitor.   *)
(*                                                                         *)
(* Time matters here, so it is modelled: timer[r] is the time until r's    *)
(* own next event, in units of 5 ms, and SetupTick lets the time to the    *)
(* first such event pass once nothing is left to do at once.  The network  *)
(* loses nothing and takes no time: a probe is answered as soon as its     *)
(* receiver reads.                                                         *)
(***************************************************************************)
EXTENDS Integers, FiniteSets, FiniteSetsExt, SequencesExt

CONSTANTS
    Order,             \* bench_config.runners; a runner is a number, numbers sort as names do
    Starts,            \* when a runner may leave discovery (bound)
    NumSamples,        \* DEFAULT_SAMPLES
    InterSampleDelay,  \* INTER_SAMPLE_DELAY
    PerSampleTimeout,  \* PER_SAMPLE_TIMEOUT
    StartupBudget,     \* PROGRESS_STARTUP_BUDGET, BARRIER_STARTUP_BUDGET
    BarrierPoll        \* the sleep of the barrier loop

Runners == Range(Order)

VARIABLES
    stage,    \* where main.rs is
    timer,    \* time to the runner's own next event
    target,   \* index of the peer that is measured
    sample,   \* which sample of that peer
    probing,  \* waiting for the answer, or asleep before the next sample
    measured, \* peers with a sample, in the synchronisation at hand
    conn,     \* per transport: the peers a runner has a connection to
    backlog   \* per transport: connections in the listener's queue

setupVars == <<stage, timer, target, sample, probing, measured, conn, backlog>>

Syncs == {"sync", "resync"}
Transports == {"progress", "barrier"}
Stages == {"discovery", "ready", "spawn", "aborted"} \union Syncs \union Transports

\* peer_names: the other runners in configuration order.
Peers(r) == SelectSeq(Order, LAMBDA q : q # r)
Target(r) == Peers(r)[target[r]]

SetupTypeOK ==
    /\ stage \in [Runners -> Stages]
    /\ timer \in [Runners -> Nat]
    /\ \A r \in Runners :
        /\ target[r] \in 1..Len(Peers(r)) /\ sample[r] \in 1..NumSamples
        /\ measured[r] \subseteq Runners \ {r}
        /\ \A k \in Transports : conn[k][r] \union backlog[k][r] \subseteq Runners \ {r}
    /\ probing \in [Runners -> BOOLEAN]

SetupInit ==
    /\ stage = [r \in Runners |-> "discovery"]
    /\ timer \in [Runners -> Starts]
    /\ target = [r \in Runners |-> 1]
    /\ sample = [r \in Runners |-> 1]
    /\ probing = [r \in Runners |-> FALSE]
    /\ measured = [r \in Runners |-> {}]
    /\ conn = [k \in Transports |-> [r \in Runners |-> {}]]
    /\ backlog = [k \in Transports |-> [r \in Runners |-> {}]]

-----------------------------------------------------------------------------
(* measure_offsets and measure_one.                                        *)

\* measure_one of the first peer begins with its first probe.
StartMeasuring(r, s) ==
    /\ stage' = [stage EXCEPT ![r] = s]
    /\ timer' = [timer EXCEPT ![r] = PerSampleTimeout]
    /\ target' = [target EXCEPT ![r] = 1]
    /\ sample' = [sample EXCEPT ![r] = 1]
    /\ probing' = [probing EXCEPT ![r] = TRUE]
    /\ measured' = [measured EXCEPT ![r] = {}]
    /\ UNCHANGED <<conn, backlog>>

\* discover() returns.  Its linger reads one datagram per broadcast
\* interval, the last one before any other runner has begun to measure.
LeaveDiscovery(r) ==
    /\ stage[r] = "discovery" /\ timer[r] = 0
    /\ StartMeasuring(r, "sync")

\* Wrong on purpose: probes are answered before the first job only.
AnswersInitially(q) == stage[q] = "sync"

\* A runner in wait_for_response or in a barrier reads its socket and
\* answers every probe addressed to it.  (Its own pause between two samples
\* is a twentieth of a sample's wait: it delays an answer, it loses none.)
Answers(q) == stage[q] \in {"ready"} \union Syncs

\* require_initial_sync_complete: a peer without a sample is fatal, but only
\* in the initial synchronisation.
AfterMeasuring(r, got) ==
    CASE stage[r] = "resync" -> <<"spawn", 0>>
      [] got = Runners \ {r} -> <<"progress", StartupBudget>>
      [] OTHER -> <<"aborted", 0>>

\* The sample is over, with or without an answer: the next one follows after
\* a pause, the first one of the next peer at once.
NextSample(r, got) ==
    /\ measured' = [measured EXCEPT ![r] = got]
    /\ \/ /\ sample[r] < NumSamples
          /\ sample' = [sample EXCEPT ![r] = @ + 1]
          /\ probing' = [probing EXCEPT ![r] = FALSE]
          /\ timer' = [timer EXCEPT ![r] = InterSampleDelay]
          /\ UNCHANGED <<stage, target>>
       \/ /\ sample[r] = NumSamples /\ target[r] < Len(Peers(r))
          /\ target' = [target EXCEPT ![r] = @ + 1]
          /\ sample' = [sample EXCEPT ![r] = 1]
          /\ timer' = [timer EXCEPT ![r] = PerSampleTimeout]
          /\ UNCHANGED <<stage, probing>>
       \/ /\ sample[r] = NumSamples /\ target[r] = Len(Peers(r))
          /\ stage' = [stage EXCEPT ![r] = AfterMeasuring(r, got)[1]]
          /\ timer' = [timer EXCEPT ![r] = AfterMeasuring(r, got)[2]]
          /\ probing' = [probing EXCEPT ![r] = FALSE]
          /\ UNCHANGED <<target, sample>>
    /\ UNCHANGED <<conn, backlog>>

Probe(r) ==
    /\ stage[r] \in Syncs /\ ~probing[r] /\ timer[r] = 0
    /\ probing' = [probing EXCEPT ![r] = TRUE]
    /\ timer' = [timer EXCEPT ![r] = PerSampleTimeout]
    /\ UNCHANGED <<stage, target, sample, measured, conn, backlog>>

CanBeAnswered(r) == stage[r] \in Syncs /\ probing[r] /\ Answers(Target(r))

Answered(r) ==
    /\ CanBeAnswered(r)
    /\ NextSample(r, measured[r] \union {Target(r)})

SampleTimesOut(r) ==
    /\ stage[r] \in Syncs /\ probing[r] /\ timer[r] = 0
    /\ NextSample(r, measured[r])

-----------------------------------------------------------------------------
(* ProgressCoordinator::start and BarrierCoordinator::start: of a pair the *)
(* runner with the smaller name accepts, the other one connects.           *)

CanConnect(r, q, k) == stage[r] = k /\ stage[q] = k /\ q < r /\ q \notin conn[k][r]

Connect(r, q, k) ==
    /\ CanConnect(r, q, k)
    /\ conn' = [conn EXCEPT ![k][r] = @ \union {q}]
    /\ backlog' = [backlog EXCEPT ![k][q] = @ \union {r}]
    /\ UNCHANGED <<stage, timer, target, sample, probing, measured>>

\* accept_and_handshake: the name the connecting side has sent is expected.
Accept(r, q, k) ==
    /\ stage[r] = k /\ q \in backlog[k][r]
    /\ conn' = [conn EXCEPT ![k][r] = @ \union {q}]
    /\ backlog' = [backlog EXCEPT ![k][r] = @ \ {q}]
    /\ UNCHANGED <<stage, timer, target, sample, probing, measured>>

\* Wrong on purpose: a runner that waits for the peers it connects to, and
\* takes the others only if they come in time.
NothingToConnect(r, k) == \A q \in Runners : q < r => q \in conn[k][r]

NothingPending(r, k) == conn[k][r] = Runners \ {r}
MayStopWaiting(r, k) == NothingPending(r, k) \/ timer[r] = 0

\* start() returns and drops its listener.
Started(r, k) ==
    /\ stage[r] = k /\ MayStopWaiting(r, k)
    /\ stage' = [stage EXCEPT ![r] = IF k = "progress" THEN "barrier" ELSE "ready"]
    /\ timer' = [timer EXCEPT ![r] = IF k = "progress" THEN StartupBudget ELSE BarrierPoll]
    /\ backlog' = [backlog EXCEPT ![k][r] = {}]
    /\ UNCHANGED <<target, sample, probing, measured, conn>>

-----------------------------------------------------------------------------
(* The ready barrier, reduced to when it lets a runner pass.               *)

PastReady(q) == stage[q] \in {"ready", "resync", "spawn"}
ReadyFrom(r, q) == PastReady(q) /\ q \in conn["barrier"][r] /\ r \in conn["barrier"][q]
HasQuorum(r) == \A q \in Runners \ {r} : ReadyFrom(r, q)

PassReady(r) ==
    /\ stage[r] = "ready" /\ timer[r] = 0 /\ HasQuorum(r)
    /\ StartMeasuring(r, "resync")

PollAgain(r) ==
    /\ stage[r] = "ready" /\ timer[r] = 0 /\ ~HasQuorum(r)
    /\ timer' = [timer EXCEPT ![r] = BarrierPoll]
    /\ UNCHANGED <<stage, target, sample, probing, measured, conn, backlog>>

-----------------------------------------------------------------------------

Ended(r) == stage[r] \in {"spawn", "aborted"}
Waiting == {r \in Runners : ~Ended(r)}

Urgent(r) ==
    \/ CanBeAnswered(r)
    \/ \E k \in Transports : stage[r] = k /\
        (NothingPending(r, k) \/ backlog[k][r] # {} \/ \E q \in Runners : CanConnect(r, q, k))

SetupTick ==
    /\ Waiting # {}
    /\ \A r \in Waiting : timer[r] > 0 /\ ~Urgent(r)
    /\ timer' = [r \in Runners |-> IF r \in Waiting
                    THEN timer[r] - Min({timer[q] : q \in Waiting}) ELSE timer[r]]
    /\ UNCHANGED <<stage, target, sample, probing, measured, conn, backlog>>

AllEnded == Waiting = {} /\ UNCHANGED setupVars

SetupStep(r) ==
    \/ LeaveDiscovery(r) \/ Probe(r) \/ Answered(r) \/ SampleTimesOut(r)
    \/ PassReady(r) \/ PollAgain(r)
    \/ \E k \in Transports : \/ Started(r, k)
                             \/ \E q \in Runners : Connect(r, q, k) \/ Accept(r, q, k)

SetupNext == SetupTick \/ AllEnded \/ \E r \in Runners : SetupStep(r)

SetupSpec == SetupInit /\ [][SetupNext]_setupVars

-----------------------------------------------------------------------------
(* Properties.                                                             *)

\* No datagram is lost and every runner runs, so every runner measures every
\* peer and none aborts: a probed runner "ALWAYS responds promptly to a
\* ProbeRequest, regardless of its own state" (clock-sync.md).
EveryoneIsMeasured == \A r \in Runners : stage[r] # "aborted"

\* The resynchronisation before a job finds every peer still measuring or in
\* the barrier: the child is spawned with a fresh offset of everyone.
ResyncIsComplete == \A r \in Runners : stage[r] = "spawn" => measured[r] = Runners \ {r}

\* A pair of runners that have both left start() agree whether they are
\* connected: no side writes to a connection the other side never took.
Beyond(r, k) == stage[r] \notin {"discovery", "sync", "aborted", "progress", k}

ConnectionsAgree ==
    \A k \in Transports : \A p, q \in Runners :
        Beyond(p, k) /\ Beyond(q, k) => (q \in conn[k][p] <=> p \in conn[k][q])

\* When the runners leave discovery close together, nobody aborts in the
\* initial synchronisation, no child is spawned with an old offset, and no pair
\* disagrees about its connections.
SetupIsComplete == EveryoneIsMeasured /\ ResyncIsComplete /\ ConnectionsAgree
=============================================================================
