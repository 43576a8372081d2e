# Verification of distributed-data-demos

TLA+ specifications of this repository: the coordination of the benchmark
runners and their recovery after failures, the way from a configuration to the
jobs and logs it becomes, the life of a spawned child, the message paths of all
its transports, what a child records, and what the analysis makes of it. The
modules are translated from the code under `src/`; the documents are used for
what the code is *meant* to do, and where they disagree with it a run shows the
disagreement.

1. [The system](#1-the-system)
2. [The modules](#2-the-modules)
3. [What is checked](#3-what-is-checked)
4. [What is proved](#4-what-is-proved)
5. [Disagreements between code and documents](#5-disagreements-between-code-and-documents)
6. [What is left out](#6-what-is-left-out)
7. [Plan](#7-plan)

To repeat everything, in this directory: `tlc -config X.cfg M` for the runs of
section 3, `tlapm M.tla` for the `*Proofs` modules.

## 1. The system

A benchmark compares transports. On every machine a *runner* process works
through the same list of *spawn jobs*; for each job every runner launches one
*variant* child, and the children exchange data with one another. Children of a
job must be up at the same time, so the runners meet in a *ready barrier* before
each launch and in a *done barrier* after it. Everything is logged to disk, one
folder per run, and a run that was interrupted can be resumed.

The life of a runner (`runner/src/main.rs`, `run`):

| phase | code | with the others |
|---|---|---|
| launch | configuration, hash, proposed log folder | - |
| 1 discovery | `protocol.rs` `discover` | UDP multicast `Discover`, no deadline |
| 1.25 resume inventory | `resume.rs`, `exchange_resume_manifest` | one TCP connection per pair |
| 1.5 clock sync | `clock_sync.rs` | UDP probes; fatal if a peer answers none |
| transports | `progress_coord.rs`, `barrier_coord.rs` | long-lived TCP connections per pair |
| 2 job loop | `main.rs`, `ready_barrier_tcp`, `done_barrier_tcp`, `spawn.rs` | barriers, progress frames |
| end | summary, exit status | - |

Exit status 75 means "a barrier timed out": the wrapper script
(`scripts/runner-resume.sh`) then launches the runner again with `--resume`.
Every other status ends the wrapper.

### Inventory

**Job loop and barriers** (`main.rs`, `protocol.rs`, `barrier_coord.rs`).
State: the place in the job list, who has been heard in the current barrier, the
summary, and per peer a TCP writer, a reader thread and an inbox. Operations:
skip a job, enter a barrier (broadcast), poll it (drain all inboxes, count,
broadcast again, time out), leave it (one final broadcast), launch and await the
child, finish. Hard: frames that arrive in a barrier that does not want them are
dropped and not kept; frames name a variant and not a job; a writer that fails
once is gone for good; every runner may stop at any time. Correct if no runner
leaves a barrier that another has not entered, no frame is counted for the
wrong job, no runner is stranded by one that has moved on, and the summaries
agree with what the children did.

**Discovery** (`protocol.rs` `discover`, `drain_udp_for_recovery`). State: whom
the runner has heard, the leader's log folder. Operations: broadcast every
500 ms, check hash and mode of what comes in, take the leader's folder, end on
quorum, linger for 2 s; later, in a barrier, answer a late `Discover`. Hard:
datagrams are lost, runners stop broadcasting soon after their own quorum,
processes are relaunched into a group that is already further on. Correct if
one run means one folder, one configuration and one mode on all runners, and
if all meet.

**Resume inventory** (`resume.rs`, `exchange_resume_manifest`). State: the log
files, the manifests collected, the skip set. Operations: scan and delete logs
without an end marker, exchange manifests pairwise, intersect, delete the rest.
Hard: processes die between any two steps, also between two deletions; manifests
come from processes that may be gone; one side of a connection can be served and
the other not. Correct if the runners of a group skip the same jobs, each
complete on every disk, and finished work is not lost.

**Relaunch wrapper** (`scripts/runner-resume.sh`). State: the attempt.
Hard: it connects the exit status of one launch with the mode of the next.

**Child monitor, progress exchange, termination rule** (`spawn.rs`,
`progress.rs`, `progress_coord.rs`, `termination.rs`). State: the child's last
progress line, the peers' snapshots, idle timers. Hard: the child exits while
the deadline passes; snapshots are late and overwrite one another. Correct if
the outcome reported is the child's and idle agreement is not announced early.

**Addresses** (`local_addrs.rs`, `cli_args.rs`, the `derive_endpoints` of the
variants). State: the host noted for each peer, the ports derived from it.
Hard: nobody tells anybody a port, so processes that count differently connect
to the wrong peer or to none; several runners share a machine; a base port may
be too high for some of them. Correct if everybody is found by everybody who
looks for it, and by nobody else.

**Clock synchronisation** (`clock_sync.rs`). Request and response over the
socket that discovery uses. Hard: who still reads that socket in which phase.

**Custom UDP variant** (`variants/custom-udp`). State per node: a sequence
counter, a retransmission buffer, per writer the next expected number (QoS 3)
or the newest number per path (QoS 2). Operations: publish or skip under
back-pressure, receive, NACK, retransmit. Hard: loss, reordering, duplicates,
two receive channels in multi mode. Correct if QoS 2 shows the newest value of
each path and QoS 3 delivers in order, once, without unnoticed gaps.

At QoS 4 the same variant writes to a TCP connection per peer, with a write
timeout. Hard: a write that times out has written a part of a message.

**WebSocket variant** (`variants/websocket`). State per node: the connections,
the broadcast in progress, reader threads. Operations: connect to higher names
and accept lower ones, write to every peer in turn, read while a write is
blocked (Single) or in a thread per peer (Multi). Hard: nodes that block in
writes to one another. Correct if every write returns, no peer misses a
message, and what is read is logged.

**Hybrid variant** (`variants/hybrid`). The same over raw TCP, with a bounded
channel between reader threads and driver, and a list of peers that shrinks
while it is walked. At QoS 1 and 2 it sends to a multicast group, and takes at
QoS 2 nothing that is older than what it has. Hard: datagrams come late or
twice, or find the channel full. Correct if the filter takes only what is
superseded, and a skip that the driver is told of is one.

**Variant driver, watchdog, progress emitter** (`variant-base`). Phases of a
child: connect, stabilize, operate, silent, digest, with idle detection, a
watchdog thread and a thread that prints progress. Correct if no way out of the
driver looks like another, and a driver that is stuck is ended.

**Logger and compact writer** (`variant-base`). Two files per job: a buffered
JSONL log, flushed at the end, and a Parquet file written in the digest phase.

**QUIC variant** (`variants/quic`). State per node: a connection to each peer,
the channel to a send loop, the streams' buffers, reader tasks, an inbound
channel and a deque. Operations: dial and accept, publish (wait or skip), pump,
poll, disconnect, which empties these places one by one. Hard: five bounded
places in a row, each waiting for the next. Correct if a full one delays the
writer and costs nothing, and every spawn comes to its end.

**WebRTC variant** (`variants/webrtc`). A pair that exchanges descriptions and
candidates over a signalling socket, then sends over one of four channels.
State: what has been exchanged, a queue with a counter of what is in flight,
the newest value per path. Hard: candidates that come before the description
they belong to; a counter kept by two tasks. Correct if two nodes that are up
get connected, the counter is exact, and each QoS keeps its promise.

**Zenoh variant** (`variants/zenoh`). In Multi mode a bridge between the driver
and the tasks of the zenoh crate; in Single mode a `zenohd` process of its own
per node, a PUT that is retried, and an event stream that is read line by line.
Hard: a shutdown that drops tasks where they wait; a read that times out in the
middle of a line. Correct if what is published is logged once and in order, a
skip is an honest skip, and no process is left behind.

**Configuration and job expansion** (`config.rs`, `spawn_job.rs`,
`cli_args.rs`, `variant-base/src/cli.rs`). Templates, lists of values, names,
and the command line a child parses. Hard: the name of a job is the name of its
log, which is all that a resumed run knows it by. Correct if each combination
that was asked for is run once, as it was asked for, however often the runner is
killed.

**What a child records** (`workload.rs`, `driver.rs`, `compact.rs`,
`compact_writer.rs`, `logger.rs`, and `parse_compact.py`, `parse.py` on the
other side). State: the columns and two dictionaries that driver and reader
threads share, the lines of the log. Hard: one table for twelve kinds of
events, names as numbers of growing dictionaries. Correct if the analysis reads
what was recorded.

**Analysis scripts** (`analysis/`). A cache of the logs in another format, and
the way from rows to verdicts. Hard: the tool may die between a shard and its
sidecar, logs change under it, the files of two machines may be of different
launches. Correct if what is analysed is what is there, a pair without a mark
has lost nothing, and a sound one gets no mark.

`PROJECT.json` has, under "hazards", each place in this code where one of these
difficulties bites, with the property that covers it.

## 2. The modules

| module | models |
|---|---|
| `Lockstep` | what the barriers promise, without messages |
| `RunnerBarrier` | Phase 2: the job loop and the TCP barriers |
| `RunnerBarrierProofs` | its proofs: the barriers, that they implement `Lockstep`, and the summaries |
| `Discovery` | launch, wrapper, Phase 1, and the late answers |
| `ResumeLogs`, `ResumeLogsProofs` | Phase 1.25, the skip path and the files, over several launches; its proofs |
| `RunnerSetup` | clock sync of all peers, start of both kinds of connections, and the resync of a job, with the program's times |
| `ClockSync` | one measurement of a peer's clock |
| `ChildMonitor` | one spawn: driver, emitter, watchdog, and the runner's monitor |
| `ProgressExchange` | progress frames, the views of the peers, and the idle rule |
| `Addresses` | hosts and ports of all connections: what discovery notes, what each use derives, and who is reached by it |
| `RunnerPartsProofs` | the proofs of `ClockSync`, `ChildMonitor`, `ProgressExchange` and `Addresses` |
| `ReliableUdp` | custom-udp at QoS 1, 2 and 3 |
| `ReliableTcp` | custom-udp at QoS 4: streams and their timeouts |
| `WebSocket` | the websocket variant in both threading modes |
| `Hybrid` | the hybrid variant at QoS 3 and 4 (TCP) in both threading modes |
| `HybridUdp` | the hybrid variant at QoS 1 and 2 (multicast), with its set-up and its end |
| `VariantProofs` | the proofs of `WebSocket`, `HybridUdp`, the streams of `WebRtc`, and, in `VariantsMC`, of what a driver is told |
| `Quic` | the quic variant, streams and datagrams |
| `WebRtc` | the webrtc variant: signalling of a pair, and its four channels |
| `Zenoh` | the zenoh variant in Multi mode |
| `ZenohRest` | the zenoh variant in Single mode, with its `zenohd` |
| `Jobs` | from the configuration to command lines and logs, over several launches |
| `Recording` | workloads, rows and lines of a child, and their decoding |
| `Verdicts` | from the files of a job to its line in the report |
| `AnalysisCache` | the cache of the analysis tool, over several calls |
| `StartupProofs` | the proofs of `Discovery`, `AnalysisCache` and `Verdicts` |
| `Selection`, `SelectionProofs` | what a filter leaves of a sequence; lemmas about it |
| `StreamProofs` | the proofs of `ReliableUdp`, `Hybrid` and `ZenohRest` |
| `TransportProofs` | the proofs of `Quic` and `Zenoh`, and of the streams of all variants together |
| `StartupMC` | `Discovery`, `Jobs`, `ResumeLogs`, `Verdicts` and `AnalysisCache` for TLC |
| `RunnerPartsMC` | `RunnerSetup`, `ClockSync`, `ChildMonitor`, `ProgressExchange` and `Addresses` for TLC |
| `VariantsMC` | `ReliableUdp`, `WebSocket`, `Hybrid`, `HybridUdp`, `Quic`, `WebRtc`, `Zenoh`, `ZenohRest` and `Recording` for TLC |
| other `*MC` | values of the constants for TLC |

The last three composing modules put components that share no state side by
side: a variable `part` says which one a behaviour is about, and the others
rest in an initial state. A property that follows for each component alone is
so checked for all of them in one run.

Several modules contain definitions under the comment *Wrong on purpose*: a
correct definition with a plausible bug. Nothing uses them. `PROJECT.json`
says, under "mutants", which property must fail when one takes the place of the
correct definition, so that no property is satisfied by everything.

### RunnerBarrier

`job` and `pc` are the place in the `for` loop of `run`; `seen` and `results`
are the locals of `ready_barrier_tcp` and `done_barrier_tcp`; `summary` holds
the rows printed at the end. `link[p][r]` is the sequence of frames `p` has
written to its connection with `r` and `r` has not drained, i.e. socket
buffers, wire and inbox in one; a poll takes a prefix of any length, as much as
the reader thread happened to have read, and drops the frames it does not want.
`writers` and `readers` are the halves of the connections that still work:
`broadcast` removes a writer on an error or a write timeout, and a reader thread
exits on a read error.

`EnterReady`, `LeaveReady`, `EnterDone`, `LeaveDone` include their broadcasts.
`KeepWaiting*` is an iteration without quorum, with or without the periodic
broadcast, and `BarrierTimesOut` the iteration in which the deadline has passed.
A child is `EnterDone` with any outcome. `job` in a frame is history: receivers
compare `JobName[f.job]`, as the code compares `variant`, and jobs may share a
name because `config.rs` does not exclude it. `Skip` is a constant here, the
same for everybody; that this is so is `SkipSetsAgree` of `ResumeLogs`.

The UDP code in `ready_barrier` and `done_barrier` is reached by unit tests
only (`main.rs` installs the TCP transport or exits) and is not modelled.

### Discovery

`phase` follows `run`: "discover", "linger", "manifest" (Phase 1.25), "setup"
(clock sync and transports), "phase2". `net[r]` is the set of `Discover`
messages in r's socket buffer: as a set it is without order and without
duplicates, which the receiver could not tell apart anyhow. `given` and
`attempt` are the command line as the wrapper composes it. Folders are numbers,
ordered as their names are. The manifest exchange and the barriers appear by
what they need of the others: a runner passes them only when all have come as
far.

Which phases read the socket is taken from the code: discovery handles all,
the linger and the clock sync throw away what is not a probe, the manifest
exchange reads nothing, the barriers answer. The comments of
`maybe_reemit_discover` list the manifest exchange among the loops that call
it; it does not.

### ResumeLogs

A runner's process has a `launch` number; what it knows (`pending`, `got`,
`skip`, `job`, `peer`) is lost when it ends, what is on disk (`log`, `parquet`)
is not. `log[r][j].by` and `parquet[r][j]` say which launch wrote the file.
`entered` are the barriers entered, as in `Lockstep`, tagged with the launch:
a peer that is connected to a dead process still reads what that one had sent.
`Stop` is every end of a process but a regular one. `Exchange` is a whole
connection of the pairwise protocol, with the reply possibly lost. `RunChild`
leaves any combination of files that a child can leave: the JSONL log is
buffered, so that either file can be missing, empty or cut short.

### RunnerSetup

`stage` follows `main.rs` from the end of discovery to the launch of the first
child: "sync" (`measure_offsets`), "progress" and "barrier" (the two `start`s),
"ready" (the ready barrier) and "resync". A runner measures its peers one after
the other, `NumSamples` probes each; it answers probes of others while it waits
for an answer or stands in a barrier, and at no other time. Time is modelled:
`timer[r]` is the time to a runner's next own event, and `SetupTick` lets the
least of them pass when nobody has anything to do at once. Connections are made
pairwise, one side connecting, and stay in the listener's queue (`backlog`)
until they are accepted.

### ClockSync

A measurement as the code does it: a probe, the wait for the answer *with its
number*, the pause, and `pick_best` over the samples: that of the least round
trip, or, if it is an outlier, the medians of the three fastest. Probes and
answers may be lost, late, repeated and out of order; the clocks differ by
`theta`, which no action reads.

### ChildMonitor

Three threads of the child (`driver.rs`, `progress_emitter.rs`, `watchdog.rs`)
and two of the runner (`spawn.rs` and its stdout reader) with seconds as the
unit. `due` are the periodic tasks that still have their turn in this second.
The driver can get stuck in a transport call (`blocked`) and never return; an
error, a panic and the watchdog each end the process in their own way. The
runner sees only the exit code, its own clock and the lines in the pipe.

### ProgressExchange

Publisher and reader threads of `progress_coord.rs`, the tracker and the remote
view of `progress.rs`, and the idle rule of `termination.rs`, over the spawns
of several jobs. A read timeout in the middle of a frame leaves the reader in
the middle of the stream (`place`). The barriers appear by what `Lockstep` says
of them. The remote view is keyed by peer and effective name; that names are
distinct is an assumption here (`config.rs` does not check it).

### Addresses

No process tells another one its port. A runner notes the source address of
the first datagram it hears of a peer, `127.0.0.1` if that is an interface of
its own machine (`canonical_peer_host`), and hands the hosts to its child as
`--peers`. Ports are a base port plus the place of a name in a list, plus a step
for each QoS: the variants count by the sorted names, the runner's own services
by the configuration. Each of these *uses* is a record (`CustomUdpUse` ...
`BarrierUse`) that says who dials whom, how places are counted and what becomes
of a process that cannot reach a peer; the actions are the same for all. The
hosts are complete when discovery ends, since it waits for them
(`protocol.rs:489-494`). Binding takes a port on the machine, and a connection
comes to whatever socket the address leads to from the dialler's machine.

### ReliableUdp

Described in the module's head. A loss is a datagram that is never received, so
no action is needed for it; the second channel of multi mode only reorders.
End-of-test frames and fatal socket errors, which end the child, are left out.
At QoS 3 the publisher spins until the socket takes the message.

### ReliableTcp

A message is a few units, the first of them its length, so that a read or a
write can stop inside a message and inside a length. `sent` is how far
`write_all` has come when it times out; `publish_encoded` then tries the whole
message once more. The two readers (non-blocking with a buffer, and the thread
with a read timeout) differ in what they keep of a half-read message.

### WebSocket

`wire[w][r]` holds what lies in the socket buffers, `Room` frames. `stage`,
`dialing`, `awaiting` and `place` follow the connecting: a node connects to
higher names one by one while it accepts lower ones. `sending[n]` is the peer a
broadcast is at, `kept[n]` those it has finished with. In Single mode a blocked
write gives up, reads what has come and tries again; in Multi mode a reader
thread per peer goes on reading. `unlogged` is history: what was read and not
logged.

### Hybrid

`turn`, `targets` and `failed` are the locals of `broadcast_with_drain`, which
walks `outbound` by index while the drain inside it may shorten the list.
`queued` is `pending_drained` (Single) or the reader channel (Multi). The
driver publishes the values of a tick without a pause and polls afterwards: what
a tick leaves in the channel is taken then. `Jammed` says that the writes of
some drivers wait for room that only each other's polls can make.

### HybridUdp

`castSent` is all that was ever given to the network, which may bring any of it
to any node that has joined the group, at any time and more than once
(`CastArrive`; `arrivals` bounds how often). `rcvbuf` is the buffer of the socket
that is read: by the driver in Single mode, by a thread that pushes into `hub`
in Multi. `newest` is `latest_seq`; `spent` counts the frames the poll in progress
has passed over, up to `POLL_BUDGET`. `accepted`, `castKept` and `handed` are
history: what `try_publish` returned true for, what was read and not dropped, and
what the driver got. A datagram of a stranger (`Stray`) ends the child in Single
mode, where `poll_receive` returns the error, and is dropped in Multi
(`reader.rs:239`).

### Quic

A reliable message passes `sendQueue`, the hands of the send loop (`frame`,
which it writes to one connection after the other, `slot`), `unsent` and
`unread` (the two ends of a stream), `hand` (the reader task), `channel` and
`pending`; each waits for the next one. A datagram goes from the send loop
straight to `hand`. The end of a spawn is a chain of stages of `life`: the
queue runs empty, the streams are finished and their ends awaited, the readers
are given time, the runtime is dropped. What quinn does is assumed (module
head); its flow control is a bound on `unsent` and `unread`. `Clogged` says that
some drivers wait to publish for room that only each other's polls can make.

### WebRtc

`signals[n]` are the frames on the way to n over the signalling socket; `sdp`,
`local`, `known`, `doneSent` and `doneSeen` are the locals of
`drive_signaling`. Once the channels are open `outbox`, `sent` and `sctp` are
the places a message passes, `inflight` is the atomic counter that decides on
skips, and `latest` the filter of QoS 2. One pair is modelled, since pairs do
not meet. Frames of the signalling socket are taken whole; section 5 says where
the code loses half of one.

### Zenoh and ZenohRest

`Zenoh` has the bridge channel, the put that `publisher_task` awaits (QoS 3 and
4) or the tasks it has spawned (QoS 1 and 2), the link, and the FIFO that
`subscriber_task` empties. The runtime that is shut down drops its tasks where
they next wait. `ZenohRest` has the life of the sidecar (spawn, wait for the
port, kill), the PUT with its one retry, where the answer may be lost and the
request still be taken, and the stream: an event is three lines, a line may
arrive in two pieces, and a read that times out between them drops the first.
`due` and `spoilt` are history.

### Jobs

`file` is the configuration with the runner's arguments, an array a sequence
and an optional key a set of at most one value. `Template`, `Accepted`,
`ExpandVariant`, `ExpandAndGate`, `BuildVariantArgs` and `Parsed` are the
functions of these names; they are evaluated when a runner starts and when it
spawns a child. `logs` maps a folder and a name to what the child was given; a
child that opens a log of the same name overwrites it. `KillRunner` may strike
anywhere, and the next start has `--resume`.

### Recording

`work` are the child's arguments. The steps of `run_protocol` are actions, and
`ReaderRecords` may come between any two of them. `buffers` are the rows with
their numbers and the two dictionaries; `happened` is history, the events as
they were recorded. `Projection` is the big expression of
`_build_projection_lazyframe`, one column per line. The random partition of
`mixed-types` is a choice among all partitions. Times, sizes and measured values
are left out; so is the order of the rows in the shard, which the streaming
engine need not keep: the model keeps it.

### Verdicts

`records[h]` are the rows in the memory of h's child, `journal`, `compact` and
`stderr` the three files, each of them lost, cut or whole by the way the child
ends (`outcome`). The second `round` is a job run again. The operators from
`Deliveries` to `Flagged` are the functions of the analysis, applied once all
is over. A row counts as recorded twice (`near`) when the instruments did it,
and as a true duplicate when the transport did.

### AnalysisCache

A file is the number of the write that made it and a time stamp. `step` follows
`update_cache`; `metas` and `stale` are its locals, `building` is the shard that
is being written and how much of it there is. The tool may die at every step,
its `version` may change between two calls, and sources are written, copied in
or removed meanwhile. Three faults are kept apart (`CacheFaults`), because
`AnalysedIsCurrent` does not survive them; section 5 has them.

## 3. What is checked

| run | instance | states | shows |
|---|---|---|---|
| `two_runners` | 2 runners, 3 jobs, one skipped, the others of one name, all faults | 246 000 | type, `NobodyLeavesEarly`, `NoFalseMatch`, `LeaverIsHeard`, `SummaryTruthful`, `VerdictsAgree`; `NoRunnerHangs`, `ImplementsLockstep` |
| `three_runners` | 3 runners, 2 jobs of one name, no faults | 27 000 | `AllFinish`: the barriers do not need the periodic broadcast |
| `startup` | discovery: 2 runners, 2 files, 3 launches each, all faults; jobs: 16 configurations, 3 launches; logs: 2 runners, 2 jobs, 3 launches each; verdicts: 2 machines; cache: 3 calls | 1 008 000 | `OneRun`, `LeaderKnownAtQuorum`, `AllMeet`; `MatrixIsRun`; `SkipSetsAgree`, `SkippedIsCompleteEverywhere`, `FinishedIsKept`; `HonestReport`, `NoFalseAlarm`; `AnalysedIsCurrent` |
| `runner_parts` | set-up of 3 runners; a clock measurement of 3 samples; a spawn of at most 9 s; progress of 2 runners over 2 jobs; addresses of 3 runners on 2 machines, for each of 10 uses | 837 000 | `ConnectionsAreRight`; `OffsetWithinRtt`; `OutcomeIsEarned`, `WatchdogTakesTheStuck`, `IdleAfterSilence`, `SpawnsEnd`; `AgreementIsTrue` |
| `variants` | custom-udp: 2 nodes, 4 messages each, a buffer of 2; websocket and hybrid: pairs and trios in both modes; hybrid's datagrams: a pair in both modes, 3 arrivals; quic: pairs and a trio; webrtc: a pair at each QoS; zenoh: a pair in both modes; all buffers of one message; recording: each workload, 2 messages | 346 000 | `InOrder`, `FreshestShown`, `GapsAreAskedFor`; `NoCircularWait`; `StreamsHold`, `HonestBackPressure`, `DamageIsLocal`; `FileTellsAll`; `EveryWaitEnds`, `EveryoneStarts`, `DriversGetThrough` |
| `relaunch` | discovery, fresh, one file, timeouts | | violates `RelaunchedIsTakenBack` |
| `resume_whole` | 2 runners, 1 job, 2 launches each | | violates `SkippedIsWhole` |
| `udp_recovery` | custom-udp at QoS 3 | | violates `RecoveredIsDelivered` |
| `late_start` | set-up, one runner up to 500 ms late | | violates `EveryoneIsMeasured` |
| `hybrid_panic` | 3 nodes in Single mode, one is killed | | violates `SurvivorsGoOn` |
| `hybrid_burst` | 2 nodes in Multi mode, 2 ticks of 2 messages, room for one in each place | | violates `BroadcastReturns` |
| `reliable_tcp` | one writer, two readers, QoS 4 | | violates `StreamStaysWhole` |

Each of the three big runs also checks the types of its parts
(`StartupTypeOK`, `PartsTypeOK`, `VariantsTypeOK`). Properties that several
modules share are conjunctions: `StreamsHold` has what each transport promises
of its reliable streams (websocket's without the messages that the drain of a
blocked write throws away, section 5), `HonestBackPressure` four things that a
driver may believe of a skip, of room and of an Ok (webrtc's Ok at QoS 1 and 2 is
not among them, section 5), and `EveryWaitEnds`, `EveryoneStarts` and
`DriversGetThrough` the liveness of all of them. Two of these name an exception,
and hold that there is no other: drivers of hybrid in Multi mode (`Jammed`) or of
quic (`Clogged`) that write to each other wait for ever once every place between
them is full in both directions. Instances below and
beyond that point are in the run; `hybrid_burst` has the counterexample to the
unrestricted claim. `ConnectionsAreRight` says of the connections that all
are made and both ends agree on them (`SetupIsComplete`), and that each leads to
the one it is meant for (`PeersMeet`); `OneRun` that folder, file and mode are one.

### Bounds, and why they are enough

* *Two runners, two jobs of one name*, and a skipped one between them. A frame left
  over from a barrier can be mistaken only by the next one or the one after; two
  jobs make four barriers.
  Three runners add the case of one being waited for by two at different
  places; `three_runners` has it for liveness and the proofs have any number.
* `MaxLink` bounds only the periodic re-broadcast, which adds copies of a frame
  already on the link. The proofs do not depend on it.
* *Three launches.* The second launch resumes a fresh run, the third resumes a
  resumed one; further ones repeat the third.
* *Old folders {}, {1}, {1, 2}* on each disk independently: none, one, and a
  choice, so leader and follower may differ in what is the latest.
* `startup` leaves out the faults of the Parquet file, which none of its
  properties is about; `resume_whole` has them.
* *Set-up* runs with the program's own times in units of 5 ms (`Starts` is the
  bound: how far apart the runners may leave discovery). 0, 100 and 150 ms are
  within the time one peer's 32 samples take; `late_start` has 300 and 500 ms,
  the interval of the broadcasts.
* *Addresses*: two runners on one machine and one on another are the least with
  both ways to be reached; the configuration lists them in the reverse of their
  names' order; two interfaces per machine, so that two runners may note
  different ones. Base ports with room for all, for one and for none, and one
  at which only zenohd's unchecked sum goes beyond 65535.
* *Three samples* are the least of which one can be an outlier.
* *A spawn* has an operate phase of 5 s, an idle limit of 1 s, a watchdog of 3 s
  and a limit of 8 s: each can be the first to strike.
* *Four messages, buffer of two* make a gap of two, a late original and a
  retransmission at once, and push a message out of the buffer.
* *Buffers of one frame* (websocket, hybrid) are full after one message, so that
  every circle of blocked writers comes up that larger buffers would need more
  messages for. A trio is the least with a circle of three. In Multi mode
  hybrid's two values of one tick fit into a channel and a socket buffer of one, as
  the bursts of the program's configurations do into its 4096; those of two ticks
  (`LongBurst`) do not, and fill each place in both directions in some behaviours and
  not in others.
* *Hybrid's datagrams*: two messages and three arrivals make a late one, a
  repeated one and a lost one; one path, so that both meet the same entry of
  `latest_seq`; buffers of one. That a node receives what it sends itself makes
  two nodes enough. The proofs have any number of all of these.
* *quic, webrtc, zenoh*: buffers of one message for the same reason. Six
  messages fill the places between two drivers of quic: the queue, the send loop's
  hands, both ends of the stream, the reader's hands, the channel. One node writes
  eight to another; two nodes that write to each other write two, which fit, and
  seven, the least that do not. Webrtc's SCTP buffer has room for two, which keeps
  a message behind the one that is sent; three messages fill it while the send
  loop holds the third, or the queue while it holds another. QoS 2 has two paths. zenohd: two samples while PUTs stall, two while the stream stalls
  (the one after a damaged one shows whether the damage spreads), one while
  something dies.
* *Jobs*: every form a key can take, every error that `validate` looks for and
  those it does not; three starts, so that a resumed run is resumed; one child
  that fails.
* *Recording*: each workload in one tick or two, with up to four operations;
  two messages of two writers in a table of one, so that one finds no room; a
  memory ceiling that a tick reaches; `mixed-types` with five values, the least
  with an array, a nested dictionary and a flat one; the messages of peers come
  in the other workloads.
* *Verdicts*: two writes, the second of two values; three received rows are the
  least with a loss, a duplicate and a wrong order at once. A job that is run
  again has one row in each round.
* *AnalysisCache*: one spawn and the clock-sync log of its run; three writes
  and three calls give a shard that is built, grows old and is built again,
  with another version of the tool in between.
* `reliable_tcp`: buffers of a frame and a third, so that a write can stop
  inside a message; a length of one unit, so that only the writer's cause is
  left (section 5).

Deadlock is not checked: runs end.

### Fairness

* `RunnerBarrier`: weak fairness of the job loop outside the barriers (its only
  wait is the child, which `spawn_and_monitor` bounds by a deadline), of a
  barrier iteration that finds everything sent so far (reader threads block in
  `read` and keep up), and of the deadline. The periodic broadcast is *not*
  assumed: `AllFinish` shows that it is a safety net and nothing else.
  `NoRunnerHangs` counts on the deadlines.
* `Discovery`: weak fairness of a runner's own steps. Sends and reads are
  strongly fair: the loop sends every 500 ms and the linger a few more times;
  a message that is sent over and over is read some time. Losing messages is
  unrestricted within that. Timeouts, crashes and relaunches are not fair.
  `AllMeet` says that runners alike get to Phase 2 or one of them ends; without
  the answers of the barriers it fails (mutant `AnsweredNot`).
* `ChildMonitor`: the runner's threads, the child's helper threads and the
  passing of time are weakly fair; the driver is only where its operate loop is
  not blocked. A driver may stay blocked for ever: `SpawnsEnd` counts on the
  watchdog and the monitor's limit.
* `WebSocket`: some thread that can go on does. That is all the scheduler has to
  give, since a thread that spins on a full buffer also reads.
* `Hybrid`: weak fairness of each node's driver and of the reader threads.
  (`hybrid_burst` needs no more: both drivers are in a write that cannot go on.)
* `HybridUdp`, `Quic`, `WebRtc`, `Zenoh`, `ZenohRest`: some thread or task that can go on does
  (weak fairness of the module's next-state relation), as above: the tasks run
  on a multi-threaded runtime and none of them spins, and each behaviour is
  finite but for the waiting, so that nobody can go on for ever at the cost of
  the others. A node that spins on a closed socket is excepted by name
  (`SpinsOnClosed`).
* `Addresses`, `Jobs`, `Recording`, `Verdicts`, `AnalysisCache`: none. They may stop anywhere;
  their properties are about what is there when they come to an end.

## 4. What is proved

For all values of the constants, by TLAPS. The assumptions are the `ASSUME`s of
the modules, each a fact about the configuration (names are distinct, bounds
are natural numbers, a launch folder is newer than those already on the disk).

**`RunnerBarrierProofs`**: `TypeOK`, `NobodyLeavesEarly`, `NoFalseMatch`.
`NobodyLeavesEarly` is not inductive: that a counted frame was sent for this
very barrier depends on what may still be on the links. `LockstepInv` numbers
the barriers, 2j for Ready and 2j + 1 for Done of job j, and says of any link
that its frames are in order and none is ahead of its sender; of a barrier
someone has left, that everyone has entered it and nothing older is on a link
to the one that left; and of whoever has been counted, the same for the present
barrier. Then a frame of the right kind that is there to be counted can only be
of the present job, whatever the names: in between lies a barrier of the other
kind. Draining a prefix, appending, and breaking a connection preserve the
order of a link (`LinkStepOrder`), and each action is one of these.

The same module: `Spec => ImplementsLockstep`. Enter actions map to
`Enter`, leave actions to `Leave` (which needs `NobodyLeavesEarly` to know that
all have entered), the others to stuttering.

**`StartupProofs`** on `Discovery`: `TypeOK`, `OneRun`, `LeaderKnownAtQuorum`. The leader's
pick never changes over its launches: if started with `--resume` it is the
latest folder on its disk, and it opens no other; if started fresh it is the
folder of its launch time, newer than any, and the leader cannot exit with 75,
and so be relaunched, before that folder is on its disk, where the relaunched
process finds it as the latest. All messages of the leader carry the pick, and
only they set `agreed`. `LeaderKnownAtQuorum` says that the late-recovery loop of
`discover` (`protocol.rs:514-578`) is dead code since the barriers moved to TCP:
only a `Discover` makes a runner seen, and that of the leader brings the folder.

**`StreamProofs`** on `ReliableUdp`: `TypeOK` and the three properties of custom-udp in the run
`variants`, `InOrder`, `FreshestShown` and `GapsAreAskedFor`. The expected number
lies above everything delivered and everything asked for, so that what is
accepted next is newer than both, and what it jumps over is asked for then and
never again; the buffer of a QoS 3 writer is the window of its last
`BufferLimit` numbers; the tracker of QoS 2 holds for each path the newest
number delivered, which is the newest arrived.

**`RunnerBarrierProofs`** on the summaries: `SummaryTruthful`, `VerdictsAgree`,
`LeaverIsHeard`. On top of `LockstepInv`, a Done frame carries
the outcome its sender had in the job it names, from the queue to the summary
(`ReportInvariant`). A runner that leaves has counted everybody for this very
barrier, so the outcomes it has are the outcomes of this job; two runners that
get through all the jobs have the same rows, and the verdict is a function of
them. For `LeaverIsHeard`, `Gathered` says it of everyone who has a barrier behind
it, in that barrier or a later one: as long as both ends of the connection are
there, its frame for that barrier is counted or still on the link, and a frame
of one's own barrier is one that it accepts.

**`ResumeLogsProofs`**: `SkipSetsAgree`, `SkippedIsCompleteEverywhere`,
`FinishedIsKept`. Files change under the feet of the manifests: a runner can
crash and come back as another process with another inventory, while its peers
still hold the manifest of the earlier one. A runner between its scan and its
clean-up answers no barrier, so nobody can run a job with it, and every other
disk it has a manifest of only loses logs meanwhile; a job that is in all the
manifests it holds was on all disks when the first of them was taken, and then
nobody has a reason to delete it. `ResumeInv` says this of each stage of a launch
(`SharedIsFinished`, `Outdated`, `SkipIsFinished`), with what connections and
barriers are worth after a peer's relaunch (`Connections`, `Entries`) and what the
loop may still run (`NothingThere`, `OthersWait`).

**`RunnerPartsProofs`**: `OffsetWithinRtt`, `AgreementIsTrue`, `OutcomeIsEarned`,
`WatchdogTakesTheStuck`, `IdleAfterSilence` and `PeersMeet`.

* *The clock*, for any clock difference, any number of samples and any network:
  the estimate is off by at most half of the round trip reported with it.
  `ClockInvariant` says of every answer on its way that the peer stamped it
  between its probe and now, so that each sample brackets `theta`. The median of
  three samples is one step from each of them, on the right side, which makes
  the outlier path as good as the other.
* *The exchange*, for any number of runners and spawns: what a runner holds of a
  peer may be old, and of an earlier spawn, but is never ahead of that peer
  (`NothingAhead`), and the done barrier keeps runners within one spawn of one
  another (`InStep`). A view of `silent` for this very spawn is therefore about a
  child that is at least there. It is assumed that there is a spawn at all.
* *The child*, for all settings of the limits: `ChildInv` compares the ages of the
  idle detector, of the watchdog and of a blocked driver, which differ by at
  most a second; whichever limit is shorter strikes first. That the watchdog
  never takes a driver that is merely idle needs a watchdog that is at least two
  seconds slower than the idle detector: this is the hypothesis of `StuckAreTaken`
  (`Tuned`), which the defaults of `cli.rs` (5 s and 30 s) satisfy and an unlucky
  pair of command-line options may not. With a watchdog that is as fast as the
  detector, which of the two threads comes first decides between exit 0 and 2.
* *The addresses*, for any number of runners, machines and interfaces, any
  order of the configuration and any base port (`EveryoneIsFound`). The places of
  two runners differ, in the configuration because names are distinct, among the
  sorted names because the names before the one are a proper part of those
  before the other (`PlacesDiffer`). Two sums below 65536 that differ still differ
  when the same offset is added to both and the result wraps, so a port tells
  whose it is (`PortsDiffer`). `AddressInv` adds that a host noted for a peer
  fits it, seen from the machine that noted it, that every socket is its owner's,
  and that a process that is past the derivation had ports for all, which depends
  on nothing but the layout: so either all children of a variant get that far, or
  none does.
  (`SetupIsComplete`, the other half of `ConnectionsAreRight`, is only checked.)

**`StartupProofs`** on `AnalysisCache`: `AnalysedIsCurrent`, for any number of spawns, calls,
versions and writes to the logs, wherever the tool dies. `KnownIsTrue` says of
the sidecar, or index entry, that the tool would go by: it is unfit (of another
version, older than the log, or its log is gone), or the shard is exactly what
it says. Unfit is for good, since a log that is written again is later than
every sidecar; the tool opens only a shard whose sidecar is unfit, and deletes
one without the other only where it is unfit. The theorem has the hypothesis
`CacheFaults \subseteq {"crash"}`, as the run has: with a log written while its
shard is built (`gap`), with one replaced by an older file (`older`), or with a
tool that dies inside `rmtree` (`wipe`), the property fails, as it does in the code.

**`StartupProofs`** on `Verdicts`: `HonestReport` and `NoFalseAlarm`, for any number of
machines, writes, leaves, rows and runs of the job. `RowsInv` says that a row
that a child has is of a message its writer has too: in memory, or, once the
file is closed, in the file of the same run (`RowsAreTrue`). This stays true when
the writer dies, because its memory is then no longer asked, and when the job is
run again, because a file names the run it is of. So the deliveries that
`correlate_lazy` finds in two files of one run are the receives of that writer
without the doubled ones (`HeardIsDelivered`), and their distinct messages are some of
the writes. What is left is counting (`RowSays`): as many messages as rows means
that none came twice, as many as writes that none is lost, and no step back
between neighbours that all are in order (`NeighboursInOrder`); without a duplicate, the leaves
received are those of the messages that came, and fewer messages have fewer
leaves (`FewerLeaves`). Counting also gives what `HonestReport` says below QoS 3. A pair
is only reported below 99.995 %, so as many writes can be lost unseen as came
twice, and one in 20000 besides (`FewLost`).

**`VariantProofs`** on `WebSocket`: `NoCircularWait`, for any number of nodes, messages and
frames in the buffers, in both modes. A node serves its peers from the latest
connection to the earliest (`ServiceInv`), and connections are numbered alike
at both ends (`PlacesInv`). Among nodes that wait for one another in a circle,
take the one that waits for the earliest connection: the node it waits for is
itself at one that is no earlier, so has not served the first one yet, and
still reads it.

`NothingSkipped` (`WsSkipsNothing`), websocket's part of `StreamsHold`, for the same
constants. `LinkInv`: of two nodes that take part, each is in one of the lists of the
other one (to dial, to accept, served, being served, to be served), because only a
peer that has left is taken out, also by the notices of the reader threads. So
the list the reader is in tells how far the writer's messages have got for it
(`Reached`), and at the end of a broadcast, when everybody is in the served list, that
is the last one written. `NoneSkipped`: the log, the wire and the forgotten ones
make up the messages up to there (`MakesUp`). A frame that is read goes from the head
of the wire to the end of the log (`HeadMoves`), one that is written is the next number
(`NextIsAdded`), and one that a blocked sender reads and forgets leaves the order of
the others as it is (`OneIsForgotten`); the peer it writes to is not among those
it polls, so this takes a third node.

**`VariantProofs`** on `HybridUdp`: `CastNeverGoesBack`, `CastNothingVanishes` and
`CastSkipsAreHonest`, for any number of nodes, messages, paths and arrivals, and
any loss, repetition and order. These are hybrid's parts of `StreamsHold` and
`HonestBackPressure` in the run `variants`. At QoS 2 `CastInvariant` makes an
entry of `latest_seq` the newest number its driver has received of that writer
and path, so the next one it takes is newer than all of them, and one that it
passes over is no newer than one that it has received. Whatever is on its way,
in a buffer, in a channel or received was accepted by its writer.

**`VariantProofs`** on `VariantsMC`: `HonestBackPressure`, in the sense of section 3, for
the specification of the run `variants` and every value of its constants: any number of messages, any
capacity of the channels, buffers and windows. Each step of `VariantsNext` is a step of
one module and stutters in the others (`PartSteps`), so one invariant per
module is enough:

* `ZenInv`: at QoS 1 and 2 of zenoh a message that was tried is in exactly one
  of seven places (skipped, missed, the bridge, a task, the link, the FIFO of
  the peer, its log) and there once. Every action keeps it where it is or takes it
  from one place to another (`NotMoved`, `MovesOn`), and only a node that closes its
  session empties places (`OrIsGone`). That a message is found *once* in the link
  and the FIFO is part of the invariant: without it the head that is taken out
  could still be there afterwards.
* `RtcInv`: the types of webrtc's queue and of the message in `dc.send`, which is
  never 0, with the equation itself.
* `NothingEvicted` is inductive as it stands: only connections with room are
  written to.
* `PutInv`: how often zenohd has taken a sample and may yet take it (`Budget`).
  A PUT that is given up may still be served, and the second attempt as well, so two
  is the bound; and one where no PUT is slow, because then an attempt fails only
  when zenohd is not ready while a PUT is on, and after its launch it never
  gets ready again (`ServerIsLost`).
* `CastInv` of hybrid, above.

**`VariantProofs`** on `WebRtc`: `RtcStreamsAreWhole` and `RtcNewestIsLast`, webrtc's
two parts of `StreamsHold`, for any number of messages and paths and any
capacity. `FlowInv` has the sequences a message goes through, from the log of the
reader back to the queue of the writer, joined into one, and says that this is
1..`written`: a step takes the head of one part and appends it to the part
before, which leaves the whole as it is. It carries when the
equation ends: when the writer gives up at a deadline, or the reader leaves. `LatestInv`, at
QoS 2, says that the newest number the callback keeps of a path is that of the
last message of the path it has let through, and no older than any that
has reached the node.

**`SelectionProofs`**: filters. A filter takes the places of a sequence from the
least to the greatest, and there is just one list of them (`ListRanks`, `AtPlacesIs`): so a filter of a join is the join of the filters (`OnlyJoin`), a
filter of a filter is one filter (`OnlyTwice`), and one keeps all or nothing where all
or none of the members are wanted. `SelectSeq`, recursive, says the same to TLC only;
the modules use `Only` and `SeqsFrom` of `Selection`.

**`StreamProofs`** on `Hybrid`: `StreamsAreIntact` (`HybridStreamsAreIntact`), for any number of
nodes and messages and every size of the sockets and channels. What a node has
got of a writer, what its reader holds and what is in the socket make, joined,
1, 2, ... up to the last message written to it; that is what the writer has
published, less the one it is at, where the turn of this peer has not come. In
Multi mode a channel mixes several writers, and is told apart by a filter.

**`StreamProofs`** on `ZenohRest`: `DamageIsLocal`, for any number of samples and
however their lines come in pieces. A sample is in the stream at most twice, so
the numbers of the events suffice to tell them apart. What is yet to be read is
the rest of one event and then whole events: only the event of the next line can
be spoilt by a line that is lost there, and it is taken into `spoilt` then. Where a
connection ends, so is all that is left there. The log is what was due without
the spoilt ones, as the log and what is yet to come have always been.

**`TransportProofs`** on `Quic`: `ReliableStreamsHold` (`QuicStreamsAreReliable`), for any number
of nodes and messages and every size of the queues and windows. What r has
received of w, what is in the places on its way and what the send loop has yet to
write to r make 1, 2, ... up to the last message issued. A writer ends a stream after it
has written all and waits until that is acknowledged, so that when it has left,
a reader it did not give up on (`cut`) has all of it.

**`TransportProofs`** on `Zenoh`: `ZenohStreamsHold` (`ZenohStreamsAreWhole`), for any capacity. At
QoS 3 and 4 one put is awaited at a time, so that log, FIFO, link, put and bridge are,
joined, the messages tried less those that were missed. A step moves the head of one
place to the end of the next, adds a number at the end, or takes one out for good.

`StreamsHold`, the conjunction that the run `variants` checks, follows for the composed
specification (`AllStreamsHold`), and with it every invariant of that run is proved but
for `VariantsTypeOK` and `FileTellsAll`.

`TypeOK` of `ReliableUdp` and of `Discovery` are proved as `UdpTypeCorrect` and
`DiscoveryTypeCorrect`; the runs check them as parts of `VariantsTypeOK` and
`StartupTypeOK`.

Only model-checked, and why:

* The liveness properties (`AllFinish`, `NoRunnerHangs`, `AllMeet`, `SpawnsEnd`,
  `EveryWaitEnds`, `EveryoneStarts`, `DriversGetThrough`): fairness and `ENABLED` are beyond this
  prover.
* `MatrixIsRun` and `FileTellsAll`. The jobs of a configuration, the operations of a
  workload and the dictionaries of a file come out of folds and recursive functions
  over data, and what these compute for all inputs takes an induction that none
  of the provers can instantiate.
* `StartupTypeOK`, `PartsTypeOK`, `VariantsTypeOK`: they have the types of `Jobs` and `Recording` in
  them, which are about the same folds. The types that a proof needs are in its
  invariant (`RowTypes`, `LockstepInv`, `CastInvariant` and so on).
* `ConnectionsAreRight`: its half `PeersMeet` is proved (`EveryoneIsFound`). The other half,
  `SetupIsComplete`, is a statement about real time. It depends on how the times of the
  program add up for runners that leave discovery at most 150 ms apart, and is
  false for 500 ms (section 5).
* The seven runs that expect a violation: what they refute is not there to be proved.

## 5. Disagreements between code and documents

1. **A retransmitted message is thrown away** (`udp_recovery`). The documents
   describe QoS 3 as buffering out-of-order messages and lagging while a gap is
   recovered. The detector moves past the gap at once, and the retransmission
   the NACK brings is then a duplicate.
2. **A relaunched runner is turned away** (`relaunch`). After a barrier timeout
   the wrapper launches with `--resume`; a peer that is still in its barrier
   answers with the flag of the running process, and the relaunched runner
   aborts with exit 1, which the wrapper does not retry. When all runners are in
   their second launch the flags agree and it works.
3. **A job without its data counts as complete** (`resume_whole`). The end
   marker is written before the silent phase and the digest; a child that fails
   in between leaves a log that resume counts, and no Parquet file, which holds
   the measurements. The driver's comment says that the runner tells these
   apart by `phase=digest`; it does not look for it.

4. **A late runner aborts** (`late_start`). The comments call the startup sync
   one in which all peers are at the same point. A peer stops answering probes
   when it has measured everybody and starts its connections; a runner that
   leaves discovery half a second later, as the interval of the broadcasts
   allows, finds it silent, and no sample of a peer is fatal.
5. **A survivor panics** (`hybrid_panic`). `broadcast_with_drain` walks
   `outbound` by index and promises that a broken peer is taken out while the
   rest goes on. The inline drain that it calls while a write is blocked takes
   out the same peer as well, and the index is then beyond the list.
6. **Full in both directions** (`hybrid_burst`). The comments on the TCP path say
   that the reader threads of Multi mode make it safe "without deadlocking under
   symmetric saturation" (`hybrid.rs:451-454`, 318-321). A reader thread pushes into a
   bounded channel, which only the driver empties, after its burst. Two nodes whose
   bursts fill channel and sockets in both directions wait for each other's poll in
   their writes, until a watchdog ends them. `EveryWaitEnds` shows that no other
   wait lasts. Quic has the same shape, against `quic.rs:27-43`, where the peer's
   driver "slows down to match this variant's drain rate": `QuicSpawnsEnd` fails for
   `Transfer({1, 2}, {1, 2}, TRUE, 1, 7, FALSE, FALSE)`, an instance of the run
   `variants`, whose property `DriversGetThrough` names this case (`Clogged`) and holds
   that there is no other.
7. **A message is begun twice** (`reliable_tcp`). After a write timeout
   `publish_encoded` sends the whole message again behind the part that went
   out, and the reader takes its bytes for a length. The readers add a second
   cause: the length is read with `read_exact`, which loses a half-read one at
   its timeout (run the module with `PrefixLen = 2`). Hybrid's loop, which
   counts what it has written and goes on from there, is the right one.

Smaller ones, without a run of their own:

* the wrapper calls a repeated `--resume` harmless, but clap 4 refuses a flag
  that is given twice, so a run *started* with `--resume` is not retried
  (`Doubled` in `Discovery`);
* the documents call a log complete when it is non-empty, the code wants a
  marker; the manifest exchange does not answer `Discover`;
* websocket: with three nodes in Single mode the drain of a blocked write throws
  away one message per call (`websocket.rs:627`) that the comments say is logged
  (546-549), so a message of QoS 3 or 4 is lost to the report. It is what `unlogged`
  in `WebSocket` counts, and what `NothingSkipped` excepts; without that exception it
  fails for the trio in Single mode. In Multi mode the writer's clone of the socket clears
  the reader's timeout (1217 against 800-808), so that a reader is abandoned at
  the end of a spawn instead of joined;
* hybrid: in Multi mode the inbound
  connections are waited for 5 s (`hybrid.rs:349`), while a peer may take 30 s to
  dial (`tcp.rs:297`), and one that comes later is never read; a UDP reader
  thread that ends on an error ends unnoticed, where the same error ends a child
  in Single mode;
* zenoh: `publisher_task` closes the semaphore before it waits for the permits
  (`zenoh.rs:1503-1504`), so that the wait for the last puts does not happen,
  and `shutdown_timeout` drops tasks with messages the comments (2401-2403,
  2416-2419) say are flushed; the SSE reader makes a new line per call
  (`rest_client.rs:428`, 504-511) and so loses a half-read one at its timeout; a
  retried PUT may be taken twice; QoS 2 has no filter for stale values;
* webrtc: `drive_signaling` drops a half-read frame when another branch of its
  `select` wins (`webrtc.rs:687-792`), against the comment at 652-654; a socket
  that is closed before the descriptions are exchanged is read for ever
  (723-735, `SpinsOnClosed`); at QoS 1 and 2 a message that finds the queue full
  is dropped and the driver told Ok(true) (1083-1088, 1140-1141), where the comments
  promise it Ok(false) (170-175, 250-254) or speak of a rare overflow (815-818,
  1033-1043), so that `HonestBackPressure` claims nothing of it: 64 messages fill the queue before they
  come to the threshold of 4 MiB, unless each has 64 KiB;
* configuration: a `log_dir` given on the command line reaches no child whose
  file has none (`main.rs:1003-1013` speaks of a default that `cli.rs:154` does
  not have); two variants may come out with one name; a variant with a
  `log_dir` of its own logs outside the folder resume scans; the folder prefix
  `run-` also matches folders of a run called `run-...`; a key written with
  dashes in the file beats an override written with underscores. `Sound` in
  `Jobs` has the first three as preconditions;
* recording: `uniform_partition` keeps the trailing empty buckets its comment
  says are dropped (the callers skip them); a writer that finds the table of
  peers full is fatal in the driver and only warned about in a reader thread;
  rows of a reader thread that was abandoned count until the file is written;
  a reader thread's rows are not in the progress line; `stream_compact_to_parquet`
  relies on rows in the order of time (`parse_compact.py:1070-1074`), but a write
  carries the time before `try_publish` and comes after what a reader thread
  recorded meanwhile;
* report: a pair without any delivery has no row, and a child that the watchdog
  or a crash has ended no warning, against `incomplete_warnings.py:8-13`; at QoS
  1 and 2 duplicates make up for losses in the counts; a Parquet file that an
  earlier launch has left is joined with the other machine's new one; the rows
  `gap_*`, `eot_received` and `eot_timeout` that several columns are about are
  written by no code;
* addresses: in Single mode zenohd listens on 127.0.0.1 only (`zenoh.rs:923`), but
  its peers on other machines dial its LAN address (941), so daemons of different
  machines never connect (excepted by name in `AddressesLead`); its port is an
  unchecked sum (922, 937), and so is the UDP port of a runner
  (`protocol.rs:235`): beyond 65535 they panic in a debug build and wrap in a
  release; of the runner's TCP services only the runner whose own port is beyond
  it fails, while its peers pass over it or wait out their time;
* cache: the stamp of a source is taken after it was read (fault "gap"), a file
  that is copied in with its old time passes for unchanged ("older"), and a
  sidecar that outlives its shard vouches for the next one ("wipe").

## 6. What is left out

* The parsing of TOML and of command lines, log lines as text, figures of
  latency, tables and plots: arithmetic and layout.
* What the libraries do inside: quinn, webrtc-rs, zenoh and its daemon appear by
  the assumptions at the head of their modules.
* Time, outside `RunnerSetup` and `ChildMonitor`: deadlines may pass at any
  moment they are looked at.
* The control frames of older versions in hybrid's UDP path; the time limits of
  websocket's set-up.
* Failing deletions and other I/O errors on the runners' disks; a child that
  survives its killed runner; an operator who starts one runner afresh in the
  middle of another's discovery.
* The UDP barriers, which no path of `main` reaches; the 30 s recovery loop of
  discovery, which is never entered.
* The ends of custom-udp's threads and its end-of-test datagrams; a child that
  closes its stdout and lives on.
* Kinds of rows that no code records.

## 7. Plan

Done: the modules of section 2 and the proofs of section 4. What would come
next:

1. *Proofs*: the types of `RunnerSetup`, and what its connections are without the
   program's times.
2. *Groups of three* in webrtc.
