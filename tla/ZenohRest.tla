------------------------------ MODULE ZenohRest ------------------------------
(***************************************************************************)
(* The zenoh variant in Single mode (variants/zenoh/src: connect_single in *)
(* zenoh.rs, rest_client.rs, sidecar.rs).  Each node starts a zenohd of    *)
(* its own and talks HTTP to it: the driver publishes with a blocking PUT  *)
(* that is tried twice, and a reader thread reads the samples as           *)
(* server-sent events, line by line, and writes them to the log.  One node *)
(* publishes here and the other one reads; that a node also reads its own  *)
(* samples and throws them away is in Zenoh.                               *)
(*                                                                         *)
(* zenohd is not in the repository.  What is assumed of it: it answers on  *)
(* its port once it is ready; it hands a sample it has taken to those who  *)
(* read at the other zenohd, in order, as an event of three lines that may *)
(* arrive in pieces (a cut in the first or the last line changes nothing). *)
(* A request that was given up may still be taken, once.  A zenohd whose   *)
(* parent was killed is killed by the operating system (the death signal   *)
(* of Linux, the job object of Windows).                                   *)
(*                                                                         *)
(* A definition under the heading "Wrong on purpose" is the next one with  *)
(* a plausible bug; nothing uses it.                                       *)
(***************************************************************************)
EXTENDS Integers, Sequences, FiniteSets, SequencesExt, Selection

CONSTANTS
    RestSpawns,    \* the spawns of interest: [samples, slowPuts, slowStream, dies]
    MaxSamples     \* bound: samples of a spawn

Hosts == {1, 2}
PutHost == 1       \* the node that publishes
SseHost == 2       \* the node that reads

ASSUME RestSpawnsAssumption ==
    \A s \in RestSpawns :
        /\ s.samples \in 1..MaxSamples
        /\ {s.slowPuts, s.slowStream, s.dies} \subseteq BOOLEAN
ASSUME MaxSamplesAssumption == MaxSamples \in Nat \ {0}

VARIABLES
    rest,        \* how many samples, whether PUTs and the stream may stall, whether a
                 \* zenohd may die or a node be killed
    restStage,   \* restStage[n]: how far the process is
    zenohd,      \* zenohd[n]: the sidecar
    requested,       \* the sample the PUT is about, or 0
    attempt,     \* the attempt it is at
    served,      \* zenohd has taken the sample in this attempt
    givenUp,     \* a sample whose first PUT was given up and may still be taken, or 0
    confirmed,   \* samples for which publish has returned Ok
    taken,       \* samples zenohd has taken, in this order (history); the k-th is event k
    sse,         \* the reader thread
    due,         \* events for the stream of the reader (history)
    owed,        \* lines zenohd has yet to write
    incoming,    \* pieces of lines that have arrived
    current,     \* SseParser: the events in current_data, and has_content
    log,         \* events the reader has recorded
    spoilt       \* events that were lost (history)

putState == <<requested, attempt, served, givenUp, confirmed, taken>>
sseVars == <<sse, due, owed, incoming, current, log, spoilt>>
restVars == <<rest, restStage, zenohd, putState, sseVars>>

Samples == 1..MaxSamples
Events == 1..2 * MaxSamples
Pieces == {"event", "data1", "data2", "blank"} \X Events
NoEvent == [data |-> <<>>, content |-> FALSE]

ZenohRestTypeOK ==
    /\ rest \in RestSpawns
    /\ restStage \in [Hosts -> {"down", "launching", "operate", "silent", "stopping", "left",
                                "failed"}]
    /\ zenohd \in [Hosts -> {"none", "starting", "ready"}]
    /\ {requested, givenUp} \subseteq 0..MaxSamples /\ attempt \in 0..2
    /\ served \in BOOLEAN /\ confirmed \subseteq Samples
    /\ taken \in Seq(Samples) /\ Len(taken) <= 2 * MaxSamples
    /\ sse \in {"off", "dialling", "reading"}
    /\ {due, log} \subseteq Seq(Events) /\ {owed, incoming} \subseteq Seq(Pieces)
    /\ current \in [data : Seq(Events), content : BOOLEAN] /\ spoilt \subseteq Events

ZenohRestInit ==
    /\ rest \in RestSpawns
    /\ restStage = [n \in Hosts |-> "down"]
    /\ zenohd = [n \in Hosts |-> "none"]
    /\ requested = 0 /\ attempt = 0 /\ served = FALSE /\ givenUp = 0 /\ confirmed = {} /\ taken = <<>>
    /\ sse = "off" /\ current = NoEvent /\ spoilt = {}
    /\ due = <<>> /\ owed = <<>> /\ incoming = <<>> /\ log = <<>>

-----------------------------------------------------------------------------
(* connect_single: Sidecar::spawn, HttpPublisher::new, SseReader::start.   *)

RestGoes(n, s) == restStage' = [restStage EXCEPT ![n] = s]
ZenohdGoes(n, s) == zenohd' = [zenohd EXCEPT ![n] = s]

LaunchSidecar(n) ==
    /\ restStage[n] = "down"
    /\ RestGoes(n, "launching") /\ ZenohdGoes(n, "starting")
    /\ UNCHANGED <<rest, putState, sseVars>>

\* wait_for_rest_ready has got an answer; the reader thread starts.
RestReady(n) ==
    /\ restStage[n] = "launching"
    /\ RestGoes(n, IF n = PutHost THEN "operate" ELSE "silent") /\ ZenohdGoes(n, "ready")
    /\ sse' = IF n = SseHost THEN "dialling" ELSE sse
    /\ UNCHANGED <<rest, putState, due, owed, incoming, current, log, spoilt>>

\* zenohd has exited, or there was no answer in REST_READY_TIMEOUT: it is killed.
LaunchFails(n) ==
    /\ rest.dies /\ restStage[n] = "launching"
    /\ RestGoes(n, "failed") /\ ZenohdGoes(n, "none")
    /\ UNCHANGED <<rest, putState, sseVars>>

-----------------------------------------------------------------------------
(* HttpPublisher::put.                                                     *)

StartPut ==
    /\ restStage[PutHost] = "operate" /\ requested = 0 /\ Cardinality(confirmed) < rest.samples
    /\ requested' = Cardinality(confirmed) + 1 /\ attempt' = 1 /\ served' = FALSE
    /\ UNCHANGED <<rest, restStage, zenohd, givenUp, confirmed, taken, sseVars>>

EventLines(k) == <<<<"event", k>>, <<"data1", k>>, <<"data2", k>>, <<"blank", k>>>>

\* zenohd takes a sample, and owes it to the reader of the other one.
TakenIn(m) ==
    LET k == Len(taken) + 1 IN
    /\ zenohd[PutHost] = "ready"
    /\ taken' = Append(taken, m)
    /\ IF sse = "reading" /\ zenohd[SseHost] = "ready"
       THEN due' = Append(due, k) /\ owed' = owed \o EventLines(k)
       ELSE UNCHANGED <<due, owed>>

Serve ==
    /\ requested # 0 /\ ~served
    /\ TakenIn(requested)
    /\ served' = TRUE
    /\ UNCHANGED <<rest, restStage, zenohd, requested, attempt, givenUp, confirmed, sse, incoming,
                   current, log, spoilt>>

ServeLate ==
    /\ givenUp # 0
    /\ TakenIn(givenUp)
    /\ givenUp' = 0
    /\ UNCHANGED <<rest, restStage, zenohd, requested, attempt, served, confirmed, sse, incoming,
                   current, log, spoilt>>

PutAnswered ==
    /\ requested # 0 /\ served
    /\ confirmed' = confirmed \union {requested} /\ requested' = 0
    /\ UNCHANGED <<rest, restStage, zenohd, attempt, served, givenUp, taken, sseVars>>

\* The connection was refused or reset, or the answer came too late.
AttemptFails ==
    /\ requested # 0 /\ attempt = 1 /\ (rest.slowPuts \/ zenohd[PutHost] # "ready")
    /\ attempt' = 2 /\ served' = FALSE
    /\ givenUp' \in IF served THEN {givenUp} ELSE {givenUp, requested}
    /\ UNCHANGED <<rest, restStage, zenohd, requested, confirmed, taken, sseVars>>

\* Wrong on purpose: the second failure is forgotten as well.
GoesOn == confirmed' = confirmed \union {requested} /\ UNCHANGED <<restStage, zenohd>>

\* publish fails, which ends the run of the variant; Drop stops the sidecar.
GivesUp ==
    RestGoes(PutHost, "failed") /\ ZenohdGoes(PutHost, "none") /\ UNCHANGED confirmed

PutFails ==
    /\ requested # 0 /\ attempt = 2 /\ (rest.slowPuts \/ zenohd[PutHost] # "ready")
    /\ GivesUp
    /\ requested' = 0
    /\ UNCHANGED <<rest, attempt, served, givenUp, taken, sseVars>>

-----------------------------------------------------------------------------
(* sse_reader_loop.                                                        *)

\* The request for the stream is answered.
Subscribe ==
    /\ sse = "dialling" /\ zenohd[SseHost] = "ready"
    /\ sse' = "reading"
    /\ UNCHANGED <<rest, restStage, zenohd, putState, due, owed, incoming, current, log, spoilt>>

\* A line, or the first or second half of a data line, arrives.
Arrive ==
    /\ sse = "reading" /\ zenohd[SseHost] = "ready" /\ owed # <<>>
    /\ incoming' = Append(incoming, Head(owed)) /\ owed' = Tail(owed)
    /\ UNCHANGED <<rest, restStage, zenohd, putState, sse, due, current, log, spoilt>>

HalfLine == Len(incoming) = 1 /\ incoming[1][1] = "data1"
LinePieces == IF incoming[1][1] = "data1" THEN 2 ELSE 1

\* Wrong on purpose: the end of an event does not empty current_data.
DataKept == [current EXCEPT !.content = FALSE]

\* std::mem::take.
Emptied == NoEvent

\* feed_line, and what becomes of an event.  One without a data line, or with two,
\* cannot be decoded and is passed over.
ReadLine ==
    /\ sse = "reading" /\ incoming # <<>> /\ ~HalfLine
    /\ LET p == incoming[1][1]
           k == incoming[1][2]
       IN  /\ incoming' = SubSeq(incoming, LinePieces + 1, Len(incoming))
           /\ current' = CASE p = "event" -> [current EXCEPT !.content = TRUE]
                           [] p = "data1" -> [data |-> Append(current.data, k), content |-> TRUE]
                           [] p = "data2" -> current
                           [] p = "blank" -> Emptied
           /\ log' = IF p = "blank" /\ current.content /\ Len(current.data) = 1
                     THEN log \o current.data ELSE log
    /\ UNCHANGED <<rest, restStage, zenohd, putState, sse, due, owed, spoilt>>

\* SSE_READ_TIMEOUT in the middle of a line: what has been read of it is in a
\* String that the next turn of the loop replaces.
ReadTimesOut ==
    /\ rest.slowStream /\ sse = "reading" /\ HalfLine
    /\ incoming' = <<>>
    /\ spoilt' = spoilt \union {incoming[1][2]}
    /\ UNCHANGED <<rest, restStage, zenohd, putState, sse, due, owed, current, log>>

\* Events that have not been read to their end.
Remaining ==
    LET ends == Only(incoming \o owed, {"blank"} \X Events)
    IN  [i \in DOMAIN ends |-> ends[i][2]]

CutOff(s) ==
    /\ sse' = s /\ current' = NoEvent /\ incoming' = <<>> /\ owed' = <<>>
    /\ spoilt' = spoilt \union Range(Remaining)
    /\ UNCHANGED <<due, log>>

\* The end of the stream: the loop calls again.
StreamEnds ==
    /\ sse = "reading" /\ zenohd[SseHost] = "none" /\ restStage[SseHost] = "silent"
    /\ CutOff("dialling")
    /\ UNCHANGED <<rest, restStage, zenohd, putState>>

-----------------------------------------------------------------------------
(* The end: disconnect, and what may come before it.                       *)

EndPuts ==
    /\ restStage[PutHost] = "operate" /\ requested = 0 /\ Cardinality(confirmed) = rest.samples
    /\ RestGoes(PutHost, "silent")
    /\ UNCHANGED <<rest, zenohd, putState, sseVars>>

SetStopFlag(n) ==
    /\ restStage[n] = "silent"
    /\ RestGoes(n, "stopping")
    /\ UNCHANGED <<rest, zenohd, putState, sseVars>>

JoinReader ==
    /\ restStage[SseHost] = "stopping" /\ sse # "off"
    /\ CutOff("off")
    /\ UNCHANGED <<rest, restStage, zenohd, putState>>

StopSidecar(n) ==
    /\ restStage[n] = "stopping" /\ (n = SseHost => sse = "off")
    /\ RestGoes(n, "left") /\ ZenohdGoes(n, "none")
    /\ UNCHANGED <<rest, putState, sseVars>>

ZenohdDies(n) ==
    /\ rest.dies /\ restStage[n] \in {"operate", "silent"} /\ zenohd[n] = "ready"
    /\ ZenohdGoes(n, "none")
    /\ UNCHANGED <<rest, restStage, putState, sseVars>>

\* The runner or the watchdog kills the variant: no destructor runs.
KillVariant(n) ==
    /\ rest.dies /\ restStage[n] \notin {"down", "left", "failed"}
    /\ RestGoes(n, "failed")
    /\ IF n = PutHost
       THEN requested' = 0 /\ UNCHANGED <<attempt, served, givenUp, confirmed, taken, sseVars>>
       ELSE CutOff("off") /\ UNCHANGED putState
    /\ UNCHANGED <<rest, zenohd>>

Reap(n) ==
    /\ restStage[n] = "failed" /\ zenohd[n] # "none"
    /\ ZenohdGoes(n, "none")
    /\ UNCHANGED <<rest, restStage, putState, sseVars>>

-----------------------------------------------------------------------------

ZenohRestNext ==
    \/ StartPut \/ Serve \/ ServeLate \/ PutAnswered \/ AttemptFails \/ PutFails
    \/ Subscribe \/ Arrive \/ ReadLine \/ ReadTimesOut \/ StreamEnds \/ EndPuts \/ JoinReader
    \/ \E n \in Hosts :
        \/ LaunchSidecar(n) \/ RestReady(n) \/ LaunchFails(n) \/ SetStopFlag(n)
        \/ StopSidecar(n) \/ ZenohdDies(n) \/ KillVariant(n) \/ Reap(n)

\* Some thread takes a step as long as one can.
ZenohRestFairness == WF_restVars(ZenohRestNext)

ZenohRestSpec == ZenohRestInit /\ [][ZenohRestNext]_restVars /\ ZenohRestFairness

-----------------------------------------------------------------------------
(* Properties.                                                             *)

Unspoilt(s) == Only(s, Events \ spoilt)

(* What is damaged on the stream stays one event: the log holds the events of the
   stream in order, but for those whose data line a timeout has cut in two or
   that a lost connection took with it; the next event is read whole again
   (rest_client.rs, "one bad sample must not stop the reader loop"). *)
DamageIsLocal ==
    /\ sse # "off" => log \o Unspoilt(Remaining) = Unspoilt(due)
    /\ spoilt # {} => rest.slowStream \/ rest.dies \/ sse = "off"

(* A sample for which publish returned Ok was taken by zenohd, and a sample that
   was taken twice had a PUT that failed before. *)
PutsAreHonest ==
    LET times(m) == Cardinality({k \in DOMAIN taken : taken[k] = m}) IN
    /\ \A m \in confirmed : times(m) > 0
    /\ \A m \in Samples : times(m) <= IF rest.slowPuts THEN 2 ELSE 1

(* Both nodes get through their spawn and no zenohd is left behind, whoever dies. *)
ZenohRestEnded == \A n \in Hosts : restStage[n] \in {"left", "failed"} /\ zenohd[n] = "none"
ZenohRestEnds == <>ZenohRestEnded
=============================================================================
