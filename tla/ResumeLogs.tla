----------------------------- MODULE ResumeLogs ------------------------------
(***************************************************************************)
(* What is on the disks and what a resumed run makes of it: the local      *)
(* inventory, the pairwise manifest exchange, the intersection and the     *)
(* clean-up (resume.rs, exchange_resume_manifest in protocol.rs), the job  *)
(* loop that skips what is complete (main.rs), and the two files a variant *)
(* child leaves behind, its JSONL log and, written last, its compact       *)
(* Parquet file (variant-base/src/driver.rs).                              *)
(*                                                                         *)
(* The first launch of every runner is a fresh run.  Later ones resume it, *)
(* after a barrier timeout (the wrapper) or a kill (the operator), and get *)
(* past discovery when all runners have been launched with --resume (see   *)
(* Discovery, NoMixedRun).  The barriers are those of Lockstep: a runner   *)
(* passes one when every peer process it is connected to has entered it.   *)
(*                                                                         *)
(* A definition under the heading "Wrong on purpose" is the next one with  *)
(* a plausible bug; nothing uses it.                                       *)
(***************************************************************************)
EXTENDS Naturals, FiniteSets

CONSTANTS
    Machines,       \* bench_config.runners: each has a disk of its own
    Rank,           \* the alphabetical place of a runner's name
    NumJobs,        \* length of all_jobs; effective names are distinct here
    LogFaults,      \* subset of {"stop", "link", "child", "digest"}
    MaxLaunches     \* bound: launches of each runner

Jobs == 1..NumJobs
Launches == 1..MaxLaunches
Kinds == {"Ready", "Done"}
NoAttempt == 0

ASSUME RankAssumption ==
    /\ Rank \in [Machines -> Nat]
    /\ \A r, p \in Machines : Rank[r] = Rank[p] => r = p
ASSUME BoundAssumption == NumJobs \in Nat /\ MaxLaunches \in Nat \ {0}

VARIABLES
    launch,     \* which launch of the runner this is; the first one is fresh
    stage,      \* "scan", "exchange", "cleanup", "connect", "next", "ready",
                \* "spawn", "ran", "done", or how the process ended
    pending,    \* accept_pending and connect_pending: manifests still missing
    got,        \* got[r][p]: the manifest of p that r has, its own included
    skip,       \* skip_set
    job,        \* index of the job the loop is at
    peer,       \* peer[r][p]: the launch of p that r is connected to, or 0
    entered,    \* barriers entered so far, with the launch (history)
    log,        \* the JSONL files: state, and the launch that wrote it
    parquet     \* the launch that wrote the Parquet file, NoAttempt: no valid one

logsVars == <<launch, stage, pending, got, skip, job, peer, entered, log, parquet>>

NoLog == [state |-> "none", by |-> NoAttempt]
Logs == [state : {"none", "empty", "partial", "marked"}, by : {NoAttempt} \union Launches]
Barriers == [launch : Launches, job : Jobs, kind : Kinds]
Ends == {"finished", "stopped"}
InLoop == {"next", "ready", "spawn", "ran", "done"}

(* What the variables range over; a launch number never passes MaxLaunches. *)
LogsTypeOK ==
    /\ launch \in [Machines -> Launches]
    /\ stage \in [Machines -> {"scan", "exchange", "cleanup", "connect"}
                               \union InLoop \union Ends]
    /\ got \in [Machines -> [Machines -> SUBSET Jobs]]
    /\ pending \in [Machines -> SUBSET Machines]
    /\ skip \in [Machines -> SUBSET Jobs]
    /\ job \in [Machines -> 1..NumJobs + 1]
    /\ peer \in [Machines -> [Machines -> {NoAttempt} \union Launches]]
    /\ entered \in [Machines -> SUBSET Barriers]
    /\ log \in [Machines -> [Jobs -> Logs]]
    /\ parquet \in [Machines -> [Jobs -> {NoAttempt} \union Launches]]

NoManifest == [p \in Machines |-> {}]
NoPeer == [p \in Machines |-> NoAttempt]

LogsInit ==
    /\ launch = [r \in Machines |-> 1]
    /\ stage = [r \in Machines |-> "connect"]
    /\ pending = [r \in Machines |-> {}]
    /\ got = [r \in Machines |-> NoManifest]
    /\ skip = [r \in Machines |-> {}]
    /\ job = [r \in Machines |-> 1]
    /\ peer = [r \in Machines |-> NoPeer]
    /\ entered = [r \in Machines |-> {}]
    /\ log = [r \in Machines |-> [j \in Jobs |-> NoLog]]
    /\ parquet = [r \in Machines |-> [j \in Jobs |-> NoAttempt]]

-----------------------------------------------------------------------------
(* Phase 1.25.                                                             *)

\* The process ends, of itself (exit 75, a barrier that timed out) or killed,
\* and its memory goes with it.  Barriers that a connected peer may still have
\* in its buffers, and no others, are remembered.
End(r, how) ==
    /\ stage' = [stage EXCEPT ![r] = how]
    /\ pending' = [pending EXCEPT ![r] = {}]
    /\ got' = [got EXCEPT ![r] = NoManifest]
    /\ skip' = [skip EXCEPT ![r] = {}]
    /\ job' = [job EXCEPT ![r] = 1]
    /\ peer' = [peer EXCEPT ![r] = NoPeer]
    /\ entered' = [p \in Machines |->
                     {b \in entered[p] : \E q \in Machines : peer'[q][p] = b.launch}]

Stop(r) ==
    /\ "stop" \in LogFaults
    /\ stage[r] \notin Ends
    /\ End(r, "stopped")
    /\ UNCHANGED <<launch, log, parquet>>

LaunchAgain(r) ==
    /\ stage[r] = "stopped"
    /\ launch[r] < MaxLaunches
    /\ launch' = [launch EXCEPT ![r] = @ + 1]
    /\ stage' = [stage EXCEPT ![r] = "scan"]
    /\ UNCHANGED <<pending, got, skip, job, peer, entered, log, parquet>>

\* file_contains_completion_marker: anywhere in the file.
Complete(r) == {j \in Jobs : log[r][j].state = "marked"}

\* compute_local_manifest deletes empty logs and logs without a marker.
ScannedLogs(r) ==
    [j \in Jobs |-> IF j \in Complete(r) THEN log[r][j] ELSE NoLog]

Scan(r) ==
    /\ stage[r] = "scan"
    /\ \A p \in Machines : launch[p] > 1
    /\ log' = [log EXCEPT ![r] = ScannedLogs(r)]
    /\ got' = [got EXCEPT ![r][r] = Complete(r)]
    /\ pending' = [pending EXCEPT ![r] = Machines \ {r}]
    /\ stage' = [stage EXCEPT ![r] = "exchange"]
    /\ UNCHANGED <<launch, skip, job, peer, entered, parquet>>

\* The lower name accepts, as long as it misses any manifest it accepts.
Accepting(a) == \E p \in pending[a] : Rank[a] < Rank[p]

\* One connection carries both manifests, the connecting side's first; the
\* answer may be lost, and then only the accepting side is served.
Exchange(a, c) ==
    /\ Rank[a] < Rank[c]
    /\ stage[a] = "exchange" /\ stage[c] = "exchange"
    /\ a \in pending[c]
    /\ Accepting(a)
    /\ \E answered \in IF "link" \in LogFaults THEN BOOLEAN ELSE {TRUE} :
        /\ got' = [got EXCEPT
                     ![a][c] = IF c \in pending[a] THEN got[c][c] ELSE @,
                     ![c][a] = IF answered THEN got[a][a] ELSE @]
        /\ pending' = [pending EXCEPT
                         ![a] = @ \ {c},
                         ![c] = IF answered THEN @ \ {a} ELSE @]
    /\ UNCHANGED <<launch, stage, skip, job, peer, entered, log, parquet>>

\* Wrong on purpose: the union.
UnionOf(m) == {j \in Jobs : \E p \in Machines : j \in m[p]}

\* intersect_complete_jobs
Intersection(m) == {j \in Jobs : \A p \in Machines : j \in m[p]}

\* Wrong on purpose: does not wait for the manifests.
EndExchangeEarly(r) ==
    /\ stage[r] = "exchange"
    /\ skip' = [skip EXCEPT ![r] = Intersection(got[r])]
    /\ stage' = [stage EXCEPT ![r] = "cleanup"]
    /\ pending' = [pending EXCEPT ![r] = {}]
    /\ got' = [got EXCEPT ![r] = NoManifest]
    /\ UNCHANGED <<launch, job, peer, entered, log, parquet>>

EndExchange(r) ==
    /\ stage[r] = "exchange"
    /\ pending[r] = {}
    /\ skip' = [skip EXCEPT ![r] = Intersection(got[r])]
    /\ stage' = [stage EXCEPT ![r] = "cleanup"]
    /\ pending' = [pending EXCEPT ![r] = {}]
    /\ got' = [got EXCEPT ![r] = NoManifest]
    /\ UNCHANGED <<launch, job, peer, entered, log, parquet>>

Deleted(r, D) == [log EXCEPT ![r] = [j \in Jobs |-> IF j \in D THEN NoLog ELSE @[j]]]

\* Wrong on purpose: deletes the logs that are to be kept as well.
CleanUpAll(r) ==
    /\ stage[r] = "cleanup"
    /\ log' = Deleted(r, Jobs)
    /\ stage' = [stage EXCEPT ![r] = "connect"]
    /\ UNCHANGED <<launch, pending, got, skip, job, peer, entered, parquet>>

\* cleanup_incomplete_logs, to its end or until the process is killed.  It
\* deletes JSONL files only.
CleanUp(r) ==
    /\ stage[r] = "cleanup"
    /\ log' = Deleted(r, Jobs \ skip[r])
    /\ stage' = [stage EXCEPT ![r] = "connect"]
    /\ UNCHANGED <<launch, pending, got, skip, job, peer, entered, parquet>>

CleanUpCutShort(r) ==
    /\ "stop" \in LogFaults
    /\ stage[r] = "cleanup"
    /\ \E n \in 1..NumJobs : log' = Deleted(r, (1..n) \ skip[r])
    /\ End(r, "stopped")
    /\ UNCHANGED <<launch, parquet>>

\* The barrier connection of a pair comes up while both are setting theirs up.
Connect(r, p) ==
    /\ Rank[r] < Rank[p]
    /\ stage[r] = "connect" /\ stage[p] = "connect"
    /\ peer[r][p] # launch[p] \/ peer[p][r] # launch[r]
    /\ peer' = [peer EXCEPT ![r][p] = launch[p], ![p][r] = launch[r]]
    /\ UNCHANGED <<launch, stage, pending, got, skip, job, entered, log, parquet>>

\* All connected, or the start-up budget is spent.
StartLoop(r) ==
    /\ stage[r] = "connect"
    /\ \/ \A p \in Machines \ {r} : peer[r][p] # NoAttempt
       \/ "link" \in LogFaults
    /\ stage' = [stage EXCEPT ![r] = "next"]
    /\ UNCHANGED <<launch, pending, got, skip, job, peer, entered, log, parquet>>

-----------------------------------------------------------------------------
(* Phase 2, with the barriers as Lockstep has them.                        *)

Barrier(r, kind) == [launch |-> launch[r], job |-> job[r], kind |-> kind]

Heard(r, p, kind) ==
    p = r \/ [launch |-> peer[r][p], job |-> job[r], kind |-> kind] \in entered[p]

SkipJob(r) ==
    /\ stage[r] = "next"
    /\ job[r] \in skip[r]
    /\ job' = [job EXCEPT ![r] = @ + 1]
    /\ UNCHANGED <<launch, stage, pending, got, skip, peer, entered, log, parquet>>

EnterReady(r) ==
    /\ stage[r] = "next"
    /\ job[r] \in Jobs \ skip[r]
    /\ stage' = [stage EXCEPT ![r] = "ready"]
    /\ entered' = [entered EXCEPT ![r] = @ \union {Barrier(r, "Ready")}]
    /\ UNCHANGED <<launch, pending, got, skip, job, peer, log, parquet>>

LeaveReady(r) ==
    /\ stage[r] = "ready"
    /\ \A p \in Machines : Heard(r, p, "Ready")
    /\ stage' = [stage EXCEPT ![r] = "spawn"]
    /\ UNCHANGED <<launch, pending, got, skip, job, peer, entered, log, parquet>>

\* What a child leaves behind.  It creates its log, which is buffered, and
\* after the silent phase truncates and writes the Parquet file; then it
\* flushes the log.  One that ends with an error flushes the log on its way
\* out, one that is killed does not.  So either file can be there without the
\* other, and a Parquet file cut short is as good as none.
ChildLogs(r) ==
    {[state |-> "marked", by |-> launch[r]]} \union
    (IF "child" \in LogFaults
     THEN {NoLog} \union {[state |-> s, by |-> launch[r]] : s \in {"empty", "partial"}}
     ELSE {})

ChildParquets(r, l) ==
    IF l = NoLog THEN {parquet[r][job[r]]}
    ELSE {launch[r]} \union
         (IF "digest" \in LogFaults THEN {parquet[r][job[r]], NoAttempt} ELSE {})

RunChild(r) ==
    /\ stage[r] = "spawn"
    /\ \E l \in ChildLogs(r) : \E q \in ChildParquets(r, l) :
        /\ log' = [log EXCEPT ![r][job[r]] = l]
        /\ parquet' = [parquet EXCEPT ![r][job[r]] = q]
    /\ stage' = [stage EXCEPT ![r] = "ran"]
    /\ UNCHANGED <<launch, pending, got, skip, job, peer, entered>>

EnterDone(r) ==
    /\ stage[r] = "ran"
    /\ stage' = [stage EXCEPT ![r] = "done"]
    /\ entered' = [entered EXCEPT ![r] = @ \union {Barrier(r, "Done")}]
    /\ UNCHANGED <<launch, pending, got, skip, job, peer, log, parquet>>

LeaveDone(r) ==
    /\ stage[r] = "done"
    /\ \A p \in Machines : Heard(r, p, "Done")
    /\ stage' = [stage EXCEPT ![r] = "next"]
    /\ job' = [job EXCEPT ![r] = @ + 1]
    /\ UNCHANGED <<launch, pending, got, skip, peer, entered, log, parquet>>

FinishRun(r) ==
    /\ stage[r] = "next"
    /\ job[r] = NumJobs + 1
    /\ End(r, "finished")
    /\ UNCHANGED <<launch, log, parquet>>

LogsNext ==
    \E r \in Machines :
        \/ LaunchAgain(r) \/ Scan(r) \/ EndExchange(r) \/ CleanUp(r) \/ StartLoop(r)
        \/ SkipJob(r) \/ EnterReady(r) \/ LeaveReady(r) \/ RunChild(r) \/ EnterDone(r)
        \/ LeaveDone(r) \/ CleanUpCutShort(r) \/ FinishRun(r) \/ Stop(r)
        \/ \E p \in Machines : Exchange(r, p) \/ Connect(r, p)

LogsSpec == LogsInit /\ [][LogsNext]_logsVars

-----------------------------------------------------------------------------

Connected(r, p) == peer[r][p] = launch[p] /\ peer[p][r] = launch[r]

(* Two runners that work through the job list together skip the same jobs,
   although each has computed its skip set from manifests of its own
   exchanges, over which processes may have come and gone. *)
SkipSetsAgree ==
    \A r, p \in Machines :
        stage[r] \in InLoop /\ stage[p] \in InLoop /\ Connected(r, p) => skip[r] = skip[p]

(* A job that some runner skips is complete on the disks of all of them. *)
SkippedIsCompleteEverywhere ==
    \A r, p \in Machines :
        stage[r] \in InLoop => skip[r] \subseteq Complete(p)

(* A job whose logs are complete on all runners is never run again and its
   logs are never deleted. *)
Finished(j) == \A p \in Machines : j \in Complete(p)
FinishedIsKept ==
    [][\A j \in Jobs : Finished(j) => \A r \in Machines : log'[r][j] = log[r][j]]_log

(* A job that is skipped has the whole output of one attempt on every runner:
   its log and, of the same launch, its Parquet file. *)
SkippedIsWhole ==
    \A r, p \in Machines :
        stage[r] \in InLoop =>
            \A j \in skip[r] : parquet[p][j] = log[p][j].by
=============================================================================
