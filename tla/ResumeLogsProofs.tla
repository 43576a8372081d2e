--------------------------- MODULE ResumeLogsProofs ---------------------------
(***************************************************************************)
(* Proofs about ResumeLogs, for any number of machines, jobs and launches, *)
(* under every fault: the runners of a resumed run skip the same jobs,     *)
(* what they skip is complete on every disk, and what is complete on every *)
(* disk is never run or deleted again.                                     *)
(*                                                                         *)
(* The argument.  A runner that is between its scan and its clean-up       *)
(* answers no barrier, so nobody can run a job with it, and every other    *)
(* disk it has a manifest of only loses logs meanwhile.  A job that is in  *)
(* all the manifests was therefore on all the disks when the first of them *)
(* was taken; and then nobody has a reason to delete it.  So each runner   *)
(* comes to the set of jobs that are finished at the time, whichever       *)
(* processes it has got the manifests from, and two runners that connect   *)
(* come to it at the same time.                                            *)
(***************************************************************************)
EXTENDS ResumeLogs, Integers, TLAPS

Up(r) == stage[r] = "connect" \/ stage[r] \in InLoop

\* r has not run job j in this launch.
NotYet(r, j) == 
    \/ job[r] < j
    \/ job[r] = j /\ stage[r] \in {"connect", "next", "ready", "spawn"}

FinishedJobs == {j \in Jobs : Finished(j)}

\* Where the job loop is, and what is set before it starts.
Places ==
    \A r \in Machines :
        /\ stage[r] \notin InLoop => job[r] = 1
        /\ stage[r] \in {"ready", "spawn", "ran", "done"} => job[r] \in Jobs \ skip[r]
        /\ ~Up(r) => peer[r] = NoPeer
        /\ peer[r][r] = NoAttempt

\* The first launch is everyone's, or nobody's that is under way.
Eras ==
    \A r, p \in Machines :
        launch[p] = 1 => /\ stage[r] \notin {"exchange", "cleanup"}
                         /\ Up(r) => launch[r] = 1

\* A connection is of two launches; the older one may be over.
Connections ==
    \A r, p \in Machines : peer[r][p] # NoAttempt =>
        /\ peer[r][p] <= launch[p]
        /\ peer[r][p] = launch[p] =>
                stage[p] \in Ends \/ (Up(p) /\ peer[p][r] = launch[r])
        /\ peer[r][p] < launch[p] =>
                stage[p] \in {"scan"} \union Ends \/ (stage[p] = "exchange" /\ r \in pending[p])

Entries ==
    \A r \in Machines : \A b \in entered[r] :
        /\ b.launch <= launch[r]
        /\ b.launch = launch[r] /\ stage[r] \notin Ends =>
                \/ b.job < job[r]
                \/ b.job = job[r] /\ stage[r] \in {"ready", "spawn", "ran", "done"}

Spawned ==
    \A r \in Machines : stage[r] = "spawn" =>
        \A p \in Machines : Heard(r, p, "Ready")

\* What a launch has still to run is not there yet.
NothingThere ==
    \A r \in Machines, j \in Jobs :
        Up(r) /\ j \notin skip[r] /\ NotYet(r, j) => j \notin Complete(r)

\* ... and if a peer has run it, everyone has entered it.
OthersWait ==
    \A r, p \in Machines, j \in Jobs :
        peer[r][p] # NoAttempt /\ j \notin skip[r] /\ NotYet(r, j) /\ j \in Complete(p)
            => job[r] = j /\ stage[r] \in {"ready", "spawn"}

Manifests ==
    \A r \in Machines : stage[r] = "exchange" =>
        /\ got[r][r] = Complete(r) /\ r \notin pending[r]
        /\ \A p \in Machines \ pending[r] : Complete(p) \subseteq got[r][p]

\* j is in all manifests r has, and on the disks of those it still waits for.
Shared(r, j) ==
    \A p \in Machines : j \in IF p \in pending[r] THEN Complete(p) ELSE got[r][p]

SharedIsFinished ==
    \A r \in Machines, j \in Jobs : stage[r] = "exchange" /\ Shared(r, j) => Finished(j)

\* A manifest that is out of date is of no consequence.
Outdated ==
    \A r, p, q \in Machines, j \in Jobs :
        /\ stage[r] = "exchange" /\ p \notin pending[r]
        /\ j \in got[r][p] /\ j \notin Complete(p) /\ j \in got[r][r]
        /\ peer[q][p] # NoAttempt /\ peer[q][r] # NoAttempt
        => j \in skip[q]

SkipIsFinished ==
    \A r \in Machines :
        /\ stage[r] = "cleanup" => skip[r] = FinishedJobs
        /\ Up(r) => skip[r] \subseteq FinishedJobs
        /\ launch[r] = 1 => skip[r] = {}

SkipsAgree ==
    \A r, p \in Machines :
        peer[r][p] = launch[p] /\ stage[p] \notin Ends => skip[r] = skip[p]

ResumeInv ==
    /\ LogsTypeOK /\ Places /\ Eras /\ Connections /\ Entries /\ Spawned
    /\ NothingThere /\ OthersWait /\ Manifests /\ SharedIsFinished /\ Outdated
    /\ SkipIsFinished /\ SkipsAgree

-----------------------------------------------------------------------------
(* Lemmas.                                                                 *)

LEMMA JobsType ==
    NumJobs + 1 \notin Jobs /\ \A j \in Jobs : j \in Int
BY BoundAssumption DEF Jobs

LEMMA BarrierType ==
    ASSUME LogsTypeOK, NEW r \in Machines, NEW b \in entered[r]
    PROVE  /\ b \in Barriers /\ b.job \in Jobs /\ b.job \in Int
           /\ b.launch \in Launches /\ b.launch \in Int
<1>1. b \in Barriers
  BY DEF LogsTypeOK
<1>2. b.job \in Jobs /\ b.launch \in Launches
  BY <1>1 DEF Barriers
<1>3. QED
  BY <1>1, <1>2, BoundAssumption DEF Jobs, Launches

LEMMA CompleteIs ==
    ASSUME NEW r \in Machines, NEW j \in Jobs
    PROVE  /\ j \in Complete(r) <=> log[r][j].state = "marked"
           /\ (j \in Complete(r))' <=> log'[r][j].state = "marked"
           /\ Complete(r) \subseteq Jobs /\ Complete(r)' \subseteq Jobs
BY DEF Complete

LEMMA FinishedIs ==
    ASSUME NEW j \in Jobs
    PROVE  /\ Finished(j) <=> \A p \in Machines : log[p][j].state = "marked"
           /\ Finished(j)' <=> \A p \in Machines : log'[p][j].state = "marked"
BY CompleteIs DEF Finished

LEMMA InvInit == LogsInit => ResumeInv
<1> SUFFICES ASSUME LogsInit PROVE ResumeInv
  OBVIOUS
<1>1. LogsTypeOK
  <2>1. 1 \in Launches /\ 1 \in 1..(NumJobs + 1)
    BY BoundAssumption DEF Launches
  <2>2. QED
    BY <2>1 DEF LogsInit, LogsTypeOK, NoManifest, NoPeer, NoLog, Logs, NoAttempt
<1>2. /\ \A r \in Machines : /\ launch[r] = 1 /\ stage[r] = "connect" /\ job[r] = 1
                             /\ skip[r] = {} /\ peer[r] = NoPeer /\ entered[r] = {}
      /\ \A r \in Machines, j \in Jobs : j \notin Complete(r)
  BY DEF LogsInit, Complete, NoLog
<1>3. \A r, p \in Machines : peer[r][p] = NoAttempt
  BY <1>2 DEF NoPeer
<1>4. Places /\ Eras /\ Connections /\ Entries /\ Spawned
  BY <1>2, <1>3 DEF Places, Eras, Connections, Entries, Spawned, InLoop
<1>5. NothingThere /\ OthersWait /\ Manifests /\ SharedIsFinished /\ Outdated
  BY <1>2, <1>3 DEF NothingThere, OthersWait, Manifests, SharedIsFinished, Outdated
<1>6. SkipIsFinished /\ SkipsAgree
  BY <1>2, <1>3 DEF SkipIsFinished, SkipsAgree
<1>7. QED
  BY <1>1, <1>4, <1>5, <1>6 DEF ResumeInv

-----------------------------------------------------------------------------
(* Steps of the job loop that leave the disks alone.                       *)

\* A step of r within its launch, on nothing but its place in the job loop
\* and the barriers it has entered.
LEMMA LoopStepKeeps ==
    ASSUME ResumeInv, NEW r \in Machines, Up(r),
           stage'[r] \in InLoop,
           \A p \in Machines \ {r} : stage'[p] = stage[p] /\ job'[p] = job[p],
           \A j \in Jobs \ skip[r] :
                NotYet(r, j)' =>
                    /\ NotYet(r, j)
                    /\ job[r] = j /\ stage[r] \in {"ready", "spawn"}
                        => job'[r] = j /\ stage'[r] \in {"ready", "spawn"},
           LogsTypeOK', Places', Entries', Spawned',
           UNCHANGED <<launch, pending, got, skip, peer, log, parquet>>
    PROVE  ResumeInv'
<1>1. \A p \in Machines : /\ Complete(p)' = Complete(p)
                          /\ Up(p)' <=> Up(p)
                          /\ stage'[p] \in Ends <=> stage[p] \in Ends
                          /\ \A s \in {"scan", "exchange", "cleanup"} :
                                stage'[p] = s <=> stage[p] = s
  BY DEF Complete, Up, InLoop, Ends
<1>2. FinishedJobs' = FinishedJobs /\ \A j \in Jobs : Finished(j)' <=> Finished(j)
  BY <1>1 DEF FinishedJobs, Finished
<1>3. Eras' /\ Connections'
  BY <1>1 DEF ResumeInv, Eras, Connections
<1>4. NothingThere'
  <2> SUFFICES ASSUME NEW p \in Machines, NEW j \in Jobs,
                      Up(p), j \notin skip[p], NotYet(p, j)'
               PROVE  j \notin Complete(p)
    BY <1>1 DEF NothingThere
  <2>1. NotYet(p, j)
    BY DEF NotYet
  <2>2. QED
    BY <2>1 DEF ResumeInv, NothingThere
<1>5. OthersWait'
  <2> SUFFICES ASSUME NEW p \in Machines, NEW q \in Machines, NEW j \in Jobs,
                      peer[p][q] # NoAttempt, j \notin skip[p], NotYet(p, j)', j \in Complete(q)
               PROVE  job'[p] = j /\ stage'[p] \in {"ready", "spawn"}
    BY <1>1 DEF OthersWait
  <2>1. NotYet(p, j)
    BY DEF NotYet
  <2>2. job[p] = j /\ stage[p] \in {"ready", "spawn"}
    BY <2>1 DEF ResumeInv, OthersWait
  <2>3. QED
    BY <2>2
<1>6. Manifests' /\ SharedIsFinished' /\ Outdated'
  BY <1>1, <1>2 DEF ResumeInv, Manifests, SharedIsFinished, Shared, Outdated
<1>7. SkipIsFinished' /\ SkipsAgree'
  BY <1>1, <1>2 DEF ResumeInv, SkipIsFinished, SkipsAgree
<1>8. QED
  BY <1>3, <1>4, <1>5, <1>6, <1>7 DEF ResumeInv

LEMMA StartLoopKeeps ==
    ASSUME ResumeInv, NEW r \in Machines, StartLoop(r)
    PROVE  ResumeInv'
<1>1. LogsTypeOK /\ Places /\ Entries /\ Spawned
  BY DEF ResumeInv
<1>2. /\ stage[r] = "connect" /\ stage'[r] = "next"
      /\ \A p \in Machines \ {r} : stage'[p] = stage[p]
      /\ UNCHANGED <<launch, pending, got, skip, job, peer, entered, log, parquet>>
  BY <1>1 DEF StartLoop, LogsTypeOK
<1>3. LogsTypeOK'
  BY <1>1 DEF StartLoop, LogsTypeOK, InLoop
<1>4. Places'
  BY <1>1, <1>2 DEF Places, Up, InLoop
<1>5. Entries'
  BY <1>1, <1>2 DEF Entries, Ends
<1>6. Spawned'
  BY <1>1, <1>2 DEF Spawned, Heard
<1>7. QED
  BY <1>2, <1>3, <1>4, <1>5, <1>6, LoopStepKeeps DEF Up, InLoop, NotYet

LEMMA SkipJobKeeps ==
    ASSUME ResumeInv, NEW r \in Machines, SkipJob(r)
    PROVE  ResumeInv'
<1>1. LogsTypeOK /\ Places /\ Entries /\ Spawned
  BY DEF ResumeInv
<1>2. job[r] \in Jobs /\ job[r] \in Int /\ job[r] + 1 \in 1..(NumJobs + 1)
  BY <1>1, BoundAssumption DEF SkipJob, LogsTypeOK, Jobs
<1>3. /\ stage[r] = "next" /\ job[r] \in skip[r]
      /\ job'[r] = job[r] + 1 /\ \A p \in Machines \ {r} : job'[p] = job[p]
      /\ UNCHANGED <<launch, stage, pending, got, skip, peer, entered, log, parquet>>
  BY <1>1 DEF SkipJob, LogsTypeOK
<1>4. LogsTypeOK'
  BY <1>1, <1>2 DEF SkipJob, LogsTypeOK
<1>5. Places'
  BY <1>1, <1>3 DEF Places, Up, InLoop
<1>6. Entries'
  <2> SUFFICES ASSUME NEW p \in Machines, NEW b \in entered[p]
               PROVE  /\ b.launch <= launch[p]
                      /\ b.launch = launch[p] /\ stage[p] \notin Ends =>
                            \/ b.job < job'[p]
                            \/ b.job = job'[p] /\ stage[p] \in {"ready", "spawn", "ran", "done"}
    BY <1>3 DEF Entries
  <2>1. b.job \in Int
    BY <1>1, BarrierType
  <2>2. QED
    BY <1>1, <1>2, <1>3, <2>1 DEF Entries
<1>7. Spawned'
  BY <1>1, <1>3 DEF Spawned, Heard
<1>8. ASSUME NEW j \in Jobs \ skip[r], NotYet(r, j)' PROVE NotYet(r, j)
  BY <1>2, <1>3, <1>8, JobsType DEF NotYet
<1>9. Up(r) /\ stage'[r] \in InLoop /\ stage[r] \notin {"ready", "spawn"}
  BY <1>3 DEF Up, InLoop
<1>10. QED
  BY <1>3, <1>4, <1>5, <1>6, <1>7, <1>8, <1>9, LoopStepKeeps

LEMMA EnterReadyKeeps ==
    ASSUME ResumeInv, NEW r \in Machines, EnterReady(r)
    PROVE  ResumeInv'
<1>1. LogsTypeOK /\ Places /\ Entries /\ Spawned
  BY DEF ResumeInv
<1>2. /\ stage[r] = "next" /\ stage'[r] = "ready" /\ job[r] \in Jobs \ skip[r]
      /\ \A p \in Machines \ {r} : stage'[p] = stage[p] /\ entered'[p] = entered[p]
      /\ entered'[r] = entered[r] \union {Barrier(r, "Ready")}
      /\ UNCHANGED <<launch, pending, got, skip, job, peer, log, parquet>>
  BY <1>1 DEF EnterReady, LogsTypeOK
<1>3. LogsTypeOK'
  <2>1. Barrier(r, "Ready") \in Barriers
    BY <1>1, <1>2 DEF Barrier, Barriers, Kinds, LogsTypeOK
  <2>2. QED
    BY <1>1, <2>1 DEF EnterReady, LogsTypeOK, InLoop
<1>4. Places'
  BY <1>1, <1>2 DEF Places, Up, InLoop
<1>5. Entries'
  <2>1. launch[r] \in Int
    BY <1>1 DEF LogsTypeOK, Launches
  <2>2. QED
    BY <1>1, <1>2, <2>1 DEF Entries, Barrier, Ends
<1>6. Spawned'
  BY <1>1, <1>2 DEF Spawned, Heard
<1>7. QED
  BY <1>2, <1>3, <1>4, <1>5, <1>6, LoopStepKeeps DEF Up, InLoop, NotYet

LEMMA LeaveReadyKeeps ==
    ASSUME ResumeInv, NEW r \in Machines, LeaveReady(r)
    PROVE  ResumeInv'
<1>1. LogsTypeOK /\ Places /\ Entries /\ Spawned
  BY DEF ResumeInv
<1>2. /\ stage[r] = "ready" /\ stage'[r] = "spawn"
      /\ \A p \in Machines \ {r} : stage'[p] = stage[p]
      /\ \A p \in Machines : Heard(r, p, "Ready")
      /\ UNCHANGED <<launch, pending, got, skip, job, peer, entered, log, parquet>>
  BY <1>1 DEF LeaveReady, LogsTypeOK
<1>3. LogsTypeOK'
  BY <1>1 DEF LeaveReady, LogsTypeOK, InLoop
<1>4. Places'
  BY <1>1, <1>2 DEF Places, Up, InLoop
<1>5. Entries'
  BY <1>1, <1>2 DEF Entries, Ends
<1>6. Spawned'
  BY <1>1, <1>2 DEF Spawned, Heard
<1>7. QED
  BY <1>2, <1>3, <1>4, <1>5, <1>6, LoopStepKeeps DEF Up, InLoop, NotYet

LEMMA EnterDoneKeeps ==
    ASSUME ResumeInv, NEW r \in Machines, EnterDone(r)
    PROVE  ResumeInv'
<1>1. LogsTypeOK /\ Places /\ Entries /\ Spawned
  BY DEF ResumeInv
<1>2. /\ stage[r] = "ran" /\ stage'[r] = "done" /\ job[r] \in Jobs \ skip[r]
      /\ \A p \in Machines \ {r} : stage'[p] = stage[p] /\ entered'[p] = entered[p]
      /\ entered'[r] = entered[r] \union {Barrier(r, "Done")}
      /\ UNCHANGED <<launch, pending, got, skip, job, peer, log, parquet>>
  BY <1>1 DEF EnterDone, LogsTypeOK, Places
<1>3. LogsTypeOK'
  <2>1. Barrier(r, "Done") \in Barriers
    BY <1>1, <1>2 DEF Barrier, Barriers, Kinds, LogsTypeOK
  <2>2. QED
    BY <1>1, <2>1 DEF EnterDone, LogsTypeOK, InLoop
<1>4. Places'
  BY <1>1, <1>2 DEF Places, Up, InLoop
<1>5. Entries'
  <2>1. launch[r] \in Int
    BY <1>1 DEF LogsTypeOK, Launches
  <2>2. QED
    BY <1>1, <1>2, <2>1 DEF Entries, Barrier, Ends
<1>6. Spawned'
  BY <1>1, <1>2 DEF Spawned, Heard
<1>7. QED
  BY <1>2, <1>3, <1>4, <1>5, <1>6, LoopStepKeeps DEF Up, InLoop, NotYet

LEMMA LeaveDoneKeeps ==
    ASSUME ResumeInv, NEW r \in Machines, LeaveDone(r)
    PROVE  ResumeInv'
<1>1. LogsTypeOK /\ Places /\ Entries /\ Spawned
  BY DEF ResumeInv
<1>2. job[r] \in Jobs /\ job[r] \in Int /\ job[r] + 1 \in 1..(NumJobs + 1)
  <2>1. job[r] \in Jobs
    BY <1>1 DEF LeaveDone, Places
  <2>2. QED
    BY <2>1, BoundAssumption DEF Jobs
<1>3. /\ stage[r] = "done" /\ stage'[r] = "next" /\ job'[r] = job[r] + 1
      /\ \A p \in Machines \ {r} : stage'[p] = stage[p] /\ job'[p] = job[p]
      /\ UNCHANGED <<launch, pending, got, skip, peer, entered, log, parquet>>
  BY <1>1 DEF LeaveDone, LogsTypeOK
<1>4. LogsTypeOK'
  BY <1>1, <1>2 DEF LeaveDone, LogsTypeOK, InLoop
<1>5. Places'
  BY <1>1, <1>3 DEF Places, Up, InLoop
<1>6. Entries'
  <2> SUFFICES ASSUME NEW p \in Machines, NEW b \in entered[p]
               PROVE  /\ b.launch <= launch[p]
                      /\ b.launch = launch[p] /\ stage'[p] \notin Ends =>
                            \/ b.job < job'[p]
                            \/ b.job = job'[p] /\ stage'[p] \in {"ready", "spawn", "ran", "done"}
    BY <1>3 DEF Entries
  <2>1. b.job \in Int
    BY <1>1, BarrierType
  <2>2. QED
    BY <1>1, <1>2, <1>3, <2>1 DEF Entries, Ends
<1>7. Spawned'
  BY <1>1, <1>3 DEF Spawned, Heard
<1>8. ASSUME NEW j \in Jobs \ skip[r], NotYet(r, j)' PROVE NotYet(r, j)
  BY <1>2, <1>3, <1>8, JobsType DEF NotYet
<1>9. Up(r) /\ stage'[r] \in InLoop /\ stage[r] \notin {"ready", "spawn"}
  BY <1>3 DEF Up, InLoop
<1>10. QED
  BY <1>3, <1>4, <1>5, <1>6, <1>7, <1>8, <1>9, LoopStepKeeps

-----------------------------------------------------------------------------
(* A new launch, its clean-up, and its connections.                        *)

LEMMA LaunchType ==
    ASSUME LogsTypeOK, NEW r \in Machines
    PROVE  /\ launch[r] \in Launches /\ launch[r] \in Int /\ launch[r] >= 1
           /\ launch[r] # NoAttempt
           /\ \A p \in Machines : peer[r][p] \in Int /\ peer[r][p] \in {NoAttempt} \union Launches
BY BoundAssumption DEF LogsTypeOK, Launches, NoAttempt

\* A runner that has no manifest to exchange and no job to run has no peer,
\* and during the clean-up it is no one's peer either.
LEMMA DownHasNoPeer ==
    ASSUME Places, NEW r \in Machines, ~Up(r), NEW p \in Machines
    PROVE  peer[r][p] = NoAttempt
BY DEF Places, NoPeer

LEMMA CleanUpIsAlone ==
    ASSUME LogsTypeOK, Connections, NEW r \in Machines, stage[r] = "cleanup",
           NEW p \in Machines
    PROVE  peer[p][r] = NoAttempt
<1>1. stage[r] \notin Ends /\ ~Up(r) /\ stage[r] \notin {"scan", "exchange"}
  BY DEF Ends, Up, InLoop
<1>2. peer[p][r] \in Int /\ launch[r] \in Int
  BY LaunchType
<1>3. QED
  BY <1>1, <1>2 DEF Connections

LEMMA LaunchAgainKeeps ==
    ASSUME ResumeInv, NEW r \in Machines, LaunchAgain(r)
    PROVE  ResumeInv'
<1>1. /\ LogsTypeOK /\ Places /\ Eras /\ Connections /\ Entries /\ Spawned
      /\ NothingThere /\ OthersWait /\ Manifests /\ SharedIsFinished /\ Outdated
      /\ SkipIsFinished /\ SkipsAgree
  BY DEF ResumeInv
<1>2. /\ stage[r] = "stopped" /\ stage'[r] = "scan" /\ launch'[r] = launch[r] + 1
      /\ launch[r] < MaxLaunches
      /\ \A p \in Machines \ {r} : stage'[p] = stage[p] /\ launch'[p] = launch[p]
      /\ UNCHANGED <<pending, got, skip, job, peer, entered, log, parquet>>
  BY <1>1 DEF LaunchAgain, LogsTypeOK
<1>3. \A p \in Machines : launch[p] \in Int /\ launch[p] >= 1
  BY <1>1, LaunchType
<1>4. launch'[r] > launch[r] /\ launch'[r] # 1 /\ launch'[r] \in Launches
  BY <1>2, <1>3, BoundAssumption DEF Launches
<1>5. /\ ~Up(r) /\ ~Up(r)' /\ stage[r] \notin InLoop /\ stage'[r] \notin InLoop
      /\ stage'[r] \notin Ends
      /\ \A p \in Machines \ {r} : Up(p)' <=> Up(p)
      /\ \A p \in Machines : /\ peer[r][p] = NoAttempt
                             /\ Complete(p)' = Complete(p)
  BY <1>1, <1>2, DownHasNoPeer DEF Up, InLoop, Ends, Complete
<1>6. FinishedJobs' = FinishedJobs /\ \A j \in Jobs : Finished(j)' <=> Finished(j)
  BY <1>5 DEF FinishedJobs, Finished
<1>7. LogsTypeOK'
  BY <1>1, <1>4 DEF LaunchAgain, LogsTypeOK
<1>8. Places'
  BY <1>1, <1>2, <1>5 DEF Places, InLoop
<1>9. Eras'
  BY <1>1, <1>2, <1>4, <1>5 DEF Eras
<1>10. Connections'
  <2> SUFFICES ASSUME NEW q \in Machines, NEW p \in Machines, peer[q][p] # NoAttempt
               PROVE  /\ peer[q][p] <= launch'[p]
                      /\ peer[q][p] = launch'[p] =>
                            stage'[p] \in Ends \/ (Up(p)' /\ peer[p][q] = launch'[q])
                      /\ peer[q][p] < launch'[p] =>
                            stage'[p] \in {"scan"} \union Ends
                            \/ (stage'[p] = "exchange" /\ q \in pending[p])
    BY <1>2 DEF Connections
  <2>1. q # r /\ peer[q][p] \in Int
    BY <1>1, <1>5, LaunchType
  <2>2. CASE p = r
    <3>1. peer[q][r] <= launch[r]
      BY <1>1, <2>2 DEF Connections
    <3>2. QED
      BY <1>2, <1>3, <2>1, <2>2, <3>1
  <2>3. CASE p # r
    BY <1>1, <1>2, <1>5, <2>1, <2>3 DEF Connections
  <2>4. QED
    BY <2>2, <2>3
<1>11. Entries'
  <2> SUFFICES ASSUME NEW p \in Machines, NEW b \in entered[p]
               PROVE  /\ b.launch <= launch'[p]
                      /\ b.launch = launch'[p] /\ stage'[p] \notin Ends =>
                            \/ b.job < job[p]
                            \/ b.job = job[p] /\ stage'[p] \in {"ready", "spawn", "ran", "done"}
    BY <1>2 DEF Entries
  <2>1. b.launch \in Int /\ b.launch <= launch[p]
    BY <1>1, BarrierType DEF Entries
  <2>2. QED
    BY <1>1, <1>2, <1>3, <2>1 DEF Entries
<1>12. Spawned'
  BY <1>1, <1>2 DEF Spawned, Heard
<1>13. NothingThere'
  BY <1>1, <1>2, <1>5 DEF NothingThere, NotYet
<1>14. OthersWait'
  BY <1>1, <1>2, <1>5 DEF OthersWait, NotYet
<1>15. Manifests' /\ SharedIsFinished' /\ Outdated'
  BY <1>1, <1>2, <1>5, <1>6 DEF Manifests, SharedIsFinished, Shared, Outdated
<1>16. SkipIsFinished'
  BY <1>1, <1>2, <1>4, <1>5, <1>6 DEF SkipIsFinished
<1>17. SkipsAgree'
  <2> SUFFICES ASSUME NEW q \in Machines, NEW p \in Machines,
                      peer[q][p] = launch'[p], stage'[p] \notin Ends
               PROVE  skip[q] = skip[p]
    BY <1>2 DEF SkipsAgree
  <2>1. p # r
    <3>1. peer[q][r] # NoAttempt => peer[q][r] <= launch[r]
      BY <1>1 DEF Connections
    <3>2. QED
      BY <1>2, <1>3, <1>4, <3>1 DEF NoAttempt
  <2>2. QED
    BY <1>1, <1>2, <2>1 DEF SkipsAgree
<1>18. QED
  BY <1>7, <1>8, <1>9, <1>10, <1>11, <1>12, <1>13, <1>14, <1>15, <1>16, <1>17 DEF ResumeInv

LEMMA CleanUpKeeps ==
    ASSUME ResumeInv, NEW r \in Machines, CleanUp(r)
    PROVE  ResumeInv' /\ \A j \in FinishedJobs : log'[r][j] = log[r][j]
<1>1. /\ LogsTypeOK /\ Places /\ Eras /\ Connections /\ Entries /\ Spawned
      /\ NothingThere /\ OthersWait /\ Manifests /\ SharedIsFinished /\ Outdated
      /\ SkipIsFinished /\ SkipsAgree
  BY DEF ResumeInv
<1>2. /\ stage[r] = "cleanup" /\ stage'[r] = "connect"
      /\ \A p \in Machines \ {r} : stage'[p] = stage[p] /\ log'[p] = log[p]
      /\ log'[r] = [j \in Jobs |-> IF j \in Jobs \ skip[r] THEN NoLog ELSE log[r][j]]
      /\ UNCHANGED <<launch, pending, got, skip, job, peer, entered, parquet>>
  BY <1>1 DEF CleanUp, LogsTypeOK, Deleted
<1>3. skip[r] = FinishedJobs
  BY <1>1, <1>2 DEF SkipIsFinished
<1>4. \A j \in FinishedJobs : log'[r][j] = log[r][j]
  BY <1>2, <1>3 DEF FinishedJobs
<1>5. \A p \in Machines \ {r} : Complete(p)' = Complete(p)
  BY <1>2 DEF Complete
<1>6. Complete(r)' = FinishedJobs
  <2>1. ASSUME NEW j \in Jobs PROVE j \in Complete(r)' <=> j \in FinishedJobs
    <3>1. CASE j \in FinishedJobs
      BY <1>4, <3>1, CompleteIs, FinishedIs DEF FinishedJobs
    <3>2. CASE j \notin FinishedJobs
      BY <1>2, <1>3, <3>2, CompleteIs DEF NoLog
    <3>3. QED
      BY <3>1, <3>2
  <2>2. QED
    BY <2>1 DEF Complete, FinishedJobs
<1>7. \A p \in Machines : Complete(p)' \subseteq Complete(p)
  BY <1>5, <1>6 DEF FinishedJobs, Finished
<1>8. \A j \in Jobs : Finished(j)' <=> Finished(j)
  BY <1>5, <1>6, <1>7 DEF FinishedJobs, Finished
<1>9. FinishedJobs' = FinishedJobs
  BY <1>8 DEF FinishedJobs
<1>10. /\ ~Up(r) /\ Up(r)' /\ stage[r] \notin InLoop /\ stage'[r] \notin InLoop
       /\ stage'[r] \notin Ends /\ stage[r] \notin Ends
       /\ \A p \in Machines \ {r} : Up(p)' <=> Up(p)
       /\ \A p \in Machines : peer[r][p] = NoAttempt /\ peer[p][r] = NoAttempt
  <2>1. ~Up(r)
    BY <1>2 DEF Up, InLoop
  <2>2. QED
    BY <1>1, <1>2, <2>1, DownHasNoPeer, CleanUpIsAlone DEF Up, InLoop, Ends
<1>11. LogsTypeOK'
  <2>1. log'[r] \in [Jobs -> Logs]
    BY <1>1, <1>2 DEF LogsTypeOK, Logs, NoLog
  <2>2. QED
    BY <1>1, <2>1 DEF CleanUp, Deleted, LogsTypeOK
<1>12. Places'
  BY <1>1, <1>2, <1>10 DEF Places
<1>13. Eras'
  BY <1>1, <1>2, <1>10 DEF Eras
<1>14. Connections'
  BY <1>1, <1>2, <1>10 DEF Connections
<1>15. Entries'
  BY <1>1, <1>2, <1>10 DEF Entries
<1>16. Spawned'
  BY <1>1, <1>2 DEF Spawned, Heard
<1>17. NothingThere'
  BY <1>1, <1>2, <1>3, <1>5, <1>6, <1>10 DEF NothingThere, NotYet
<1>18. OthersWait'
  BY <1>1, <1>2, <1>5, <1>10 DEF OthersWait, NotYet
<1>19. Manifests'
  BY <1>1, <1>2, <1>5, <1>7 DEF Manifests
<1>20. SharedIsFinished'
  <2> SUFFICES ASSUME NEW q \in Machines, NEW j \in Jobs, stage'[q] = "exchange", Shared(q, j)'
               PROVE  Finished(j)
    BY <1>8 DEF SharedIsFinished
  <2>1. stage[q] = "exchange" /\ Shared(q, j)
    BY <1>2, <1>7 DEF Shared
  <2>2. QED
    BY <1>1, <2>1 DEF SharedIsFinished
<1>21. Outdated'
  BY <1>1, <1>2, <1>5, <1>10 DEF Outdated
<1>22. SkipIsFinished'
  BY <1>1, <1>2, <1>3, <1>9, <1>10 DEF SkipIsFinished
<1>23. SkipsAgree'
  <2>1. \A p \in Machines : peer[p][r] # launch[r]
    BY <1>1, <1>10, LaunchType
  <2>2. QED
    BY <1>1, <1>2, <1>10, <2>1 DEF SkipsAgree
<1>24. QED
  BY <1>4, <1>11, <1>12, <1>13, <1>14, <1>15, <1>16, <1>17, <1>18, <1>19, <1>20, <1>21,
     <1>22, <1>23 DEF ResumeInv

\* A runner that has cleaned up skips what is finished now, no more, no less.
LEMMA ConnectingIsCurrent ==
    ASSUME ResumeInv, NEW r \in Machines, stage[r] = "connect"
    PROVE  /\ skip[r] = FinishedJobs
           /\ \A j \in Jobs : NotYet(r, j)
<1>1. job[r] = 1 /\ Up(r) /\ skip[r] \subseteq FinishedJobs
  BY DEF ResumeInv, Places, SkipIsFinished, Up, InLoop
<1>2. ASSUME NEW j \in Jobs PROVE NotYet(r, j)
  BY <1>1 DEF NotYet, Jobs
<1>3. ASSUME NEW j \in FinishedJobs, j \notin skip[r] PROVE FALSE
  BY <1>1, <1>2, <1>3 DEF ResumeInv, NothingThere, FinishedJobs, Finished
<1>4. QED
  BY <1>1, <1>2, <1>3

LEMMA ConnectKeeps ==
    ASSUME ResumeInv, NEW r \in Machines, NEW p \in Machines, Connect(r, p)
    PROVE  ResumeInv'
<1>1. /\ LogsTypeOK /\ Places /\ Eras /\ Connections /\ Entries /\ Spawned
      /\ NothingThere /\ OthersWait /\ Manifests /\ SharedIsFinished /\ Outdated
      /\ SkipIsFinished /\ SkipsAgree
  BY DEF ResumeInv
<1>2. r # p /\ stage[r] = "connect" /\ stage[p] = "connect"
  BY RankAssumption DEF Connect
<1>3. /\ \A q, s \in Machines : peer'[q][s] = IF q = r /\ s = p THEN launch[p]
                                              ELSE IF q = p /\ s = r THEN launch[r]
                                              ELSE peer[q][s]
      /\ \A q \in Machines \ {r, p} : peer'[q] = peer[q]
      /\ UNCHANGED <<launch, stage, pending, got, skip, job, entered, log, parquet>>
  <2>1. \A q \in Machines : peer[q] \in [Machines -> {NoAttempt} \union Launches]
    BY <1>1 DEF LogsTypeOK
  <2>2. /\ peer' = [q \in Machines |->
                     IF q = p THEN [peer[p] EXCEPT ![r] = launch[r]]
                     ELSE IF q = r THEN [peer[r] EXCEPT ![p] = launch[p]] ELSE peer[q]]
        /\ UNCHANGED <<launch, stage, pending, got, skip, job, entered, log, parquet>>
    BY <1>1, <1>2 DEF Connect, LogsTypeOK
  <2>3. QED
    BY <1>2, <2>1, <2>2
<1>4. /\ skip[r] = FinishedJobs /\ skip[p] = FinishedJobs
      /\ \A j \in Jobs : NotYet(r, j) /\ NotYet(p, j)
      /\ Up(r) /\ Up(p)
  BY <1>2, ConnectingIsCurrent DEF Up
<1>5. LogsTypeOK'
  BY <1>1, <1>3 DEF Connect, LogsTypeOK
<1>6. Places'
  BY <1>1, <1>2, <1>3, <1>4 DEF Places, Up
<1>7. Eras'
  BY <1>1, <1>3 DEF Eras, Up
<1>8. Connections'
  <2>1. launch[r] \in Int /\ launch[p] \in Int
    BY <1>1, LaunchType
  <2> SUFFICES ASSUME NEW q \in Machines, NEW s \in Machines, peer'[q][s] # NoAttempt
               PROVE  /\ peer'[q][s] <= launch[s]
                      /\ peer'[q][s] = launch[s] =>
                            stage[s] \in Ends \/ (Up(s) /\ peer'[s][q] = launch[q])
                      /\ peer'[q][s] < launch[s] =>
                            stage[s] \in {"scan"} \union Ends
                            \/ (stage[s] = "exchange" /\ q \in pending[s])
    BY <1>3 DEF Connections, Up
  <2>2. CASE (q = r /\ s = p) \/ (q = p /\ s = r)
    BY <1>2, <1>3, <1>4, <2>1, <2>2
  <2>3. CASE ~((q = r /\ s = p) \/ (q = p /\ s = r))
    BY <1>1, <1>3, <2>3 DEF Connections
  <2>4. QED
    BY <2>2, <2>3
<1>9. Entries' /\ NothingThere' /\ Manifests' /\ SharedIsFinished' /\ SkipIsFinished'
  BY <1>1, <1>3 DEF Entries, NothingThere, NotYet, Up, Complete, Manifests, SharedIsFinished,
                    Shared, Finished, SkipIsFinished, FinishedJobs
<1>10. Spawned'
  BY <1>1, <1>2, <1>3 DEF Spawned, Heard
<1>11. OthersWait'
  <2> SUFFICES ASSUME NEW q \in Machines, NEW s \in Machines, NEW j \in Jobs,
                      peer'[q][s] # NoAttempt, j \notin skip[q], NotYet(q, j), j \in Complete(s)
               PROVE  job[q] = j /\ stage[q] \in {"ready", "spawn"}
    BY <1>3 DEF OthersWait, NotYet, Complete
  <2>1. CASE (q = r /\ s = p) \/ (q = p /\ s = r)
    <3>1. j \in skip[s]
      BY <1>1, <1>4, <2>1 DEF NothingThere
    <3>2. QED
      BY <1>4, <2>1, <3>1
  <2>2. CASE ~((q = r /\ s = p) \/ (q = p /\ s = r))
    BY <1>1, <1>3, <2>2 DEF OthersWait
  <2>3. QED
    BY <2>1, <2>2
<1>12. Outdated'
  <2> SUFFICES ASSUME NEW c \in Machines, NEW s \in Machines, NEW q \in Machines, NEW j \in Jobs,
                      stage[c] = "exchange", s \notin pending[c], j \in got[c][s],
                      j \notin Complete(s), j \in got[c][c],
                      peer'[q][s] # NoAttempt, peer'[q][c] # NoAttempt
               PROVE  j \in skip[q]
    BY <1>3 DEF Outdated, Complete
  <2>1. c # r /\ c # p
    BY <1>2
  <2>2. peer[q][c] # NoAttempt
    BY <1>3, <2>1
  <2>3. CASE (q = r /\ s = p) \/ (q = p /\ s = r)
    <3>1. j \in Complete(c)
      BY <1>1 DEF Manifests
    <3>2. NotYet(q, j) /\ stage[q] = "connect"
      BY <1>2, <1>4, <2>3
    <3>3. QED
      BY <1>1, <2>2, <3>1, <3>2 DEF OthersWait
  <2>4. CASE ~((q = r /\ s = p) \/ (q = p /\ s = r))
    BY <1>1, <1>3, <2>2, <2>4 DEF Outdated
  <2>5. QED
    BY <2>3, <2>4
<1>13. SkipsAgree'
  BY <1>1, <1>3, <1>4 DEF SkipsAgree
<1>14. QED
  BY <1>5, <1>6, <1>7, <1>8, <1>9, <1>10, <1>11, <1>12, <1>13 DEF ResumeInv

-----------------------------------------------------------------------------
(* The inventory and the exchange.                                         *)

LEMMA ScanKeeps ==
    ASSUME ResumeInv, NEW r \in Machines, Scan(r)
    PROVE  ResumeInv' /\ \A j \in FinishedJobs : log'[r][j] = log[r][j]
<1>1. /\ LogsTypeOK /\ Places /\ Eras /\ Connections /\ Entries /\ Spawned
      /\ NothingThere /\ OthersWait /\ Manifests /\ SharedIsFinished /\ Outdated
      /\ SkipIsFinished /\ SkipsAgree
  BY DEF ResumeInv
<1>2. /\ stage[r] = "scan" /\ stage'[r] = "exchange"
      /\ \A p \in Machines : launch[p] > 1
      /\ log'[r] = ScannedLogs(r)
      /\ got'[r][r] = Complete(r) /\ pending'[r] = Machines \ {r}
      /\ \A p \in Machines \ {r} : /\ stage'[p] = stage[p] /\ log'[p] = log[p]
                                   /\ got'[p] = got[p] /\ pending'[p] = pending[p]
      /\ UNCHANGED <<launch, skip, job, peer, entered, parquet>>
  BY <1>1 DEF Scan, LogsTypeOK
<1>3. \A p \in Machines : launch[p] # 1
  BY <1>1, <1>2, LaunchType
<1>4. \A j \in Jobs : log'[r][j] = IF j \in Complete(r) THEN log[r][j] ELSE NoLog
  BY <1>2 DEF ScannedLogs
<1>5. \A p \in Machines : Complete(p)' = Complete(p)
  <2>1. ASSUME NEW j \in Jobs PROVE j \in Complete(r)' <=> j \in Complete(r)
    BY <1>4, CompleteIs DEF NoLog
  <2>2. Complete(r)' = Complete(r)
    BY <2>1 DEF Complete
  <2>3. ASSUME NEW p \in Machines \ {r} PROVE Complete(p)' = Complete(p)
    BY <1>2 DEF Complete
  <2>4. QED
    BY <2>2, <2>3
<1>6. \A j \in FinishedJobs : log'[r][j] = log[r][j]
  BY <1>4 DEF FinishedJobs, Finished
<1>7. FinishedJobs' = FinishedJobs /\ \A j \in Jobs : Finished(j)' <=> Finished(j)
  BY <1>5 DEF FinishedJobs, Finished
<1>8. /\ ~Up(r) /\ ~Up(r)' /\ stage'[r] \notin Ends /\ stage[r] \notin Ends
      /\ stage[r] \notin InLoop /\ stage'[r] \notin InLoop
      /\ \A p \in Machines \ {r} : Up(p)' <=> Up(p)
      /\ \A p \in Machines : peer[r][p] = NoAttempt
  BY <1>1, <1>2, DownHasNoPeer DEF Up, InLoop, Ends
<1>9. LogsTypeOK'
  <2>1. log'[r] \in [Jobs -> Logs]
    BY <1>1, <1>2 DEF LogsTypeOK, Logs, NoLog, ScannedLogs
  <2>2. Complete(r) \subseteq Jobs
    BY DEF Complete
  <2>3. log' \in [Machines -> [Jobs -> Logs]]
    BY <1>1, <2>1 DEF Scan, LogsTypeOK
  <2>4. got' \in [Machines -> [Machines -> SUBSET Jobs]]
    BY <1>1, <2>2 DEF Scan, LogsTypeOK
  <2>5. QED
    BY <1>1, <2>3, <2>4 DEF Scan, LogsTypeOK
<1>10. Places'
  BY <1>1, <1>2, <1>8 DEF Places
<1>11. Eras'
  BY <1>2, <1>3 DEF Eras
<1>12. Connections'
  BY <1>1, <1>2, <1>8 DEF Connections
<1>13. Entries'
  BY <1>1, <1>2, <1>8 DEF Entries
<1>14. Spawned'
  BY <1>1, <1>2 DEF Spawned, Heard
<1>15. NothingThere' /\ OthersWait'
  BY <1>1, <1>2, <1>5, <1>8 DEF NothingThere, OthersWait, NotYet
<1>16. Manifests'
  BY <1>1, <1>2, <1>5 DEF Manifests
<1>17. SharedIsFinished'
  <2> SUFFICES ASSUME NEW q \in Machines, NEW j \in Jobs, stage'[q] = "exchange", Shared(q, j)'
               PROVE  Finished(j)
    BY <1>7 DEF SharedIsFinished
  <2>1. CASE q = r
    BY <1>2, <1>5, <2>1 DEF Shared, Finished
  <2>2. CASE q # r
    BY <1>1, <1>2, <1>5, <2>2 DEF Shared, SharedIsFinished
  <2>3. QED
    BY <2>1, <2>2
<1>18. Outdated'
  BY <1>1, <1>2, <1>5 DEF Outdated
<1>19. SkipIsFinished'
  BY <1>1, <1>2, <1>7, <1>8 DEF SkipIsFinished
<1>20. SkipsAgree'
  <2>1. \A p \in Machines : peer[p][r] # launch[r]
    BY <1>1, <1>8, LaunchType DEF Connections
  <2>2. QED
    BY <1>1, <1>2, <2>1 DEF SkipsAgree
<1>21. QED
  BY <1>6, <1>9, <1>10, <1>11, <1>12, <1>13, <1>14, <1>15, <1>16, <1>17, <1>18, <1>19, <1>20
     DEF ResumeInv

\* What an exchange does to the manifests r has and to those it still waits for.
LEMMA ExchangeMoves ==
    ASSUME LogsTypeOK, Manifests, NEW a \in Machines, NEW c \in Machines, Exchange(a, c)
    PROVE  /\ UNCHANGED <<launch, stage, skip, job, peer, entered, log, parquet>>
           /\ got' \in [Machines -> [Machines -> SUBSET Jobs]]
           /\ pending' \in [Machines -> SUBSET Machines]
           /\ \A q, p \in Machines :
                /\ p \in pending'[q] => p \in pending[q]
                /\ p \notin pending[q] => got'[q][p] = got[q][p]
                /\ p \in pending[q] /\ p \notin pending'[q] =>
                        /\ stage[p] = "exchange"
                        /\ got'[q][p] = Complete(p)
<1>1. a # c /\ stage[a] = "exchange" /\ stage[c] = "exchange" /\ a \in pending[c]
  BY RankAssumption DEF Exchange
<1>2. got[a][a] = Complete(a) /\ got[c][c] = Complete(c)
  BY <1>1 DEF Manifests
<1>3. PICK answered \in BOOLEAN :
        /\ got' = [got EXCEPT
                     ![a][c] = IF c \in pending[a] THEN got[c][c] ELSE @,
                     ![c][a] = IF answered THEN got[a][a] ELSE @]
        /\ pending' = [pending EXCEPT
                         ![a] = @ \ {c},
                         ![c] = IF answered THEN @ \ {a} ELSE @]
  BY DEF Exchange
<1>4. \A q \in Machines : got[q] \in [Machines -> SUBSET Jobs] /\ pending[q] \in SUBSET Machines
  BY DEF LogsTypeOK
<1>5. got' = [q \in Machines |->
                IF q = a THEN [got[a] EXCEPT ![c] = IF c \in pending[a] THEN got[c][c] ELSE @]
                ELSE IF q = c THEN [got[c] EXCEPT ![a] = IF answered THEN got[a][a] ELSE @]
                ELSE got[q]]
  BY <1>1, <1>3 DEF LogsTypeOK
<1>6. pending' = [q \in Machines |->
                    IF q = a THEN pending[a] \ {c}
                    ELSE IF q = c THEN IF answered THEN pending[c] \ {a} ELSE pending[c]
                    ELSE pending[q]]
  BY <1>1, <1>3 DEF LogsTypeOK
<1>7. got[a][a] \in SUBSET Jobs /\ got[c][c] \in SUBSET Jobs
  BY <1>4
<1>8. /\ got' \in [Machines -> [Machines -> SUBSET Jobs]]
      /\ pending' \in [Machines -> SUBSET Machines]
  BY <1>4, <1>5, <1>6, <1>7
<1>9. UNCHANGED <<launch, stage, skip, job, peer, entered, log, parquet>>
  BY DEF Exchange
<1>10. ASSUME NEW q \in Machines, NEW p \in Machines
       PROVE  /\ p \in pending'[q] => p \in pending[q]
              /\ p \notin pending[q] => got'[q][p] = got[q][p]
              /\ p \in pending[q] /\ p \notin pending'[q] =>
                        /\ stage[p] = "exchange"
                        /\ got'[q][p] = Complete(p)
  <2>1. CASE q = a
    BY <1>1, <1>2, <1>4, <1>5, <1>6, <2>1
  <2>2. CASE q = c
    BY <1>1, <1>2, <1>4, <1>5, <1>6, <2>2
  <2>3. CASE q # a /\ q # c
    BY <1>5, <1>6, <2>3
  <2>4. QED
    BY <2>1, <2>2, <2>3
<1>11. QED
  BY <1>8, <1>9, <1>10

LEMMA ExchangeKeeps ==
    ASSUME ResumeInv, NEW a \in Machines, NEW c \in Machines, Exchange(a, c)
    PROVE  ResumeInv'
<1>1. /\ LogsTypeOK /\ Places /\ Eras /\ Connections /\ Entries /\ Spawned
      /\ NothingThere /\ OthersWait /\ Manifests /\ SharedIsFinished /\ Outdated
      /\ SkipIsFinished /\ SkipsAgree
  BY DEF ResumeInv
<1>2. /\ UNCHANGED <<launch, stage, skip, job, peer, entered, log, parquet>>
      /\ got' \in [Machines -> [Machines -> SUBSET Jobs]]
      /\ pending' \in [Machines -> SUBSET Machines]
      /\ \A q, p \in Machines :
           /\ p \in pending'[q] => p \in pending[q]
           /\ p \notin pending[q] => got'[q][p] = got[q][p]
           /\ p \in pending[q] /\ p \notin pending'[q] =>
                   /\ stage[p] = "exchange"
                   /\ got'[q][p] = Complete(p)
  BY <1>1, ExchangeMoves
<1>3. \A p \in Machines : Complete(p)' = Complete(p) /\ (Up(p)' <=> Up(p))
  BY <1>2 DEF Complete, Up
<1>4. FinishedJobs' = FinishedJobs /\ \A j \in Jobs : Finished(j)' <=> Finished(j)
  BY <1>3 DEF FinishedJobs, Finished
<1>5. LogsTypeOK'
  BY <1>1, <1>2 DEF LogsTypeOK
<1>6. Places' /\ Eras' /\ Entries' /\ Spawned' /\ NothingThere' /\ OthersWait'
  BY <1>1, <1>2, <1>3 DEF Places, Eras, Entries, Spawned, Heard, NothingThere, OthersWait, NotYet
<1>7. SkipIsFinished' /\ SkipsAgree'
  BY <1>1, <1>2, <1>3, <1>4 DEF SkipIsFinished, SkipsAgree
<1>8. Connections'
  <2> SUFFICES ASSUME NEW q \in Machines, NEW p \in Machines, peer[q][p] # NoAttempt,
                      stage[p] = "exchange", q \in pending[p]
               PROVE  q \in pending'[p]
    BY <1>1, <1>2, <1>3 DEF Connections
  <2>1. stage[q] # "exchange"
    BY <1>1, DownHasNoPeer DEF Up, InLoop
  <2>2. QED
    BY <1>2, <2>1
<1>9. Manifests'
  <2> SUFFICES ASSUME NEW q \in Machines, stage[q] = "exchange"
               PROVE  /\ got'[q][q] = Complete(q) /\ q \notin pending'[q]
                      /\ \A p \in Machines \ pending'[q] : Complete(p) \subseteq got'[q][p]
    BY <1>2, <1>3 DEF Manifests
  <2>1. got'[q][q] = Complete(q) /\ q \notin pending'[q]
    BY <1>1, <1>2 DEF Manifests
  <2>2. ASSUME NEW p \in Machines \ pending'[q] PROVE Complete(p) \subseteq got'[q][p]
    BY <1>1, <1>2 DEF Manifests
  <2>3. QED
    BY <2>1, <2>2
<1>10. SharedIsFinished'
  <2> SUFFICES ASSUME NEW q \in Machines, NEW j \in Jobs, stage[q] = "exchange", Shared(q, j)'
               PROVE  Finished(j)
    BY <1>2, <1>4 DEF SharedIsFinished
  <2>1. ASSUME NEW p \in Machines
        PROVE  j \in IF p \in pending[q] THEN Complete(p) ELSE got[q][p]
    BY <1>2, <1>3 DEF Shared
  <2>2. Shared(q, j)
    BY <2>1 DEF Shared
  <2>3. QED
    BY <1>1, <2>2 DEF SharedIsFinished
<1>11. Outdated'
  <2> SUFFICES ASSUME NEW q \in Machines, NEW p \in Machines, NEW s \in Machines, NEW j \in Jobs,
                      stage[q] = "exchange", p \notin pending'[q], j \in got'[q][p],
                      j \notin Complete(p), j \in got'[q][q],
                      peer[s][p] # NoAttempt, peer[s][q] # NoAttempt
               PROVE  j \in skip[s]
    BY <1>2, <1>3 DEF Outdated
  <2>1. p \notin pending[q] /\ got'[q][p] = got[q][p]
    BY <1>2
  <2>2. got'[q][q] = got[q][q]
    BY <1>1, <1>2 DEF Manifests
  <2>3. QED
    BY <1>1, <2>1, <2>2 DEF Outdated
<1>12. QED
  BY <1>5, <1>6, <1>7, <1>8, <1>9, <1>10, <1>11 DEF ResumeInv

\* The intersection of the manifests is what is finished at this time.
LEMMA IntersectionIsFinished ==
    ASSUME ResumeInv, NEW r \in Machines, stage[r] = "exchange", pending[r] = {}
    PROVE  Intersection(got[r]) = FinishedJobs
<1>1. ASSUME NEW j \in Jobs, \A p \in Machines : j \in got[r][p] PROVE Finished(j)
  BY <1>1 DEF ResumeInv, SharedIsFinished, Shared
<1>2. ASSUME NEW j \in Jobs, Finished(j), NEW p \in Machines PROVE j \in got[r][p]
  BY <1>2 DEF ResumeInv, Manifests, Finished
<1>3. QED
  BY <1>1, <1>2 DEF Intersection, FinishedJobs

LEMMA EndExchangeKeeps ==
    ASSUME ResumeInv, NEW r \in Machines, EndExchange(r)
    PROVE  ResumeInv'
<1>1. /\ LogsTypeOK /\ Places /\ Eras /\ Connections /\ Entries /\ Spawned
      /\ NothingThere /\ OthersWait /\ Manifests /\ SharedIsFinished /\ Outdated
      /\ SkipIsFinished /\ SkipsAgree
  BY DEF ResumeInv
<1>2. /\ stage[r] = "exchange" /\ stage'[r] = "cleanup" /\ pending[r] = {}
      /\ skip'[r] = Intersection(got[r])
      /\ \A p \in Machines \ {r} : /\ stage'[p] = stage[p] /\ skip'[p] = skip[p]
                                   /\ got'[p] = got[p] /\ pending'[p] = pending[p]
      /\ UNCHANGED <<launch, job, peer, entered, log, parquet>>
  BY <1>1 DEF EndExchange, LogsTypeOK
<1>3. skip'[r] = FinishedJobs
  BY <1>2, IntersectionIsFinished
<1>4. /\ \A p \in Machines : Complete(p)' = Complete(p)
      /\ FinishedJobs' = FinishedJobs /\ \A j \in Jobs : Finished(j)' <=> Finished(j)
  BY <1>2 DEF Complete, FinishedJobs, Finished
<1>5. /\ ~Up(r) /\ ~Up(r)' /\ stage'[r] \notin Ends /\ stage[r] \notin Ends
      /\ stage[r] \notin InLoop /\ stage'[r] \notin InLoop
      /\ \A p \in Machines \ {r} : Up(p)' <=> Up(p)
      /\ \A p \in Machines : peer[r][p] = NoAttempt
  BY <1>1, <1>2, DownHasNoPeer DEF Up, InLoop, Ends
<1>6. ASSUME NEW p \in Machines PROVE peer[p][r] = NoAttempt
  <2>1. peer[p][r] \in Int /\ launch[r] \in Int
    BY <1>1, LaunchType
  <2>2. QED
    BY <1>1, <1>2, <1>5, <2>1 DEF Connections
<1>7. LogsTypeOK'
  BY <1>1 DEF EndExchange, LogsTypeOK, Intersection, NoManifest
<1>8. Places' /\ Eras' /\ Entries' /\ Spawned'
  BY <1>1, <1>2, <1>5 DEF Places, Eras, Entries, Spawned, Heard
<1>9. Connections'
  BY <1>1, <1>2, <1>5, <1>6 DEF Connections
<1>10. NothingThere' /\ OthersWait'
  BY <1>1, <1>2, <1>4, <1>5 DEF NothingThere, OthersWait, NotYet
<1>11. Manifests' /\ SharedIsFinished' /\ Outdated'
  BY <1>1, <1>2, <1>4, <1>5 DEF Manifests, SharedIsFinished, Shared, Outdated
<1>12. SkipIsFinished'
  <2>1. launch[r] # 1
    BY <1>1, <1>2 DEF Eras
  <2>2. QED
    BY <1>1, <1>2, <1>3, <1>4, <1>5, <2>1 DEF SkipIsFinished
<1>13. SkipsAgree'
  <2>1. /\ \A p \in Machines : peer[p][r] # launch[r]
        /\ \A p \in Machines : peer[r][p] # launch[p]
    BY <1>1, <1>5, <1>6, LaunchType
  <2>2. QED
    BY <1>1, <1>2, <2>1 DEF SkipsAgree
<1>14. QED
  BY <1>7, <1>8, <1>9, <1>10, <1>11, <1>12, <1>13 DEF ResumeInv

-----------------------------------------------------------------------------
(* The end of a process.                                                   *)

LEMMA EndKeeps ==
    ASSUME ResumeInv, NEW r \in Machines, NEW how \in Ends, End(r, how),
           UNCHANGED <<launch, parquet>>,
           log' \in [Machines -> [Jobs -> Logs]],
           log' = log \/ stage[r] = "cleanup",
           \A p \in Machines \ {r} : log'[p] = log[p],
           \A j \in Jobs : log'[r][j] = log[r][j] \/ (log'[r][j] = NoLog /\ ~Finished(j))
    PROVE  ResumeInv'
<1>1. /\ LogsTypeOK /\ Places /\ Eras /\ Connections /\ Entries /\ Spawned
      /\ NothingThere /\ OthersWait /\ Manifests /\ SharedIsFinished /\ Outdated
      /\ SkipIsFinished /\ SkipsAgree
  BY DEF ResumeInv
<1>2. /\ stage'[r] = how /\ pending'[r] = {} /\ skip'[r] = {} /\ job'[r] = 1
      /\ peer'[r] = NoPeer
      /\ \A p \in Machines \ {r} :
            /\ stage'[p] = stage[p] /\ pending'[p] = pending[p] /\ skip'[p] = skip[p]
            /\ job'[p] = job[p] /\ peer'[p] = peer[p] /\ got'[p] = got[p]
      /\ \A p \in Machines :
            entered'[p] = {b \in entered[p] : \E q \in Machines : peer'[q][p] = b.launch}
      /\ UNCHANGED launch
  BY <1>1 DEF End, LogsTypeOK
<1>3. /\ \A p \in Machines : Complete(p)' \subseteq Complete(p)
      /\ \A p \in Machines : p # r \/ log' = log => Complete(p)' = Complete(p)
  BY CompleteIs DEF Complete, NoLog
<1>4. \A j \in Jobs : Finished(j)' <=> Finished(j)
  <2>1. ASSUME NEW j \in Jobs, Finished(j) PROVE Finished(j)'
    BY <2>1, FinishedIs
  <2>2. QED
    BY <1>3, <2>1 DEF Finished
<1>5. FinishedJobs' = FinishedJobs
  BY <1>4 DEF FinishedJobs
<1>6. /\ ~Up(r)' /\ stage'[r] \in Ends /\ stage'[r] \notin InLoop
      /\ stage'[r] \notin {"exchange", "cleanup", "spawn", "connect"}
      /\ \A p \in Machines \ {r} : Up(p)' <=> Up(p)
      /\ \A p \in Machines : peer'[r][p] = NoAttempt
  BY <1>2 DEF Up, InLoop, Ends, NoPeer
<1>7. LogsTypeOK'
  <2>1. 1 \in 1..(NumJobs + 1)
    BY BoundAssumption
  <2>2. NoManifest \in [Machines -> SUBSET Jobs] /\ NoPeer \in [Machines -> {NoAttempt} \union Launches]
    BY DEF NoManifest, NoPeer
  <2>3. entered' \in [Machines -> SUBSET Barriers]
    BY <1>1 DEF End, LogsTypeOK
  <2>4. stage' \in [Machines -> {"scan", "exchange", "cleanup", "connect"} \union InLoop \union Ends]
    BY <1>1 DEF End, LogsTypeOK
  <2>5. QED
    BY <1>1, <2>1, <2>2, <2>3, <2>4 DEF End, LogsTypeOK
<1>8. Places' /\ Eras'
  <2>1. stage'[r] \notin {"ready", "spawn", "ran", "done"}
    BY <1>6 DEF InLoop
  <2>2. Places'
    BY <1>1, <1>2, <1>6, <2>1 DEF Places
  <2>3. Eras'
    BY <1>1, <1>2, <1>6 DEF Eras
  <2>4. QED
    BY <2>2, <2>3
<1>9. Connections'
  BY <1>1, <1>2, <1>6 DEF Connections
<1>10. Entries'
  BY <1>1, <1>2, <1>6 DEF Entries
<1>11. Spawned'
  <2> SUFFICES ASSUME NEW q \in Machines, stage'[q] = "spawn", NEW p \in Machines
               PROVE  Heard(q, p, "Ready")'
    BY DEF Spawned
  <2>1. q # r
    BY <1>6
  <2>2. Heard(q, p, "Ready")
    BY <1>1, <1>2, <2>1 DEF Spawned
  <2>3. QED
    BY <1>2, <2>1, <2>2 DEF Heard
<1>12. NothingThere' /\ OthersWait'
  BY <1>1, <1>2, <1>3, <1>6 DEF NothingThere, OthersWait, NotYet
<1>13. Manifests'
  <2> SUFFICES ASSUME NEW q \in Machines, q # r, stage[q] = "exchange"
               PROVE  /\ got[q][q] = Complete(q)' /\ q \notin pending[q]
                      /\ \A p \in Machines \ pending[q] : Complete(p)' \subseteq got[q][p]
    BY <1>2, <1>6 DEF Manifests
  <2>1. QED
    BY <1>1, <1>3 DEF Manifests
<1>14. SharedIsFinished'
  <2> SUFFICES ASSUME NEW q \in Machines, NEW j \in Jobs, stage'[q] = "exchange", Shared(q, j)'
               PROVE  Finished(j)
    BY <1>4 DEF SharedIsFinished
  <2>1. q # r /\ stage[q] = "exchange"
    BY <1>2, <1>6
  <2>2. Shared(q, j)
    BY <1>2, <1>3, <2>1 DEF Shared
  <2>3. QED
    BY <1>1, <2>1, <2>2 DEF SharedIsFinished
<1>15. Outdated'
  <2> SUFFICES ASSUME NEW q \in Machines, NEW p \in Machines, NEW s \in Machines, NEW j \in Jobs,
                      stage'[q] = "exchange", p \notin pending'[q], j \in got'[q][p],
                      j \notin Complete(p)', j \in got'[q][q],
                      peer'[s][p] # NoAttempt, peer'[s][q] # NoAttempt
               PROVE  j \in skip'[s]
    BY DEF Outdated
  <2>1. q # r /\ s # r
    BY <1>6
  <2>2. Complete(p)' = Complete(p)
    BY <1>1, <1>2, <1>3, <2>1, CleanUpIsAlone
  <2>3. /\ stage[q] = "exchange" /\ p \notin pending[q] /\ j \in got[q][p] /\ j \in got[q][q]
        /\ peer[s][p] # NoAttempt /\ peer[s][q] # NoAttempt /\ skip'[s] = skip[s]
    BY <1>2, <2>1
  <2>4. QED
    BY <1>1, <2>2, <2>3 DEF Outdated
<1>16. SkipIsFinished'
  BY <1>1, <1>2, <1>5, <1>6 DEF SkipIsFinished
<1>17. SkipsAgree'
  <2>1. \A p \in Machines : launch[p] # NoAttempt
    BY <1>1, LaunchType
  <2>2. QED
    BY <1>1, <1>2, <1>6, <2>1 DEF SkipsAgree
<1>18. QED
  BY <1>7, <1>8, <1>9, <1>10, <1>11, <1>12, <1>13, <1>14, <1>15, <1>16, <1>17 DEF ResumeInv

LEMMA StopKeeps ==
    ASSUME ResumeInv, NEW r \in Machines, Stop(r)
    PROVE  ResumeInv'
<1>1. log' = log /\ UNCHANGED <<launch, parquet>> /\ End(r, "stopped") /\ "stopped" \in Ends
  BY DEF Stop, Ends
<1>2. log' \in [Machines -> [Jobs -> Logs]]
  BY <1>1 DEF ResumeInv, LogsTypeOK
<1>3. QED
  BY <1>1, <1>2, EndKeeps

LEMMA FinishRunKeeps ==
    ASSUME ResumeInv, NEW r \in Machines, FinishRun(r)
    PROVE  ResumeInv'
<1>1. log' = log /\ UNCHANGED <<launch, parquet>> /\ End(r, "finished") /\ "finished" \in Ends
  BY DEF FinishRun, Ends
<1>2. log' \in [Machines -> [Jobs -> Logs]]
  BY <1>1 DEF ResumeInv, LogsTypeOK
<1>3. QED
  BY <1>1, <1>2, EndKeeps

LEMMA CleanUpCutShortKeeps ==
    ASSUME ResumeInv, NEW r \in Machines, CleanUpCutShort(r)
    PROVE  ResumeInv' /\ \A j \in FinishedJobs : log'[r][j] = log[r][j]
<1>1. PICK n \in 1..NumJobs : log' = Deleted(r, (1..n) \ skip[r])
  BY DEF CleanUpCutShort
<1>2. /\ stage[r] = "cleanup" /\ End(r, "stopped") /\ "stopped" \in Ends
      /\ UNCHANGED <<launch, parquet>>
  BY DEF CleanUpCutShort, Ends
<1>3. skip[r] = FinishedJobs
  BY <1>2 DEF ResumeInv, SkipIsFinished
<1>4. log \in [Machines -> [Jobs -> Logs]] /\ NoLog \in Logs
  BY DEF ResumeInv, LogsTypeOK, Logs, NoLog
<1>5. /\ log' \in [Machines -> [Jobs -> Logs]]
      /\ \A p \in Machines \ {r} : log'[p] = log[p]
      /\ \A j \in Jobs : log'[r][j] = IF j \in (1..n) \ skip[r] THEN NoLog ELSE log[r][j]
  BY <1>1, <1>4 DEF Deleted
<1>6. \A j \in Jobs : log'[r][j] = log[r][j] \/ (log'[r][j] = NoLog /\ ~Finished(j))
  BY <1>3, <1>5 DEF FinishedJobs
<1>7. \A j \in FinishedJobs : log'[r][j] = log[r][j]
  BY <1>6 DEF FinishedJobs
<1>8. QED
  BY <1>2, <1>5, <1>6, <1>7, EndKeeps

-----------------------------------------------------------------------------
(* A child runs.                                                           *)

\* Everyone has entered the ready barrier of the job r spawns; none of them can
\* be taking an inventory of which r is part, or cleaning up.
LEMMA SpawnIsTogether ==
    ASSUME ResumeInv, NEW r \in Machines, stage[r] = "spawn", NEW p \in Machines, p # r
    PROVE  /\ peer[r][p] # NoAttempt /\ stage[p] # "cleanup"
           /\ stage[p] = "exchange" => r \in pending[p]
           /\ Up(p) => /\ \/ job[r] < job[p]
                          \/ job[r] = job[p] /\ stage[p] \in {"ready", "spawn", "ran", "done"}
<1>1. LogsTypeOK /\ Connections /\ Entries /\ Spawned
  BY DEF ResumeInv
<1>2. PICK b \in entered[p] : b = [launch |-> peer[r][p], job |-> job[r], kind |-> "Ready"]
  BY <1>1 DEF Spawned, Heard
<1>3. b.launch = peer[r][p] /\ b.job = job[r]
  BY <1>2
<1>4. peer[r][p] # NoAttempt
  <2>1. b.launch \in Launches
    BY <1>1, BarrierType
  <2>2. QED
    BY <1>3, <2>1, BoundAssumption DEF Launches, NoAttempt
<1>5. peer[r][p] \in Int /\ launch[p] \in Int
  BY <1>1, LaunchType
<1>6. \/ peer[r][p] = launch[p] /\ (stage[p] \in Ends \/ Up(p))
      \/ stage[p] \in {"scan"} \union Ends
      \/ stage[p] = "exchange" /\ r \in pending[p]
  BY <1>1, <1>4, <1>5 DEF Connections
<1>7. stage[p] # "cleanup" /\ (stage[p] = "exchange" => r \in pending[p])
  BY <1>6 DEF Up, InLoop, Ends
<1>8. ASSUME Up(p) PROVE \/ job[r] < job[p]
                         \/ job[r] = job[p] /\ stage[p] \in {"ready", "spawn", "ran", "done"}
  <2>1. stage[p] \notin Ends /\ stage[p] \notin {"scan", "exchange"}
    BY <1>8 DEF Up, InLoop, Ends
  <2>2. b.launch = launch[p]
    BY <1>3, <1>6, <2>1
  <2>3. QED
    BY <1>1, <1>2, <1>3, <2>1, <2>2 DEF Entries
<1>9. QED
  BY <1>4, <1>7, <1>8

LEMMA RunChildMoves ==
    ASSUME ResumeInv, NEW r \in Machines, RunChild(r)
    PROVE  /\ stage[r] = "spawn" /\ stage'[r] = "ran" /\ job[r] \in Jobs \ skip[r]
           /\ job[r] \notin Complete(r) /\ ~Finished(job[r])
           /\ log' \in [Machines -> [Jobs -> Logs]]
           /\ parquet' \in [Machines -> [Jobs -> {NoAttempt} \union Launches]]
           /\ \A p \in Machines \ {r} : stage'[p] = stage[p] /\ log'[p] = log[p]
           /\ \A j \in Jobs \ {job[r]} : log'[r][j] = log[r][j]
           /\ UNCHANGED <<launch, pending, got, skip, job, peer, entered>>
<1>1. LogsTypeOK /\ Places /\ NothingThere
  BY DEF ResumeInv
<1>2. stage[r] = "spawn" /\ job[r] \in Jobs \ skip[r]
  BY <1>1 DEF RunChild, Places
<1>3. Up(r) /\ NotYet(r, job[r])
  BY <1>2 DEF Up, InLoop, NotYet
<1>4. job[r] \notin Complete(r) /\ ~Finished(job[r])
  BY <1>1, <1>2, <1>3 DEF NothingThere, Finished
<1>5. PICK l \in ChildLogs(r) : \E q \in ChildParquets(r, l) :
        /\ log' = [log EXCEPT ![r][job[r]] = l]
        /\ parquet' = [parquet EXCEPT ![r][job[r]] = q]
  BY DEF RunChild
<1>6. PICK q \in ChildParquets(r, l) :
        /\ log' = [log EXCEPT ![r][job[r]] = l]
        /\ parquet' = [parquet EXCEPT ![r][job[r]] = q]
  BY <1>5
<1>7. launch[r] \in Launches
  BY <1>1 DEF LogsTypeOK
<1>8. l \in Logs
  BY <1>7 DEF ChildLogs, Logs, NoLog
<1>9. q \in {NoAttempt} \union Launches
  <2>1. parquet[r][job[r]] \in {NoAttempt} \union Launches
    BY <1>1, <1>2 DEF LogsTypeOK
  <2>2. QED
    BY <1>7, <2>1 DEF ChildParquets
<1>10. log[r] \in [Jobs -> Logs]
  BY <1>1 DEF LogsTypeOK
<1>11. /\ log' \in [Machines -> [Jobs -> Logs]]
       /\ \A p \in Machines \ {r} : log'[p] = log[p]
       /\ \A j \in Jobs \ {job[r]} : log'[r][j] = log[r][j]
  BY <1>1, <1>2, <1>6, <1>8, <1>10 DEF LogsTypeOK
<1>12. parquet' \in [Machines -> [Jobs -> {NoAttempt} \union Launches]]
  BY <1>1, <1>2, <1>6, <1>9 DEF LogsTypeOK
<1>13. /\ stage'[r] = "ran" /\ \A p \in Machines \ {r} : stage'[p] = stage[p]
       /\ UNCHANGED <<launch, pending, got, skip, job, peer, entered>>
  BY <1>1 DEF RunChild, LogsTypeOK
<1>14. QED
  BY <1>2, <1>4, <1>11, <1>12, <1>13

LEMMA RunChildKeeps ==
    ASSUME ResumeInv, NEW r \in Machines, RunChild(r)
    PROVE  ResumeInv'
<1>1. /\ LogsTypeOK /\ Places /\ Eras /\ Connections /\ Entries /\ Spawned
      /\ NothingThere /\ OthersWait /\ Manifests /\ SharedIsFinished /\ Outdated
      /\ SkipIsFinished /\ SkipsAgree
  BY DEF ResumeInv
<1>2. /\ stage[r] = "spawn" /\ stage'[r] = "ran" /\ job[r] \in Jobs \ skip[r]
      /\ job[r] \notin Complete(r) /\ ~Finished(job[r])
      /\ log' \in [Machines -> [Jobs -> Logs]]
      /\ parquet' \in [Machines -> [Jobs -> {NoAttempt} \union Launches]]
      /\ \A p \in Machines \ {r} : stage'[p] = stage[p] /\ log'[p] = log[p]
      /\ \A j \in Jobs \ {job[r]} : log'[r][j] = log[r][j]
      /\ UNCHANGED <<launch, pending, got, skip, job, peer, entered>>
  BY RunChildMoves
<1>3. /\ \A p \in Machines \ {r} : Complete(p)' = Complete(p)
      /\ \A p \in Machines, j \in Jobs \ {job[r]} : j \in Complete(p)' <=> j \in Complete(p)
      /\ \A p \in Machines : Complete(p) \subseteq Complete(p)'
  <2>1. \A p \in Machines \ {r} : Complete(p)' = Complete(p)
    BY <1>2 DEF Complete
  <2>2. \A j \in Jobs \ {job[r]} : j \in Complete(r)' <=> j \in Complete(r)
    BY <1>2, CompleteIs
  <2>3. Complete(r) \subseteq Complete(r)'
    BY <1>2, <2>2, CompleteIs
  <2>4. QED
    BY <2>1, <2>2, <2>3
<1>4. FinishedJobs \subseteq FinishedJobs' /\ \A j \in Jobs : Finished(j) => Finished(j)'
  BY <1>3 DEF FinishedJobs, Finished
<1>5. /\ \A p \in Machines : Up(p)' <=> Up(p)
      /\ \A p \in Machines : stage'[p] \in Ends <=> stage[p] \in Ends
      /\ \A p \in Machines, s \in {"scan", "exchange", "cleanup"} : stage'[p] = s <=> stage[p] = s
  BY <1>2 DEF Up, InLoop, Ends
<1>6. \A p \in Machines \ {r} :
         /\ peer[r][p] # NoAttempt /\ stage[p] # "cleanup"
         /\ stage[p] = "exchange" => r \in pending[p]
         /\ Up(p) => /\ \/ job[r] < job[p]
                        \/ job[r] = job[p] /\ stage[p] \in {"ready", "spawn", "ran", "done"}
  BY <1>2, SpawnIsTogether
<1>7. \A p \in Machines : job[p] \in Int /\ \A j \in Jobs : j \in Int
  BY <1>1, BoundAssumption DEF LogsTypeOK, Jobs
<1>8. LogsTypeOK'
  <2>1. stage' \in [Machines -> {"scan", "exchange", "cleanup", "connect"} \union InLoop \union Ends]
    BY <1>1 DEF RunChild, LogsTypeOK, InLoop
  <2>2. QED
    BY <1>1, <1>2, <2>1 DEF LogsTypeOK
<1>9. Places' /\ Eras' /\ Connections'
  <2>1. Places'
    BY <1>1, <1>2, <1>5 DEF Places, InLoop
  <2>2. Eras'
    BY <1>1, <1>2, <1>5 DEF Eras
  <2>3. Connections'
    BY <1>1, <1>2, <1>5 DEF Connections
  <2>4. QED
    BY <2>1, <2>2, <2>3
<1>10. Entries'
  BY <1>1, <1>2, <1>5 DEF Entries
<1>11. Spawned'
  BY <1>1, <1>2 DEF Spawned, Heard
<1>12. ASSUME NEW j \in Jobs, NotYet(r, j)'
       PROVE  NotYet(r, j) /\ job[r] # j
  BY <1>2, <1>7, <1>12 DEF NotYet
<1>13. \A p \in Machines \ {r}, j \in Jobs : NotYet(p, j)' <=> NotYet(p, j)
  BY <1>2 DEF NotYet
<1>14. NothingThere'
  <2> SUFFICES ASSUME NEW q \in Machines, NEW j \in Jobs,
                      Up(q), j \notin skip[q], NotYet(q, j)'
               PROVE  j \notin Complete(q)'
    BY <1>2, <1>5 DEF NothingThere
  <2>1. CASE q = r
    BY <1>1, <1>3, <1>12, <2>1 DEF NothingThere
  <2>2. CASE q # r
    BY <1>1, <1>3, <1>13, <2>2 DEF NothingThere
  <2>3. QED
    BY <2>1, <2>2
<1>15. OthersWait'
  <2> SUFFICES ASSUME NEW q \in Machines, NEW p \in Machines, NEW j \in Jobs,
                      peer[q][p] # NoAttempt, j \notin skip[q], NotYet(q, j)', j \in Complete(p)'
               PROVE  job[q] = j /\ stage'[q] \in {"ready", "spawn"}
    BY <1>2 DEF OthersWait
  <2>1. CASE q = r
    <3>1. j \in Complete(p) /\ NotYet(q, j) /\ job[q] # j
      BY <1>3, <1>12, <2>1
    <3>2. QED
      BY <1>1, <3>1 DEF OthersWait
  <2>2. CASE q # r /\ (p # r \/ j # job[r])
    <3>1. j \in Complete(p) /\ NotYet(q, j)
      BY <1>3, <1>13, <2>2
    <3>2. QED
      BY <1>1, <1>2, <2>2, <3>1 DEF OthersWait
  <2>3. CASE q # r /\ p = r /\ j = job[r]
    <3>1. Up(q)
      BY <1>1, DownHasNoPeer
    <3>2. \/ job[r] < job[q]
          \/ job[r] = job[q] /\ stage[q] \in {"ready", "spawn", "ran", "done"}
      BY <1>6, <2>3, <3>1
    <3>3. NotYet(q, j)
      BY <1>13, <2>3
    <3>4. QED
      BY <1>2, <1>7, <2>3, <3>2, <3>3 DEF NotYet
  <2>4. QED
    BY <2>1, <2>2, <2>3
<1>16. Manifests'
  <2> SUFFICES ASSUME NEW q \in Machines, stage[q] = "exchange"
               PROVE  /\ got[q][q] = Complete(q)' /\ q \notin pending[q]
                      /\ \A p \in Machines \ pending[q] : Complete(p)' \subseteq got[q][p]
    BY <1>2, <1>5 DEF Manifests
  <2>1. q # r /\ r \in pending[q]
    BY <1>2, <1>6
  <2>2. QED
    BY <1>1, <1>3, <2>1 DEF Manifests
<1>17. SharedIsFinished'
  <2> SUFFICES ASSUME NEW q \in Machines, NEW j \in Jobs, stage[q] = "exchange", Shared(q, j)'
               PROVE  Finished(j)'
    BY <1>5 DEF SharedIsFinished
  <2>1. q # r /\ r \in pending[q]
    BY <1>2, <1>6
  <2>2. \A p \in Machines : j \in IF p \in pending[q] THEN Complete(p)' ELSE got[q][p]
    BY <1>2 DEF Shared
  <2>3. CASE j # job[r]
    <3>1. ASSUME NEW p \in Machines
          PROVE  j \in IF p \in pending[q] THEN Complete(p) ELSE got[q][p]
      BY <1>3, <2>2, <2>3
    <3>2. Shared(q, j)
      BY <3>1 DEF Shared
    <3>3. QED
      BY <1>1, <1>4, <3>2 DEF SharedIsFinished
  <2>4. CASE j = job[r]
    <3>1. j \in got[q][q]
      BY <1>1, <2>2 DEF Manifests
    <3>2. ASSUME NEW p \in Machines PROVE j \in Complete(p)'
      <4>1. CASE p \in pending[q]
        BY <2>2, <4>1
      <4>2. CASE p \notin pending[q] /\ j \in Complete(p)
        BY <1>3, <4>2
      <4>3. CASE p \notin pending[q] /\ j \notin Complete(p)
        <5>1. p # r /\ peer[r][p] # NoAttempt /\ peer[r][q] # NoAttempt /\ j \in got[q][p]
          BY <1>6, <2>1, <2>2, <4>3
        <5>2. j \in skip[r]
          BY <1>1, <3>1, <4>3, <5>1 DEF Outdated
        <5>3. QED
          BY <1>2, <2>4, <5>2
      <4>4. QED
        BY <4>1, <4>2, <4>3
    <3>3. QED
      BY <3>2 DEF Finished
  <2>5. QED
    BY <2>3, <2>4
<1>18. Outdated'
  BY <1>1, <1>2, <1>3, <1>5, <1>6 DEF Outdated
<1>19. SkipIsFinished'
  BY <1>1, <1>2, <1>4, <1>5, <1>6 DEF SkipIsFinished
<1>20. SkipsAgree'
  BY <1>1, <1>2, <1>5 DEF SkipsAgree
<1>21. QED
  BY <1>8, <1>9, <1>10, <1>11, <1>14, <1>15, <1>16, <1>17, <1>18, <1>19, <1>20 DEF ResumeInv

-----------------------------------------------------------------------------
(* The theorems.                                                           *)

LEMMA LogsStepKeeps ==
    ASSUME ResumeInv, [LogsNext]_logsVars
    PROVE  ResumeInv'
<1>1. CASE UNCHANGED logsVars
  BY <1>1 DEF logsVars, ResumeInv, LogsTypeOK, Places, Eras, Connections, Entries, Spawned, Heard,
              NothingThere, OthersWait, Manifests, SharedIsFinished, Shared, Outdated,
              SkipIsFinished, SkipsAgree, FinishedJobs, Finished, Complete, Up, NotYet
<1>2. ASSUME NEW r \in Machines, LaunchAgain(r) PROVE ResumeInv'
  BY <1>2, LaunchAgainKeeps
<1>3. ASSUME NEW r \in Machines, Scan(r) PROVE ResumeInv'
  BY <1>3, ScanKeeps
<1>4. ASSUME NEW r \in Machines, NEW p \in Machines, Exchange(r, p) PROVE ResumeInv'
  BY <1>4, ExchangeKeeps
<1>5. ASSUME NEW r \in Machines, EndExchange(r) PROVE ResumeInv'
  BY <1>5, EndExchangeKeeps
<1>6. ASSUME NEW r \in Machines, CleanUp(r) \/ CleanUpCutShort(r) PROVE ResumeInv'
  BY <1>6, CleanUpKeeps, CleanUpCutShortKeeps
<1>7. ASSUME NEW r \in Machines, NEW p \in Machines, Connect(r, p) PROVE ResumeInv'
  BY <1>7, ConnectKeeps
<1>8. ASSUME NEW r \in Machines, StartLoop(r) \/ SkipJob(r) PROVE ResumeInv'
  BY <1>8, StartLoopKeeps, SkipJobKeeps
<1>9. ASSUME NEW r \in Machines, EnterReady(r) \/ LeaveReady(r) PROVE ResumeInv'
  BY <1>9, EnterReadyKeeps, LeaveReadyKeeps
<1>10. ASSUME NEW r \in Machines, RunChild(r) PROVE ResumeInv'
  BY <1>10, RunChildKeeps
<1>11. ASSUME NEW r \in Machines, EnterDone(r) \/ LeaveDone(r) PROVE ResumeInv'
  BY <1>11, EnterDoneKeeps, LeaveDoneKeeps
<1>12. ASSUME NEW r \in Machines, Stop(r) \/ FinishRun(r) PROVE ResumeInv'
  BY <1>12, StopKeeps, FinishRunKeeps
<1>13. QED
  BY <1>1, <1>2, <1>3, <1>4, <1>5, <1>6, <1>7, <1>8, <1>9, <1>10, <1>11, <1>12 DEF LogsNext

(* What holds in every state of a resumed run, whatever stopped its processes
   and wherever: where each runner is in its launch, what its connections,
   barriers and manifests are worth, and what its skip set has to do with the
   disks. *)
THEOREM ResumeInvariant == LogsSpec => []ResumeInv
<1>1. ResumeInv /\ [LogsNext]_logsVars => ResumeInv'
  BY LogsStepKeeps
<1>2. QED
  BY InvInit, <1>1, PTL DEF LogsSpec

(* The variables keep to their types. *)
THEOREM LogsTyped == LogsSpec => []LogsTypeOK
<1>1. ResumeInv => LogsTypeOK
  BY DEF ResumeInv
<1>2. QED
  BY ResumeInvariant, <1>1, PTL

(* Two runners that work through the job list together skip the same jobs,
   although each has taken the manifests of its own exchanges and processes
   may have come and gone between them. *)
THEOREM SkipSetsAlwaysAgree == LogsSpec => []SkipSetsAgree
<1>1. ResumeInv => SkipSetsAgree
  <2> SUFFICES ASSUME ResumeInv, NEW r \in Machines, NEW p \in Machines,
                      stage[p] \in InLoop, Connected(r, p)
               PROVE  skip[r] = skip[p]
    BY DEF SkipSetsAgree
  <2>1. peer[r][p] = launch[p] /\ stage[p] \notin Ends
    BY DEF Connected, InLoop, Ends
  <2>2. QED
    BY <2>1 DEF ResumeInv, SkipsAgree
<1>2. QED
  BY ResumeInvariant, <1>1, PTL

(* A job that some runner skips is complete on the disks of all of them, for
   as long as it skips it. *)
THEOREM SkippedIsAlwaysComplete == LogsSpec => []SkippedIsCompleteEverywhere
<1>1. ResumeInv => SkippedIsCompleteEverywhere
  <2> SUFFICES ASSUME ResumeInv, NEW r \in Machines, NEW p \in Machines, stage[r] \in InLoop
               PROVE  skip[r] \subseteq Complete(p)
    BY DEF SkippedIsCompleteEverywhere
  <2>1. skip[r] \subseteq FinishedJobs
    BY DEF ResumeInv, SkipIsFinished, Up
  <2>2. QED
    BY <2>1 DEF FinishedJobs, Finished
<1>2. QED
  BY ResumeInvariant, <1>1, PTL

(* A job whose logs are complete on all the runners is never run again, and no
   inventory and no clean-up deletes one of its logs: the scan keeps marked
   logs, the clean-up deletes what is not finished, and a runner that spawns a
   child has not got the log yet. *)
THEOREM FinishedIsAlwaysKept == LogsSpec => FinishedIsKept
<1> DEFINE Kept == \A j \in Jobs : Finished(j) => \A r \in Machines : log'[r][j] = log[r][j]
<1>1. ResumeInv /\ [LogsNext]_logsVars => [Kept]_log
  <2> SUFFICES ASSUME ResumeInv, [LogsNext]_logsVars, log' # log
               PROVE  Kept
    OBVIOUS
  <2>1. \E r \in Machines : Scan(r) \/ CleanUp(r) \/ CleanUpCutShort(r) \/ RunChild(r)
    BY DEF LogsNext, logsVars, LaunchAgain, EndExchange, StartLoop, SkipJob, EnterReady, LeaveReady,
           EnterDone, LeaveDone, FinishRun, Stop, Exchange, Connect
  <2>2. PICK r \in Machines : Scan(r) \/ CleanUp(r) \/ CleanUpCutShort(r) \/ RunChild(r)
    BY <2>1
  <2>3. log \in [Machines -> [Jobs -> Logs]]
    BY DEF ResumeInv, LogsTypeOK
  <2>4. \A p \in Machines \ {r} : log'[p] = log[p]
    BY <2>2, <2>3 DEF Scan, CleanUp, CleanUpCutShort, RunChild, Deleted
  <2>5. \A j \in FinishedJobs : log'[r][j] = log[r][j]
    <3>1. CASE Scan(r) \/ CleanUp(r) \/ CleanUpCutShort(r)
      BY <3>1, ScanKeeps, CleanUpKeeps, CleanUpCutShortKeeps
    <3>2. CASE RunChild(r)
      BY <3>2, RunChildMoves DEF FinishedJobs
    <3>3. QED
      BY <2>2, <3>1, <3>2
  <2>6. QED
    BY <2>4, <2>5 DEF FinishedJobs
<1>2. FinishedIsKept <=> [][Kept]_log
  BY DEF FinishedIsKept
<1>3. QED
  BY ResumeInvariant, <1>1, <1>2, PTL DEF LogsSpec
=============================================================================
