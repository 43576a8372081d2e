---------------------------- MODULE StartupProofs ----------------------------
(***************************************************************************)
(* Proofs about the beginning and the end of a run.                        *)
(*                                                                         *)
(* Discovery, for every set of runners, every choice of folders on their   *)
(* disks and every number of launches, under every fault.  The argument    *)
(* for OneFolder: the leader's pick never changes.  If it was started with *)
(* --resume it takes the latest folder on its disk and opens no other, and *)
(* if it was started fresh it takes the folder of its launch time, which   *)
(* is newer than all others, and can only exit with 75 after it has opened *)
(* that one, so that the next launch finds it as the latest.  Every        *)
(* Discover of the leader carries the pick, and nobody agrees on anything  *)
(* else.                                                                   *)
(*                                                                         *)
(* AnalysisCache: what the analysis reads from its cache is what is there, *)
(* for any number of spawns, calls, versions of the tool and writes to the *)
(* logs, wherever the tool dies.  At any time, what the tool would take    *)
(* for the sidecar of a shard is either unfit (of another version, or      *)
(* older than the log, or the log is gone), or the shard is what it says.  *)
(* Unfit is for good: a log that is written again is later than every      *)
(* sidecar.  The tool opens a shard only when its sidecar is unfit, so a   *)
(* shard that is half written or newer than its sidecar is built again     *)
(* after a crash; it deletes a shard or a sidecar without the other only   *)
(* where the log was not found, which makes the other one unfit.  The file *)
(* a sidecar is stamped for is the one the shard was made from, because a  *)
(* log is left alone while its shard is built; this is what "gap" takes    *)
(* away, and "older" and "wipe" take away that unfit is for good.          *)
(*                                                                         *)
(* Verdicts: what the report says of the files, for any number of          *)
(* machines, writes, leaves, rows and runs of the job.  A row that a child *)
(* has is of a message that its writer has too, in memory or, once closed, *)
(* in the file of the same run, and no row of a file goes away (RowsInv).  *)
(* So the deliveries of two files of one run are the receives of that      *)
(* writer without the doubled ones, and their distinct messages are some   *)
(* of the writes.  The rest is counting: as many rows as messages means    *)
(* that none came twice, as many messages as writes that none is lost, no  *)
(* step back between neighbours that all are in order, and without a       *)
(* duplicate the leaves received are those of the messages that came.      *)
(***************************************************************************)
EXTENDS StartupMC, ResumeLogsProofs, SelectionProofs, TLAPS

-----------------------------------------------------------------------------
(* Discovery.                                                              *)

\* The folder the leader goes for.
Pick == IF given[Leader] THEN Latest(folders[Leader]) ELSE Fresh[Leader]

UpPhases == {"discover", "linger", "manifest", "setup", "phase2"}

\* The leader is past the point where its pick is known to be on its disk.
PickIsOpen ==
    \/ attempt[Leader] > 1
    \/ phase[Leader] \in {"manifest", "phase2", "exit75"}
    \/ phase[Leader] = "setup" /\ resume(Leader)

LeaderInv ==
    /\ phase[Leader] \in UpPhases => proposal[Leader] = Pick /\ agreed[Leader] = Pick
    /\ ~given[Leader] => \A f \in folders[Leader] : f <= Fresh[Leader]
    /\ PickIsOpen => Pick \in folders[Leader]

AgreedInv ==
    /\ \A q \in Runners : \A d \in net[q] : d.from = Leader => d.folder = Pick
    /\ \A r \in Runners : agreed[r] # NoFolder => agreed[r] = Pick
    /\ \A r \in Runners : phase[r] = "discover" /\ Leader \in seen[r] => agreed[r] # NoFolder
    /\ \A r \in Runners : phase[r] \in UpPhases => proposal[r] # NoFolder
    /\ \A r \in Runners : phase[r] \in UpPhases \ {"discover"} => agreed[r] # NoFolder
    /\ \A r \in Runners : \A f \in opened[r] : f = Pick

SeenInv ==
    /\ \A r \in Runners : \A p \in seen[r] : hash[p] = hash[r]
    /\ \A r \in Runners : phase[r] \in Passed => seen[r] = Runners
    /\ \A q \in Runners : \A d \in net[q] : d.resume => resume(d.from)
    /\ \A r \in Runners : \A p \in seen[r] :
            phase[r] \notin {"launch", "failed"} /\ resume(r) => resume(p)

DiscoveryInv == TypeOK /\ LeaderInv /\ AgreedInv /\ SeenInv

-----------------------------------------------------------------------------

LEMMA FolderNumbers == Folders \subseteq Nat /\ NoFolder \notin Folders
<1>1. \A r \in Runners : Fresh[r] \in Nat /\ Fresh[r] # 0
  BY FoldersAssumption DEF NoFolder
<1>2. \A S \in OldFolders : \A f \in S : f \in Nat /\ f # 0
  BY <1>1, FoldersAssumption, LeaderAssumption
<1>3. QED
  BY <1>1, <1>2 DEF Folders, NoFolder

\* A greatest element is the one Latest chooses.
LEMMA LatestIs ==
    ASSUME NEW S, S \subseteq Nat, NEW x \in S, \A f \in S : f <= x
    PROVE  Latest(S) = x
<1>1. \A f, g \in S : f <= g /\ g <= f => f = g
  OBVIOUS
<1>2. Latest(S) \in S /\ \A g \in S : g <= Latest(S)
  BY DEF Latest
<1>3. QED
  BY <1>1, <1>2

\* The folder of a fresh leader is its own pick.
LEMMA OwnFolder ==
    /\ Fresh[Leader] \in Nat /\ Fresh[Leader] <= Fresh[Leader]
    /\ ~given[Leader] => Pick = Fresh[Leader]
BY FoldersAssumption, LeaderAssumption DEF Pick

LEMMA SentType ==
    ASSUME TypeOK, NEW r \in Runners, NEW f \in Folders
    PROVE  /\ Discover(r, f) \in Discovers
           /\ Broadcast(r, Discover(r, f)) \in [Runners -> SUBSET Discovers]
<1>1. resume(r) \in BOOLEAN
  BY DEF TypeOK, resume
<1>2. Discover(r, f) \in Discovers
  BY <1>1 DEF Discover, Discovers
<1>3. QED
  BY <1>2 DEF Broadcast, TypeOK

LEMMA TypeStep ==
    ASSUME DiscoveryInv, NEW r \in Runners,
           Steps(r) \/ \E d \in net[r] : Reads(r, d) \/ Lose(r, d)
    PROVE  TypeOK'
<1> USE DEF TypeOK, Phases
<1>0. /\ TypeOK
      /\ \A p \in Runners : phase[p] \in UpPhases => proposal[p] \in Folders
      /\ \A p \in Runners : phase[p] \in UpPhases \ {"discover"} => agreed[p] \in Folders
  BY DEF DiscoveryInv, AgreedInv
<1>1. CASE Launch(r)
  BY <1>0, <1>1 DEF Launch
<1>2. CASE LaunchFails(r)
  BY <1>0, <1>2 DEF LaunchFails
<1>3. CASE Relaunch(r)
  BY <1>0, <1>3, AttemptsAssumption DEF Relaunch
<1>4. CASE SendDiscover(r)
  BY <1>0, <1>4, SentType DEF SendDiscover, UpPhases
<1>5. CASE EndDiscovery(r)
  BY <1>0, <1>5 DEF EndDiscovery
<1>6. CASE EndLinger(r)
  BY <1>0, <1>6 DEF EndLinger
<1>7. CASE ManifestsExchanged(r)
  BY <1>0, <1>7 DEF ManifestsExchanged
<1>8. CASE EnterPhase2(r)
  BY <1>0, <1>8 DEF EnterPhase2, UpPhases
<1>9. CASE ClockSyncFails(r)
  BY <1>0, <1>9 DEF ClockSyncFails, UpPhases
<1>10. CASE TimeOut(r)
  BY <1>0, <1>10 DEF TimeOut
<1>11. CASE Finish(r)
  BY <1>0, <1>11 DEF Finish
<1>12. CASE Crash(r)
  BY <1>0, <1>12 DEF Crash
<1>13. CASE \E d \in net[r] : Refuse(r, d)
  BY <1>0, <1>13 DEF Refuse
<1>14. CASE \E d \in net[r] : Hear(r, d)
  BY <1>0, <1>14 DEF Hear, Captured, Discovers
<1>15. CASE \E d \in net[r] : Overlook(r, d)
  BY <1>0, <1>15 DEF Overlook
<1>16. CASE \E d \in net[r] : AnswerLate(r, d)
  BY <1>0, <1>16, SentType DEF AnswerLate, Answered, UpPhases
<1>17. CASE \E d \in net[r] : Lose(r, d)
  BY <1>0, <1>17 DEF Lose
<1>18. QED
  BY <1>1, <1>2, <1>3, <1>4, <1>5, <1>6, <1>7, <1>8, <1>9, <1>10, <1>11, <1>12, <1>13, <1>14, <1>15, <1>16, <1>17 DEF Steps, Reads

\* No launch of any runner changes the leader's pick.
LEMMA PickStays ==
    ASSUME DiscoveryInv, NEW r \in Runners,
           Steps(r) \/ \E d \in net[r] : Reads(r, d) \/ Lose(r, d)
    PROVE  Pick' = Pick
<1>1. given' = given
  BY DEF Steps, Reads, Launch, LaunchFails, Relaunch, SendDiscover, EndDiscovery,
         EndLinger, ManifestsExchanged, EnterPhase2, ClockSyncFails, TimeOut, Finish,
         Crash, Refuse, Hear, Overlook, AnswerLate, Lose
<1>2. CASE folders'[Leader] = folders[Leader]
  BY <1>1, <1>2 DEF Pick
<1>3. CASE folders'[Leader] # folders[Leader]
  <2>1. EnterPhase2(r) \/ ClockSyncFails(r)
    BY <1>3 DEF Steps, Reads, Launch, LaunchFails, Relaunch, SendDiscover, EndDiscovery,
         EndLinger, ManifestsExchanged, TimeOut, Finish, Crash, Refuse, Hear, Overlook,
         AnswerLate, Lose
  <2>2. /\ phase[r] = "setup"
        /\ folders' = [folders EXCEPT ![r] = @ \union {agreed[r]}]
    BY <2>1 DEF EnterPhase2, ClockSyncFails
  <2>3. folders \in [Runners -> SUBSET Folders]
    BY DEF DiscoveryInv, TypeOK
  <2>4. r = Leader
    BY <1>3, <2>2, <2>3, LeaderAssumption
  <2>5. phase[Leader] = "setup" /\ agreed[Leader] \notin folders[Leader]
    BY <1>3, <2>2, <2>3, <2>4
  <2>6. agreed[Leader] = Pick
    BY <2>5 DEF DiscoveryInv, LeaderInv, UpPhases
  <2>7. ~given[Leader]
    BY <2>5, <2>6 DEF DiscoveryInv, LeaderInv, PickIsOpen, resume
  <2>8. QED
    BY <1>1, <2>7 DEF Pick
<1>4. QED
  BY <1>2, <1>3

LEMMA LeaderStep ==
    ASSUME DiscoveryInv, NEW r \in Runners,
           Steps(r) \/ \E d \in net[r] : Reads(r, d) \/ Lose(r, d)
    PROVE  LeaderInv'
<1> USE LeaderAssumption DEF LeaderInv, UpPhases, TypeOK, PickIsOpen, resume
<1>0. TypeOK /\ LeaderInv /\ Pick' = Pick
  BY PickStays DEF DiscoveryInv
<1>1. CASE Launch(r)
  <2>1. CASE r # Leader
    BY <1>0, <1>1, <2>1 DEF Launch
  <2>2. CASE r = Leader
    <3>1. (IF resume(r) THEN Latest(folders[r]) ELSE Fresh[r]) = Pick
      <4>1. CASE given[Leader]
        BY <2>2, <4>1 DEF Pick
      <4>2. CASE ~given[Leader] /\ attempt[Leader] = 1
        BY <1>0, <2>2, <4>2 DEF Pick
      <4>3. CASE ~given[Leader] /\ attempt[Leader] > 1
        <5>1. Fresh[Leader] \in folders[Leader] /\ \A f \in folders[Leader] : f <= Fresh[Leader]
          BY <1>0, <4>3 DEF Pick
        <5>2. folders[Leader] \subseteq Nat
          BY <1>0, FolderNumbers
        <5>3. Latest(folders[Leader]) = Fresh[Leader]
          BY <5>1, <5>2, LatestIs
        <5>4. QED
          BY <2>2, <4>3, <5>3 DEF Pick
      <4>4. QED
        BY <1>0, <4>1, <4>2, <4>3, AttemptsAssumption
    <3>2. proposal'[Leader] = Pick /\ agreed'[Leader] = Pick
      BY <1>0, <1>1, <2>2, <3>1 DEF Launch
    <3>3. UNCHANGED <<given, attempt, folders>> /\ phase'[Leader] = "discover"
      BY <1>0, <1>1, <2>2 DEF Launch
    <3>4. QED
      BY <1>0, <3>2, <3>3
  <2>3. QED
    BY <2>1, <2>2
<1>2. CASE LaunchFails(r)
  BY <1>0, <1>2 DEF LaunchFails
<1>3. CASE Relaunch(r)
  BY <1>0, <1>3 DEF Relaunch
<1>4. CASE SendDiscover(r)
  BY <1>0, <1>4 DEF SendDiscover
<1>5. CASE EndDiscovery(r)
  BY <1>0, <1>5 DEF EndDiscovery
<1>6. CASE EndLinger(r)
  BY <1>0, <1>6 DEF EndLinger
<1>7. CASE ManifestsExchanged(r)
  BY <1>0, <1>7 DEF ManifestsExchanged
<1>8. CASE EnterPhase2(r)
  BY <1>0, <1>8, OwnFolder DEF EnterPhase2
<1>9. CASE ClockSyncFails(r)
  BY <1>0, <1>9, OwnFolder DEF ClockSyncFails
<1>10. CASE TimeOut(r)
  BY <1>0, <1>10 DEF TimeOut
<1>11. CASE Finish(r)
  BY <1>0, <1>11 DEF Finish
<1>12. CASE Crash(r)
  BY <1>0, <1>12 DEF Crash
<1>13. CASE \E d \in net[r] : Refuse(r, d)
  BY <1>0, <1>13 DEF Refuse
<1>14. CASE \E d \in net[r] : Hear(r, d)
  BY <1>0, <1>14 DEF Hear, Captured, AgreedInv, DiscoveryInv
<1>15. CASE \E d \in net[r] : Overlook(r, d)
  BY <1>0, <1>15 DEF Overlook
<1>16. CASE \E d \in net[r] : AnswerLate(r, d)
  BY <1>0, <1>16 DEF AnswerLate
<1>17. CASE \E d \in net[r] : Lose(r, d)
  BY <1>0, <1>17 DEF Lose
<1>18. QED
  BY <1>1, <1>2, <1>3, <1>4, <1>5, <1>6, <1>7, <1>8, <1>9, <1>10, <1>11, <1>12, <1>13, <1>14, <1>15, <1>16, <1>17 DEF Steps, Reads

LEMMA AgreedStep ==
    ASSUME DiscoveryInv, NEW r \in Runners,
           Steps(r) \/ \E d \in net[r] : Reads(r, d) \/ Lose(r, d)
    PROVE  AgreedInv'
<1> USE LeaderAssumption DEF AgreedInv, UpPhases, TypeOK
<1>0. TypeOK /\ AgreedInv /\ LeaderInv /\ Pick' = Pick
  BY PickStays DEF DiscoveryInv
<1>1. CASE Launch(r)
  BY <1>0, <1>1, FolderNumbers, LeaderStep DEF Launch, LeaderInv
<1>2. CASE LaunchFails(r)
  BY <1>0, <1>2 DEF LaunchFails
<1>3. CASE Relaunch(r)
  BY <1>0, <1>3 DEF Relaunch
<1>4. CASE SendDiscover(r)
  BY <1>0, <1>4 DEF SendDiscover, Broadcast, Discover, LeaderInv
<1>5. CASE EndDiscovery(r)
  BY <1>0, <1>5 DEF EndDiscovery
<1>6. CASE EndLinger(r)
  BY <1>0, <1>6 DEF EndLinger
<1>7. CASE ManifestsExchanged(r)
  BY <1>0, <1>7 DEF ManifestsExchanged
<1>8. CASE EnterPhase2(r)
  BY <1>0, <1>8 DEF EnterPhase2
<1>9. CASE ClockSyncFails(r)
  BY <1>0, <1>9 DEF ClockSyncFails
<1>10. CASE TimeOut(r)
  BY <1>0, <1>10 DEF TimeOut
<1>11. CASE Finish(r)
  BY <1>0, <1>11 DEF Finish
<1>12. CASE Crash(r)
  BY <1>0, <1>12 DEF Crash
<1>13. CASE \E d \in net[r] : Refuse(r, d)
  BY <1>0, <1>13 DEF Refuse
<1>14. CASE \E d \in net[r] : Hear(r, d)
  BY <1>0, <1>14, FolderNumbers DEF Hear, Captured, Discovers
<1>15. CASE \E d \in net[r] : Overlook(r, d)
  BY <1>0, <1>15 DEF Overlook
<1>16. CASE \E d \in net[r] : AnswerLate(r, d)
  BY <1>0, <1>16 DEF AnswerLate, Answered, Broadcast, Discover
<1>17. CASE \E d \in net[r] : Lose(r, d)
  BY <1>0, <1>17 DEF Lose
<1>18. QED
  BY <1>1, <1>2, <1>3, <1>4, <1>5, <1>6, <1>7, <1>8, <1>9, <1>10, <1>11, <1>12, <1>13, <1>14, <1>15, <1>16, <1>17 DEF Steps, Reads

LEMMA SeenStep ==
    ASSUME DiscoveryInv, NEW r \in Runners,
           Steps(r) \/ \E d \in net[r] : Reads(r, d) \/ Lose(r, d)
    PROVE  SeenInv'
<1> USE DEF SeenInv, TypeOK, resume
<1>0. TypeOK /\ SeenInv
  BY DEF DiscoveryInv
<1>1. CASE Launch(r)
  BY <1>0, <1>1 DEF Launch, Passed
<1>2. CASE LaunchFails(r)
  BY <1>0, <1>2 DEF LaunchFails, Passed
<1>3. CASE Relaunch(r)
  BY <1>0, <1>3 DEF Relaunch, Passed
<1>4. CASE SendDiscover(r)
  BY <1>0, <1>4 DEF SendDiscover, Broadcast, Discover
<1>5. CASE EndDiscovery(r)
  BY <1>0, <1>5 DEF EndDiscovery, Quorum, Passed
<1>6. CASE EndLinger(r)
  BY <1>0, <1>6 DEF EndLinger, Passed
<1>7. CASE ManifestsExchanged(r)
  BY <1>0, <1>7 DEF ManifestsExchanged, Passed
<1>8. CASE EnterPhase2(r)
  BY <1>0, <1>8 DEF EnterPhase2, Passed
<1>9. CASE ClockSyncFails(r)
  BY <1>0, <1>9 DEF ClockSyncFails, Passed
<1>10. CASE TimeOut(r)
  BY <1>0, <1>10 DEF TimeOut, Passed
<1>11. CASE Finish(r)
  BY <1>0, <1>11 DEF Finish, Passed
<1>12. CASE Crash(r)
  BY <1>0, <1>12 DEF Crash, Listening, Passed
<1>13. CASE \E d \in net[r] : Refuse(r, d)
  BY <1>0, <1>13 DEF Refuse, Passed
<1>14. CASE \E d \in net[r] : Hear(r, d)
  <2>1. PICK d \in net[r] : Hear(r, d)
    BY <1>14
  <2>2. d \in Discovers /\ d.from \in Runners /\ d.resume \in BOOLEAN
    BY <1>0 DEF Discovers
  <2>3. hash[d.from] = hash[r] /\ (resume(r) => resume(d.from))
    BY <1>0, <2>1, <2>2 DEF Hear, Mismatch
  <2>4. phase[r] = "discover" /\ phase' = phase /\ hash' = hash
        /\ given' = given /\ attempt' = attempt
        /\ seen' = [seen EXCEPT ![r] = @ \union {d.from}]
        /\ net' = [net EXCEPT ![r] = @ \ {d}]
    BY <2>1 DEF Hear
  <2>5. QED
    BY <1>0, <2>3, <2>4 DEF Passed
<1>15. CASE \E d \in net[r] : Overlook(r, d)
  BY <1>0, <1>15 DEF Overlook, Passed
<1>16. CASE \E d \in net[r] : AnswerLate(r, d)
  BY <1>0, <1>16 DEF AnswerLate, Answered, Broadcast, Discover
<1>17. CASE \E d \in net[r] : Lose(r, d)
  BY <1>0, <1>17 DEF Lose
<1>18. QED
  BY <1>1, <1>2, <1>3, <1>4, <1>5, <1>6, <1>7, <1>8, <1>9, <1>10, <1>11, <1>12, <1>13, <1>14, <1>15, <1>16, <1>17 DEF Steps, Reads

-----------------------------------------------------------------------------

(* The invariant from which everything else follows: the leader's pick, who
   has heard whom, and what is on its way. *)
THEOREM DiscoveryInvariant == Spec => []DiscoveryInv
<1>1. Init => DiscoveryInv
  <2> SUFFICES ASSUME Init PROVE DiscoveryInv
    OBVIOUS
  <2>1. TypeOK
    BY AttemptsAssumption DEF Init, TypeOK, Phases, Folders
  <2>2. LeaderInv
    <3>1. ASSUME NEW f \in folders[Leader] PROVE f <= Fresh[Leader]
      <4>1. folders[Leader] \in OldFolders
        BY LeaderAssumption DEF Init
      <4>2. f \in 1..Fresh[Leader] - 1 /\ Fresh[Leader] \in Nat
        BY <4>1, FoldersAssumption, LeaderAssumption
      <4>3. QED
        BY <4>2
    <3>2. phase[Leader] = "launch" /\ attempt[Leader] = 1
      BY LeaderAssumption DEF Init
    <3>3. QED
      BY <3>1, <3>2 DEF LeaderInv, UpPhases, PickIsOpen
  <2>3. AgreedInv
    BY DEF Init, AgreedInv, UpPhases, NoFolder
  <2>4. SeenInv
    BY DEF Init, SeenInv, Passed
  <2>5. QED
    BY <2>1, <2>2, <2>3, <2>4 DEF DiscoveryInv
<1>2. DiscoveryInv /\ [Next]_vars => DiscoveryInv'
  <2> SUFFICES ASSUME DiscoveryInv, [Next]_vars PROVE DiscoveryInv'
    OBVIOUS
  <2>1. ASSUME NEW r \in Runners,
               Steps(r) \/ \E d \in net[r] : Reads(r, d) \/ Lose(r, d)
        PROVE  DiscoveryInv'
    BY <2>1, TypeStep, LeaderStep, AgreedStep, SeenStep DEF DiscoveryInv
  <2>2. CASE UNCHANGED vars
    BY <2>2 DEF vars, DiscoveryInv, TypeOK, LeaderInv, AgreedInv, SeenInv, Pick, PickIsOpen,
                resume
  <2>3. QED
    BY <2>1, <2>2 DEF Next
<1>3. QED
  BY <1>1, <1>2, PTL DEF Spec

(* Every variable keeps its type. *)
THEOREM DiscoveryTypeCorrect == Spec => []TypeOK
<1>1. DiscoveryInv => TypeOK
  BY DEF DiscoveryInv
<1>2. QED
  BY <1>1, DiscoveryInvariant, PTL

(* All runners and all their launches write to one folder, for any number of
   runners, any earlier folders on their disks and any number of launches. *)
THEOREM RunHasOneFolder == Spec => []OneFolder
<1>1. DiscoveryInv => OneFolder
  BY DEF DiscoveryInv, AgreedInv, OneFolder
<1>2. QED
  BY <1>1, DiscoveryInvariant, PTL

(* Nobody is past discovery while another has a different configuration. *)
THEOREM RunHasOneConfig == Spec => []OneConfig
<1>1. DiscoveryInv => OneConfig
  BY DEF DiscoveryInv, SeenInv, OneConfig
<1>2. QED
  BY <1>1, DiscoveryInvariant, PTL

(* Nobody resumes a run that another starts afresh. *)
THEOREM RunIsNotMixed == Spec => []NoMixedRun
<1>1. DiscoveryInv => NoMixedRun
  BY DEF DiscoveryInv, SeenInv, NoMixedRun, Passed
<1>2. QED
  BY <1>1, DiscoveryInvariant, PTL

(* Runners past discovery are in one run: folder, configuration and mode. *)
THEOREM EveryoneIsInOneRun == Spec => []OneRun
BY RunHasOneFolder, RunHasOneConfig, RunIsNotMixed, PTL DEF OneRun

(* The state that the late recovery loop of discover() waits in is never
   reached: whoever has heard everyone has heard the leader's proposal. *)
THEOREM QuorumKnowsLeader == Spec => []LeaderKnownAtQuorum
<1>1. DiscoveryInv => LeaderKnownAtQuorum
  BY LeaderAssumption DEF DiscoveryInv, AgreedInv, LeaderKnownAtQuorum, Quorum
<1>2. QED
  BY <1>1, DiscoveryInvariant, PTL


-----------------------------------------------------------------------------
(* AnalysisCache.                                                          *)

Working == step \in {"build", "tidy", "read"}

\* A file's time stamp is the number of its write.
Stamped(f) == f = NoSource \/ (f.content \in 1..written /\ f.stamp = f.content)

\* m is no reason to keep the shard of s, now or at any later time.
Unfit(s, m) ==
    \/ m = NoMeta
    \/ m.version # version
    \/ Source(s) = NoSource
    \/ m.stamp < Source(s).stamp

\* The shard of s is what m says of it.
Vouches(s, m) ==
    /\ m # NoMeta
    /\ shard[s].whole /\ shard[s].version = version /\ m.version = version
    /\ shard[s].content = m.stamp

SourcesStamped ==
    /\ \A s \in Stems, f \in Formats : Stamped(source[s][f])
    /\ \A s \in SyncStems : source[s]["compact"] = NoSource

\* No sidecar is of a later time, or of a later version, than the present ones.
Papers ==
    \A s \in Stems : \A m \in {sidecar[s], sentinel.index[s]} :
        m.version <= version /\ m.stamp <= written

\* What the tool takes for the sidecar of a shard is of no use, or right.
KnownIsTrue == \A s \in Stems : Unfit(s, KnownMeta(s)) \/ Vouches(s, KnownMeta(s))

\* The tool has looked at everything it found, or still has to.
Looked ==
    /\ Working =>
        \A s \in Stems :
            /\ found[s] # NotFound <=> metas[s] # NoMeta \/ s \in stale
            /\ s \in stale => metas[s] = NoMeta
            /\ found[s] # NotFound =>
                /\ found[s].format \in Formats /\ found[s].content \in 1..written
                /\ JobSource(s) # NoSource => found[s].content <= JobSource(s).content
    /\ step \in {"tidy", "read"} => stale = {}
    /\ stale # {} => step = "build"
    /\ building # NotBuilding => step = "build" /\ building.stem \in stale
    /\ step \in {"off", "list"} => stale = {} /\ building = NotBuilding

\* What is rebuilt, or was not there, nothing vouches for.
OthersUnfit ==
    Working => \A s \in Stems :
        s \in stale \/ (found[s] = NotFound /\ step # "read") => Unfit(s, KnownMeta(s))

\* What has been looked at is as it should be.
Built ==
    /\ Working => \A s \in Stems : metas[s] # NoMeta =>
        Vouches(s, metas[s]) /\ found[s].content <= metas[s].stamp /\ metas[s].stamp <= written
    /\ building # NotBuilding /\ building.read # 0 =>
        /\ shard[building.stem] =
                [content |-> building.read, version |-> version, whole |-> TRUE]
        /\ JobSource(building.stem) # NoSource =>
                JobSource(building.stem).content = building.read
    /\ step = "read" => \A s \in Stems : found[s] = NotFound => shard[s] = NoShard

CacheInv ==
    /\ CacheTypeOK /\ SourcesStamped /\ Papers /\ KnownIsTrue
    /\ Looked /\ OthersUnfit /\ Built

-----------------------------------------------------------------------------
(* Types and sources.                                                      *)

\* The numbers in a typed state.
LEMMA CacheNumbers ==
    ASSUME CacheTypeOK
    PROVE  /\ written \in Nat /\ version \in Nat /\ MaxWrites \in Nat
           /\ \A s \in Stems, f \in Formats :
                source[s][f] \in Sources /\ source[s][f].content \in Nat /\ source[s][f].stamp \in Nat
           /\ \A s \in Stems : shard[s].content \in Nat /\ found[s].content \in Nat
           /\ \A m \in Metas : m.stamp \in Nat /\ m.version \in Nat
  <1>1. /\ \A n \in Writes : n \in Nat
        /\ \A n \in Versions : n \in Nat
    BY CacheAssumption DEF Writes, Versions
  <1>2. written \in Nat /\ version \in Nat /\ MaxWrites \in Nat
    BY <1>1, CacheAssumption DEF CacheTypeOK
  <1>3. \A s \in Stems, f \in Formats :
            source[s][f] \in Sources /\ source[s][f].content \in Nat /\ source[s][f].stamp \in Nat
    <2> SUFFICES ASSUME NEW s \in Stems, NEW f \in Formats
                 PROVE  source[s][f] \in Sources /\ source[s][f].content \in Nat
                        /\ source[s][f].stamp \in Nat
      OBVIOUS
    <2>1. source \in [Stems -> [Formats -> Sources]]
      BY DEF CacheTypeOK
    <2>2. source[s][f] \in Sources
      BY <2>1
    <2>3. QED
      BY <2>2, <1>1 DEF Sources
  <1>4. \A s \in Stems : shard[s].content \in Nat /\ found[s].content \in Nat
    BY <1>1 DEF CacheTypeOK
  <1>5. \A m \in Metas : m.stamp \in Nat /\ m.version \in Nat
    BY <1>1 DEF Metas
  <1>6. QED
    BY <1>2, <1>3, <1>4, <1>5

LEMMA KnownType ==
    ASSUME CacheTypeOK, NEW s \in Stems
    PROVE  KnownMeta(s) \in {sidecar[s], sentinel.index[s]} /\ KnownMeta(s) \in Metas
           /\ sidecar[s] \in Metas /\ sentinel.index[s] \in Metas
  BY DEF CacheTypeOK, KnownMeta

LEMMA SourceType ==
    ASSUME NEW s \in Stems
    PROVE  /\ Format(s) \in Formats /\ Source(s) = source[s][Format(s)]
           /\ Source(s) = IF source[s]["compact"] # NoSource THEN source[s]["compact"]
                          ELSE source[s]["jsonl"]
  BY DEF Format, Formats, Source

\* A new file is later than everything, and the one it replaces is not missed.
LEMMA WriteDoes ==
    ASSUME CacheTypeOK, SourcesStamped, CacheFaults \subseteq {"crash"},
           NEW t \in Stems, NEW g \in Formats, WriteSource(t, g)
    PROVE  /\ written' = written + 1 /\ written' \in Writes
           /\ source' \in [Stems -> [Formats -> Sources]]
           /\ source'[t][g] = [content |-> written + 1, stamp |-> written + 1]
           /\ \A s \in Stems, f \in Formats : s # t \/ f # g => source'[s][f] = source[s][f]
           /\ building.stem = t /\ building.read # 0 => found[t].format # g
           /\ t \in SyncStems => g = "jsonl"
           /\ UNCHANGED <<calls, version, shard, sidecar, sentinel, step, metas, stale,
                          building, found>>
  <1>1. /\ written < MaxWrites /\ written' = written + 1 /\ (t \in SyncStems => g = "jsonl")
        /\ UNCHANGED <<calls, version, shard, sidecar, sentinel, step, metas, stale,
                       building, found>>
    BY DEF WriteSource
  <1>2. building.stem = t /\ building.read # 0 => found[t].format # g
    BY DEF WriteSource
  <1> DEFINE new == [content |-> written + 1, stamp |-> written + 1]
             row == [source[t] EXCEPT ![g] = new]
  <1>3. source' = [source EXCEPT ![t][g] = new]
    <2>1. \A n \in NewStamps(t) : n = written + 1
      BY DEF NewStamps
    <2>2. \E n \in NewStamps(t) : source' = [source EXCEPT ![t][g] = [content |-> written + 1, stamp |-> n]]
      BY DEF WriteSource
    <2>3. QED
      BY <2>1, <2>2
  <1>4. written' \in Writes /\ new \in Sources
    BY <1>1, CacheNumbers, CacheAssumption DEF Writes, Sources
  <1>5. source[t] \in [Formats -> Sources] /\ source \in [Stems -> [Formats -> Sources]]
    BY DEF CacheTypeOK
  <1>6. row \in [Formats -> Sources] /\ row[g] = new /\ \A f \in Formats : f # g => row[f] = source[t][f]
    BY <1>4, <1>5
  <1>7. source' = [source EXCEPT ![t] = row]
    BY <1>3
  <1> HIDE DEF row
  <1>8. source' \in [Stems -> [Formats -> Sources]] /\ source'[t] = row
        /\ \A s \in Stems : s # t => source'[s] = source[s]
    BY <1>5, <1>6, <1>7
  <1>9. QED
    BY <1>1, <1>2, <1>4, <1>6, <1>8

\* What is removed is removed; a compact file may stay.
LEMMA RemoveDoes ==
    ASSUME CacheTypeOK, SourcesStamped, NEW t \in Stems, RemoveSource(t)
    PROVE  /\ source' \in [Stems -> [Formats -> Sources]]
           /\ source'[t]["jsonl"] = NoSource
           /\ source'[t]["compact"] \in {NoSource, source[t]["compact"]}
           /\ \A s \in Stems : s # t => source'[s] = source[s]
           /\ UNCHANGED <<written, calls, version, shard, sidecar, sentinel, step, metas, stale,
                          building, found>>
  <1>1. UNCHANGED <<written, calls, version, shard, sidecar, sentinel, step, metas, stale,
                    building, found>>
    BY DEF RemoveSource
  <1>2. PICK kept \in {NoSource, source[t]["compact"]} :
            source' = [source EXCEPT ![t] = [f \in Formats |-> IF f = "compact" THEN kept ELSE NoSource]]
    BY DEF RemoveSource
  <1>3. source \in [Stems -> [Formats -> Sources]] /\ NoSource \in Sources /\ kept \in Sources
    <2>1. 0 \in Writes
      BY CacheAssumption DEF Writes
    <2>2. NoSource \in Sources
      BY <2>1 DEF NoSource, Sources
    <2>3. source \in [Stems -> [Formats -> Sources]]
      BY DEF CacheTypeOK
    <2>4. source[t]["compact"] \in Sources
      BY <2>3 DEF Formats
    <2>5. QED
      BY <2>2, <2>3, <2>4
  <1>4. QED
    BY <1>1, <1>2, <1>3 DEF Formats

\* Neither makes a sidecar of use again.
LEMMA UnfitStays ==
    ASSUME CacheInv, CacheFaults \subseteq {"crash"}, NEW t \in Stems,
           (\E g \in Formats : WriteSource(t, g)) \/ RemoveSource(t)
    PROVE  /\ written' \in Nat /\ written <= written'
           /\ \A s \in Stems, m \in Metas : m.stamp <= written /\ Unfit(s, m) => Unfit(s, m)'
           /\ \A s \in Stems, f \in Formats :
                \/ source'[s][f] \in {NoSource, source[s][f]}
                \/ source'[s][f].content = written + 1 /\ source'[s][f].stamp = written + 1
  <1> USE DEF CacheInv
  <1>1. CASE RemoveSource(t)
    <2>1. \A s \in Stems : Source(s)' \in {NoSource, Source(s)}
      BY <1>1, RemoveDoes DEF Source, Format, Formats
    <2>2. UNCHANGED <<written, version>>
      BY <1>1, RemoveDoes
    <2>3. \A s \in Stems, f \in Formats : source'[s][f] \in {NoSource, source[s][f]}
      BY <1>1, RemoveDoes DEF Formats
    <2>4. QED
      BY <2>1, <2>2, <2>3, CacheNumbers DEF Unfit
  <1>2. ASSUME NEW g \in Formats, WriteSource(t, g)
        PROVE  /\ written' \in Nat /\ written <= written'
               /\ \A s \in Stems, m \in Metas : m.stamp <= written /\ Unfit(s, m) => Unfit(s, m)'
               /\ \A s \in Stems, f \in Formats :
                    \/ source'[s][f] = source[s][f]
                    \/ source'[s][f].content = written + 1 /\ source'[s][f].stamp = written + 1
    <2>1. \A s \in Stems : Source(s)' = Source(s) \/ Source(s)'.stamp = written + 1
      BY <1>2, WriteDoes, CacheNumbers DEF Source, Format, Formats, NoSource
    <2>2. written' = written + 1 /\ version' = version
      BY <1>2, WriteDoes
    <2>3. \A s \in Stems, f \in Formats :
                    \/ source'[s][f] = source[s][f]
                    \/ source'[s][f].content = written + 1 /\ source'[s][f].stamp = written + 1
      BY <1>2, WriteDoes
    <2>4. \A s \in Stems, m \in Metas : m.stamp <= written /\ Unfit(s, m) => Unfit(s, m)'
      BY <2>1, <2>2, CacheNumbers DEF Unfit
    <2>5. QED
      BY <2>2, <2>3, <2>4, CacheNumbers
  <1>3. QED
    BY <1>1, <1>2

-----------------------------------------------------------------------------
(* The steps.                                                              *)

\* The logs change under the tool.
LEMMA OutsideKeeps ==
    ASSUME CacheInv, CacheFaults \subseteq {"crash"}, NEW t \in Stems,
           (\E g \in Formats : WriteSource(t, g)) \/ RemoveSource(t)
    PROVE  CacheInv'
  <1> USE DEF CacheInv
  <1>1. /\ written' \in Writes /\ source' \in [Stems -> [Formats -> Sources]]
        /\ UNCHANGED <<calls, version, shard, sidecar, sentinel, step, metas, stale,
                       building, found>>
    <2>1. written \in Writes
      BY DEF CacheTypeOK
    <2>2. QED
      BY <2>1, WriteDoes, RemoveDoes
  <1>2. CacheTypeOK'
    BY <1>1 DEF CacheTypeOK
  <1>3. written' \in Nat /\ written \in Nat /\ written <= written'
    BY UnfitStays, CacheNumbers
  <1>4. SourcesStamped'
    <2>1. CASE RemoveSource(t)
      <3>1. \A s \in Stems, f \in Formats : source'[s][f] \in {NoSource, source[s][f]}
        BY <2>1, RemoveDoes DEF Formats
      <3>2. written' = written
        BY <2>1, RemoveDoes
      <3>3. \A s \in SyncStems : s \in Stems /\ source[s]["compact"] = NoSource
        BY DEF SourcesStamped, Stems
      <3>4. \A s \in Stems, f \in Formats : Stamped(source[s][f])'
        BY <3>1, <3>2 DEF SourcesStamped, Stamped
      <3>5. QED
        BY <3>1, <3>3, <3>4 DEF SourcesStamped, Formats
    <2>2. ASSUME NEW g \in Formats, WriteSource(t, g) PROVE SourcesStamped'
      <3>1. \A s \in Stems, f \in Formats :
                \/ source'[s][f] = source[s][f]
                \/ source'[s][f] = [content |-> written + 1, stamp |-> written + 1]
        BY <2>2, WriteDoes
      <3>2. written' = written + 1
        BY <2>2, WriteDoes
      <3>3. \A s \in SyncStems : source'[s]["compact"] = source[s]["compact"]
        BY <2>2, WriteDoes DEF Formats, Stems
      <3>4. \A s \in Stems, f \in Formats : Stamped(source[s][f])
        BY DEF SourcesStamped
      <3>5. \A s \in Stems, f \in Formats : Stamped(source[s][f])'
        BY <3>1, <3>2, <3>4, <1>3 DEF Stamped
      <3>6. QED
        BY <3>3, <3>5 DEF SourcesStamped
    <2>3. QED
      BY <2>1, <2>2
  <1>5. Papers'
    BY <1>1, <1>3, KnownType, CacheNumbers DEF Papers
  <1>6. \A s \in Stems : KnownMeta(s)' = KnownMeta(s)
    BY <1>1 DEF KnownMeta
  <1>7. \A s \in Stems : Unfit(s, KnownMeta(s)) => Unfit(s, KnownMeta(s))'
    <2> SUFFICES ASSUME NEW s \in Stems, Unfit(s, KnownMeta(s)) PROVE Unfit(s, KnownMeta(s))'
      OBVIOUS
    <2>1. KnownMeta(s).stamp <= written /\ KnownMeta(s) \in Metas
      BY KnownType DEF Papers
    <2> DEFINE m == KnownMeta(s)
    <2>2. m' = m
      BY <1>6
    <2> HIDE DEF m
    <2>3. Unfit(s, m)'
      BY <2>1, <2>2, UnfitStays DEF m, Unfit
    <2>4. QED
      BY <2>3 DEF m
  <1>8. KnownIsTrue'
    BY <1>1, <1>6, <1>7 DEF KnownIsTrue, Vouches
  <1>9. Looked'
    <2>1. \A s \in Stems : found[s] # NotFound /\ Working =>
              /\ found[s].format \in Formats /\ found[s].content \in 1..written
              /\ JobSource(s) # NoSource => found[s].content <= JobSource(s).content
      BY DEF Looked
    <2>2. \A s \in Stems : found[s] # NotFound /\ Working =>
              (JobSource(s) # NoSource => found[s].content <= JobSource(s).content)'
      BY <2>1, <1>1, <1>3, UnfitStays, CacheNumbers DEF JobSource
    <2>3. QED
      BY <1>1, <1>3, <2>1, <2>2 DEF Looked, Working
  <1>10. OthersUnfit'
    BY <1>1, <1>7 DEF OthersUnfit, Working
  <1>11. Built'
    <2>1. Working => \A s \in Stems : metas[s] # NoMeta =>
              Vouches(s, metas[s])' /\ found[s].content <= metas[s].stamp /\ metas[s].stamp <= written'
      <3>1. \A s \in Stems : metas[s] \in Metas
        BY DEF CacheTypeOK
      <3>2. QED
        BY <1>1, <1>3, <3>1, CacheNumbers DEF Built, Vouches
    <2>2. building # NotBuilding /\ building.read # 0 /\ JobSource(building.stem)' # NoSource =>
              JobSource(building.stem)'.content = building.read
      <3> SUFFICES ASSUME building # NotBuilding, building.read # 0,
                          JobSource(building.stem)' # NoSource
                   PROVE  JobSource(building.stem)' = JobSource(building.stem)
        BY DEF Built
      <3>1. building.stem \in Stems /\ found[building.stem].format \in Formats
        BY DEF Looked, Working, CacheTypeOK
      <3>2. CASE RemoveSource(t)
        BY <3>1, <3>2, RemoveDoes DEF JobSource, Formats
      <3>3. ASSUME NEW g \in Formats, WriteSource(t, g)
            PROVE  JobSource(building.stem)' = JobSource(building.stem)
        BY <3>1, <3>3, WriteDoes DEF JobSource
      <3>4. QED
        BY <3>2, <3>3
    <2>3. QED
      BY <1>1, <2>1, <2>2 DEF Built, Working
  <1>12. QED
    BY <1>2, <1>4, <1>5, <1>8, <1>9, <1>10, <1>11

\* Another version of the tool takes no sidecar of this one for its own.
LEMMA NewVersionKeeps == ASSUME CacheInv, NewVersion PROVE CacheInv'
  <1> USE DEF CacheInv
  <1>1. /\ step = "off" /\ version' = version + 1 /\ version < MaxVersions
        /\ UNCHANGED <<written, calls, source, shard, sidecar, sentinel, step, metas, stale,
                       building, found>>
    BY DEF NewVersion
  <1>2. version' \in Versions \ {0}
    BY <1>1, CacheNumbers, CacheAssumption DEF Versions
  <1>3. CacheTypeOK'
    BY <1>1, <1>2 DEF CacheTypeOK
  <1>4. \A s \in Stems : sidecar[s].version <= version /\ sentinel.index[s].version <= version
    BY DEF Papers
  <1>5. Papers' /\ SourcesStamped'
    BY <1>1, <1>4, KnownType, CacheNumbers DEF Papers, SourcesStamped, Stamped
  <1>6. \A s \in Stems : Unfit(s, KnownMeta(s))'
    <2> SUFFICES ASSUME NEW s \in Stems PROVE Unfit(s, KnownMeta(s))'
      OBVIOUS
    <2>1. KnownMeta(s)' \in {sidecar[s], sentinel.index[s]}
      BY <1>1 DEF KnownMeta
    <2>2. KnownMeta(s)'.version # version'
      BY <1>1, <1>4, <2>1, KnownType, CacheNumbers
    <2>3. QED
      BY <2>2 DEF Unfit
  <1>7. KnownIsTrue' /\ OthersUnfit'
    BY <1>6 DEF KnownIsTrue, OthersUnfit
  <1>8. building = NotBuilding
    BY <1>1 DEF Looked
  <1>9. Looked' /\ Built'
    BY <1>1, <1>8 DEF Looked, Built, Working
  <1>10. QED
    BY <1>3, <1>5, <1>7, <1>9

\* A cache that has been emptied holds nothing anyone could trust.
LEMMA EmptyIsTrue ==
    ASSUME CacheInv, CacheTypeOK', UNCHANGED <<written, version, source>>, Empty,
           building' = NotBuilding, stale' = {}, step' \in {"off", "list"}
    PROVE  CacheInv'
  <1>1. \A s \in Stems : sidecar'[s] = NoMeta /\ sentinel'.index[s] = NoMeta
    BY DEF Empty, NoSentinel
  <1>2. KnownIsTrue'
    BY <1>1 DEF KnownIsTrue, KnownMeta, Unfit
  <1>3. Papers'
    BY <1>1, CacheNumbers DEF CacheInv, Papers, NoMeta
  <1>4. Looked' /\ OthersUnfit' /\ Built'
    BY DEF Looked, OthersUnfit, Built, Working
  <1>5. SourcesStamped'
    BY DEF CacheInv, SourcesStamped, Stamped
  <1>6. QED
    BY <1>2, <1>3, <1>4, <1>5 DEF CacheInv

LEMMA EmptyType ==
    ASSUME CacheTypeOK, Empty
    PROVE  /\ shard' \in [Stems -> [content : Writes, version : Versions, whole : BOOLEAN]]
           /\ sidecar' \in [Stems -> Metas]
           /\ sentinel' \in [version : Versions, index : [Stems -> Metas]]
  <1>1. 0 \in Writes /\ 0 \in Versions
    BY CacheAssumption DEF Writes, Versions
  <1>2. NoMeta \in Metas /\ NoShard \in [content : Writes, version : Versions, whole : BOOLEAN]
    BY <1>1 DEF NoMeta, Metas, NoShard
  <1>3. NoSentinel \in [version : Versions, index : [Stems -> Metas]]
    BY <1>1, <1>2 DEF NoSentinel
  <1>4. QED
    BY <1>2, <1>3 DEF Empty

LEMMA CallKeeps ==
    ASSUME CacheInv, CacheFaults \subseteq {"crash"},
           NEW clear \in BOOLEAN, Call(clear) \/ DieWiping(clear)
    PROVE  CacheInv'
  <1> USE DEF CacheInv
  <1>1. /\ step = "off" /\ step' \in {"off", "list"} /\ calls' = calls + 1 /\ calls < MaxCalls
        /\ UNCHANGED <<written, version, source, metas, stale, building, found>>
    BY DEF Call, DieWiping
  <1>2. Empty \/ UNCHANGED <<shard, sidecar, sentinel>>
    BY DEF Call, DieWiping, Empty
  <1>3. calls' \in 0..MaxCalls
    <2>1. calls \in 0..MaxCalls /\ MaxCalls \in Nat
      BY CacheAssumption DEF CacheTypeOK
    <2>2. QED
      BY <1>1, <2>1
  <1>4. CacheTypeOK'
    <2>1. /\ shard' \in [Stems -> [content : Writes, version : Versions, whole : BOOLEAN]]
          /\ sidecar' \in [Stems -> Metas]
          /\ sentinel' \in [version : Versions, index : [Stems -> Metas]]
      BY <1>2, EmptyType DEF CacheTypeOK
    <2>2. QED
      BY <1>1, <1>3, <2>1 DEF CacheTypeOK
  <1>5. stale = {} /\ building = NotBuilding
    BY <1>1 DEF Looked
  <1>6. CASE Empty
    BY <1>1, <1>4, <1>5, <1>6, EmptyIsTrue
  <1>7. CASE UNCHANGED <<shard, sidecar, sentinel>>
    <2>1. SourcesStamped' /\ Papers'
      BY <1>1, <1>7 DEF SourcesStamped, Stamped, Papers
    <2>2. KnownIsTrue'
      BY <1>1, <1>7 DEF KnownIsTrue, KnownMeta, Unfit, Vouches, Source, Format
    <2>3. Looked' /\ OthersUnfit' /\ Built'
      BY <1>1, <1>5 DEF Looked, OthersUnfit, Built, Working
    <2>4. QED
      BY <1>4, <2>1, <2>2, <2>3
  <1>8. QED
    BY <1>2, <1>6, <1>7

\* What the listing takes for current is current; what it did not find has no
\* sidecar that a later file could be older than.
LEMMA ListKeeps == ASSUME CacheInv, ListSources PROVE CacheInv'
  <1> USE DEF CacheInv
  <1>1. /\ step = "list" /\ step' = "build"
        /\ UNCHANGED <<written, calls, version, source, shard, sidecar, sentinel, building>>
    BY DEF ListSources
  <1>2. building = NotBuilding /\ stale' \subseteq Found
    BY <1>1 DEF Looked, ListSources
  <1>3. \A s \in Stems :
            /\ s \in stale' <=> s \in Found /\ IsStale(s)
            /\ metas'[s] = IF s \in Found /\ ~IsStale(s) THEN KnownMeta(s) ELSE NoMeta
            /\ found'[s] = IF s \in Found
                           THEN [content |-> Source(s).content, format |-> Format(s)] ELSE NotFound
    BY DEF ListSources, Found
  <1>4. \A s \in Found :
            /\ s \in Stems /\ Source(s) # NoSource /\ Format(s) \in Formats
            /\ Source(s) = source[s][Format(s)]
            /\ Source(s).content \in 1..written /\ Source(s).stamp = Source(s).content
            /\ Source(s).content \in Writes
    <2> SUFFICES ASSUME NEW s \in Found
                 PROVE  /\ s \in Stems /\ Source(s) # NoSource /\ Format(s) \in Formats
                        /\ Source(s) = source[s][Format(s)]
                        /\ Source(s).content \in 1..written /\ Source(s).stamp = Source(s).content
                        /\ Source(s).content \in Writes
      OBVIOUS
    <2>1. s \in Stems /\ Source(s) # NoSource
      BY DEF Found
    <2>2. Format(s) \in Formats /\ Source(s) = source[s][Format(s)]
      BY <2>1, SourceType
    <2>3. Source(s) \in Sources /\ Stamped(Source(s))
      BY <2>1, <2>2, CacheNumbers DEF SourcesStamped
    <2>4. QED
      BY <2>1, <2>2, <2>3 DEF Stamped, Sources
  <1>5. \A s \in Stems : found'[s] # NotFound <=> s \in Found
    <2>1. \A s \in Found : found'[s] = [content |-> Source(s).content, format |-> Format(s)]
      BY <1>3, <1>4
    <2>2. \A s \in Found : Source(s).content # 0
      BY <1>4, CacheNumbers
    <2>3. \A s \in Found : found'[s] # NotFound
      <3> SUFFICES ASSUME NEW s \in Found, found'[s] = NotFound PROVE FALSE
        OBVIOUS
      <3>1. [content |-> Source(s).content, format |-> Format(s)].content = NotFound.content
        BY <2>1
      <3>2. QED
        BY <3>1, <2>2 DEF NotFound
    <2>4. \A s \in Stems : s \notin Found => found'[s] = NotFound
      BY <1>3
    <2>5. QED
      BY <2>3, <2>4
  <1>6. CacheTypeOK'
    <2>1. stale' \subseteq Stems
      BY <1>2 DEF Found
    <2>2. NoMeta \in Metas /\ NotFound \in [content : Writes, format : Formats \union {""}]
      BY CacheAssumption DEF NoMeta, Metas, Writes, Versions, NotFound
    <2>3. metas' \in [Stems -> Metas]
      BY <2>2, KnownType DEF ListSources
    <2>4. found' \in [Stems -> [content : Writes, format : Formats \union {""}]]
      BY <1>4, <2>2 DEF ListSources
    <2>5. QED
      BY <1>1, <2>1, <2>3, <2>4 DEF CacheTypeOK
  <1>7. \A s \in Stems :
            KnownMeta(s)' = KnownMeta(s) /\ (Unfit(s, KnownMeta(s))' <=> Unfit(s, KnownMeta(s)))
    BY <1>1 DEF KnownMeta, Unfit, Source, Format
  <1>8. SourcesStamped' /\ Papers'
    BY <1>1 DEF SourcesStamped, Stamped, Papers
  <1>9. KnownIsTrue'
    BY <1>1, <1>7 DEF KnownIsTrue, Vouches
  <1>10. \A s \in Found : IsStale(s) => Unfit(s, KnownMeta(s))
    BY <1>4 DEF IsStale, KnownIsTrue, Vouches, NoShard, Unfit
  <1>11. \A s \in Found : ~IsStale(s) =>
            /\ KnownMeta(s) # NoMeta /\ Vouches(s, KnownMeta(s))
            /\ Source(s).content <= KnownMeta(s).stamp /\ KnownMeta(s).stamp <= written
    <2> SUFFICES ASSUME NEW s \in Found, ~IsStale(s)
                 PROVE  /\ KnownMeta(s) # NoMeta /\ Vouches(s, KnownMeta(s))
                        /\ Source(s).content <= KnownMeta(s).stamp /\ KnownMeta(s).stamp <= written
      OBVIOUS
    <2>1. s \in Stems /\ Source(s) # NoSource /\ Source(s).stamp = Source(s).content
      BY <1>4
    <2>2. KnownMeta(s) \in Metas /\ KnownMeta(s).stamp <= written
      BY <2>1, KnownType DEF Papers
    <2>3. ~Unfit(s, KnownMeta(s))
      BY <2>1 DEF IsStale, Unfit
    <2>4. Vouches(s, KnownMeta(s))
      BY <2>1, <2>3 DEF KnownIsTrue
    <2>5. Source(s).stamp \in Nat /\ KnownMeta(s).stamp \in Nat
      BY <2>1, <2>2, SourceType, CacheNumbers
    <2>6. QED
      BY <2>1, <2>2, <2>3, <2>4, <2>5 DEF Unfit
  <1>12. Looked'
    <2>1. \A s \in Stems :
            /\ found'[s] # NotFound <=> metas'[s] # NoMeta \/ s \in stale'
            /\ s \in stale' => metas'[s] = NoMeta
      BY <1>3, <1>5, <1>11
    <2>2. \A s \in Found :
            /\ found'[s].format \in Formats /\ found'[s].content \in 1..written
            /\ found'[s].content = JobSource(s)'.content
      <3> SUFFICES ASSUME NEW s \in Found
                   PROVE  /\ found'[s].format \in Formats /\ found'[s].content \in 1..written
                          /\ found'[s].content = JobSource(s)'.content
        OBVIOUS
      <3>1. found'[s] = [content |-> Source(s).content, format |-> Format(s)]
        BY <1>3, <1>4
      <3>2. found'[s].content = Source(s).content /\ found'[s].format = Format(s)
        BY <3>1
      <3>3. JobSource(s)' = source[s][Format(s)]
        BY <1>1, <3>2 DEF JobSource
      <3>4. QED
        BY <1>4, <3>2, <3>3
    <2>3. \A s \in Stems : s \in Found => found'[s].content \in Nat /\ JobSource(s)'.content \in Nat
      BY <2>2, CacheNumbers
    <2>4. QED
      BY <1>1, <1>2, <1>5, <2>1, <2>2, <2>3 DEF Looked
  <1>13. OthersUnfit'
    <2>1. \A s \in Stems : s \notin Found => Unfit(s, KnownMeta(s))
      BY DEF Found, Unfit
    <2>2. QED
      BY <1>3, <1>5, <1>7, <1>10, <2>1 DEF OthersUnfit
  <1>14. Built'
    <2>1. \A s \in Stems : metas'[s] # NoMeta =>
              /\ Vouches(s, metas'[s]) /\ found'[s].content <= metas'[s].stamp
              /\ metas'[s].stamp <= written
      <3> SUFFICES ASSUME NEW s \in Stems, metas'[s] # NoMeta
                   PROVE  /\ Vouches(s, metas'[s]) /\ found'[s].content <= metas'[s].stamp
                          /\ metas'[s].stamp <= written
        OBVIOUS
      <3>1. s \in Found /\ ~IsStale(s) /\ metas'[s] = KnownMeta(s)
        BY <1>3
      <3>2. found'[s] = [content |-> Source(s).content, format |-> Format(s)]
        BY <1>3, <3>1
      <3>3. QED
        BY <1>11, <3>1, <3>2
    <2>2. \A s \in Stems, m \in Metas : Vouches(s, m) => Vouches(s, m)'
      BY <1>1 DEF Vouches
    <2>3. QED
      BY <1>1, <1>2, <1>6, <2>1, <2>2 DEF Built, CacheTypeOK, Vouches
  <1>15. QED
    BY <1>6, <1>8, <1>9, <1>12, <1>13, <1>14

\* The shard that is written to is one that nothing vouches for.
LEMMA OpenKeeps == ASSUME CacheInv, NEW t \in Stems, OpenShard(t) PROVE CacheInv'
  <1> USE DEF CacheInv
  <1>1. /\ step = "build" /\ building = NotBuilding /\ t \in stale
        /\ building' = [stem |-> t, read |-> 0]
        /\ shard' = [shard EXCEPT ![t] = [content |-> 0, version |-> version, whole |-> FALSE]]
        /\ UNCHANGED <<written, calls, version, source, sidecar, sentinel, step, metas,
                       stale, found>>
    BY DEF OpenShard
  <1>2. CacheTypeOK'
    <2>1. 0 \in Writes
      BY CacheAssumption DEF Writes
    <2>2. building' \in [stem : Stems \union {""}, read : Writes]
      BY <1>1, <2>1
    <2>3. shard' \in [Stems -> [content : Writes, version : Versions, whole : BOOLEAN]]
      BY <1>1, <2>1 DEF CacheTypeOK
    <2>4. QED
      BY <1>1, <2>2, <2>3 DEF CacheTypeOK
  <1>3. \A s \in Stems : s # t => shard'[s] = shard[s]
    BY <1>1 DEF CacheTypeOK
  <1>4. \A s \in Stems :
            KnownMeta(s)' = KnownMeta(s) /\ (Unfit(s, KnownMeta(s))' <=> Unfit(s, KnownMeta(s)))
    BY <1>1 DEF KnownMeta, Unfit, Source, Format
  <1>5. Unfit(t, KnownMeta(t)) /\ metas[t] = NoMeta
    BY <1>1 DEF OthersUnfit, Looked, Working
  <1>6. SourcesStamped' /\ Papers'
    BY <1>1 DEF SourcesStamped, Stamped, Papers
  <1>7. KnownIsTrue'
    BY <1>1, <1>3, <1>4, <1>5 DEF KnownIsTrue, Vouches
  <1>8. Looked'
    BY <1>1 DEF Looked, Working, JobSource
  <1>9. OthersUnfit'
    BY <1>1, <1>4 DEF OthersUnfit, Working
  <1>10. Built'
    BY <1>1, <1>3, <1>5 DEF Built, Working, Vouches
  <1>11. QED
    BY <1>2, <1>6, <1>7, <1>8, <1>9, <1>10

LEMMA FillKeeps == ASSUME CacheInv, FillShard PROVE CacheInv'
  <1> USE DEF CacheInv
  <1> DEFINE t == building.stem
             c == JobSource(t).content
  <1>1. /\ building # NotBuilding /\ building.read = 0 /\ JobSource(t) # NoSource
        /\ building' = [building EXCEPT !.read = c]
        /\ shard' = [shard EXCEPT ![t] = [content |-> c, version |-> version, whole |-> TRUE]]
        /\ UNCHANGED <<written, calls, version, source, sidecar, sentinel, step, metas,
                       stale, found>>
    BY DEF FillShard
  <1>2. t \in Stems /\ t \in stale /\ step = "build"
    BY <1>1 DEF Looked, CacheTypeOK
  <1>3. found[t] # NotFound /\ found[t].format \in Formats
    BY <1>2 DEF Looked, Working
  <1>4. c \in Writes
    BY <1>2, <1>3, CacheNumbers DEF JobSource, Sources
  <1>5. building' = [stem |-> t, read |-> c]
    BY <1>1 DEF CacheTypeOK
  <1> HIDE DEF t, c
  <1>6. CacheTypeOK'
    <2>1. building' \in [stem : Stems \union {""}, read : Writes]
      BY <1>2, <1>4, <1>5
    <2>2. shard' \in [Stems -> [content : Writes, version : Versions, whole : BOOLEAN]]
      BY <1>1, <1>4 DEF CacheTypeOK
    <2>3. QED
      BY <1>1, <2>1, <2>2 DEF CacheTypeOK
  <1>7. /\ \A s \in Stems : s # t => shard'[s] = shard[s]
        /\ shard'[t] = [content |-> c, version |-> version, whole |-> TRUE]
    BY <1>1, <1>2 DEF CacheTypeOK
  <1>8. \A s \in Stems :
            KnownMeta(s)' = KnownMeta(s) /\ (Unfit(s, KnownMeta(s))' <=> Unfit(s, KnownMeta(s)))
    BY <1>1 DEF KnownMeta, Unfit, Source, Format
  <1>9. Unfit(t, KnownMeta(t)) /\ metas[t] = NoMeta
    BY <1>2 DEF OthersUnfit, Looked, Working
  <1>10. SourcesStamped' /\ Papers'
    BY <1>1 DEF SourcesStamped, Stamped, Papers
  <1>11. KnownIsTrue'
    BY <1>1, <1>7, <1>8, <1>9 DEF KnownIsTrue, Vouches
  <1>12. Looked'
    BY <1>1, <1>2, <1>5 DEF Looked, Working, JobSource
  <1>13. OthersUnfit'
    BY <1>1, <1>8 DEF OthersUnfit, Working
  <1>14. Built'
    <2>1. building'.stem = t /\ building'.read = c /\ source'[t][found'[t].format].content = c
      BY <1>1, <1>5 DEF JobSource, c
    <2>2. Working' => \A s \in Stems : metas'[s] # NoMeta =>
              /\ Vouches(s, metas[s])' /\ found'[s].content <= metas'[s].stamp
              /\ metas'[s].stamp <= written'
      BY <1>1, <1>7, <1>9 DEF Built, Working, Vouches
    <2>3. JobSource(building.stem)'.content = c
      BY <2>1 DEF JobSource
    <2>4. step' # "read"
      BY <1>1, <1>2
    <2>5. QED
      BY <1>1, <1>7, <2>1, <2>2, <2>3, <2>4 DEF Built
  <1>15. QED
    BY <1>6, <1>10, <1>11, <1>12, <1>13, <1>14

\* The sidecar is written for the very file the shard was made from.
LEMMA StampKeeps == ASSUME CacheInv, StampShard PROVE CacheInv'
  <1> USE DEF CacheInv
  <1> DEFINE t == building.stem
             m == [stamp |-> JobSource(t).stamp, version |-> version]
  <1>1. /\ building # NotBuilding /\ building.read # 0 /\ JobSource(t) # NoSource
        /\ sidecar' = [sidecar EXCEPT ![t] = m]
        /\ metas' = [metas EXCEPT ![t] = m]
        /\ stale' = stale \ {t} /\ building' = NotBuilding
        /\ UNCHANGED <<written, calls, version, source, shard, sentinel, step, found>>
    BY DEF StampShard
  <1>2. t \in Stems /\ t \in stale /\ step = "build"
    BY <1>1 DEF Looked, CacheTypeOK
  <1>3. /\ found[t] # NotFound /\ found[t].format \in Formats /\ metas[t] = NoMeta
        /\ found[t].content <= JobSource(t).content
    BY <1>1, <1>2 DEF Looked, Working
  <1>4. /\ JobSource(t).content \in 1..written /\ JobSource(t).stamp = JobSource(t).content
        /\ JobSource(t).stamp \in Writes
    <2>1. JobSource(t) \in Sources /\ Stamped(JobSource(t))
      BY <1>2, <1>3, CacheNumbers DEF JobSource, SourcesStamped
    <2>2. QED
      BY <1>1, <2>1 DEF Stamped, Sources
  <1>5. /\ m \in Metas /\ m # NoMeta /\ m.version = version /\ m.stamp <= written
        /\ m.stamp = JobSource(t).content
    <2>1. m \in Metas
      BY <1>4 DEF Metas, CacheTypeOK
    <2>2. m.stamp = JobSource(t).content /\ m.version = version
      BY <1>4
    <2>3. m.stamp # 0 /\ m.stamp <= written
      BY <1>4, <2>2, CacheNumbers
    <2>4. QED
      BY <2>1, <2>2, <2>3 DEF NoMeta
  <1>6. Vouches(t, m)
    BY <1>1, <1>5 DEF Built, Vouches
  <1>7. found[t].content <= m.stamp
    BY <1>3, <1>5
  <1> HIDE DEF t, m
  <1>8. CacheTypeOK'
    <2>1. sidecar' \in [Stems -> Metas] /\ metas' \in [Stems -> Metas] /\ stale' \subseteq Stems
      BY <1>1, <1>5 DEF CacheTypeOK
    <2>2. 0 \in Writes
      BY CacheAssumption DEF Writes
    <2>3. building' \in [stem : Stems \union {""}, read : Writes]
      BY <1>1, <2>2 DEF NotBuilding
    <2>4. QED
      BY <1>1, <2>1, <2>3 DEF CacheTypeOK
  <1>9. /\ sidecar'[t] = m /\ metas'[t] = m
        /\ \A s \in Stems : s # t => sidecar'[s] = sidecar[s] /\ metas'[s] = metas[s]
    BY <1>1, <1>2 DEF CacheTypeOK
  <1>10. \A s \in Stems, n \in Metas :
            (Unfit(s, n)' <=> Unfit(s, n)) /\ (Vouches(s, n)' <=> Vouches(s, n))
    BY <1>1 DEF Unfit, Vouches, Source, Format
  <1>11. \A s \in Stems : KnownMeta(s)' = KnownMeta(s) \/ (s = t /\ KnownMeta(s)' = m)
    BY <1>1, <1>9 DEF KnownMeta
  <1>12. SourcesStamped'
    BY <1>1 DEF SourcesStamped, Stamped
  <1>13. Papers'
    BY <1>1, <1>5, <1>9, CacheNumbers DEF Papers
  <1>14. KnownIsTrue'
    <2> SUFFICES ASSUME NEW s \in Stems PROVE (Unfit(s, KnownMeta(s)) \/ Vouches(s, KnownMeta(s)))'
      BY DEF KnownIsTrue
    <2>1. CASE KnownMeta(s)' = KnownMeta(s)
      BY <1>1, <2>1 DEF KnownIsTrue, Unfit, Vouches, Source, Format
    <2>2. CASE s = t /\ KnownMeta(s)' = m
      BY <1>1, <1>6, <2>2 DEF Vouches
    <2>3. QED
      BY <1>11, <2>1, <2>2
  <1>15. Looked'
    <2>1. \A s \in Stems : found'[s] # NotFound <=> metas'[s] # NoMeta \/ s \in stale'
      BY <1>1, <1>2, <1>3, <1>5, <1>9 DEF Looked, Working
    <2>2. \A s \in stale' : metas'[s] = NoMeta
      BY <1>1, <1>2, <1>9 DEF Looked, Working, CacheTypeOK
    <2>3. QED
      BY <1>1, <1>2, <2>1, <2>2 DEF Looked, Working, JobSource
  <1>16. OthersUnfit'
    <2> SUFFICES ASSUME NEW s \in Stems, s \in stale' \/ found'[s] = NotFound
                 PROVE  Unfit(s, KnownMeta(s))'
      BY <1>1, <1>2 DEF OthersUnfit
    <2>1. s # t /\ (s \in stale \/ found[s] = NotFound)
      BY <1>1, <1>3
    <2>2. Unfit(s, KnownMeta(s)) /\ KnownMeta(s)' = KnownMeta(s)
      BY <1>2, <1>11, <2>1 DEF OthersUnfit, Working
    <2>3. QED
      BY <1>1, <2>2 DEF Unfit, Source, Format
  <1>17. Built'
    <2>1. \A s \in Stems : metas'[s] # NoMeta =>
              /\ Vouches(s, metas'[s]) /\ found[s].content <= metas'[s].stamp
              /\ metas'[s].stamp <= written
      BY <1>2, <1>5, <1>6, <1>7, <1>9 DEF Built, Working
    <2>2. QED
      BY <1>1, <1>2, <2>1 DEF Built, Vouches
  <1>18. QED
    BY <1>8, <1>12, <1>13, <1>14, <1>15, <1>16, <1>17

\* The tool ends, in whatever way, and forgets what it was about.
LEMMA OffKeeps ==
    ASSUME CacheInv, CacheTypeOK', Off,
           UNCHANGED <<written, version, source, shard, sidecar, sentinel>>
    PROVE  CacheInv'
  <1> USE DEF CacheInv
  <1>1. SourcesStamped' /\ Papers'
    BY DEF SourcesStamped, Stamped, Papers
  <1>2. KnownIsTrue'
    BY DEF KnownIsTrue, KnownMeta, Unfit, Vouches, Source, Format
  <1>3. Looked' /\ OthersUnfit' /\ Built'
    BY DEF Off, Looked, OthersUnfit, Built, Working
  <1>4. QED
    BY <1>1, <1>2, <1>3

LEMMA OffType ==
    ASSUME CacheTypeOK, Off, UNCHANGED <<written, calls, version, source, sentinel>>,
           shard' \in [Stems -> [content : Writes, version : Versions, whole : BOOLEAN]],
           sidecar' \in [Stems -> Metas]
    PROVE  CacheTypeOK'
  <1>1. 0 \in Writes /\ 0 \in Versions
    BY CacheAssumption DEF Writes, Versions
  <1>2. metas' \in [Stems -> Metas]
    BY <1>1 DEF Off, NoMeta, Metas
  <1>3. found' \in [Stems -> [content : Writes, format : Formats \union {""}]]
    BY <1>1 DEF Off, NotFound
  <1>4. building' \in [stem : Stems \union {""}, read : Writes]
    BY <1>1 DEF Off, NotBuilding
  <1>5. QED
    BY <1>2, <1>3, <1>4 DEF CacheTypeOK, Off

LEMMA EndsKeep == ASSUME CacheInv, BuildFails \/ Die \/ Analyse PROVE CacheInv'
  <1>1. Off /\ UNCHANGED <<written, calls, version, source, shard, sidecar, sentinel>>
    BY DEF BuildFails, Die, Analyse
  <1>2. CacheTypeOK'
    BY <1>1, OffType DEF CacheInv, CacheTypeOK
  <1>3. QED
    BY <1>1, <1>2, OffKeeps

LEMMA BuildsDoneKeeps == ASSUME CacheInv, BuildsDone PROVE CacheInv'
  <1> USE DEF CacheInv
  <1>1. /\ step = "build" /\ step' = "tidy" /\ stale = {} /\ building = NotBuilding
        /\ UNCHANGED <<written, calls, version, source, shard, sidecar, sentinel, metas,
                       stale, building, found>>
    BY DEF BuildsDone
  <1>2. CacheTypeOK' /\ SourcesStamped' /\ Papers'
    BY <1>1 DEF CacheTypeOK, SourcesStamped, Stamped, Papers
  <1>3. KnownIsTrue' /\ OthersUnfit'
    BY <1>1 DEF KnownIsTrue, OthersUnfit, Working, KnownMeta, Unfit, Vouches, Source, Format
  <1>4. Looked' /\ Built'
    BY <1>1 DEF Looked, Built, Working, Vouches, JobSource
  <1>5. QED
    BY <1>2, <1>3, <1>4

\* Only what was not listed is deleted, with what vouches for it or without.
LEMMA DieTidyingKeeps == ASSUME CacheInv, DieTidying PROVE CacheInv'
  <1> USE DEF CacheInv
  <1>1. /\ step = "tidy" /\ Off /\ UNCHANGED <<written, calls, version, source, sentinel>>
    BY DEF DieTidying
  <1>2. PICK gone, stripped \in SUBSET (Stems \ Listed) :
            /\ shard' = [s \in Stems |-> IF s \in gone THEN NoShard ELSE shard[s]]
            /\ sidecar' = [s \in Stems |-> IF s \in stripped THEN NoMeta ELSE sidecar[s]]
    BY DEF DieTidying
  <1>3. 0 \in Writes /\ 0 \in Versions /\ 0 <= version /\ 0 <= written
    BY CacheNumbers, CacheAssumption DEF Writes, Versions
  <1>4. CacheTypeOK'
    <2>1. shard' \in [Stems -> [content : Writes, version : Versions, whole : BOOLEAN]]
      BY <1>2, <1>3 DEF CacheTypeOK, NoShard
    <2>2. sidecar' \in [Stems -> Metas]
      BY <1>2, <1>3 DEF CacheTypeOK, NoMeta, Metas
    <2>3. QED
      BY <1>1, <2>1, <2>2, OffType
  <1>5. SourcesStamped'
    BY <1>1 DEF SourcesStamped, Stamped
  <1>6. Papers'
    BY <1>1, <1>2, <1>3 DEF Papers, NoMeta
  <1>7. \A s \in Stems \ Listed : Unfit(s, KnownMeta(s))
    BY <1>1 DEF OthersUnfit, Looked, Listed, Working
  <1>8. KnownIsTrue'
    <2> SUFFICES ASSUME NEW s \in Stems PROVE (Unfit(s, KnownMeta(s)) \/ Vouches(s, KnownMeta(s)))'
      BY DEF KnownIsTrue
    <2>1. CASE s \in Listed
      <3>1. shard'[s] = shard[s] /\ sidecar'[s] = sidecar[s]
        BY <1>2, <2>1
      <3>2. KnownMeta(s)' = KnownMeta(s)
        BY <1>1, <3>1 DEF KnownMeta
      <3>3. QED
        BY <1>1, <3>1, <3>2 DEF KnownIsTrue, Unfit, Vouches, Source, Format
    <2>2. CASE s \notin Listed
      <3>1. sidecar'[s] \in {NoMeta, sidecar[s]}
        BY <1>2
      <3>2. KnownMeta(s)' \in {NoMeta, KnownMeta(s)}
        BY <1>1, <3>1 DEF KnownMeta
      <3>3. QED
        BY <1>1, <1>7, <2>2, <3>2 DEF Unfit, Source, Format
    <2>3. QED
      BY <2>1, <2>2
  <1>9. Looked' /\ OthersUnfit' /\ Built'
    BY <1>1 DEF Off, Looked, OthersUnfit, Built, Working
  <1>10. QED
    BY <1>4, <1>5, <1>6, <1>8, <1>9

\* The new index is what has been looked at in this call, and nothing else is left.
LEMMA TidyKeeps == ASSUME CacheInv, Tidy PROVE CacheInv'
  <1> USE DEF CacheInv
  <1>1. /\ step = "tidy" /\ step' = "read"
        /\ shard' = [s \in Stems |-> IF s \in Listed THEN shard[s] ELSE NoShard]
        /\ sidecar' = [s \in Stems |-> IF s \in Listed THEN sidecar[s] ELSE NoMeta]
        /\ sentinel' = [version |-> version, index |-> metas]
        /\ UNCHANGED <<written, calls, version, source, metas, stale, building, found>>
    BY DEF Tidy
  <1>2. 0 \in Writes /\ 0 \in Versions /\ 0 <= version /\ 0 <= written
    BY CacheNumbers, CacheAssumption DEF Writes, Versions
  <1>3. CacheTypeOK'
    <2>1. shard' \in [Stems -> [content : Writes, version : Versions, whole : BOOLEAN]]
      BY <1>1, <1>2 DEF CacheTypeOK, NoShard
    <2>2. sidecar' \in [Stems -> Metas]
      BY <1>1, <1>2 DEF CacheTypeOK, NoMeta, Metas
    <2>3. sentinel' \in [version : Versions, index : [Stems -> Metas]]
      BY <1>1 DEF CacheTypeOK
    <2>4. QED
      BY <1>1, <2>1, <2>2, <2>3 DEF CacheTypeOK
  <1>4. SourcesStamped'
    BY <1>1 DEF SourcesStamped, Stamped
  <1>5. stale = {} /\ building = NotBuilding
    BY <1>1 DEF Looked
  <1>6. \A s \in Listed :
            /\ s \in Stems /\ metas[s] # NoMeta /\ metas[s].version = version
            /\ Vouches(s, metas[s]) /\ metas[s].stamp <= written
    BY <1>1 DEF Listed, Built, Working, Vouches
  <1>7. \A s \in Stems : sentinel'.index[s] = metas[s] /\ (s \notin Listed => metas[s] = NoMeta)
    BY <1>1 DEF Listed
  <1>8. \A s \in Stems : sidecar'[s] \in {NoMeta, sidecar[s]}
    BY <1>1
  <1>9. Papers'
    BY <1>1, <1>2, <1>6, <1>7, <1>8, CacheNumbers DEF Papers, NoMeta
  <1>10. \A s \in Stems : KnownMeta(s)' = metas[s]
    BY <1>1, <1>6, <1>7 DEF KnownMeta
  <1>11. \A s \in Listed : shard'[s] = shard[s]
    BY <1>1, <1>6
  <1>12. KnownIsTrue'
    <2> SUFFICES ASSUME NEW s \in Stems PROVE (Unfit(s, KnownMeta(s)) \/ Vouches(s, KnownMeta(s)))'
      BY DEF KnownIsTrue
    <2>1. CASE s \in Listed
      BY <1>1, <1>6, <1>10, <1>11, <2>1 DEF Vouches
    <2>2. CASE s \notin Listed
      BY <1>7, <1>10, <2>2 DEF Unfit
    <2>3. QED
      BY <2>1, <2>2
  <1>13. Looked'
    BY <1>1, <1>5 DEF Looked, Working, JobSource
  <1>14. OthersUnfit'
    BY <1>1, <1>5 DEF OthersUnfit
  <1>15. Built'
    <2>1. \A s \in Stems : metas[s] # NoMeta =>
              /\ Vouches(s, metas[s])' /\ found[s].content <= metas[s].stamp
              /\ metas[s].stamp <= written
      BY <1>1, <1>11 DEF Built, Working, Vouches, Listed
    <2>2. \A s \in Stems : found[s] = NotFound => shard'[s] = NoShard
      BY <1>1, <1>5 DEF Looked, Working, Listed
    <2>3. QED
      BY <1>1, <1>5, <2>1, <2>2 DEF Built
  <1>16. QED
    BY <1>3, <1>4, <1>9, <1>12, <1>13, <1>14, <1>15

-----------------------------------------------------------------------------
(* The theorems.                                                           *)

LEMMA CacheInitial == CacheInit => CacheInv
  <1> SUFFICES ASSUME CacheInit PROVE CacheInv
    OBVIOUS
  <1> USE DEF CacheInit
  <1>1. /\ 0 \in Writes /\ 0 \in Versions /\ 1 \in Versions /\ 0 \in 0..MaxCalls
    BY CacheAssumption DEF Writes, Versions
  <1>2. NoMeta \in Metas /\ NoSource \in Sources
        /\ NoShard \in [content : Writes, version : Versions, whole : BOOLEAN]
        /\ NotFound \in [content : Writes, format : Formats \union {""}]
        /\ NotBuilding \in [stem : Stems \union {""}, read : Writes]
    BY <1>1 DEF NoMeta, Metas, NoSource, Sources, NoShard, NotFound, NotBuilding
  <1>3. CacheTypeOK
    <2>1. sentinel \in [version : Versions, index : [Stems -> Metas]]
      BY <1>1, <1>2 DEF NoSentinel
    <2>2. written \in Writes /\ calls \in 0..MaxCalls /\ version \in Versions \ {0}
      BY <1>1
    <2>3. source \in [Stems -> [Formats -> Sources]]
      BY <1>2
    <2>4. QED
      BY <1>2, <2>1, <2>2, <2>3 DEF CacheTypeOK
  <1>4. SourcesStamped
    BY DEF SourcesStamped, Stamped, Stems, Formats
  <1>5. Papers
    BY DEF Papers, NoMeta, NoSentinel
  <1>6. KnownIsTrue /\ Looked /\ OthersUnfit /\ Built
    BY DEF KnownIsTrue, KnownMeta, Unfit, NoSentinel, Looked, OthersUnfit, Built, Working
  <1>7. QED
    BY <1>3, <1>4, <1>5, <1>6 DEF CacheInv

LEMMA CacheStep ==
    ASSUME CacheFaults \subseteq {"crash"}
    PROVE  CacheInv /\ [CacheNext]_cacheVars => CacheInv'
  <1>1. ASSUME CacheInv, CacheNext PROVE CacheInv'
    BY <1>1, OutsideKeeps, NewVersionKeeps, CallKeeps, ListKeeps, OpenKeeps, FillKeeps, StampKeeps,
       EndsKeep, BuildsDoneKeeps, TidyKeeps, DieTidyingKeeps DEF CacheNext
  <1>2. ASSUME CacheInv, UNCHANGED cacheVars PROVE CacheInv'
    <2> USE <1>2 DEF cacheVars, CacheInv
    <2>1. CacheTypeOK' /\ SourcesStamped' /\ Papers'
      BY DEF CacheTypeOK, SourcesStamped, Stamped, Papers
    <2>2. KnownIsTrue' /\ OthersUnfit'
      BY DEF KnownIsTrue, OthersUnfit, Working, KnownMeta, Unfit, Vouches, Source, Format
    <2>3. Looked' /\ Built'
      BY DEF Looked, Built, Working, Vouches, JobSource
    <2>4. QED
      BY <2>1, <2>2, <2>3
  <1>3. QED
    BY <1>1, <1>2

\* In every state of the cache that crashes, other versions and changing logs
\* can lead to, what the tool takes for the sidecar of a shard is either of no
\* use, and stays so, or says what the shard is.
THEOREM CacheInvariant ==
    ASSUME CacheFaults \subseteq {"crash"}
    PROVE  CacheSpec => []CacheInv
  <1>1. CacheInit => CacheInv
    BY CacheInitial
  <1>2. CacheInv /\ [CacheNext]_cacheVars => CacheInv'
    BY CacheStep
  <1>3. QED
    BY <1>1, <1>2, PTL DEF CacheSpec

\* What is analysed is what is there, for any number of spawns, calls, versions
\* and writes to the logs, wherever the tool dies, as long as time stamps go
\* forward and a log is left alone while its shard is built.
THEOREM AnalysesAreCurrent ==
    ASSUME CacheFaults \subseteq {"crash"}
    PROVE  CacheSpec => []AnalysedIsCurrent
  <1>1. CacheInv => AnalysedIsCurrent
    <2> SUFFICES ASSUME CacheInv, step = "read" PROVE AnalysedIsCurrent
      BY DEF AnalysedIsCurrent
    <2> DEFINE wasThere == {s \in Stems : found[s] # NotFound}
    <2>1. \A s \in wasThere : metas[s] # NoMeta
      BY DEF CacheInv, Looked, Working
    <2>2. \A s \in wasThere :
              shard[s].whole /\ shard[s].version = version /\ shard[s].content >= found[s].content
      <3>1. \A s \in wasThere :
                /\ shard[s].whole /\ shard[s].version = version
                /\ shard[s].content = metas[s].stamp /\ found[s].content <= metas[s].stamp
        BY <2>1 DEF CacheInv, Built, Vouches, Working
      <3>2. \A s \in Stems : shard[s].content \in Nat /\ found[s].content \in Nat
        BY CacheNumbers DEF CacheInv
      <3>3. QED
        BY <3>1, <3>2
    <2>3. \A s \in Stems \ wasThere : shard[s] = NoShard
      BY DEF CacheInv, Built
    <2>4. wasThere = Listed
      BY <2>1 DEF CacheInv, Looked, Working, Listed
    <2>5. \A s \in VariantStems \intersect wasThere :
              \E g \in Groups : {s} \union (SyncStems \intersect wasThere) \subseteq g
      <3> SUFFICES ASSUME NEW s \in VariantStems \intersect wasThere
                   PROVE  \E g \in Groups : {s} \union (SyncStems \intersect wasThere) \subseteq g
        OBVIOUS
      <3>1. {s} \union (Listed \intersect SyncStems) \in Groups
        BY <2>4 DEF Groups
      <3>2. {s} \union (SyncStems \intersect wasThere)
                \subseteq {s} \union (Listed \intersect SyncStems)
        BY <2>4
      <3>3. QED
        BY <3>1, <3>2
    <2>6. QED
      BY <2>2, <2>3, <2>5 DEF AnalysedIsCurrent
  <1>2. QED
    BY <1>1, CacheInvariant, PTL

-----------------------------------------------------------------------------
(* Verdicts: counting rows and leaves.                                     *)

LEMMA CountingUp == \A n \in Nat : IsFiniteSet(1..n) /\ Cardinality(1..n) = n
<1> SUFFICES ASSUME NEW n \in Nat PROVE IsFiniteSet(1..n) /\ Cardinality(1..n) = n
  OBVIOUS
<1>1. 1 \in Int /\ n \in Int
  OBVIOUS
<1>2. IsFiniteSet(1..n) /\ Cardinality(1..n) = IF 1 > n THEN 0 ELSE n - 1 + 1
  BY <1>1, FS_Interval
<1> QED BY <1>2

LEMMA SomeMessages == \A W \in SUBSET Messages : IsFiniteSet(W) /\ Cardinality(W) \in Nat
<1>1. IsFiniteSet(Messages)
  BY VerdictsAssumption, FS_Interval DEF Messages
<1> QED BY <1>1, FS_Subset, FS_CardinalityType

LEMMA LeafCounts == \A s \in Messages : LeafCount[s] \in Nat /\ LeafCount[s] >= 1
BY VerdictsAssumption DEF Messages

Injective(d) == \A i, j \in DOMAIN d : d[i].seq = d[j].seq => i = j

LEMMA RowParts == \A r \in Receives : r.writer \in Hosts /\ r.seq \in Messages /\ r.near \in BOOLEAN
BY DEF Receives

LEMMA DistinctRows ==
    ASSUME NEW d \in Seq(Receives)
    PROVE  /\ Distinct(d) \in SUBSET Messages /\ Cardinality(Distinct(d)) \in Nat
           /\ Cardinality(Distinct(d)) <= Len(d)
           /\ Cardinality(Distinct(d)) = Len(d) <=> Injective(d)
<1> DEFINE n == Len(d)
           f == [i \in 1..n |-> d[i].seq]
<1>1. n \in Nat /\ DOMAIN d = 1..n /\ \A i \in 1..n : d[i] \in Receives
  OBVIOUS
<1>2. Distinct(d) \in SUBSET Messages
  BY <1>1, RowParts DEF Distinct
<1>3. f \in Surjection(1..n, Distinct(d))
  BY <1>1 DEF Surjection, Distinct
<1>4. IsFiniteSet(1..n) /\ Cardinality(1..n) = n
  BY <1>1, CountingUp
<1>5. f \in Injection(1..n, Distinct(d)) <=> Injective(d)
  <2>1. f \in [1..n -> Distinct(d)]
    BY <1>3 DEF Surjection
  <2> QED BY <1>1, <2>1 DEF Injection, IsInjective, Injective
<1> HIDE DEF f, n
<1>6. /\ Cardinality(Distinct(d)) <= Cardinality(1..n)
      /\ Cardinality(Distinct(d)) = Cardinality(1..n) <=> f \in Injection(1..n, Distinct(d))
  BY <1>3, <1>4, FS_Surjection
<1> QED BY <1>2, <1>4, <1>5, <1>6, SomeMessages DEF n

LEMMA StepsBack ==
    ASSUME NEW d \in Seq(Receives)
    PROVE  /\ OutOfOrder(d) \in Nat
           /\ OutOfOrder(d) = 0 <=> \A i \in 2..Len(d) : ~(d[i].seq < d[i - 1].seq)
<1> DEFINE B == {i \in 2..Len(d) : d[i].seq < d[i - 1].seq}
<1>1. IsFiniteSet(2..Len(d)) /\ B \in SUBSET (2..Len(d))
  BY FS_Interval
<1> HIDE DEF B
<1>2. IsFiniteSet(B)
  BY <1>1, FS_Subset
<1>3. Cardinality(B) \in Nat /\ (Cardinality(B) = 0 <=> B = {})
  BY <1>2, FS_EmptySet, FS_CardinalityType
<1> QED BY <1>3 DEF B, OutOfOrder

\* Rows none of which goes back, nor is there twice, are in order.
LEMMA NeighboursInOrder ==
    ASSUME NEW d \in Seq(Receives), Injective(d), OutOfOrder(d) = 0
    PROVE  \A i, j \in DOMAIN d : i < j => d[i].seq < d[j].seq
<1> DEFINE v == [i \in 1..Len(d) |-> d[i].seq]
           Bad == {j \in 1..Len(d) : \E i \in 1..Len(d) : i < j /\ ~(v[i] < v[j])}
<1>1. Len(d) \in Nat /\ DOMAIN d = 1..Len(d)
  OBVIOUS
<1>2. \A i \in 1..Len(d) : v[i] \in Nat /\ v[i] = d[i].seq
  <2>1. \A i \in 1..Len(d) : d[i].seq \in Messages
    BY RowParts
  <2>2. \A i \in 1..Len(d) : d[i].seq \in Nat
    BY <2>1, VerdictsAssumption DEF Messages
  <2> QED BY <2>2
<1>3. \A i \in 1..Len(d) : i # 1 => i - 1 \in 1..Len(d) /\ v[i - 1] < v[i]
  <2> SUFFICES ASSUME NEW i \in 1..Len(d), i # 1
               PROVE  i - 1 \in 1..Len(d) /\ v[i - 1] < v[i]
    OBVIOUS
  <2>1. i \in 2..Len(d) /\ i - 1 \in 1..Len(d) /\ i - 1 # i
    BY <1>1
  <2>2. ~(d[i].seq < d[i - 1].seq)
    BY <2>1, StepsBack
  <2>3. d[i].seq # d[i - 1].seq
    BY <1>1, <2>1 DEF Injective
  <2>4. v[i] = d[i].seq /\ v[i - 1] = d[i - 1].seq /\ v[i] \in Nat /\ v[i - 1] \in Nat
    BY <1>2, <2>1
  <2> HIDE DEF v
  <2>5. \A x, y \in Nat : ~(x < y) /\ x # y => y < x
    OBVIOUS
  <2> QED BY <2>1, <2>2, <2>3, <2>4, <2>5
<1> HIDE DEF v
<1>4. Bad = {}
  <2> SUFFICES ASSUME Bad # {} PROVE FALSE
    OBVIOUS
  <2>1. Bad \in SUBSET Nat
    BY <1>1
  <2> HIDE DEF Bad
  <2>2. PICK j \in Bad : \A y \in Bad : j <= y
    BY <2>1, LeastPlaceExists
  <2> USE DEF Bad
  <2>3. PICK i \in 1..Len(d) : i < j /\ ~(v[i] < v[j])
    BY <2>2
  <2>4. j \in 1..Len(d) /\ j # 1 /\ j - 1 \notin Bad
    BY <1>1, <2>2, <2>3
  <2>5. j - 1 \in 1..Len(d) /\ v[j - 1] < v[j]
    BY <1>3, <2>4
  <2>6. i = j - 1 \/ i < j - 1
    BY <1>1, <2>3, <2>4
  <2>7. CASE i < j - 1
    <3>1. v[i] < v[j - 1]
      BY <2>4, <2>5, <2>7
    <3>2. v[i] \in Nat /\ v[j] \in Nat /\ v[j - 1] \in Nat
      BY <1>2, <2>4, <2>5
    <3>3. \A x, y, z \in Nat : x < y /\ y < z => x < z
      OBVIOUS
    <3> QED BY <2>3, <2>5, <3>1, <3>2, <3>3
  <2> QED BY <2>3, <2>5, <2>6, <2>7
<1> SUFFICES ASSUME NEW i \in DOMAIN d, NEW j \in DOMAIN d, i < j PROVE d[i].seq < d[j].seq
  OBVIOUS
<1>5. v[i] < v[j]
  BY <1>1, <1>4
<1> QED BY <1>1, <1>2, <1>5

LEMMA InOrderRows ==
    ASSUME NEW d \in Seq(Receives), \A i, j \in DOMAIN d : i < j => d[i].seq < d[j].seq
    PROVE  Injective(d) /\ OutOfOrder(d) = 0
<1>1. Len(d) \in Nat /\ DOMAIN d = 1..Len(d)
  OBVIOUS
<1>2. \A i \in DOMAIN d : d[i].seq \in Nat
  <2>1. \A i \in DOMAIN d : d[i].seq \in Messages
    BY RowParts
  <2> QED BY <2>1, VerdictsAssumption DEF Messages
<1>3. Injective(d)
  <2> SUFFICES ASSUME NEW i \in DOMAIN d, NEW j \in DOMAIN d, d[i].seq = d[j].seq, i # j
               PROVE  FALSE
    BY DEF Injective
  <2>1. i < j \/ j < i
    BY <1>1
  <2>2. d[i].seq < d[j].seq \/ d[j].seq < d[i].seq
    BY <2>1
  <2> QED BY <1>2, <2>2
<1>4. \A i \in 2..Len(d) : ~(d[i].seq < d[i - 1].seq)
  <2> SUFFICES ASSUME NEW i \in 2..Len(d) PROVE ~(d[i].seq < d[i - 1].seq)
    OBVIOUS
  <2>1. i \in DOMAIN d /\ i - 1 \in DOMAIN d /\ i - 1 < i
    BY <1>1
  <2>2. d[i - 1].seq < d[i].seq
    BY <2>1
  <2> QED BY <1>2, <2>1, <2>2
<1> QED BY <1>3, <1>4, StepsBack

\* The leaves of the writes in W.
LeavesOf(W) == UNION {{s} \X (1..LeafCount[s]) : s \in W}
LeavesIn(d) == UNION {{i} \X (1..LeafCount[d[i].seq]) : i \in DOMAIN d}

LEMMA SomeLeaves ==
    ASSUME NEW W \in SUBSET Messages
    PROVE  IsFiniteSet(LeavesOf(W)) /\ Cardinality(LeavesOf(W)) \in Nat
<1> DEFINE Of(s) == {s} \X (1..LeafCount[s])
           U == {Of(s) : s \in W}
           f == [s \in W |-> Of(s)]
<1>1. IsFiniteSet(W)
  BY SomeMessages
<1>2. f \in Surjection(W, U)
  BY DEF Surjection
<1>3. \A s \in W : IsFiniteSet(Of(s))
  <2> SUFFICES ASSUME NEW s \in W PROVE IsFiniteSet(Of(s))
    OBVIOUS
  <2>1. LeafCount[s] \in Nat
    BY LeafCounts
  <2>2. IsFiniteSet(1..LeafCount[s])
    BY <2>1, CountingUp
  <2>3. IsFiniteSet({s})
    BY FS_Singleton
  <2> QED BY <2>2, <2>3, FS_Product
<1>4. \A L \in U : IsFiniteSet(L)
  BY <1>3
<1> HIDE DEF f, U
<1>5. IsFiniteSet(U)
  BY <1>1, <1>2, FS_Surjection
<1>6. IsFiniteSet(UNION U)
  BY <1>4, <1>5, FS_UNION
<1> QED BY <1>6, FS_CardinalityType DEF U, LeavesOf

LEMMA FewerLeaves ==
    ASSUME NEW W \in SUBSET Messages, NEW D \in SUBSET W
    PROVE  /\ Cardinality(LeavesOf(D)) <= Cardinality(LeavesOf(W))
           /\ D # W => Cardinality(LeavesOf(D)) < Cardinality(LeavesOf(W))
<1>1. LeavesOf(D) \in SUBSET LeavesOf(W)
  BY DEF LeavesOf
<1>2. IsFiniteSet(LeavesOf(W)) /\ Cardinality(LeavesOf(W)) \in Nat /\ Cardinality(LeavesOf(D)) \in Nat
  BY SomeLeaves
<1>3. /\ Cardinality(LeavesOf(D)) <= Cardinality(LeavesOf(W))
      /\ Cardinality(LeavesOf(W)) = Cardinality(LeavesOf(D)) => LeavesOf(W) = LeavesOf(D)
  BY <1>1, <1>2, FS_Subset
<1>4. D # W => LeavesOf(W) # LeavesOf(D)
  <2> SUFFICES ASSUME D # W PROVE LeavesOf(W) # LeavesOf(D)
    OBVIOUS
  <2>1. PICK s \in W : s \notin D
    OBVIOUS
  <2>2. 1 \in 1..LeafCount[s]
    BY LeafCounts
  <2>3. <<s, 1>> \in LeavesOf(W)
    BY <2>2 DEF LeavesOf
  <2>4. <<s, 1>> \notin LeavesOf(D)
    BY <2>1 DEF LeavesOf
  <2> QED BY <2>3, <2>4
<1> QED BY <1>2, <1>3, <1>4

\* Rows of different writes bring the leaves of these.
LEMMA LeavesMatch ==
    ASSUME NEW d \in Seq(Receives), Injective(d)
    PROVE  Cardinality(LeavesIn(d)) = Cardinality(LeavesOf(Distinct(d)))
<1> DEFINE A == LeavesOf(Distinct(d))
           B == LeavesIn(d)
           g == [p \in B |-> <<d[p[1]].seq, p[2]>>]
<1>1. \A p : p \in B <=> p = <<p[1], p[2]>> /\ p[1] \in DOMAIN d /\ p[2] \in 1..LeafCount[d[p[1]].seq]
  BY DEF LeavesIn
<1>2. \A p : p \in A <=> p = <<p[1], p[2]>> /\ p[1] \in Distinct(d) /\ p[2] \in 1..LeafCount[p[1]]
  BY DEF LeavesOf
<1> HIDE DEF A, B
<1>3. \A p \in B : g[p] = <<d[p[1]].seq, p[2]>> /\ g[p] \in A
  BY <1>1, <1>2 DEF Distinct
<1>4. g \in [B -> A]
  BY <1>3
<1>5. \A p, q \in B : g[p] = g[q] => p = q
  <2> SUFFICES ASSUME NEW p \in B, NEW q \in B, g[p] = g[q] PROVE p = q
    OBVIOUS
  <2>1. d[p[1]].seq = d[q[1]].seq /\ p[2] = q[2]
    BY <1>3
  <2>2. p[1] = q[1]
    BY <1>1, <2>1 DEF Injective
  <2> QED BY <1>1, <2>1, <2>2
<1>6. \A x \in A : \E p \in B : g[p] = x
  <2> SUFFICES ASSUME NEW x \in A PROVE \E p \in B : g[p] = x
    OBVIOUS
  <2>1. x = <<x[1], x[2]>> /\ x[1] \in Distinct(d) /\ x[2] \in 1..LeafCount[x[1]]
    BY <1>2
  <2>2. PICK i \in DOMAIN d : x[1] = d[i].seq
    BY <2>1 DEF Distinct
  <2>3. <<i, x[2]>> \in B
    BY <1>1, <2>1, <2>2
  <2>4. g[<<i, x[2]>>] = x
    BY <1>3, <2>1, <2>2, <2>3
  <2> QED BY <2>3, <2>4
<1> HIDE DEF g
<1>7. g \in Bijection(B, A)
  BY <1>4, <1>5, <1>6 DEF Bijection, Injection, Surjection, IsInjective
<1>8. IsFiniteSet(A)
  BY DistinctRows, SomeLeaves DEF A
<1>9. g \in Injection(B, A)
  BY <1>7 DEF Bijection
<1>10. IsFiniteSet(B)
  BY <1>8, <1>9, FS_Injection
<1>11. ExistsBijection(B, A)
  BY <1>7 DEF ExistsBijection
<1> QED BY <1>10, <1>11, FS_Bijection DEF A, B

-----------------------------------------------------------------------------
(* Verdicts: what the children record, and what is in their files.         *)

RowSets == [next : Nat, writes : SUBSET Messages, skips : Nat, receives : Seq(Receives)]
Outcomes == {"running", "ok", "rejected", "failed", "killed", "watchdog"}

RowTypes ==
    /\ theJob \in JobsOfInterest /\ round \in Nat
    /\ childPhase \in [Hosts -> 0..7]
    /\ outcome \in [Hosts -> Outcomes]
    /\ records \in [Hosts -> RowSets]
    /\ compact \in [Hosts -> [state : {"none", "torn", "whole"}, round : Nat, records : RowSets]]

\* A child that is gone has nothing in memory, and a whole file of this run is that
\* of a child that has nothing more to record.
FilesFit ==
    \A h \in Hosts :
        /\ outcome[h] # "running" => childPhase[h] = 0 /\ records[h] = Nothing
        /\ compact[h].state = "whole" =>
              /\ compact[h].round <= round
              /\ compact[h].round = round /\ outcome[h] = "running" =>
                    childPhase[h] = 7 /\ compact[h].records = records[h]

\* At QoS 3 and 4 nothing is skipped.
SkipsFit == Strict => \A h \in Hosts : records[h].skips = 0 /\ compact[h].records.skips = 0

\* w wrote s in run k of the job, if its rows of that run are anywhere.
IsWritten(w, s, k) ==
    /\ k = round /\ outcome[w] = "running" => s \in records[w].writes
    /\ compact[w].state = "whole" /\ compact[w].round = k => s \in compact[w].records.writes

RowsAreTrue ==
    \A h \in Hosts :
        /\ \A i \in DOMAIN records[h].receives :
              IsWritten(records[h].receives[i].writer, records[h].receives[i].seq, round)
        /\ compact[h].state = "whole" =>
              \A i \in DOMAIN compact[h].records.receives :
                 IsWritten(compact[h].records.receives[i].writer,
                           compact[h].records.receives[i].seq, compact[h].round)

RowsInv == RowTypes /\ FilesFit /\ SkipsFit /\ RowsAreTrue

LEMMA NothingIsRows == Nothing \in RowSets /\ DOMAIN Nothing.receives = {}
<1>1. <<>> \in Seq(Receives) /\ DOMAIN <<>> = {}
  OBVIOUS
<1> QED BY <1>1 DEF Nothing, RowSets

LEMMA RowFields ==
    /\ \A x \in RowSets : /\ x.next \in Nat /\ x.writes \in SUBSET Messages /\ x.skips \in Nat
                          /\ x.receives \in Seq(Receives)
    /\ RowTypes => \A h \in Hosts : /\ records[h] \in RowSets /\ compact[h].records \in RowSets
                                    /\ compact[h].state \in {"none", "torn", "whole"}
                                    /\ compact[h].round \in Nat
BY DEF RowSets, RowTypes

LEMMA RowsInit == VerdictsInit => RowsInv
<1> SUFFICES ASSUME VerdictsInit PROVE RowsInv
  OBVIOUS
<1>1. NoCompact \in [state : {"none", "torn", "whole"}, round : Nat, records : RowSets]
  BY NothingIsRows DEF NoCompact
<1>2. RowTypes
  BY <1>1, NothingIsRows DEF VerdictsInit, RowTypes, Outcomes
<1>3. FilesFit
  BY DEF VerdictsInit, FilesFit, NoCompact
<1>4. SkipsFit
  BY DEF VerdictsInit, SkipsFit, NoCompact, Nothing
<1>5. RowsAreTrue
  BY NothingIsRows DEF VerdictsInit, RowsAreTrue, NoCompact
<1> QED BY <1>2, <1>3, <1>4, <1>5 DEF RowsInv

\* What is written stays so, and no row comes up.
LEMMA RowsStayTrue ==
    ASSUME RowTypes, RowsAreTrue,
           \A w \in Hosts : \A s, k : IsWritten(w, s, k) => IsWritten(w, s, k)',
           \A h \in Hosts : \/ DOMAIN records'[h].receives = {}
                            \/ records'[h].receives = records[h].receives /\ round' = round,
           \A h \in Hosts : compact'[h].state = "whole" => compact'[h] = compact[h]
    PROVE  RowsAreTrue'
<1>1. \A k \in Hosts : /\ \A i \in DOMAIN records[k].receives :
                             records[k].receives[i].writer \in Hosts
                       /\ \A i \in DOMAIN compact[k].records.receives :
                             compact[k].records.receives[i].writer \in Hosts
  BY RowFields, RowParts
<1>2. ASSUME NEW h \in Hosts, NEW i \in DOMAIN records'[h].receives
      PROVE  IsWritten(records[h].receives[i].writer, records[h].receives[i].seq, round)'
  <2>1. records'[h].receives = records[h].receives /\ round' = round
    BY <1>2
  <2>2. IsWritten(records[h].receives[i].writer, records[h].receives[i].seq, round)
    BY <1>2, <2>1 DEF RowsAreTrue
  <2>3. records[h].receives[i].writer \in Hosts
    BY <1>1, <1>2, <2>1
  <2> QED BY <2>1, <2>2, <2>3
<1>3. ASSUME NEW h \in Hosts, compact'[h].state = "whole",
             NEW i \in DOMAIN compact'[h].records.receives
      PROVE  IsWritten(compact[h].records.receives[i].writer,
                       compact[h].records.receives[i].seq, compact[h].round)'
  <2>1. compact'[h] = compact[h]
    BY <1>3
  <2>2. IsWritten(compact[h].records.receives[i].writer,
                  compact[h].records.receives[i].seq, compact[h].round)
    BY <1>3, <2>1 DEF RowsAreTrue
  <2>3. compact[h].records.receives[i].writer \in Hosts
    BY <1>1, <1>3, <2>1
  <2> QED BY <2>1, <2>2, <2>3
<1> QED BY <1>2, <1>3 DEF RowsAreTrue

\* A child goes on to its next phase.
LEMMA PhaseKeepsRows ==
    ASSUME RowsInv, NEW h \in Hosts, outcome[h] = "running", childPhase[h] # 7,
           NEW p \in 0..7, childPhase' = [childPhase EXCEPT ![h] = p],
           UNCHANGED <<theJob, round, outcome, records, compact>>
    PROVE  RowsInv'
<1>1. RowTypes /\ FilesFit /\ SkipsFit /\ RowsAreTrue
  BY DEF RowsInv
<1>2. RowTypes'
  BY <1>1 DEF RowTypes
<1>3. FilesFit'
  <2> SUFFICES ASSUME NEW k \in Hosts
               PROVE  /\ outcome[k] # "running" => childPhase'[k] = 0 /\ records[k] = Nothing
                      /\ compact[k].state = "whole" =>
                            /\ compact[k].round <= round
                            /\ compact[k].round = round /\ outcome[k] = "running" =>
                                  childPhase'[k] = 7 /\ compact[k].records = records[k]
    BY DEF FilesFit
  <2>1. k # h => childPhase'[k] = childPhase[k]
    BY <1>1 DEF RowTypes
  <2> QED BY <1>1, <2>1 DEF FilesFit
<1>4. SkipsFit'
  BY <1>1 DEF SkipsFit, Strict
<1>5. \A w \in Hosts : \A s, k : IsWritten(w, s, k) => IsWritten(w, s, k)'
  BY DEF IsWritten
<1>6. RowsAreTrue'
  BY <1>1, <1>5, RowsStayTrue
<1> QED BY <1>2, <1>3, <1>4, <1>6 DEF RowsInv

\* A child is gone.
LEMMA EndKeepsRows ==
    ASSUME RowsInv, NEW h \in Hosts, NEW how \in Outcomes \ {"running"}, ChildEnds(h, how),
           UNCHANGED <<theJob, round, compact>>
    PROVE  RowsInv'
<1>1. RowTypes /\ FilesFit /\ SkipsFit /\ RowsAreTrue
  BY DEF RowsInv
<1>2. /\ outcome' = [outcome EXCEPT ![h] = how] /\ childPhase' = [childPhase EXCEPT ![h] = 0]
      /\ records' = [records EXCEPT ![h] = Nothing]
  BY DEF ChildEnds
<1>3. RowTypes'
  BY <1>1, <1>2, NothingIsRows DEF RowTypes
<1>4. \A k \in Hosts : IF k = h
                       THEN outcome'[k] = how /\ childPhase'[k] = 0 /\ records'[k] = Nothing
                       ELSE /\ outcome'[k] = outcome[k] /\ childPhase'[k] = childPhase[k]
                            /\ records'[k] = records[k]
  BY <1>1, <1>2 DEF RowTypes
<1>5. FilesFit'
  BY <1>1, <1>4 DEF FilesFit
<1>6. SkipsFit'
  BY <1>1, <1>4 DEF SkipsFit, Strict, Nothing
<1>7. \A w \in Hosts : \A s, k : IsWritten(w, s, k) => IsWritten(w, s, k)'
  BY <1>4 DEF IsWritten
<1>8. \A k \in Hosts : \A i \in DOMAIN records[k].receives :
          records[k].receives[i].writer \in Hosts
  BY <1>1, RowFields, RowParts
<1>9. \A k \in Hosts : \A i \in DOMAIN compact[k].records.receives :
          compact[k].records.receives[i].writer \in Hosts
  BY <1>1, RowFields, RowParts
<1>10. RowsAreTrue'
  BY <1>1, <1>4, <1>7, <1>8, <1>9, NothingIsRows DEF RowsAreTrue
<1> QED BY <1>3, <1>5, <1>6, <1>10 DEF RowsInv

\* A child that operates writes, or skips.
LEMMA WriteKeepsRows ==
    ASSUME RowsInv, NEW h \in Hosts, childPhase[h] = 2, records[h].next \in Messages,
           NEW x \in RowSets, records' = [records EXCEPT ![h] = x],
           x.receives = records[h].receives, records[h].writes \in SUBSET x.writes,
           Strict => x.skips = records[h].skips,
           UNCHANGED <<theJob, round, childPhase, outcome, compact>>
    PROVE  RowsInv'
<1>1. RowTypes /\ FilesFit /\ SkipsFit /\ RowsAreTrue
  BY DEF RowsInv
<1>2. RowTypes'
  BY <1>1 DEF RowTypes
<1>3. \A k \in Hosts : /\ k # h => records'[k] = records[k]
                       /\ k = h => records'[k] = x
  BY <1>1 DEF RowTypes
<1>4. FilesFit'
  BY <1>1, <1>3 DEF FilesFit
<1>5. SkipsFit'
  BY <1>1, <1>3 DEF SkipsFit, Strict
<1>6. \A w \in Hosts : \A s, k : IsWritten(w, s, k) => IsWritten(w, s, k)'
  BY <1>3 DEF IsWritten
<1>7. \A k \in Hosts : records'[k].receives = records[k].receives
  BY <1>3
<1>8. \A k \in Hosts : /\ \A i \in DOMAIN records[k].receives :
                             records[k].receives[i].writer \in Hosts
                       /\ \A i \in DOMAIN compact[k].records.receives :
                             compact[k].records.receives[i].writer \in Hosts
  BY <1>1, RowFields, RowParts
<1>9. RowsAreTrue'
  BY <1>1, <1>6, <1>7, <1>8 DEF RowsAreTrue
<1> QED BY <1>2, <1>4, <1>5, <1>9 DEF RowsInv

\* It receives what another child of this run has written.
LEMMA ReceiveKeepsRows ==
    ASSUME RowsInv, NEW h \in Hosts, NEW w \in Hosts, NEW s \in Messages, NEW near \in BOOLEAN,
           RecordReceive(h, w, s, near)
    PROVE  RowsInv'
<1>1. RowTypes /\ FilesFit /\ SkipsFit /\ RowsAreTrue
  BY DEF RowsInv
<1> DEFINE r == [writer |-> w, seq |-> s, near |-> near]
           old == records[h].receives
           x == [records[h] EXCEPT !.receives = Append(old, r)]
<1>2. /\ childPhase[h] \in 1..4 /\ w # h /\ s \in records[w].writes
      /\ records' = [records EXCEPT ![h] = x]
      /\ UNCHANGED <<theJob, round, childPhase, outcome, compact>>
  BY DEF RecordReceive, Silent
<1>3. r \in Receives /\ r.writer = w /\ r.seq = s
  BY DEF Receives
<1>4. old \in Seq(Receives) /\ records[h] \in RowSets
  BY <1>1, RowFields
<1> HIDE DEF r
<1>5. Append(old, r) \in Seq(Receives) /\ Len(Append(old, r)) = Len(old) + 1
      /\ (\A i \in 1..Len(old) : Append(old, r)[i] = old[i]) /\ Append(old, r)[Len(old) + 1] = r
  BY <1>3, <1>4, AppendProperties
<1>6. /\ x \in RowSets /\ x.receives = Append(old, r) /\ x.writes = records[h].writes
      /\ x.skips = records[h].skips
  BY <1>4, <1>5 DEF RowSets
<1> HIDE DEF x
<1>7. RowTypes'
  BY <1>1, <1>2, <1>6 DEF RowTypes
<1>8. \A k \in Hosts : /\ k # h => records'[k] = records[k]
                       /\ k = h => records'[k] = x
  BY <1>1, <1>2 DEF RowTypes
<1>9. outcome[h] = "running" /\ childPhase[h] # 7
  BY <1>1, <1>2 DEF FilesFit
<1>10. FilesFit'
  BY <1>1, <1>2, <1>8, <1>9 DEF FilesFit
<1>11. SkipsFit'
  BY <1>1, <1>2, <1>6, <1>8 DEF SkipsFit, Strict
<1>12. \A v \in Hosts : \A y, k : IsWritten(v, y, k) => IsWritten(v, y, k)'
  BY <1>2, <1>6, <1>8 DEF IsWritten
<1>13. IsWritten(w, s, round)
  <2>1. outcome[w] = "running"
    BY <1>1, <1>2 DEF FilesFit, Nothing
  <2> QED BY <1>1, <1>2, <2>1 DEF IsWritten, FilesFit
<1>14. \A k \in Hosts : /\ \A i \in DOMAIN records[k].receives :
                              records[k].receives[i].writer \in Hosts
                        /\ \A i \in DOMAIN compact[k].records.receives :
                              compact[k].records.receives[i].writer \in Hosts
  BY <1>1, RowFields, RowParts
<1>15. \A k \in Hosts : compact[k].state = "whole" =>
           \A i \in DOMAIN compact[k].records.receives :
              IsWritten(compact[k].records.receives[i].writer,
                        compact[k].records.receives[i].seq, compact[k].round)'
  BY <1>1, <1>2, <1>12, <1>14 DEF RowsAreTrue
<1>16. ASSUME NEW k \in Hosts, NEW i \in DOMAIN records'[k].receives
       PROVE  IsWritten(records[k].receives[i].writer, records[k].receives[i].seq, round)'
  <2>1. CASE k # h
    <3>1. records'[k] = records[k]
      BY <1>8, <2>1
    <3>2. IsWritten(records[k].receives[i].writer, records[k].receives[i].seq, round)
      BY <1>1, <1>16, <3>1 DEF RowsAreTrue
    <3>3. records[k].receives[i].writer \in Hosts
      BY <1>14, <1>16, <3>1
    <3> QED BY <1>2, <1>12, <3>1, <3>2, <3>3
  <2>2. CASE k = h
    <3>1. records'[k].receives = Append(old, r)
      BY <1>6, <1>8, <2>2
    <3>2. i \in 1..Len(old) \/ i = Len(old) + 1
      BY <1>4, <1>5, <1>16, <3>1
    <3>3. CASE i \in 1..Len(old)
      <4>1. records'[k].receives[i] = old[i] /\ i \in DOMAIN old
        BY <1>4, <1>5, <3>1, <3>3
      <4>2. IsWritten(old[i].writer, old[i].seq, round) /\ old[i].writer \in Hosts
        BY <1>1, <1>14, <4>1 DEF RowsAreTrue
      <4> QED BY <1>2, <1>12, <4>1, <4>2
    <3>4. CASE i = Len(old) + 1
      <4>1. records'[k].receives[i] = r
        BY <1>5, <3>1, <3>4
      <4> QED BY <1>2, <1>3, <1>12, <1>13, <4>1
    <3> QED BY <3>2, <3>3, <3>4
  <2> QED BY <2>1, <2>2
<1>17. RowsAreTrue'
  BY <1>2, <1>15, <1>16 DEF RowsAreTrue
<1> QED BY <1>7, <1>10, <1>11, <1>17 DEF RowsInv

\* The Parquet file is created, and is none until it is closed.
LEMMA CreateKeepsRows ==
    ASSUME RowsInv, NEW h \in Hosts, CreateParquet(h)
    PROVE  RowsInv'
<1>1. RowTypes /\ FilesFit /\ SkipsFit /\ RowsAreTrue
  BY DEF RowsInv
<1> DEFINE x == [NoCompact EXCEPT !.state = "torn"]
<1>2. /\ childPhase[h] = 5 /\ childPhase' = [childPhase EXCEPT ![h] = 6]
      /\ compact' = [compact EXCEPT ![h] = x]
      /\ UNCHANGED <<theJob, round, outcome, records>>
  BY DEF CreateParquet, Digest
<1>3. /\ x \in [state : {"none", "torn", "whole"}, round : Nat, records : RowSets]
      /\ x.state = "torn" /\ x.records.skips = 0
  BY NothingIsRows DEF NoCompact, Nothing
<1> HIDE DEF x
<1>4. RowTypes'
  BY <1>1, <1>2, <1>3 DEF RowTypes
<1>5. \A k \in Hosts : /\ k # h => compact'[k] = compact[k] /\ childPhase'[k] = childPhase[k]
                       /\ k = h => compact'[k] = x /\ childPhase'[k] = 6
  BY <1>1, <1>2 DEF RowTypes
<1>6. outcome[h] = "running"
  BY <1>1, <1>2 DEF FilesFit
<1>7. FilesFit'
  BY <1>1, <1>2, <1>3, <1>5, <1>6 DEF FilesFit
<1>8. SkipsFit'
  BY <1>1, <1>2, <1>3, <1>5 DEF SkipsFit, Strict
<1>9. \A k \in Hosts : compact'[k].state = "whole" => compact'[k] = compact[k]
  BY <1>3, <1>5
<1>10. \A w \in Hosts : \A s, k : IsWritten(w, s, k) => IsWritten(w, s, k)'
  BY <1>2, <1>9 DEF IsWritten
<1>11. \A k \in Hosts : records'[k].receives = records[k].receives /\ round' = round
  BY <1>2
<1>12. RowsAreTrue'
  BY <1>1, <1>9, <1>10, <1>11, RowsStayTrue
<1> QED BY <1>4, <1>7, <1>8, <1>12 DEF RowsInv

\* The file is closed: the rows of the child are in it.
LEMMA CloseKeepsRows ==
    ASSUME RowsInv, NEW h \in Hosts, CloseParquet(h)
    PROVE  RowsInv'
<1>1. RowTypes /\ FilesFit /\ SkipsFit /\ RowsAreTrue
  BY DEF RowsInv
<1> DEFINE x == [state |-> "whole", round |-> round, records |-> records[h]]
<1>2. /\ childPhase[h] = 6 /\ childPhase' = [childPhase EXCEPT ![h] = 7]
      /\ compact' = [compact EXCEPT ![h] = x]
      /\ UNCHANGED <<theJob, round, outcome, records>>
  BY DEF CloseParquet
<1>3. /\ x \in [state : {"none", "torn", "whole"}, round : Nat, records : RowSets]
      /\ x.state = "whole" /\ x.round = round /\ x.records = records[h]
  BY <1>1, RowFields DEF RowTypes
<1> HIDE DEF x
<1>4. RowTypes'
  BY <1>1, <1>2, <1>3 DEF RowTypes
<1>5. \A k \in Hosts : /\ k # h => compact'[k] = compact[k] /\ childPhase'[k] = childPhase[k]
                       /\ k = h => compact'[k] = x /\ childPhase'[k] = 7
  BY <1>1, <1>2 DEF RowTypes
<1>6. outcome[h] = "running" /\ round \in Nat
  BY <1>1, <1>2 DEF FilesFit, RowTypes
<1>7. FilesFit'
  BY <1>1, <1>2, <1>3, <1>5, <1>6 DEF FilesFit
<1>8. SkipsFit'
  BY <1>1, <1>2, <1>3, <1>5 DEF SkipsFit, Strict
<1>9. \A k \in Hosts : /\ \A i \in DOMAIN records[k].receives :
                             records[k].receives[i].writer \in Hosts
                       /\ \A i \in DOMAIN compact[k].records.receives :
                             compact[k].records.receives[i].writer \in Hosts
  BY <1>1, RowFields, RowParts
<1>10. \A w \in Hosts : \A s, k : IsWritten(w, s, k) => IsWritten(w, s, k)'
  BY <1>2, <1>3, <1>5, <1>6 DEF IsWritten
<1>11. ASSUME NEW k \in Hosts, NEW i \in DOMAIN records[k].receives
       PROVE  /\ IsWritten(records[k].receives[i].writer, records[k].receives[i].seq, round)
              /\ IsWritten(records[k].receives[i].writer, records[k].receives[i].seq, round)'
  <2>1. IsWritten(records[k].receives[i].writer, records[k].receives[i].seq, round)
    BY <1>1, <1>11 DEF RowsAreTrue
  <2>2. records[k].receives[i].writer \in Hosts
    BY <1>9, <1>11
  <2> QED BY <1>2, <1>10, <2>1, <2>2
<1>12. ASSUME NEW k \in Hosts, compact'[k].state = "whole",
              NEW i \in DOMAIN compact'[k].records.receives
       PROVE  IsWritten(compact[k].records.receives[i].writer,
                        compact[k].records.receives[i].seq, compact[k].round)'
  <2>1. CASE k = h
    <3>1. compact'[k].records = records[k] /\ compact'[k].round = round
      BY <1>3, <1>5, <2>1
    <3> QED BY <1>2, <1>11, <1>12, <3>1
  <2>2. CASE k # h
    <3>1. compact'[k] = compact[k]
      BY <1>5, <2>2
    <3>2. IsWritten(compact[k].records.receives[i].writer,
                    compact[k].records.receives[i].seq, compact[k].round)
      BY <1>1, <1>12, <3>1 DEF RowsAreTrue
    <3>3. compact[k].records.receives[i].writer \in Hosts
      BY <1>9, <1>12, <3>1
    <3> QED BY <1>10, <3>1, <3>2, <3>3
  <2> QED BY <2>1, <2>2
<1>13. RowsAreTrue'
  BY <1>2, <1>11, <1>12 DEF RowsAreTrue
<1> QED BY <1>4, <1>7, <1>8, <1>13 DEF RowsInv

\* The job is run again: nobody has anything in memory.
LEMMA RunAgainKeepsRows ==
    ASSUME RowsInv, RunAgain
    PROVE  RowsInv'
<1>1. RowTypes /\ FilesFit /\ SkipsFit /\ RowsAreTrue
  BY DEF RowsInv
<1>2. /\ \A h \in Hosts : outcome[h] # "running"
      /\ round' = round + 1 /\ outcome' = [h \in Hosts |-> "running"]
      /\ UNCHANGED <<theJob, childPhase, records, compact>>
  BY DEF RunAgain, Settled
<1>3. \A h \in Hosts : records[h] = Nothing /\ childPhase[h] = 0
  BY <1>1, <1>2 DEF FilesFit
<1>4. round \in Nat /\ \A h \in Hosts : compact[h].state = "whole" =>
          compact[h].round <= round /\ compact[h].round \in Nat
  BY <1>1, RowFields DEF RowTypes, FilesFit
<1>5. \A h \in Hosts : compact[h].state = "whole" =>
          compact[h].round <= round' /\ compact[h].round # round'
  BY <1>2, <1>4
<1>6. RowTypes'
  BY <1>1, <1>2 DEF RowTypes, Outcomes
<1>7. FilesFit'
  BY <1>2, <1>5 DEF FilesFit
<1>8. SkipsFit'
  BY <1>1, <1>2 DEF SkipsFit, Strict
<1>9. \A k \in Hosts : \A i \in DOMAIN compact[k].records.receives :
          compact[k].records.receives[i].writer \in Hosts
  BY <1>1, RowFields, RowParts
<1>10. \A w \in Hosts : \A s, k : k # round' /\ IsWritten(w, s, k) => IsWritten(w, s, k)'
  BY <1>2 DEF IsWritten
<1>11. \A k \in Hosts : DOMAIN records'[k].receives = {}
  BY <1>2, <1>3, NothingIsRows
<1>12. ASSUME NEW k \in Hosts, compact'[k].state = "whole",
              NEW i \in DOMAIN compact'[k].records.receives
       PROVE  IsWritten(compact[k].records.receives[i].writer,
                        compact[k].records.receives[i].seq, compact[k].round)'
  <2>1. IsWritten(compact[k].records.receives[i].writer,
                  compact[k].records.receives[i].seq, compact[k].round)
    BY <1>1, <1>2, <1>12 DEF RowsAreTrue
  <2>2. compact[k].records.receives[i].writer \in Hosts /\ compact[k].round # round'
    BY <1>2, <1>5, <1>9, <1>12
  <2> QED BY <1>2, <1>10, <2>1, <2>2
<1>13. RowsAreTrue'
  BY <1>11, <1>12 DEF RowsAreTrue
<1> QED BY <1>6, <1>7, <1>8, <1>13 DEF RowsInv

\* What one write, or one skip, makes of the rows.
LEMMA OneMore ==
    ASSUME NEW q \in RowSets, q.next \in Messages
    PROVE  /\ LET x == [q EXCEPT !.next = q.next + 1, !.writes = q.writes \union {q.next}]
              IN  x \in RowSets /\ x.receives = q.receives /\ x.skips = q.skips
                  /\ q.writes \in SUBSET x.writes
           /\ LET x == [q EXCEPT !.next = q.next + 1, !.skips = q.skips + 1]
              IN  x \in RowSets /\ x.receives = q.receives /\ q.writes \in SUBSET x.writes
<1>1. /\ q.next + 1 \in Nat /\ q.skips + 1 \in Nat /\ q.skips \in Nat
      /\ q.writes \union {q.next} \in SUBSET Messages /\ q.writes \in SUBSET Messages
      /\ q.receives \in Seq(Receives)
  BY RowFields
<1> DEFINE y == [next |-> q.next + 1, writes |-> q.writes, skips |-> q.skips,
                 receives |-> q.receives]
<1>2. [q EXCEPT !.next = q.next + 1] = y
  BY DEF RowSets
<1>3. /\ [y EXCEPT !.writes = q.writes \union {q.next}]
            = [next |-> q.next + 1, writes |-> q.writes \union {q.next}, skips |-> q.skips,
               receives |-> q.receives]
      /\ [y EXCEPT !.skips = q.skips + 1]
            = [next |-> q.next + 1, writes |-> q.writes, skips |-> q.skips + 1,
               receives |-> q.receives]
  OBVIOUS
<1> HIDE DEF y
<1> QED BY <1>1, <1>2, <1>3 DEF RowSets

LEMMA RowsStep == RowsInv /\ [VerdictsNext]_verdictsVars => RowsInv'
<1> SUFFICES ASSUME RowsInv, [VerdictsNext]_verdictsVars PROVE RowsInv'
  OBVIOUS
<1>1. RowTypes /\ FilesFit
  BY DEF RowsInv
<1>2. CASE UNCHANGED verdictsVars
  <2>1. RowTypes' /\ FilesFit' /\ SkipsFit'
    BY <1>2 DEF verdictsVars, RowsInv, RowTypes, FilesFit, SkipsFit, Strict
  <2>2. \A w \in Hosts : \A s, k : IsWritten(w, s, k) => IsWritten(w, s, k)'
    BY <1>2 DEF verdictsVars, IsWritten
  <2>3. RowsAreTrue'
    BY <1>1, <1>2, <2>2, RowsStayTrue DEF verdictsVars, RowsInv
  <2> QED BY <2>1, <2>3 DEF RowsInv
<1>3. CASE RunAgain
  BY <1>3, RunAgainKeepsRows
<1>4. ASSUME NEW h \in Hosts,
             Reject(h) \/ FinishChild(h) \/ Fail(h) \/ KillChild(h) \/ WatchdogFires(h)
      PROVE  RowsInv'
  <2>1. PICK how \in Outcomes \ {"running"} : ChildEnds(h, how)
    BY <1>4 DEF Outcomes, Reject, FinishChild, Fail, KillChild, WatchdogFires
  <2>2. UNCHANGED <<theJob, round, compact>>
    BY <1>4 DEF Reject, FinishChild, Fail, KillChild, WatchdogFires
  <2> QED BY <2>1, <2>2, EndKeepsRows
<1>5. ASSUME NEW h \in Hosts, OpenLog(h) \/ NextPhase(h) PROVE RowsInv'
  <2>1. outcome[h] = "running"
    BY <1>1, <1>5 DEF OpenLog, NextPhase, FilesFit, Digest
  <2>2. PICK p \in 0..7 : childPhase' = [childPhase EXCEPT ![h] = p]
    <3>1. CASE OpenLog(h)
      BY <3>1 DEF OpenLog
    <3>2. CASE NextPhase(h)
      <4>1. childPhase[h] \in 1..4 /\ childPhase' = [childPhase EXCEPT ![h] = childPhase[h] + 1]
        BY <3>2 DEF NextPhase, Digest
      <4>2. childPhase[h] + 1 \in 0..7
        BY <4>1
      <4> QED BY <4>1, <4>2
    <3> QED BY <1>5, <3>1, <3>2
  <2>3. childPhase[h] # 7 /\ UNCHANGED <<theJob, round, outcome, records, compact>>
    BY <1>5 DEF OpenLog, NextPhase, Digest
  <2> QED BY <2>1, <2>2, <2>3, PhaseKeepsRows
<1>6. ASSUME NEW h \in Hosts, RecordWrite(h) \/ RecordSkip(h) PROVE RowsInv'
  <2> DEFINE m == records[h].next
             x == IF RecordWrite(h)
                  THEN [records[h] EXCEPT !.next = m + 1, !.writes = @ \union {m}]
                  ELSE [records[h] EXCEPT !.next = m + 1, !.skips = @ + 1]
  <2>1. records[h] \in RowSets
    BY <1>1, RowFields
  <2>2. /\ childPhase[h] = 2 /\ m \in Messages
        /\ UNCHANGED <<theJob, round, childPhase, outcome, compact>>
    BY <1>6 DEF RecordWrite, RecordSkip, Operate
  <2>3. records' = [records EXCEPT ![h] = x]
    <3>1. CASE RecordWrite(h)
      BY <1>1, <3>1 DEF RecordWrite, RowTypes
    <3>2. CASE ~RecordWrite(h)
      BY <1>1, <1>6, <3>2 DEF RecordSkip, RowTypes
    <3> QED BY <3>1, <3>2
  <2>4. ~RecordWrite(h) => ~Strict
    BY <1>6 DEF RecordSkip
  <2>5. /\ x \in RowSets /\ x.receives = records[h].receives
        /\ records[h].writes \in SUBSET x.writes
        /\ Strict => x.skips = records[h].skips
    <3>1. CASE RecordWrite(h)
      <4>1. x = [records[h] EXCEPT !.next = m + 1, !.writes = @ \union {m}]
        BY <3>1
      <4> HIDE DEF x
      <4> QED BY <2>1, <2>2, <4>1, OneMore
    <3>2. CASE ~RecordWrite(h)
      <4>1. x = [records[h] EXCEPT !.next = m + 1, !.skips = @ + 1]
        BY <3>2
      <4> HIDE DEF x
      <4> QED BY <2>1, <2>2, <2>4, <3>2, <4>1, OneMore
    <3> QED BY <3>1, <3>2
  <2> HIDE DEF x, m
  <2> QED BY <2>2, <2>3, <2>5, WriteKeepsRows DEF m
<1>7. ASSUME NEW h \in Hosts, NEW w \in Hosts, NEW s \in Messages, NEW near \in BOOLEAN,
             RecordReceive(h, w, s, near)
      PROVE  RowsInv'
  BY <1>7, ReceiveKeepsRows
<1>8. ASSUME NEW h \in Hosts, CreateParquet(h) PROVE RowsInv'
  BY <1>8, CreateKeepsRows
<1>9. ASSUME NEW h \in Hosts, CloseParquet(h) PROVE RowsInv'
  BY <1>9, CloseKeepsRows
<1> QED BY <1>2, <1>3, <1>4, <1>5, <1>6, <1>7, <1>8, <1>9 DEF VerdictsNext

-----------------------------------------------------------------------------
(* Verdicts: what the report says of two files of one run.                 *)

LEMMA HeardIsDelivered ==
    ASSUME RowsInv, NEW w \in Hosts, NEW h \in Hosts, SameRun(w, h)
    PROVE  /\ Deliveries(w, h) = HeardOf(w, h)
           /\ HeardOf(w, h) \in Seq(Receives)
           /\ Distinct(HeardOf(w, h)) \in SUBSET compact[w].records.writes
           /\ Rows(w) = compact[w].records /\ Rows(w).writes \in SUBSET Messages
           /\ Rows(w).skips \in Nat /\ (Strict => Rows(w).skips = 0)
<1> DEFINE s == compact[h].records.receives
           W == compact[w].records.writes
           A == {r \in Receives : ~r.near}
           B == {r \in Receives : r.writer = w /\ r.seq \in W}
           C == {r \in Receives : r.writer = w /\ ~r.near}
           t == Only(s, A)
<1>1. RowTypes /\ SkipsFit /\ RowsAreTrue
  BY DEF RowsInv
<1>2. /\ compact[w].state = "whole" /\ compact[h].state = "whole"
      /\ compact[w].round = compact[h].round
  BY DEF SameRun, FromCompact
<1>3. /\ Rows(w) = compact[w].records /\ Rows(h) = compact[h].records
      /\ Rows(w) \in RowSets /\ s \in Seq(Receives) /\ W \in SUBSET Messages
  BY <1>1, <1>2, RowFields DEF Rows, FromCompact
<1>4. \A i \in DOMAIN s : s[i].writer = w => s[i].seq \in W
  BY <1>1, <1>2 DEF RowsAreTrue, IsWritten
<1>5. Deliveries(w, h) = Only(t, B) /\ HeardOf(w, h) = Only(s, C)
  BY <1>3 DEF Deliveries, Deduped, HeardOf
<1> HIDE DEF s, W
<1>6. t \in Seq(Receives) /\ \A k \in 1..Len(t) : t[k] \in A
  BY <1>3, OnlyMembers
<1> HIDE DEF t
<1>7. Only(t, B) = Only(t, A \intersect B)
  <2>1. DOMAIN t = 1..Len(t)
    BY <1>6
  <2>2. {i \in DOMAIN t : t[i] \in B} = {i \in DOMAIN t : t[i] \in A \intersect B}
    BY <1>6, <2>1
  <2> HIDE DEF A, B
  <2> QED BY <2>2 DEF Only
<1>8. Only(t, A \intersect B) = Only(s, A \intersect B)
  <2>1. A \intersect B \in SUBSET A
    OBVIOUS
  <2> HIDE DEF A, B
  <2> QED BY <1>3, <2>1, OnlyTwice DEF t
<1>9. Only(s, A \intersect B) = Only(s, C)
  <2>1. {i \in DOMAIN s : s[i] \in A \intersect B} = {i \in DOMAIN s : s[i] \in C}
    BY <1>3, <1>4
  <2> HIDE DEF A, B, C
  <2> QED BY <2>1 DEF Only
<1> DEFINE u == Only(s, C)
<1>10. u \in Seq(Receives) /\ \A k \in 1..Len(u) : u[k] \in C
  BY <1>3, OnlyMembers
<1>11. \A k \in 1..Len(u) : \E i \in DOMAIN s : u[k] = s[i]
  <2>1. PICK e : Selects(e, u, s, C)
    BY <1>3, OnlySelects
  <2>2. \A k \in 1..Len(u) : e[k] \in DOMAIN s /\ u[k] = s[e[k]]
    BY <2>1 DEF Selects, Lists, PlacesIn
  <2> QED BY <2>2
<1> HIDE DEF u
<1>12. Distinct(u) \in SUBSET W
  <2>1. DOMAIN u = 1..Len(u)
    BY <1>10
  <2>2. \A k \in DOMAIN u : u[k].seq \in W
    BY <1>4, <1>10, <1>11, <2>1
  <2> QED BY <2>2 DEF Distinct
<1>13. Rows(w).skips \in Nat /\ (Strict => Rows(w).skips = 0)
  BY <1>1, <1>3, RowFields DEF SkipsFit
<1> QED BY <1>3, <1>5, <1>7, <1>8, <1>9, <1>10, <1>12, <1>13 DEF u, W

\* The numbers of a row of the integrity table.
AddsUp(row, w, h) ==
    LET d == HeardOf(w, h)
        W == compact[w].records.writes
        n == Cardinality(W)
        m == Cardinality(Distinct(d))
    IN  /\ row.writer = w /\ row.receiver = h
        /\ n \in Nat /\ m \in Nat /\ Len(d) \in Nat /\ m <= n /\ m <= Len(d)
        /\ (m = n) <=> (Distinct(d) = W)
        /\ Cardinality(W \ Distinct(d)) = n - m
        /\ row.write_count = n /\ row.receive_count = Len(d)
        /\ row.duplicates = Len(d) - m /\ (m = Len(d) <=> Injective(d))
        /\ row.leaves_lost = AtLeastZero(Cardinality(LeavesOf(W)), Cardinality(LeavesIn(d)))
        /\ Flagged(row) <=> Strict /\ (Len(d) < n \/ OutOfOrder(d) > 0 \/ Len(d) - m > 0)

LEMMA RowSays ==
    ASSUME RowsInv, NEW w \in Hosts, NEW h \in Hosts, SameRun(w, h)
    PROVE  AddsUp(IntegrityRow(w, h), w, h)
<1> DEFINE d == HeardOf(w, h)
           W == compact[w].records.writes
           D == Distinct(d)
           row == IntegrityRow(w, h)
<1>1. /\ Deliveries(w, h) = d /\ d \in Seq(Receives) /\ D \in SUBSET W
      /\ Rows(w).writes = W /\ W \in SUBSET Messages
      /\ Rows(w).skips \in Nat /\ (Strict => Rows(w).skips = 0)
  BY HeardIsDelivered
<1> HIDE DEF d, W
<1>2. /\ Cardinality(D) \in Nat /\ Cardinality(D) <= Len(d) /\ Len(d) \in Nat
      /\ (Cardinality(D) = Len(d) <=> Injective(d))
  BY <1>1, DistinctRows
<1>3. IsFiniteSet(W) /\ Cardinality(W) \in Nat
  BY <1>1, SomeMessages
<1> HIDE DEF D
<1>4. Cardinality(D) <= Cardinality(W) /\ (Cardinality(W) = Cardinality(D) => W = D)
  BY <1>1, <1>3, FS_Subset
<1>5. Cardinality(W \ D) = Cardinality(W) - Cardinality(D)
  <2>1. IsFiniteSet(W \ D) /\ Cardinality(W \ D) = Cardinality(W) - Cardinality(W \intersect D)
    BY <1>3, FS_Difference
  <2>2. W \intersect D = D
    BY <1>1
  <2> QED BY <2>1, <2>2
<1>6. /\ row.writer = w /\ row.receiver = h
      /\ row.write_count = WriteCount(w) /\ row.receive_count = Len(Deliveries(w, h))
      /\ row.duplicates = Duplicates(Deliveries(w, h))
      /\ row.leaves_lost = AtLeastZero(LeavesWritten(w), LeavesReceived(Deliveries(w, h)))
      /\ row.completeness_error = (theJob.qos >= 3 /\ Len(Deliveries(w, h)) < WriteCount(w))
      /\ row.ordering_error = (theJob.qos >= 3 /\ OutOfOrder(Deliveries(w, h)) > 0)
      /\ row.duplicate_error = (theJob.qos >= 3 /\ Duplicates(Deliveries(w, h)) > 0)
      /\ row.skip_at_reliable_error = (theJob.qos >= 3 /\ Rows(w).skips > 0)
  BY DEF IntegrityRow
<1> HIDE DEF row
<1>7. /\ row.write_count = Cardinality(W) /\ row.receive_count = Len(d)
      /\ row.duplicates = Len(d) - Cardinality(D)
      /\ row.leaves_lost = AtLeastZero(Cardinality(LeavesOf(W)), Cardinality(LeavesIn(d)))
  BY <1>1, <1>6 DEF WriteCount, Duplicates, LeavesWritten, LeavesReceived, LeavesOf, LeavesIn, D
<1>8. Flagged(row) <=> Strict /\ (\/ Len(d) < Cardinality(W) \/ OutOfOrder(d) > 0
                                  \/ Len(d) - Cardinality(D) > 0)
  <2>1. Strict <=> theJob.qos >= 3
    BY DEF Strict
  <2>2. WriteCount(w) = Cardinality(W) /\ Duplicates(d) = Len(d) - Cardinality(D)
    BY <1>1 DEF WriteCount, Duplicates, D
  <2>3. Strict => ~(Rows(w).skips > 0)
    BY <1>1
  <2> QED BY <1>1, <1>6, <2>1, <2>2, <2>3 DEF Flagged
<1>9. /\ row.writer = w /\ row.receiver = h
      /\ Cardinality(W) \in Nat /\ Cardinality(D) \in Nat /\ Len(d) \in Nat
      /\ Cardinality(D) <= Cardinality(W) /\ Cardinality(D) <= Len(d)
      /\ (Cardinality(D) = Cardinality(W)) <=> (D = W)
      /\ Cardinality(W \ D) = Cardinality(W) - Cardinality(D)
      /\ row.write_count = Cardinality(W) /\ row.receive_count = Len(d)
      /\ row.duplicates = Len(d) - Cardinality(D) /\ (Cardinality(D) = Len(d) <=> Injective(d))
      /\ row.leaves_lost = AtLeastZero(Cardinality(LeavesOf(W)), Cardinality(LeavesIn(d)))
      /\ Flagged(row) <=> Strict /\ (\/ Len(d) < Cardinality(W) \/ OutOfOrder(d) > 0
                                      \/ Len(d) - Cardinality(D) > 0)
  BY <1>2, <1>3, <1>4, <1>5, <1>6, <1>7, <1>8
<1> QED BY <1>9 DEF AddsUp, d, W, D, row

\* What comes of few writes and rows: no row is lost that no duplicate stands for,
\* but for one in 20000.
LEMMA LostAndTwice ==
    \A n, m, l \in Nat : m <= l /\ ~(20000 * l < 19999 * n) =>
        20000 * (n - m) <= 20000 * (l - m) + n
OBVIOUS

LEMMA ReportIsHonest ==
    ASSUME RowsInv, NEW r \in Integrity, SameRun(r.writer, r.receiver)
    PROVE  LET missing == compact[r.writer].records.writes
                             \ Distinct(HeardOf(r.writer, r.receiver))
           IN  /\ Strict /\ ~Flagged(r) => OnceInOrder(r.writer, r.receiver) /\ r.leaves_lost = 0
               /\ ~Shortfall(r) => FewLost(missing, r)
               /\ missing # {} /\ r.duplicates = 0 => r.leaves_lost > 0
<1>1. PICK p \in Pairs : r = IntegrityRow(p[1], p[2])
  BY DEF Integrity
<1> DEFINE w == p[1]
           h == p[2]
<1>2. w \in Hosts /\ h \in Hosts
  BY DEF Pairs
<1> HIDE DEF w, h
<1>3. r = IntegrityRow(w, h) /\ r.writer = w /\ r.receiver = h
  BY <1>1 DEF IntegrityRow, w, h
<1>4. SameRun(w, h)
  BY <1>3
<1> DEFINE d == HeardOf(w, h)
           W == compact[w].records.writes
           D == Distinct(d)
           n == Cardinality(W)
           m == Cardinality(D)
           l == Len(d)
<1>5. /\ n \in Nat /\ m \in Nat /\ l \in Nat /\ m <= n /\ m <= l
      /\ (m = n <=> D = W) /\ Cardinality(W \ D) = n - m
      /\ r.write_count = n /\ r.receive_count = l
      /\ r.duplicates = l - m /\ (m = l <=> Injective(d))
      /\ r.leaves_lost = AtLeastZero(Cardinality(LeavesOf(W)), Cardinality(LeavesIn(d)))
      /\ Flagged(r) <=> Strict /\ (l < n \/ OutOfOrder(d) > 0 \/ l - m > 0)
  <2>1. AddsUp(r, w, h)
    BY <1>2, <1>3, <1>4, RowSays
  <2> QED BY <2>1 DEF AddsUp
<1>6. d \in Seq(Receives) /\ D \in SUBSET W /\ W \in SUBSET Messages
  BY <1>2, <1>4, HeardIsDelivered
<1>7. OnceInOrder(w, h) <=> D = W /\ \A i, j \in DOMAIN d : i < j => d[i].seq < d[j].seq
  BY DEF OnceInOrder
<1> HIDE DEF d, W, D
<1>8. Injective(d) => Cardinality(LeavesIn(d)) = Cardinality(LeavesOf(D))
  BY <1>6, LeavesMatch DEF D
<1>9. Cardinality(LeavesOf(D)) \in Nat /\ Cardinality(LeavesOf(W)) \in Nat
  BY <1>6, SomeLeaves
<1> HIDE DEF n, m, l
<1>10. ASSUME Strict, ~Flagged(r) PROVE OnceInOrder(w, h) /\ r.leaves_lost = 0
  <2>1. m = l /\ m = n
    BY <1>5, <1>10
  <2>2. OutOfOrder(d) = 0
    <3>1. OutOfOrder(d) \in Nat
      BY <1>6, StepsBack
    <3> QED BY <1>5, <1>10, <3>1
  <2>3. Injective(d) /\ D = W
    BY <1>5, <2>1
  <2>4. \A i, j \in DOMAIN d : i < j => d[i].seq < d[j].seq
    BY <1>6, <2>2, <2>3, NeighboursInOrder
  <2>5. r.leaves_lost = 0
    BY <1>5, <1>8, <1>9, <2>3 DEF AtLeastZero
  <2> QED BY <1>7, <2>3, <2>4, <2>5
<1>11. ASSUME ~Shortfall(r) PROVE FewLost(W \ D, r)
  <2>1. ~(20000 * l < 19999 * n)
    BY <1>5, <1>11 DEF Shortfall
  <2>2. 20000 * (n - m) <= 20000 * (l - m) + n
    BY <1>5, <2>1, LostAndTwice
  <2> QED BY <1>5, <2>2 DEF FewLost
<1>12. ASSUME W \ D # {}, r.duplicates = 0 PROVE r.leaves_lost > 0
  <2>1. Injective(d) /\ D # W
    BY <1>5, <1>12
  <2>2. Cardinality(LeavesOf(D)) < Cardinality(LeavesOf(W))
    BY <1>6, <2>1, FewerLeaves
  <2> QED BY <1>5, <1>8, <1>9, <2>1, <2>2 DEF AtLeastZero
<1> QED BY <1>3, <1>10, <1>11, <1>12 DEF d, W, D

LEMMA RowsMeanHonest == RowsInv => HonestReport
<1>1. ASSUME RowsInv, NEW r \in Integrity, SameRun(r.writer, r.receiver), Strict
      PROVE  ~Flagged(r) => OnceInOrder(r.writer, r.receiver) /\ r.leaves_lost = 0
  BY <1>1, ReportIsHonest
<1>2. ASSUME RowsInv, NEW r \in Integrity, SameRun(r.writer, r.receiver)
      PROVE  ~Shortfall(r) => FewLost(compact[r.writer].records.writes
                                         \ Distinct(HeardOf(r.writer, r.receiver)), r)
  BY <1>2, ReportIsHonest
<1>3. ASSUME RowsInv, NEW r \in Integrity, SameRun(r.writer, r.receiver)
      PROVE  (compact[r.writer].records.writes
                 \ Distinct(HeardOf(r.writer, r.receiver))) # {} /\ r.duplicates = 0
                => r.leaves_lost > 0
  BY <1>3, ReportIsHonest
<1> QED BY <1>1, <1>2, <1>3, Zenon DEF HonestReport

LEMMA NoneIsFalse == RowsInv => NoFalseAlarm
<1> SUFFICES ASSUME RowsInv, ~Aborted, NEW w \in Hosts, NEW h \in Hosts,
                    SameRun(w, h), OnceInOrder(w, h), compact[w].records.writes # {}
             PROVE  /\ \E row \in Integrity : row.writer = w /\ row.receiver = h
                    /\ \A row \in Integrity : (row.writer = w /\ row.receiver = h) =>
                          ~Flagged(row) /\ ~Shortfall(row) /\ row.leaves_lost = 0
                    /\ w \notin Warnings.not_completed
  BY DEF NoFalseAlarm
<1> DEFINE d == HeardOf(w, h)
           W == compact[w].records.writes
           D == Distinct(d)
           n == Cardinality(W)
           m == Cardinality(D)
           l == Len(d)
<1>0. PICK r : r = IntegrityRow(w, h)
  OBVIOUS
<1>1. /\ r.writer = w /\ r.receiver = h
      /\ n \in Nat /\ m \in Nat /\ l \in Nat /\ m <= n /\ m <= l
      /\ (m = n <=> D = W)
      /\ r.write_count = n /\ r.receive_count = l
      /\ (m = l <=> Injective(d))
      /\ r.leaves_lost = AtLeastZero(Cardinality(LeavesOf(W)), Cardinality(LeavesIn(d)))
      /\ Flagged(r) <=> Strict /\ (l < n \/ OutOfOrder(d) > 0 \/ l - m > 0)
  <2>1. AddsUp(r, w, h)
    BY <1>0, RowSays
  <2> QED BY <2>1 DEF AddsUp
<1>2. d \in Seq(Receives) /\ W \in SUBSET Messages /\ Deliveries(w, h) = d
  BY HeardIsDelivered
<1>3. D = W /\ \A i, j \in DOMAIN d : i < j => d[i].seq < d[j].seq
  BY DEF OnceInOrder
<1> HIDE DEF d, W, D
<1>4. Injective(d) /\ OutOfOrder(d) = 0
  BY <1>2, <1>3, InOrderRows
<1>5. Cardinality(LeavesIn(d)) = Cardinality(LeavesOf(W))
  BY <1>2, <1>3, <1>4, LeavesMatch DEF D
<1>6. Cardinality(LeavesOf(W)) \in Nat
  BY <1>2, SomeLeaves
<1> HIDE DEF n, m, l
<1>7. l = n /\ m = n
  BY <1>1, <1>3, <1>4
<1>8. ~Flagged(r)
  BY <1>1, <1>4, <1>7
<1>9. ~Shortfall(r)
  <2>1. ~(20000 * n < 19999 * n)
    BY <1>1
  <2> QED BY <1>1, <1>7, <2>1 DEF Shortfall
<1>10. r.leaves_lost = 0
  BY <1>1, <1>5, <1>6 DEF AtLeastZero
<1>11. \A p \in Pairs : IntegrityRow(p[1], p[2]).writer = p[1]
                        /\ IntegrityRow(p[1], p[2]).receiver = p[2]
  BY DEF IntegrityRow
<1>12. r \in Integrity
  <2>1. d # <<>>
    <3>1. PICK s \in W : TRUE
      BY DEF W
    <3>2. PICK i \in DOMAIN d : d[i].seq = s
      BY <1>3, <3>1 DEF D, Distinct
    <3> QED BY <3>2
  <2>2. <<w, h>> \in Pairs
    BY <1>2, <2>1 DEF Pairs
  <2> QED BY <1>0, <2>2 DEF Integrity
<1>13. \A row \in Integrity : (row.writer = w /\ row.receiver = h) => row = r
  <2> SUFFICES ASSUME NEW p \in Pairs, IntegrityRow(p[1], p[2]).writer = w,
                      IntegrityRow(p[1], p[2]).receiver = h
               PROVE  IntegrityRow(p[1], p[2]) = r
    BY DEF Integrity
  <2>1. p[1] = w /\ p[2] = h
    BY <1>11
  <2> QED BY <1>0, <2>1
<1>14. w \notin Warnings.not_completed
  <2>1. Classify(w) = "runner_idle_terminated"
    <3>1. LoggedPhases(w) = 1..5
      BY DEF SameRun, LoggedPhases, Digest
    <3>2. 2 \in 1..5 /\ 3 \in 1..5 /\ 4 \in 1..5
      OBVIOUS
    <3>3. LoggedPhases(w) # {} /\ SentEot(w) /\ WentSilent(w) /\ Operated(w)
      BY <3>1, <3>2 DEF SentEot, WentSilent, Operated, EotSent, Silent, Operate
    <3> QED BY <3>3 DEF Classify
  <2>2. \A p \in Pairs : IntegrityRow(p[1], p[2]).writer = w =>
            IntegrityRow(p[1], p[2]).timeout_classification = "runner_idle_terminated"
    BY <2>1, <1>11 DEF IntegrityRow
  <2>3. \A row \in Integrity : row.writer = w => row.timeout_classification = "runner_idle_terminated"
    BY <2>2 DEF Integrity
  <2> QED BY <2>3 DEF Warnings, CleanExits
<1> QED BY <1>1, <1>8, <1>9, <1>10, <1>12, <1>13, <1>14

LEMMA RowsHold == StartupSpec => []RowsInv
<1>1. StartupInit => VerdictsInit
  BY DEF StartupInit, VerdictsRests
<1>2. [StartupNext]_startupVars => [VerdictsNext]_verdictsVars
  BY DEF StartupNext, startupVars, DiscoveryPart, JobsPart, LogsPart, VerdictsPart, CachePart
<1> QED BY <1>1, <1>2, RowsInit, RowsStep, PTL DEF StartupSpec

(* A row of the integrity table without a FAIL mark tells the truth: for any
   number of machines, writes, leaves, rows and runs of the job, whatever the
   transport loses, repeats and reorders and wherever a child ends
   (integrity_for_group, correlate_lazy). *)
THEOREM ReportsAreHonest == StartupSpec => []HonestReport
BY RowsHold, RowsMeanHonest, PTL

(* There is no mark and no warning about a pair that got every write once and in
   order, for any number of machines, writes, leaves, rows and runs of the job
   (integrity_for_group, classify_spawn, collect_incomplete_warnings). *)
THEOREM AlarmsAreTrue == StartupSpec => []NoFalseAlarm
BY RowsHold, NoneIsFalse, PTL
=============================================================================
