------------------------------ MODULE Discovery ------------------------------
(***************************************************************************)
(* Phase 1 of the runner and what becomes of a runner that is launched     *)
(* again: Coordinator::discover (protocol.rs), the choice of the log       *)
(* folder around it (main.rs, resume.rs), the re-emission of Discover from *)
(* the barriers, and scripts/runner-resume.sh, which starts the runner     *)
(* again with --resume when it exits with code 75.                         *)
(*                                                                         *)
(* Discover messages travel by UDP: net[r] holds those on their way to r   *)
(* or waiting in its socket, in no order, and Lose drops them.  Nothing    *)
(* else that counts in discovery is sent by UDP any more: Ready and Done   *)
(* go through the barrier connections.  Folder names are numbers: they     *)
(* carry a time stamp and sort by it.                                      *)
(*                                                                         *)
(* A definition under the heading "Wrong on purpose" is the next one with  *)
(* a plausible bug; nothing uses it.                                       *)
(***************************************************************************)
EXTENDS Naturals, FiniteSets

CONSTANTS
    Runners,        \* bench_config.runners
    Leader,         \* the first of them
    Configs,        \* contents of the configuration file, as their hashes
    OldFolders,     \* the sets of earlier runs' folders a disk may hold
    Fresh,          \* Fresh[r]: the folder named after the time of r's launch
    Faults,         \* subset of {"loss", "timeout", "sync", "crash"}
    MaxAttempts     \* RUNNER_RESUME_MAX_ATTEMPTS (50 in the script)

NoFolder == 0

ASSUME LeaderAssumption == Leader \in Runners
ASSUME FoldersAssumption ==
    \A r \in Runners :
        /\ Fresh[r] \in Nat \ {NoFolder}
        /\ \A S \in OldFolders : S \in SUBSET (1..Fresh[r] - 1)
ASSUME AttemptsAssumption == MaxAttempts \in Nat \ {0}

VARIABLES
    phase,          \* where the runner is, or how its process ended
    given,          \* was --resume on the command line of the first launch?
    hash,           \* the hash of the configuration file r was given
    attempt,        \* which launch of the wrapper this is
    proposal,       \* proposed_log_subdir
    seen,           \* the runners heard from
    agreed,         \* leader_log_subdir, later last_log_subdir
    folders,        \* log folders on r's disk
    opened,         \* folders r's launches have opened a log in (history)
    net             \* Discover messages on their way to r

vars == <<phase, given, hash, attempt, proposal, seen, agreed, folders, opened, net>>

\* cli.resume: the wrapper appends --resume to every launch but the first.
resume(r) == given[r] \/ attempt[r] > 1

Folders == {Fresh[r] : r \in Runners} \union UNION OldFolders
Discovers == [from : Runners, folder : Folders, resume : BOOLEAN]
Phases ==
    {"launch", "discover", "linger", "manifest", "setup", "phase2",
     "finished", "refused", "failed", "exit75", "crashed"}

Passed == {"linger", "manifest", "setup", "phase2", "finished", "exit75"}

TypeOK ==
    /\ phase \in [Runners -> Phases]
    /\ given \in [Runners -> BOOLEAN]
    /\ hash \in [Runners -> Configs]
    /\ attempt \in [Runners -> 1..MaxAttempts]
    /\ proposal \in [Runners -> Folders \union {NoFolder}]
    /\ seen \in [Runners -> SUBSET Runners]
    /\ agreed \in [Runners -> Folders \union {NoFolder}]
    /\ folders \in [Runners -> SUBSET Folders]
    /\ opened \in [Runners -> SUBSET Folders]
    /\ net \in [Runners -> SUBSET Discovers]

Init ==
    /\ phase = [r \in Runners |-> "launch"]
    /\ given \in [Runners -> BOOLEAN]
    /\ hash \in [Runners -> Configs]
    /\ attempt = [r \in Runners |-> 1]
    /\ proposal = [r \in Runners |-> NoFolder]
    /\ seen = [r \in Runners |-> {}]
    /\ agreed = [r \in Runners |-> NoFolder]
    /\ folders \in [Runners -> OldFolders]
    /\ opened = [r \in Runners |-> {}]
    /\ net = [r \in Runners |-> {}]

-----------------------------------------------------------------------------
(* Launching, and launching again.                                         *)

\* --resume was given, and the wrapper has appended another one: clap takes
\* a flag once.
Doubled(r) == given[r] /\ attempt[r] > 1

\* Wrong on purpose: the candidates are popped from the other end.
Oldest(S) == CHOOSE f \in S : \A g \in S : f <= g

\* find_latest_log_subdir
Latest(S) == CHOOSE f \in S : \A g \in S : g <= f

\* Wrong on purpose: the leader, too, waits to hear of its own proposal.
LaunchUnknowing(r) ==
    /\ phase[r] = "launch"
    /\ ~Doubled(r)
    /\ resume(r) => folders[r] # {}
    /\ \E f \in Folders :
        /\ f = IF resume(r) THEN Latest(folders[r]) ELSE Fresh[r]
        /\ proposal' = [proposal EXCEPT ![r] = f]
    /\ agreed' = [agreed EXCEPT ![r] = NoFolder]
    /\ phase' = [phase EXCEPT ![r] = "discover"]
    /\ seen' = [seen EXCEPT ![r] = {r}]
    /\ UNCHANGED <<given, hash, attempt, folders, opened, net>>

\* The proposal is fixed before discovery starts; the leader agrees with itself.
Launch(r) ==
    /\ phase[r] = "launch"
    /\ ~Doubled(r)
    /\ resume(r) => folders[r] # {}
    /\ \E f \in Folders :
        /\ f = IF resume(r) THEN Latest(folders[r]) ELSE Fresh[r]
        /\ proposal' = [proposal EXCEPT ![r] = f]
        /\ agreed' = [agreed EXCEPT ![r] = IF r = Leader THEN f ELSE NoFolder]
    /\ phase' = [phase EXCEPT ![r] = "discover"]
    /\ seen' = [seen EXCEPT ![r] = {r}]
    /\ UNCHANGED <<given, hash, attempt, folders, opened, net>>

\* The command line is refused, or there is nothing to resume.
LaunchFails(r) ==
    /\ phase[r] = "launch"
    /\ Doubled(r) \/ (resume(r) /\ folders[r] = {})
    /\ phase' = [phase EXCEPT ![r] = "failed"]
    /\ UNCHANGED <<given, hash, attempt, proposal, seen, agreed, folders, opened, net>>

\* Wrong on purpose: one launch too many.
RelaunchOnceMore(r) ==
    /\ phase[r] = "exit75"
    /\ attempt[r] <= MaxAttempts
    /\ attempt' = [attempt EXCEPT ![r] = @ + 1]
    /\ phase' = [phase EXCEPT ![r] = "launch"]
    /\ net' = [net EXCEPT ![r] = {}]
    /\ UNCHANGED <<given, hash, proposal, seen, agreed, folders, opened>>

\* The wrapper retries on exit 75 and on nothing else.  What the old
\* socket had not been read of is gone with it.
Relaunch(r) ==
    /\ phase[r] = "exit75"
    /\ attempt[r] < MaxAttempts
    /\ attempt' = [attempt EXCEPT ![r] = @ + 1]
    /\ phase' = [phase EXCEPT ![r] = "launch"]
    /\ net' = [net EXCEPT ![r] = {}]
    /\ UNCHANGED <<given, hash, proposal, seen, agreed, folders, opened>>

-----------------------------------------------------------------------------
(* Discovery.                                                              *)

\* A datagram to a process that has no socket reaches nobody.
Listening(q) ==
    phase[q] \in {"discover", "linger", "manifest", "setup", "phase2"}

Broadcast(r, d) ==
    [q \in Runners |-> IF q # r /\ Listening(q) THEN net[q] \union {d} ELSE net[q]]

Discover(r, folder) == [from |-> r, folder |-> folder, resume |-> resume(r)]

\* Every 500 ms in discovery, and four more times in the linger.
SendDiscover(r) ==
    /\ phase[r] \in {"discover", "linger"}
    /\ net' = Broadcast(r, Discover(r, proposal[r]))
    /\ UNCHANGED <<phase, given, hash, attempt, proposal, seen, agreed, folders, opened>>

\* Wrong on purpose: one of the two checks is missing.
MismatchOfResume(r, d) == d.resume # resume(r)
MismatchOfHash(r, d) == hash[d.from] # hash[r]

Mismatch(r, d) == hash[d.from] # hash[r] \/ d.resume # resume(r)

\* A Discover of another configuration or mode ends the process.
Refuse(r, d) ==
    /\ phase[r] = "discover"
    /\ Mismatch(r, d)
    /\ phase' = [phase EXCEPT ![r] = "refused"]
    /\ net' = [net EXCEPT ![r] = @ \ {d}]
    /\ UNCHANGED <<given, hash, attempt, proposal, seen, agreed, folders, opened>>

\* Only the leader's proposal counts, and only the first time.
Captured(r, d) ==
    IF d.from = Leader /\ agreed[r] = NoFolder THEN d.folder ELSE agreed[r]

Hear(r, d) ==
    /\ phase[r] = "discover"
    /\ ~Mismatch(r, d)
    /\ agreed' = [agreed EXCEPT ![r] = Captured(r, d)]
    /\ seen' = [seen EXCEPT ![r] = @ \union {d.from}]
    /\ net' = [net EXCEPT ![r] = @ \ {d}]
    /\ UNCHANGED <<phase, given, hash, attempt, proposal, folders, opened>>

\* The condition is looked at once per 500 ms, so messages may still be
\* handled after it has become true.
Quorum(r) == seen[r] = Runners

EndDiscovery(r) ==
    /\ phase[r] = "discover"
    /\ Quorum(r) /\ agreed[r] # NoFolder
    /\ phase' = [phase EXCEPT ![r] = "linger"]
    /\ UNCHANGED <<given, hash, attempt, proposal, seen, agreed, folders, opened, net>>

\* The linger and the clock synchronisation read the socket, answer probes
\* and pass over everything else.
Overlook(r, d) ==
    /\ phase[r] \in {"linger", "setup"}
    /\ net' = [net EXCEPT ![r] = @ \ {d}]
    /\ UNCHANGED <<phase, given, hash, attempt, proposal, seen, agreed, folders, opened>>

Lose(r, d) ==
    /\ "loss" \in Faults
    /\ net' = [net EXCEPT ![r] = @ \ {d}]
    /\ UNCHANGED <<phase, given, hash, attempt, proposal, seen, agreed, folders, opened>>

-----------------------------------------------------------------------------
(* After discovery.                                                        *)

\* A resumed runner needs the agreed folder on its own disk.
EndLinger(r) ==
    /\ phase[r] = "linger"
    /\ phase' = [phase EXCEPT ![r] =
                    IF ~resume(r) THEN "setup"
                    ELSE IF agreed[r] \in folders[r] THEN "manifest" ELSE "failed"]
    /\ UNCHANGED <<given, hash, attempt, proposal, seen, agreed, folders, opened, net>>

\* The manifest exchange does not look at the UDP socket.  It needs every
\* peer to have come as far, in resume mode.
ManifestsExchanged(r) ==
    /\ phase[r] = "manifest"
    /\ \A p \in Runners :
        resume(p) /\ phase[p] \in {"manifest", "setup", "phase2", "finished", "exit75"}
    /\ phase' = [phase EXCEPT ![r] = "setup"]
    /\ UNCHANGED <<given, hash, attempt, proposal, seen, agreed, folders, opened, net>>

\* The log of the initial clock synchronisation is the first file of the
\* run: its folder is made if it is not there.  Then the progress and
\* barrier connections are set up.
EnterPhase2(r) ==
    /\ phase[r] = "setup"
    /\ folders' = [folders EXCEPT ![r] = @ \union {agreed[r]}]
    /\ opened' = [opened EXCEPT ![r] = @ \union {agreed[r]}]
    /\ phase' = [phase EXCEPT ![r] = "phase2"]
    /\ UNCHANGED <<given, hash, attempt, proposal, seen, agreed, net>>

\* A peer answers none of the probes of the initial synchronisation.
ClockSyncFails(r) ==
    /\ "sync" \in Faults
    /\ phase[r] = "setup"
    /\ folders' = [folders EXCEPT ![r] = @ \union {agreed[r]}]
    /\ opened' = [opened EXCEPT ![r] = @ \union {agreed[r]}]
    /\ phase' = [phase EXCEPT ![r] = "failed"]
    /\ UNCHANGED <<given, hash, attempt, proposal, seen, agreed, net>>

\* Wrong on purpose: a barrier drops a Discover.
AnsweredNot(r) == net

\* drain_udp_for_recovery: a barrier answers a Discover, whatever its flag,
\* with one that carries the agreed folder.
Answered(r) == Broadcast(r, Discover(r, agreed[r]))

AnswerLate(r, d) ==
    /\ phase[r] = "phase2"
    /\ net' = [Answered(r) EXCEPT ![r] = @ \ {d}]
    /\ UNCHANGED <<phase, given, hash, attempt, proposal, seen, agreed, folders, opened>>

\* A barrier of Phase 1.25 or Phase 2 times out.
TimeOut(r) ==
    /\ "timeout" \in Faults
    /\ phase[r] \in {"manifest", "phase2"}
    /\ phase' = [phase EXCEPT ![r] = "exit75"]
    /\ UNCHANGED <<given, hash, attempt, proposal, seen, agreed, folders, opened, net>>

\* The barriers of Phase 2 let a runner through only with all the others.
Finish(r) ==
    /\ phase[r] = "phase2"
    /\ \A p \in Runners : phase[p] \in {"phase2", "finished", "exit75"}
    /\ phase' = [phase EXCEPT ![r] = "finished"]
    /\ UNCHANGED <<given, hash, attempt, proposal, seen, agreed, folders, opened, net>>

Crash(r) ==
    /\ "crash" \in Faults
    /\ Listening(r)
    /\ phase' = [phase EXCEPT ![r] = "crashed"]
    /\ UNCHANGED <<given, hash, attempt, proposal, seen, agreed, folders, opened, net>>

-----------------------------------------------------------------------------

Steps(r) ==
    \/ Launch(r) \/ LaunchFails(r) \/ Relaunch(r)
    \/ SendDiscover(r) \/ EndDiscovery(r) \/ EndLinger(r)
    \/ ManifestsExchanged(r) \/ EnterPhase2(r) \/ ClockSyncFails(r)
    \/ TimeOut(r) \/ Finish(r) \/ Crash(r)

Reads(r, d) == Refuse(r, d) \/ Hear(r, d) \/ Overlook(r, d) \/ AnswerLate(r, d)

Next ==
    \E r \in Runners :
        \/ Steps(r)
        \/ \E d \in net[r] : Reads(r, d) \/ Lose(r, d)

Spec == Init /\ [][Next]_vars

\* A runner goes on by itself, and a message that is sent again and again
\* is read some time.
Fairness ==
    \A r \in Runners :
        /\ WF_vars(Launch(r))
        /\ SF_vars(SendDiscover(r) /\ phase[r] = "discover")
        /\ WF_vars(EndDiscovery(r))
        /\ WF_vars(EndLinger(r))
        /\ WF_vars(ManifestsExchanged(r))
        /\ WF_vars(EnterPhase2(r))
        /\ \A p \in Runners : SF_vars(\E d \in net[r] : d.from = p /\ Reads(r, d))

FairSpec == Spec /\ Fairness

-----------------------------------------------------------------------------

(* Everything one run writes, on all the runners and in all their launches,
   goes to folders of one name: the leader's proposal, which a resumed leader
   finds again as the latest on its disk. *)
OneFolder ==
    \A r, p \in Runners : \A f \in opened[r], g \in opened[p] : f = g

(* No runner gets out of discovery while another has a different
   configuration file. *)
OneConfig ==
    \A r, p \in Runners : phase[r] \in Passed => hash[p] = hash[r]

(* A resumed run is resumed by all: a runner that skips finished jobs is never
   past discovery together with one that would run them again. *)
NoMixedRun ==
    \A r, p \in Runners : phase[r] \in Passed /\ resume(r) => resume(p)

(* What all runners of one run have in common once they are past discovery: the
   folder, the configuration and whether the run is resumed. *)
OneRun == OneFolder /\ OneConfig /\ NoMixedRun

(* discover() looks for a leader that everyone but itself has heard from (the
   late recovery loop and its 30 s budget): with Discover as the only message
   that counts there is no such state. *)
LeaderKnownAtQuorum ==
    \A r \in Runners : phase[r] = "discover" /\ Quorum(r) => agreed[r] # NoFolder

(* Runners started fresh on the same file all get to Phase 2, however many
   messages are lost and however early one of them stops broadcasting, unless
   a process ends on the way. *)
Alike == \A r, p \in Runners : ~given[r] /\ hash[r] = hash[p]
Ended(r) == phase[r] \in {"failed", "crashed", "exit75"}
AllMeet ==
    Alike => \/ <>(\E r \in Runners : Ended(r))
             \/ <>(\A r \in Runners : phase[r] \in {"phase2", "finished"})

(* A runner that the wrapper launched again after a barrier timeout is not
   turned away by peers that are in Phase 2 of the very same run. *)
TurnedAway(r) == attempt[r] > 1 /\ phase[r] # "refused" /\ phase'[r] = "refused"
RelaunchedIsTakenBack ==
    [][\A r \in Runners :
            TurnedAway(r) => \E p \in Runners \ {r} : phase[p] # "phase2"]_vars

=============================================================================
