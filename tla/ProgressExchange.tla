-------------------------- MODULE ProgressExchange ---------------------------
(***************************************************************************)
(* How the runners tell one another what their children do, and when one   *)
(* of them concludes that a spawn has gone idle everywhere: the publisher  *)
(* and the reader threads of progress_coord.rs, the two views of           *)
(* progress.rs and the rule of termination.rs.                             *)
(*                                                                         *)
(* The children are reduced to their phase and to whether their counters   *)
(* stand still; the barriers to what they promise (module Lockstep): a     *)
(* child is started when everybody's previous one has ended.               *)
(*                                                                         *)
(* A connection is a stream of bytes.  read_exact with a read timeout can  *)
(* take a part of a frame and then give up; the reader goes on in the      *)
(* middle of the frame and takes what it finds there for a length.         *)
(***************************************************************************)
EXTENDS Integers, Sequences, FiniteSets

CONSTANTS
    Nodes,       \* the runners
    SpawnNames,  \* effective names of the jobs, in order
    Publishers,  \* bound: the runners that publish
    MaxFrames    \* bound: frames on a connection

\* A run without spawns publishes nothing.
ASSUME ExchangeAssumption ==
    /\ SpawnNames \in Seq(STRING) \ {<<>>}
    /\ \A i, j \in DOMAIN SpawnNames : SpawnNames[i] = SpawnNames[j] => i = j

VARIABLES
    spawn,   \* index of the spawn a runner is at
    child,   \* phase of its child
    still,   \* the child's counters have stood still for operate_idle_secs
    told,    \* LocalProgressTracker: the last line of the child
    wire,    \* wire[p][q]: frames p has written to q and q has not read
    writers, \* peers a runner can still write to
    place,   \* place[q][p]: whether q's reader of p is at the start of a frame
    view,    \* RemoteProgressView: per peer and name the phase last heard of
    agreed   \* operate_idle_logged

exchangeVars == <<spawn, child, still, told, wire, writers, place, view, agreed>>

\* The phases of a child in their order; "none" comes before the spawn.  The
\* rule treats all before operate alike, the tracker's "unknown" too.
PhaseRank == [none |-> 0, stabilize |-> 1, operate |-> 2, silent |-> 3, digest |-> 4,
              done |-> 5, exited |-> 6]
ChildPhases == DOMAIN PhaseRank
Following == [stabilize |-> "operate", operate |-> "silent", silent |-> "digest",
              digest |-> "done"]
InProgress == {"stabilize", "operate", "silent", "digest", "done"}
Names == {SpawnNames[i] : i \in DOMAIN SpawnNames}
NameOf(r) == SpawnNames[spawn[r]]
Frames == [spawn : Names, phase : InProgress]

ExchangeTypeOK ==
    /\ spawn \in [Nodes -> DOMAIN SpawnNames]
    /\ child \in [Nodes -> ChildPhases]
    /\ still \in [Nodes -> BOOLEAN]
    /\ told \in [Nodes -> [phase : InProgress, still : BOOLEAN]]
    /\ wire \in [Nodes -> [Nodes -> Seq(Frames)]]
    /\ writers \in [Nodes -> SUBSET Nodes]
    /\ place \in [Nodes -> [Nodes -> {"frame", "lost", "gone"}]]
    /\ view \in [Nodes -> [Nodes -> [Names -> ChildPhases]]]
    /\ agreed \in [Nodes -> BOOLEAN]

Untold == [phase |-> "stabilize", still |-> FALSE]

ExchangeInit ==
    /\ spawn = [r \in Nodes |-> 1]
    /\ child = [r \in Nodes |-> "none"]
    /\ still = [r \in Nodes |-> FALSE]
    /\ told = [r \in Nodes |-> Untold]
    /\ wire = [p \in Nodes |-> [q \in Nodes |-> <<>>]]
    /\ writers = [r \in Nodes |-> Nodes \ {r}]
    /\ place = [q \in Nodes |-> [p \in Nodes |-> "frame"]]
    /\ view = [q \in Nodes |-> [p \in Nodes |-> [n \in Names |-> "none"]]]
    /\ agreed = [r \in Nodes |-> FALSE]

linkVars == <<wire, writers, place, view>>

-----------------------------------------------------------------------------
(* The children.                                                           *)

\* The runner has left the ready barrier of its spawn and launches.
Launch(r) ==
    /\ child[r] = "none"
    /\ \A q \in Nodes : spawn[q] = spawn[r]
    /\ child' = [child EXCEPT ![r] = "stabilize"]
    /\ UNCHANGED <<spawn, still, told, linkVars, agreed>>

NextPhase(r) ==
    /\ child[r] \in DOMAIN Following
    /\ child' = [child EXCEPT ![r] = Following[@]]
    /\ still' = [still EXCEPT ![r] = FALSE]
    /\ UNCHANGED <<spawn, told, linkVars, agreed>>

\* The child ends, fails, or is killed at its limit; the tracker and the other
\* locals of spawn_and_monitor go with it.
ChildEnds(r) ==
    /\ child[r] \in InProgress
    /\ child' = [child EXCEPT ![r] = "exited"]
    /\ still' = [still EXCEPT ![r] = FALSE]
    /\ told' = [told EXCEPT ![r] = Untold]
    /\ agreed' = [agreed EXCEPT ![r] = FALSE]
    /\ UNCHANGED <<spawn, linkVars>>

\* In the operate phase the counters stop for the threshold, or go on.
StandStill(r) ==
    /\ child[r] = "operate"
    /\ still' = [still EXCEPT ![r] = ~@]
    /\ UNCHANGED <<spawn, child, told, linkVars, agreed>>

\* A line of the child reaches the tracker.
Tell(r) ==
    /\ child[r] \in InProgress
    /\ told' = [told EXCEPT ![r] = [phase |-> child[r], still |-> still[r]]]
    /\ UNCHANGED <<spawn, child, still, linkVars, agreed>>

\* Wrong on purpose: the job list has one end too many.
NextSpawnPastEnd(r) ==
    /\ child[r] = "exited"
    /\ \A q \in Nodes : spawn[q] > spawn[r] \/ child[q] = "exited"
    /\ spawn' = [spawn EXCEPT ![r] = @ + 1]
    /\ child' = [child EXCEPT ![r] = "none"]
    /\ UNCHANGED <<still, told, linkVars, agreed>>

\* The done barrier: everybody's child has ended.
NextSpawn(r) ==
    /\ child[r] = "exited" /\ spawn[r] < Len(SpawnNames)
    /\ \A q \in Nodes : spawn[q] > spawn[r] \/ child[q] = "exited"
    /\ spawn' = [spawn EXCEPT ![r] = @ + 1]
    /\ child' = [child EXCEPT ![r] = "none"]
    /\ UNCHANGED <<still, told, linkVars, agreed>>

-----------------------------------------------------------------------------
(* ProgressCoordinator.                                                    *)

\* publish, once a second while the child runs.
Publish(r) ==
    /\ r \in Publishers
    /\ child[r] \in InProgress
    /\ \A q \in writers[r] : Len(wire[r][q]) < MaxFrames
    /\ wire' = [wire EXCEPT ![r] = [q \in Nodes |->
            IF q \in writers[r]
            THEN Append(wire[r][q], [spawn |-> NameOf(r), phase |-> told[r].phase])
            ELSE wire[r][q]]]
    /\ UNCHANGED <<spawn, child, still, told, writers, place, view, agreed>>

\* A write fails or blocks for longer than PROGRESS_IO_TIMEOUT.
LoseWriter(r, q) ==
    /\ r \in Publishers /\ child[r] \in InProgress /\ q \in writers[r]
    /\ writers' = [writers EXCEPT ![r] = @ \ {q}]
    /\ UNCHANGED <<spawn, child, still, told, wire, place, view, agreed>>

\* apply_update: the phase is replaced.
Heard(q, p, f) == [view EXCEPT ![q][p][f.spawn] = f.phase]

ReadFrame(q, p) ==
    /\ place[q][p] = "frame" /\ wire[p][q] # <<>>
    /\ view' = Heard(q, p, Head(wire[p][q]))
    /\ wire' = [wire EXCEPT ![p][q] = Tail(@)]
    /\ UNCHANGED <<spawn, child, still, told, writers, place, agreed>>

\* The read timeout passes in the middle of a frame.  The reader loop takes
\* it for an idle connection and continues.
LosePlace(q, p) ==
    /\ place[q][p] = "frame" /\ wire[p][q] # <<>>
    /\ place' = [place EXCEPT ![q][p] = "lost"]
    /\ wire' = [wire EXCEPT ![p][q] = Tail(@)]
    /\ UNCHANGED <<spawn, child, still, told, writers, view, agreed>>

\* Bytes from the middle of a frame as a length: above the cap, and the
\* thread ends, or below it, and so many bytes are swallowed as a frame that
\* is no message.  The next read may be in the middle of a frame again.
Misread(q, p) ==
    /\ place[q][p] = "lost"
    /\ \/ /\ place' = [place EXCEPT ![q][p] = "gone"]
          /\ UNCHANGED wire
       \/ /\ wire[p][q] # <<>>
          /\ wire' = [wire EXCEPT ![p][q] = Tail(@)]
          /\ place' \in {place, [place EXCEPT ![q][p] = "frame"]}
    /\ UNCHANGED <<spawn, child, still, told, writers, view, agreed>>

-----------------------------------------------------------------------------
(* evaluate, and the line it leads to.                                     *)

\* Wrong on purpose: a view by peer alone, in which earlier spawns count.
NewestSnapshotOf(q, p, name) ==
    LET heard == {n \in Names : view[q][p][n] # "none"}
    IN  IF view[q][p][name] = "none" /\ heard # {} THEN view[q][p][CHOOSE n \in heard : TRUE]
        ELSE view[q][p][name]

SnapshotFor(q, p, name) == view[q][p][name]
PostOperate == {"silent", "done"}

OperateIdle(r) ==
    /\ told[r].phase = "operate" /\ told[r].still
    /\ \A p \in Nodes \ {r} : SnapshotFor(r, p, NameOf(r)) \in PostOperate

Evaluate(r) ==
    /\ child[r] \in InProgress
    /\ OperateIdle(r) /\ ~agreed[r]
    /\ agreed' = [agreed EXCEPT ![r] = TRUE]
    /\ UNCHANGED <<spawn, child, still, told, linkVars>>

ExchangeNext ==
    \/ \E r \in Nodes :
        \/ Launch(r) \/ NextPhase(r) \/ ChildEnds(r) \/ StandStill(r) \/ Tell(r) \/ NextSpawn(r)
        \/ Publish(r) \/ Evaluate(r)
    \/ \E q, p \in Nodes :
        \/ LoseWriter(q, p) \/ ReadFrame(q, p) \/ LosePlace(q, p) \/ Misread(q, p)

ExchangeSpec == ExchangeInit /\ [][ExchangeNext]_exchangeVars

-----------------------------------------------------------------------------
(* Properties.                                                             *)

\* A runner that announces that a spawn is idle everywhere is right about its
\* peers: their children of this spawn have left the operate phase, whatever
\* was lost, late or left over from an earlier spawn.
AgreementIsTrue ==
    \A r \in Nodes : agreed[r] =>
        \A p \in Nodes \ {r} :
            spawn[p] = spawn[r] /\ PhaseRank[child[p]] > PhaseRank["operate"]
=============================================================================
