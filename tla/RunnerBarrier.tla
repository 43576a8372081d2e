---------------------------- MODULE RunnerBarrier ----------------------------
(***************************************************************************)
(* Phase 2 of the runner: the spawn-job loop of main.rs and the ready and  *)
(* done barriers it runs over the long-lived per-pair TCP connections of   *)
(* barrier_coord.rs (protocol.rs, ready_barrier_tcp and done_barrier_tcp). *)
(*                                                                         *)
(* Every runner walks the same job list.  For a job it broadcasts Ready    *)
(* and polls until it has heard Ready from everyone, spawns the variant    *)
(* child, broadcasts Done with the child's outcome and polls until it has  *)
(* heard Done from everyone.  A poll drains whatever the reader threads    *)
(* have put in the inboxes; frames of another kind or another variant are  *)
(* dropped, never kept for a later barrier.                                *)
(*                                                                         *)
(* link[p][r] is the sequence of frames p has written to its connection    *)
(* with r and r has not drained yet: socket buffers, wire and inbox        *)
(* together.  A poll consumes a prefix of it, as long as the reader thread *)
(* got.  A frame names its variant, not its place in the job list: "job"   *)
(* in a frame is there for the properties, and a receiver only ever looks  *)
(* at JobName[f.job].                                                      *)
(*                                                                         *)
(* A definition under the heading "Wrong on purpose" is the next one with  *)
(* a plausible bug; nothing uses it.  PROJECT.json says which property     *)
(* must fail when it takes the place of the correct one.                   *)
(***************************************************************************)
EXTENDS Naturals, Sequences

CONSTANTS
    Runners,    \* bench_config.runners
    NumJobs,    \* length of all_jobs
    Skip,       \* job indices in the resume skip set, the same on every runner
    JobName,    \* JobName[j]: effective_name of job j
    Outcomes,   \* the ChildOutcome statuses that occur
    Faults,     \* subset of {"timeout", "spawn", "crash", "link"}
    MaxLink     \* bound: no periodic re-broadcast onto a longer link

NoOutcome == "none"
Skipped == "skipped"

Jobs == 1..NumJobs
Active == Jobs \ Skip
Kinds == {"Ready", "Done"}
Statuses == Outcomes \union {NoOutcome}
Frames == [kind : Kinds, job : Active, status : Statuses]

ASSUME JobsAssumption == NumJobs \in Nat /\ Skip \subseteq Jobs
ASSUME NameAssumption == DOMAIN JobName = Jobs
ASSUME OutcomeAssumption ==
    "success" \in Outcomes /\ NoOutcome \notin Outcomes /\ Skipped \notin Outcomes
ASSUME MaxLinkAssumption == MaxLink \in Nat

VARIABLES
    job,        \* index of the job the loop is at
    pc,         \* "next" (top of the loop), "ready", "spawn" or "done"
    up,         \* "running", or how the process ended
    seen,       \* ready barrier: the runners heard from
    results,    \* done barrier: the status heard from each runner
    outcome,    \* what the runner's own child did, per job (history)
    summary,    \* the rows of the summary table, per job
    link,       \* frames written and not yet drained, per ordered pair
    writers,    \* peers the runner still has a TCP writer for
    readers     \* peers the runner still has a reader thread for

vars == <<job, pc, up, seen, results, outcome, summary, link, writers, readers>>

-----------------------------------------------------------------------------

TypeOK ==
    /\ job \in [Runners -> 1..NumJobs + 1]
    /\ pc \in [Runners -> {"next", "ready", "spawn", "done"}]
    /\ up \in [Runners -> {"running", "exit0", "exit1", "exit75", "crashed"}]
    /\ seen \in [Runners -> SUBSET Runners]
    /\ results \in [Runners -> [Runners -> Statuses]]
    /\ outcome \in [Runners -> [Jobs -> Statuses]]
    /\ summary \in [Runners -> [Jobs -> [Runners -> Statuses \union {Skipped}]]]
    /\ link \in [Runners -> [Runners -> Seq(Frames)]]
    /\ writers \in [Runners -> SUBSET Runners]
    /\ readers \in [Runners -> SUBSET Runners]
    /\ \A r \in Runners : pc[r] # "next" => job[r] \in Active

NoRow == [p \in Runners |-> NoOutcome]

\* barrier_coord.start has connected every pair; a pair that never came up
\* is one whose connection breaks before its first frame.
Init ==
    /\ job = [r \in Runners |-> 1]
    /\ pc = [r \in Runners |-> "next"]
    /\ up = [r \in Runners |-> "running"]
    /\ seen = [r \in Runners |-> {}]
    /\ results = [r \in Runners |-> NoRow]
    /\ outcome = [r \in Runners |-> [j \in Jobs |-> NoOutcome]]
    /\ summary = [r \in Runners |-> [j \in Jobs |-> NoRow]]
    /\ link = [p \in Runners |-> [r \in Runners |-> <<>>]]
    /\ writers = [r \in Runners |-> Runners \ {r}]
    /\ readers = [r \in Runners |-> Runners \ {r}]

-----------------------------------------------------------------------------
(* Sending.                                                                *)

Ready(r) == [kind |-> "Ready", job |-> job[r], status |-> NoOutcome]
Done(r, status) == [kind |-> "Done", job |-> job[r], status |-> status]

\* The write to a peer in "failed" errors or times out: its writer is
\* removed for good.  A frame to a process that is gone, or whose reader
\* thread has exited, reaches nobody.
WriteFailures(r) == IF "link" \in Faults THEN SUBSET writers[r] ELSE {{}}

Sent(l, r, f, failed) ==
    [l EXCEPT ![r] = [q \in Runners |->
        IF q \in writers[r] \ failed /\ r \in readers[q] /\ up[q] = "running"
        THEN Append(l[r][q], f)
        ELSE l[r][q]]]

DropWriters(r, failed) == writers' = [writers EXCEPT ![r] = @ \ failed]

-----------------------------------------------------------------------------
(* Draining the inboxes.                                                   *)

\* How many frames of each peer have reached the inbox by now.
Arrivals(r) ==
    {n \in [Runners -> UNION {0..Len(link[p][r]) : p \in Runners}] :
        \A p \in Runners : n[p] <= Len(link[p][r])}

Everything(r) == [p \in Runners |-> Len(link[p][r])]

\* Wrong on purpose: the messages are read and stay in the inbox.
DrainedPeek(r, n) == link

\* drain_all_inboxes takes every message that has arrived, wanted or not.
Drained(r, n) ==
    [p \in Runners |-> [q \in Runners |->
        IF q = r THEN SubSeq(link[p][r], n[p] + 1, Len(link[p][r]))
                 ELSE link[p][q]]]

\* A barrier counts a frame of its own kind that names its own variant.
Accepts(r, kind, f) == f.kind = kind /\ JobName[f.job] = JobName[job[r]]

AcceptedAt(r, kind, n, p) ==
    {i \in 1..n[p] : Accepts(r, kind, link[p][r][i])}

\* The position of the last accepted frame: results.insert overwrites.
LastIn(S) == CHOOSE i \in S : \A k \in S : k <= i

Seen(r, n) ==
    seen[r] \union {p \in Runners : AcceptedAt(r, "Ready", n, p) # {}}

Results(r, n) ==
    [p \in Runners |->
        IF AcceptedAt(r, "Done", n, p) = {}
        THEN results[r][p]
        ELSE link[p][r][LastIn(AcceptedAt(r, "Done", n, p))].status]

\* Wrong on purpose: a peer whose connection has failed is not waited for.
ReadyQuorumOfConnected(r, n) == Seen(r, n) \union (Runners \ ({r} \union writers[r])) = Runners
DoneQuorumOfConnected(r, n) == \A p \in {r} \union writers[r] : Results(r, n)[p] # NoOutcome

ReadyQuorum(r, n) == Seen(r, n) = Runners
DoneQuorum(r, n) == \A p \in Runners : Results(r, n)[p] # NoOutcome

-----------------------------------------------------------------------------
(* The job loop and the two barriers.                                      *)

Running(r, where) == up[r] = "running" /\ pc[r] = where

\* A job in the resume skip set bypasses both barriers and the spawn.
SkipJob(r) ==
    /\ Running(r, "next")
    /\ job[r] \in Skip
    /\ summary' = [summary EXCEPT ![r][job[r]] =
                     [p \in Runners |-> IF p = r THEN Skipped ELSE NoOutcome]]
    /\ job' = [job EXCEPT ![r] = @ + 1]
    /\ UNCHANGED <<pc, up, seen, results, outcome, link, writers, readers>>

\* Wrong on purpose: the loop runs one past the end of the job list.
EnterReadyPastEnd(r) ==
    /\ Running(r, "next")
    /\ job[r] \notin Skip
    /\ pc' = [pc EXCEPT ![r] = "ready"]
    /\ seen' = [seen EXCEPT ![r] = {r}]
    /\ link' = Sent(link, r, Ready(r), {})
    /\ UNCHANGED <<job, up, results, outcome, summary, writers, readers>>

EnterReady(r) ==
    /\ Running(r, "next")
    /\ job[r] \in Active
    /\ pc' = [pc EXCEPT ![r] = "ready"]
    /\ seen' = [seen EXCEPT ![r] = {r}]
    /\ \E failed \in WriteFailures(r) :
        /\ link' = Sent(link, r, Ready(r), failed)
        /\ DropWriters(r, failed)
    /\ UNCHANGED <<job, up, results, outcome, summary, readers>>

\* Wrong on purpose: no final broadcast.
LeaveReadySilent(r, n) ==
    /\ Running(r, "ready")
    /\ ReadyQuorum(r, n)
    /\ pc' = [pc EXCEPT ![r] = "spawn"]
    /\ seen' = [seen EXCEPT ![r] = Seen(r, n)]
    /\ link' = Drained(r, n)
    /\ UNCHANGED <<job, up, results, outcome, summary, writers, readers>>

\* Quorum: one final broadcast, then return.
LeaveReady(r, n) ==
    /\ Running(r, "ready")
    /\ ReadyQuorum(r, n)
    /\ pc' = [pc EXCEPT ![r] = "spawn"]
    /\ seen' = [seen EXCEPT ![r] = Seen(r, n)]
    /\ \E failed \in WriteFailures(r) :
        /\ link' = Sent(Drained(r, n), r, Ready(r), failed)
        /\ DropWriters(r, failed)
    /\ UNCHANGED <<job, up, results, outcome, summary, readers>>

\* spawn_and_monitor has returned: the child exited or was killed.
EnterDone(r) ==
    /\ Running(r, "spawn")
    /\ \E s \in Outcomes :
        /\ outcome' = [outcome EXCEPT ![r][job[r]] = s]
        /\ results' = [results EXCEPT ![r] = [NoRow EXCEPT ![r] = s]]
        /\ \E failed \in WriteFailures(r) :
            /\ link' = Sent(link, r, Done(r, s), failed)
            /\ DropWriters(r, failed)
    /\ pc' = [pc EXCEPT ![r] = "done"]
    /\ UNCHANGED <<job, up, seen, summary, readers>>

\* Wrong on purpose: no final broadcast.
LeaveDoneSilent(r, n) ==
    /\ Running(r, "done")
    /\ DoneQuorum(r, n)
    /\ summary' = [summary EXCEPT ![r][job[r]] = Results(r, n)]
    /\ results' = [results EXCEPT ![r] = NoRow]
    /\ job' = [job EXCEPT ![r] = @ + 1]
    /\ pc' = [pc EXCEPT ![r] = "next"]
    /\ link' = Drained(r, n)
    /\ UNCHANGED <<up, seen, outcome, writers, readers>>

\* Wrong on purpose: the final broadcast reports success whatever happened.
LeaveDoneSayingSuccess(r, n) ==
    /\ Running(r, "done")
    /\ DoneQuorum(r, n)
    /\ summary' = [summary EXCEPT ![r][job[r]] = Results(r, n)]
    /\ results' = [results EXCEPT ![r] = NoRow]
    /\ job' = [job EXCEPT ![r] = @ + 1]
    /\ pc' = [pc EXCEPT ![r] = "next"]
    /\ link' = Sent(Drained(r, n), r, Done(r, "success"), {})
    /\ UNCHANGED <<up, seen, outcome, writers, readers>>

LeaveDone(r, n) ==
    /\ Running(r, "done")
    /\ DoneQuorum(r, n)
    /\ summary' = [summary EXCEPT ![r][job[r]] = Results(r, n)]
    /\ results' = [results EXCEPT ![r] = NoRow]
    /\ job' = [job EXCEPT ![r] = @ + 1]
    /\ pc' = [pc EXCEPT ![r] = "next"]
    /\ \E failed \in WriteFailures(r) :
        /\ link' = Sent(Drained(r, n), r, Done(r, outcome[r][job[r]]), failed)
        /\ DropWriters(r, failed)
    /\ UNCHANGED <<up, seen, outcome, readers>>

\* One iteration of a barrier loop without quorum and before the deadline,
\* re-broadcasting when the last broadcast is a second old.
KeepWaitingReady(r, n, again) ==
    /\ Running(r, "ready")
    /\ ~ReadyQuorum(r, n)
    /\ seen' = [seen EXCEPT ![r] = Seen(r, n)]
    /\ IF again
       THEN /\ \A q \in writers[r] : Len(link[r][q]) < MaxLink
            /\ \E failed \in WriteFailures(r) :
                /\ link' = Sent(Drained(r, n), r, Ready(r), failed)
                /\ DropWriters(r, failed)
       ELSE link' = Drained(r, n) /\ UNCHANGED writers
    /\ UNCHANGED <<job, pc, up, results, outcome, summary, readers>>

KeepWaitingDone(r, n, again) ==
    /\ Running(r, "done")
    /\ ~DoneQuorum(r, n)
    /\ results' = [results EXCEPT ![r] = Results(r, n)]
    /\ IF again
       THEN /\ \A q \in writers[r] : Len(link[r][q]) < MaxLink
            /\ \E failed \in WriteFailures(r) :
                /\ link' = Sent(Drained(r, n), r, Done(r, outcome[r][job[r]]), failed)
                /\ DropWriters(r, failed)
       ELSE link' = Drained(r, n) /\ UNCHANGED writers
    /\ UNCHANGED <<job, pc, up, seen, outcome, summary, readers>>

\* Wrong on purpose: only the ready barrier has a deadline.
ReadyTimesOut(r, n) ==
    /\ "timeout" \in Faults
    /\ Running(r, "ready") /\ ~ReadyQuorum(r, n)
    /\ up' = [up EXCEPT ![r] = "exit75"]
    /\ UNCHANGED <<job, pc, seen, results, outcome, summary, link, writers, readers>>

\* The deadline passes in an iteration that found no quorum: the error
\* propagates to main and the process exits with EX_TEMPFAIL.
BarrierTimesOut(r, n) ==
    /\ "timeout" \in Faults
    /\ \/ Running(r, "ready") /\ ~ReadyQuorum(r, n)
       \/ Running(r, "done") /\ ~DoneQuorum(r, n)
    /\ up' = [up EXCEPT ![r] = "exit75"]
    /\ UNCHANGED <<job, pc, seen, results, outcome, summary, link, writers, readers>>

\* spawn_and_monitor fails to launch or wait for the child: exit 1.
SpawnError(r) ==
    /\ "spawn" \in Faults
    /\ Running(r, "spawn")
    /\ up' = [up EXCEPT ![r] = "exit1"]
    /\ UNCHANGED <<job, pc, seen, results, outcome, summary, link, writers, readers>>

\* Wrong on purpose: only the runner's own rows count.
AnyOwnFailure(r) ==
    \E j \in Jobs : summary[r][j][r] \notin {"success", Skipped, NoOutcome}

AnyFailure(r) ==
    \E j \in Jobs, p \in Runners :
        summary[r][j][p] \notin {"success", Skipped, NoOutcome}

Finish(r) ==
    /\ Running(r, "next")
    /\ job[r] = NumJobs + 1
    /\ up' = [up EXCEPT ![r] = IF AnyFailure(r) THEN "exit1" ELSE "exit0"]
    /\ UNCHANGED <<job, pc, seen, results, outcome, summary, link, writers, readers>>

-----------------------------------------------------------------------------
(* The environment.                                                        *)

\* The process is killed or panics (the panic hook aborts).
Crash(r) ==
    /\ "crash" \in Faults
    /\ up[r] = "running"
    /\ up' = [up EXCEPT ![r] = "crashed"]
    /\ UNCHANGED <<job, pc, seen, results, outcome, summary, link, writers, readers>>

\* The connection that carries p's frames to r is reset: r's reader thread
\* exits and is never replaced, and the tail it had not read is lost.
ConnectionBreaks(p, r) ==
    /\ "link" \in Faults
    /\ p \in readers[r]
    /\ readers' = [readers EXCEPT ![r] = @ \ {p}]
    /\ \E k \in 0..Len(link[p][r]) :
        link' = [link EXCEPT ![p][r] = SubSeq(@, 1, k)]
    /\ UNCHANGED <<job, pc, up, seen, results, outcome, summary, writers>>

-----------------------------------------------------------------------------

Leave(r, n) == LeaveReady(r, n) \/ LeaveDone(r, n)
KeepWaiting(r, n, again) == KeepWaitingReady(r, n, again) \/ KeepWaitingDone(r, n, again)

Poll(r) ==
    \E n \in Arrivals(r) :
        \/ Leave(r, n)
        \/ \E again \in BOOLEAN : KeepWaiting(r, n, again)
        \/ BarrierTimesOut(r, n)

Loop(r) == SkipJob(r) \/ EnterReady(r) \/ EnterDone(r) \/ Finish(r)

Next ==
    \/ \E r \in Runners : Loop(r) \/ Poll(r) \/ SpawnError(r) \/ Crash(r)
    \/ \E p, r \in Runners : ConnectionBreaks(p, r)

Spec == Init /\ [][Next]_vars

\* The first two conjuncts are in BarrierTimesOut; here they keep TLC from going
\* through the arrivals for nothing.
DeadlinePasses(r) ==
    /\ "timeout" \in Faults /\ up[r] = "running"
    /\ \E n \in Arrivals(r) : BarrierTimesOut(r, n)

\* The loop never blocks for ever outside a barrier (the spawn is bounded by
\* its timeout), the reader threads keep up, and the deadline passes.  The
\* periodic re-broadcast is not assumed to happen.
Fairness ==
    \A r \in Runners :
        /\ WF_vars(Loop(r))
        /\ WF_vars(Leave(r, Everything(r)) \/ KeepWaiting(r, Everything(r), FALSE))
        /\ WF_vars(DeadlinePasses(r))

FairSpec == Spec /\ Fairness

-----------------------------------------------------------------------------
(* Where a runner is, in terms of the barriers of Lockstep.                *)

Entered(r, j, kind) ==
    \/ job[r] > j
    \/ job[r] = j /\ pc[r] \in {"ready", "spawn", "done"} /\ kind = "Ready"
    \/ job[r] = j /\ pc[r] = "done" /\ kind = "Done"

Left(r, j, kind) ==
    \/ job[r] > j
    \/ job[r] = j /\ pc[r] \in {"spawn", "done"} /\ kind = "Ready"

InBarrier(r) == pc[r] \in {"ready", "done"}
KindAt(r) == IF pc[r] = "ready" THEN "Ready" ELSE "Done"
Heard(r) == IF pc[r] = "ready" THEN seen[r] ELSE {p \in Runners : results[r][p] # NoOutcome}

Abstract == INSTANCE Lockstep WITH
    entered <- [r \in Runners |-> {b \in [job : Active, kind : Kinds] : Entered(r, b.job, b.kind)}],
    left <- [r \in Runners |-> {b \in [job : Active, kind : Kinds] : Left(r, b.job, b.kind)}]

(* The barriers implement Lockstep: each runner enters them one by one in
   job order and returns from one only when every runner has entered it,
   whatever is lost, late, timed out or crashed. *)
ImplementsLockstep == Abstract!Spec

-----------------------------------------------------------------------------
(* Safety.                                                                 *)

(* No runner has returned from a barrier that another has not entered: no
   variant is launched while a runner is still busy with an earlier job. *)
NobodyLeavesEarly ==
    \A r, p \in Runners, j \in Active, kind \in Kinds :
        Left(r, j, kind) => Entered(p, j, kind)

(* A frame a barrier would count was sent for that very job, even when two
   jobs share an effective name: frames left over from earlier barriers are
   always gone before one of the same kind and name is waited for. *)
NoFalseMatch ==
    \A r, p \in Runners : InBarrier(r) =>
        \A i \in 1..Len(link[p][r]) :
            Accepts(r, KindAt(r), link[p][r][i]) => link[p][r][i].job = job[r]

(* A runner that has returned from a barrier does not strand the peers that
   are still in it: each has heard it or will find its frame, unless the
   connection between the two has failed. *)
LeaverIsHeard ==
    \A r, p \in Runners :
        /\ p # r
        /\ up[p] = "running" /\ InBarrier(p)
        /\ Left(r, job[p], KindAt(p))
        /\ p \in writers[r]
        /\ r \in readers[p]
        => \/ r \in Heard(p)
           \/ \E i \in 1..Len(link[r][p]) : Accepts(p, KindAt(p), link[r][p][i])

(* The summary rows of a job, on every runner that has them, are what each
   runner's own child really did. *)
SummaryTruthful ==
    \A r, p \in Runners, j \in Active :
        summary[r][j] # NoRow => summary[r][j][p] = outcome[p][j]

(* Two runners that work through the whole job list without an error of
   their own report the same verdict in their exit status. *)
VerdictsAgree ==
    \A r, p \in Runners :
        (job[r] = NumJobs + 1 /\ job[p] = NumJobs + 1
            /\ up[r] \in {"exit0", "exit1"} /\ up[p] \in {"exit0", "exit1"})
        => up[r] = up[p]

-----------------------------------------------------------------------------
(* Liveness.                                                               *)

(* With no faults every runner works through the whole job list. *)
AllFinish == <>(\A r \in Runners : up[r] \in {"exit0", "exit1"} /\ job[r] = NumJobs + 1)

(* Whatever fails, no runner waits in a barrier for ever. *)
NoRunnerHangs == <>[](\A r \in Runners : up[r] # "running")

=============================================================================
