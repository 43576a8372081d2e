------------------------------ MODULE Lockstep ------------------------------
(***************************************************************************)
(* What the ready and done barriers of the runner promise, said without    *)
(* messages, sockets or timeouts.  Every spawn job that is not skipped has *)
(* two barriers, "Ready" before the variant is launched and "Done" after   *)
(* it has exited.  A runner enters the barriers one by one in the order of *)
(* the job list, and may leave one only when every runner has entered it.  *)
(* A runner may also stop for ever at any moment: nothing here is forced   *)
(* to happen.                                                              *)
(***************************************************************************)
EXTENDS Naturals

CONSTANTS
    Runners,    \* the names in bench_config.runners
    NumJobs,    \* length of the expanded job list
    Skip        \* indices of the jobs in the resume skip set

VARIABLES
    entered,    \* entered[r]: the barriers runner r has entered
    left        \* left[r]: the barriers runner r has returned from

vars == <<entered, left>>

Barriers == [job : (1..NumJobs) \ Skip, kind : {"Ready", "Done"}]

\* The order in which the job loop meets the barriers.
Before(b, c) ==
    \/ b.job < c.job
    \/ b.job = c.job /\ b.kind = "Ready" /\ c.kind = "Done"

TypeOK ==
    /\ entered \in [Runners -> SUBSET Barriers]
    /\ left \in [Runners -> SUBSET Barriers]

Init ==
    /\ entered = [r \in Runners |-> {}]
    /\ left = [r \in Runners |-> {}]

Enter(r, b) ==
    /\ b \notin entered[r]
    /\ \A c \in Barriers : Before(c, b) => c \in left[r]
    /\ entered' = [entered EXCEPT ![r] = @ \union {b}]
    /\ UNCHANGED left

Leave(r, b) ==
    /\ b \in entered[r] \ left[r]
    /\ \A p \in Runners : b \in entered[p]
    /\ left' = [left EXCEPT ![r] = @ \union {b}]
    /\ UNCHANGED entered

Next == \E r \in Runners, b \in Barriers : Enter(r, b) \/ Leave(r, b)

Spec == Init /\ [][Next]_vars

=============================================================================
