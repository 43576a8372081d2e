----------------------------- MODULE VerdictsMC ------------------------------
(* Two machines, one of them publishing, with two leaves in the second write: *)
(* three records of two writes in one run, or a second run with fewer.        *)
EXTENDS Verdicts

MCHosts == {1, 2}
MCWritingHosts == {1}
MCLeafCount == [s \in 1..LastWrite |-> s]
MCJobsOfInterest ==
    {[qos |-> 2, records |-> 3, attempts |-> 1],
     [qos |-> 3, records |-> 3, attempts |-> 1],
     [qos |-> 4, records |-> 1, attempts |-> 2]}
=============================================================================
