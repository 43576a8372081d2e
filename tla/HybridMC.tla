------------------------------ MODULE HybridMC ------------------------------
(* Instances of Hybrid for TLC. *)
EXTENDS Hybrid

Run(mode, names, ticks, values, ends, kill) ==
    [mode |-> mode, names |-> names, ticks |-> ticks, values |-> values,
     ends |-> ends, kill |-> kill]

\* Two nodes with threads that publish more than a socket and a channel hold, so
\* that each place is full at some time, in both directions.
LongBurst == Run("multi", {1, 2}, 2, 2, TRUE, FALSE)

\* The messages of the other Multi spawn fit into a socket and a channel.
HybridRuns ==
    {Run("single", {1, 2}, 2, 2, TRUE, FALSE), Run("multi", {1, 2}, 1, 2, TRUE, TRUE),
     Run("single", {1, 2, 3}, 1, 1, FALSE, TRUE), LongBurst}
OnlyLongBurst == {LongBurst}
\* One of three nodes is killed while the others write to it.
OneIsKilled == {Run("single", {1, 2, 3}, 1, 2, FALSE, TRUE)}
=============================================================================
