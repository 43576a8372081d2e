---------------------------- MODULE ReliableUdpMC ----------------------------
(* Instances of ReliableUdp for TLC. *)
EXTENDS ReliableUdp, TLC

CONSTANTS alice, bob

MCTwo == {alice, bob}
MCSymTwo == Permutations(MCTwo)

\* A tick writes two paths in turn.
MCTwoPaths == [s \in Seqs |-> (s - 1) % 2]

=============================================================================
