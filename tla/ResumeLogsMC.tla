----------------------------- MODULE ResumeLogsMC ----------------------------
(* Small instances of ResumeLogs for TLC. *)
EXTENDS ResumeLogs

CONSTANTS alice, bob, carol

MCTwo == {alice, bob}
MCThree == {alice, bob, carol}
MCRank == [r \in Machines |-> CASE r = alice -> 1 [] r = bob -> 2 [] OTHER -> 3]
=============================================================================
