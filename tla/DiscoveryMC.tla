----------------------------- MODULE DiscoveryMC -----------------------------
(* Small instances of Discovery for TLC. *)
EXTENDS Discovery

CONSTANTS alice, bob, carol

MCTwo == {alice, bob}
MCThree == {alice, bob, carol}

\* Nothing to resume, one earlier run, or two.
MCOldFolders == {{}, {1}, {1, 2}}
\* The follower's clock is ahead.
MCFresh == [r \in Runners |-> IF r = alice THEN 3 ELSE 4]
=============================================================================
