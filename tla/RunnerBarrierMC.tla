--------------------------- MODULE RunnerBarrierMC ---------------------------
(* Instances of RunnerBarrier for TLC. *)
EXTENDS RunnerBarrier

CONSTANTS alice, bob, carol

MCTwo == {alice, bob}
MCThree == {alice, bob, carol}

\* Two spawn jobs that came out with the same effective name.
MCNamesClash == [j \in Jobs |-> "v-qos1"]
\* Three, of which the first and the last did.
MCNamesApart == [j \in Jobs |-> IF j = 2 THEN "w-qos1" ELSE "v-qos1"]

MCOutcomes == {"success", "failed"}
MCSuccess == {"success"}

=============================================================================
