---------------------------- MODULE RunnerSetupMC ----------------------------
(* Three runners for late_start.cfg.                                        *)
EXTENDS RunnerSetup

ThreeRunners == <<1, 2, 3>>
=============================================================================
