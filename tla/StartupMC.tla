------------------------------ MODULE StartupMC ------------------------------
(***************************************************************************)
(* The beginning and the end of a run in one state space: the runners find *)
(* one another and agree on a folder (Discovery); the configuration is     *)
(* made into jobs, and these into logs (Jobs); a run that was stopped is   *)
(* taken up from the files in the folder (ResumeLogs); the analysis says   *)
(* how a spawn went (Verdicts), from a cache of its files (AnalysisCache). *)
(* They share no state.  "part" says which of them a behaviour is about;   *)
(* the others rest in an initial state.                                    *)
(***************************************************************************)
EXTENDS DiscoveryMC, JobsMC, ResumeLogs, VerdictsMC, AnalysisCache

\* The cache: one spawn and one clock-sync log.
MCVariantStems == {"v-alice-run"}
MCSyncStems == {"alice-clock-sync-run"}

MCRank == [r \in Machines |-> CASE r = alice -> 1 [] r = bob -> 2 [] OTHER -> 3]

VARIABLE part

startupVars == <<part, vars, jobsVars, logsVars, verdictsVars, cacheVars>>

DiscoveryRests ==
    /\ Init
    /\ \A r, p \in Runners : given[r] /\ hash[r] = hash[p] /\ folders[r] = {}
    /\ hash[Leader] = CHOOSE c \in Configs : TRUE
JobsRests == JobsInit /\ file = NoLogDirAtAll
VerdictsRests == VerdictsInit /\ theJob.qos = 2

StartupInit ==
    /\ part \in {"discovery", "jobs", "logs", "verdicts", "cache"}
    /\ IF part = "discovery" THEN Init ELSE DiscoveryRests
    /\ IF part = "jobs" THEN JobsInit ELSE JobsRests
    /\ LogsInit
    /\ IF part = "verdicts" THEN VerdictsInit ELSE VerdictsRests
    /\ CacheInit

DiscoveryPart ==
    part = "discovery" /\ Next
    /\ UNCHANGED <<part, jobsVars, logsVars, verdictsVars, cacheVars>>
JobsPart ==
    part = "jobs" /\ JobsNext
    /\ UNCHANGED <<part, vars, logsVars, verdictsVars, cacheVars>>
LogsPart ==
    part = "logs" /\ LogsNext
    /\ UNCHANGED <<part, vars, jobsVars, verdictsVars, cacheVars>>
VerdictsPart ==
    part = "verdicts" /\ VerdictsNext
    /\ UNCHANGED <<part, vars, jobsVars, logsVars, cacheVars>>
CachePart ==
    part = "cache" /\ CacheNext
    /\ UNCHANGED <<part, vars, jobsVars, logsVars, verdictsVars>>

StartupNext == DiscoveryPart \/ JobsPart \/ LogsPart \/ VerdictsPart \/ CachePart

StartupSpec ==
    StartupInit /\ [][StartupNext]_startupVars /\ (part = "discovery" => Fairness)

\* The types of the five parts (the state described in their VARIABLES).
StartupTypeOK == TypeOK /\ JobsTypeOK /\ LogsTypeOK /\ VerdictsTypeOK /\ CacheTypeOK
=============================================================================
