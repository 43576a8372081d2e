-------------------------------- MODULE Jobs ---------------------------------
(***************************************************************************)
(* From the configuration file to the logs.  A runner resolves the         *)
(* templates of the file and validates it (runner/src/config.rs), expands  *)
(* every variant into jobs (spawn_job.rs), drops those whose threading     *)
(* mode the variant does not support, and runs the rest one by one         *)
(* (main.rs).  The child is given its job on the command line              *)
(* (cli_args.rs), parses it (variant-base/src/cli.rs) and opens a log that *)
(* is named after the job.  A runner that is killed is started again with  *)
(* --resume, which finds by the names of the logs what is complete         *)
(* (resume.rs).  One runner is modelled: a job all the others count as     *)
(* complete, too (ResumeLogs has what they say to one another).            *)
(*                                                                         *)
(* A name is the sequence of its parts, so that two variants may come out  *)
(* with one name; an array of the file is a sequence, and an optional key  *)
(* a set of at most one value.  Timeouts, the pauses between spawns and    *)
(* the ETA line are left out; so are the keys that only shape a message.   *)
(*                                                                         *)
(* A definition under the heading "Wrong on purpose" is the next one with  *)
(* a plausible bug; nothing uses it.                                       *)
(***************************************************************************)
EXTENDS Naturals, Sequences, SequencesExt, FiniteSets, FiniteSetsExt, TLC

CONSTANTS
    ConfigFiles,    \* [variants, templates, cliDir, runnerDir, overrides]
    MaxStarts,      \* bound: launches of the runner
    MaxFailures     \* bound: children that fail

ASSUME JobsBoundAssumption == MaxStarts \in Nat \ {0} /\ MaxFailures \in Nat

VARIABLES
    file,       \* the configuration and the arguments of the runner
    runner,     \* "off", "running", "refused" or "done"
    starts,     \* launches so far
    failures,   \* children that failed so far
    allJobs,    \* the jobs of this launch, in order
    next,       \* the index of the next job, or of the one that runs
    skipSet,    \* names of the jobs that are not run
    child,      \* what the child was given, as it understood it
    logs        \* the logs: [dir, name] -> [given, complete]

jobsVars == <<file, runner, starts, failures, allJobs, next, skipSet, child, logs>>

Absent == {}
Given(x) == {x}
The(option) == CHOOSE x \in option : TRUE
OrElse(option, default) == IF option = Absent THEN default ELSE option

NoChild == [state |-> "none"]
Rejected == [state |-> "rejected"]
NoLogs == [at \in {} |-> 0]

-----------------------------------------------------------------------------
(* The configuration file.                                                 *)

\* resolve_templates: a key the variant has itself stays as it is.
MergedKeys(own, inherited) == own @@ inherited

Template(v) == IF v.template = Absent THEN [common |-> <<>>, specific |-> <<>>]
                                      ELSE file.templates[The(v.template)]

Resolved(v) ==
    [v EXCEPT !.common = MergedKeys(@, Template(v).common),
              !.specific = MergedKeys(@, Template(v).specific)]

Common(v, key) ==
    LET common == Resolved(v).common
    IN  IF key \in DOMAIN common THEN Given(common[key]) ELSE Absent

\* The values of a key that is a number or an array, in ascending order and
\* each of them once (BTreeSet).
Ascending(values) == SetToSortSeq(ToSet(values), LAMBDA a, b : a < b)

QosLevels(v) == Ascending(The(OrElse(Common(v, "qos"), Given(<<1, 2, 3, 4>>))))
TickRates(v) == Ascending(The(Common(v, "tick_rate_hz")))
ValuesPerTick(v) == Ascending(The(Common(v, "values_per_tick")))

\* Multi is declared before Single.
ThreadingModes(v) ==
    LET modes == ToSet(The(OrElse(Common(v, "threading_modes"), Given(<<"single">>))))
    IN  SelectSeq(<<"multi", "single">>, LAMBDA m : m \in modes)

\* validate.
Accepted ==
    LET variants == file.variants
        ok(option, allowed) ==
            \A values \in option : values # <<>> /\ ToSet(values) \subseteq allowed
    IN  /\ \A i, j \in DOMAIN variants : i # j => variants[i].name # variants[j].name
        /\ \A i \in DOMAIN variants :
              LET v == variants[i] IN
              /\ v.template \subseteq DOMAIN file.templates
              /\ ok(Common(v, "qos"), 1..4)
              /\ ok(Common(v, "threading_modes"), {"multi", "single"})
              /\ \A key \in {"tick_rate_hz", "values_per_tick"} :
                    Common(v, key) # Absent /\ ok(Common(v, key), Nat \ {0})
              /\ \A modes \in v.supported_modes :
                    modes # {} /\ modes \subseteq {"multi", "single"}

-----------------------------------------------------------------------------
(* The jobs.                                                               *)

Part(kind, a, b) == <<[kind |-> kind, a |-> a, b |-> b]>>
PartIf(condition, part) == IF condition THEN part ELSE <<>>

\* Wrong on purpose: the rates are named only where both of them vary.
NameIfBothVary(v, hz, vpt, qos, mode) ==
    v.name
    \o PartIf(Len(TickRates(v)) > 1 /\ Len(ValuesPerTick(v)) > 1, Part("rates", vpt, hz))
    \o PartIf(Len(QosLevels(v)) > 1, Part("qos", qos, 0))
    \o PartIf(Len(ThreadingModes(v)) > 1, Part(mode, 0, 0))

EffectiveName(v, hz, vpt, qos, mode) ==
    v.name
    \o PartIf(Len(TickRates(v)) > 1 \/ Len(ValuesPerTick(v)) > 1, Part("rates", vpt, hz))
    \o PartIf(Len(QosLevels(v)) > 1, Part("qos", qos, 0))
    \o PartIf(Len(ThreadingModes(v)) > 1, Part(mode, 0, 0))

SpawnJob(i, hz, vpt, qos, mode) ==
    [source |-> i, tick_rate_hz |-> hz, values_per_tick |-> vpt, qos |-> qos,
     threading_mode |-> mode,
     name |-> EffectiveName(file.variants[i], hz, vpt, qos, mode)]

\* Nested loops: what one turn gives for each element, one after the other.
ForEach(elements, turn(_)) ==
    FoldLeft(LAMBDA done, e : done \o turn(e), <<>>, elements)

ExpandVariant(i) ==
    LET v == file.variants[i] IN
    ForEach(TickRates(v), LAMBDA hz :
        ForEach(ValuesPerTick(v), LAMBDA vpt :
            ForEach(QosLevels(v), LAMBDA qos :
                ForEach(ThreadingModes(v), LAMBDA mode :
                    <<SpawnJob(i, hz, vpt, qos, mode)>>))))

Supported(job) ==
    \A modes \in file.variants[job.source].supported_modes : job.threading_mode \in modes

\* expand_and_gate_jobs.
ExpandAndGate ==
    SelectSeq(ForEach([i \in DOMAIN file.variants |-> i], ExpandVariant), Supported)

-----------------------------------------------------------------------------
(* The logs.                                                               *)

Overridden == file.cliDir # Absent \/ file.runnerDir # Absent

VariantDirs == {i \in DOMAIN file.variants : Common(file.variants[i], "log_dir") # Absent}

\* The folder the runner keeps its own logs in, and --resume looks into.
BaseLogDir ==
    IF Overridden THEN OrElse(file.cliDir, file.runnerDir)
    ELSE IF VariantDirs = {} THEN Given("./logs")
    ELSE Common(file.variants[CHOOSE i \in VariantDirs : \A j \in VariantDirs : i <= j], "log_dir")

LogDirOf(v) == IF Overridden THEN BaseLogDir ELSE Common(v, "log_dir")

-----------------------------------------------------------------------------
(* The command line of a child: pairs of a flag and a value.               *)

\* resolve_for_variant: of the --variant-arg entries that match, the last one.
CliOverrides(v) ==
    LET matching == SelectSeq(file.overrides, LAMBDA o : v.name \in o.selects)
    IN  FoldLeft(LAMBDA table, o : (o.key :> o.value) @@ table, <<>>, matching)

SpecificArgs(v) == CliOverrides(v) @@ Resolved(v).specific

Flags == <<"log_dir", "nic", "threading_mode", "workload">>
PerSpawn == {"qos", "tick_rate_hz", "values_per_tick", "threading_modes"}

CommonArgs(v) ==
    LET common == Resolved(v).common
        keys == SelectSeq(Flags, LAMBDA k : k \in DOMAIN common \ PerSpawn)
    IN  [k \in DOMAIN keys |->
            [flag |-> keys[k],
             value |-> IF keys[k] = "log_dir" THEN The(LogDirOf(v)) ELSE common[keys[k]]]]

BuildVariantArgs(job) ==
    CommonArgs(file.variants[job.source])
    \o <<[flag |-> "tick_rate_hz", value |-> job.tick_rate_hz],
         [flag |-> "values_per_tick", value |-> job.values_per_tick],
         [flag |-> "qos", value |-> job.qos],
         [flag |-> "threading_mode", value |-> job.threading_mode],
         [flag |-> "variant", value |-> job.name],
         [flag |-> "extra", value |-> SpecificArgs(file.variants[job.source])]>>

\* The parser of the child takes the flags it knows up to the first other one,
\* which begins the arguments of the transport; it wants all of them, and none
\* of them twice.
Known == {"log_dir", "workload", "threading_mode", "tick_rate_hz", "values_per_tick",
          "qos", "variant", "extra"}

Parsed(args) ==
    LET taken == SelectInSeq(args, LAMBDA a : a.flag \notin Known)
        own == SubSeq(args, 1, IF taken = 0 THEN Len(args) ELSE taken - 1)
        flags == {own[k].flag : k \in DOMAIN own}
    IN  IF flags = Known /\ Cardinality(flags) = Len(own)
        THEN [f \in Known |-> own[CHOOSE k \in DOMAIN own : own[k].flag = f].value]
        ELSE Rejected

-----------------------------------------------------------------------------

JobsInit ==
    /\ file \in ConfigFiles
    /\ runner = "off"
    /\ starts = 0 /\ failures = 0
    /\ allJobs = <<>>
    /\ next = 1
    /\ skipSet = {}
    /\ child = NoChild
    /\ logs = NoLogs

LogOf(name) == [dir |-> The(BaseLogDir), name |-> name]

\* compute_local_manifest: the names whose log is there and complete.
CompleteOf(names) ==
    {n \in names : LogOf(n) \in DOMAIN logs /\ logs[LogOf(n)].complete}

\* cleanup_incomplete_logs (and the logs the manifest has found to be partial).
WithoutIncomplete(names) ==
    [at \in DOMAIN logs \ {LogOf(n) : n \in names \ CompleteOf(names)} |-> logs[at]]

NamesOf(jobs) == {jobs[k].name : k \in DOMAIN jobs}

\* A runner that is killed is launched again with --resume, which wants a folder.
StartRunner ==
    /\ runner = "off" /\ starts < MaxStarts
    /\ starts' = starts + 1
    /\ next' = 1
    /\ IF ~Accepted
       THEN runner' = "refused" /\ UNCHANGED <<allJobs, skipSet, logs>>
       ELSE /\ runner' = "running"
            /\ allJobs' = ExpandAndGate
            /\ IF starts = 0
               THEN skipSet' = {} /\ UNCHANGED logs
               ELSE /\ skipSet' = CompleteOf(NamesOf(allJobs'))
                    /\ logs' = WithoutIncomplete(NamesOf(allJobs'))
    /\ UNCHANGED <<file, failures, child>>

AtJob == runner = "running" /\ child = NoChild /\ next <= Len(allJobs)

SkipDone ==
    /\ AtJob /\ allJobs[next].name \in skipSet
    /\ next' = next + 1
    /\ UNCHANGED <<file, runner, starts, failures, allJobs, skipSet, child, logs>>

\* The child opens its log, which loses what was in it, unless it does not
\* understand its arguments.
SpawnChild ==
    LET given == Parsed(BuildVariantArgs(allJobs[next]))
        log == [dir |-> given.log_dir, name |-> given.variant]
    IN  /\ AtJob /\ allJobs[next].name \notin skipSet
        /\ child' = given
        /\ logs' = IF given = Rejected THEN logs
                   ELSE (log :> [given |-> given, complete |-> FALSE]) @@ logs
        /\ UNCHANGED <<file, runner, starts, failures, allJobs, next, skipSet>>

ChildReturns ==
    /\ runner = "running" /\ child # NoChild
    /\ IF child = Rejected
       THEN UNCHANGED <<logs, failures>>
       ELSE \/ logs' = [logs EXCEPT ![[dir |-> child.log_dir, name |-> child.variant]].complete = TRUE]
               /\ UNCHANGED failures
            \/ failures < MaxFailures /\ failures' = failures + 1 /\ UNCHANGED logs
    /\ child' = NoChild
    /\ next' = next + 1
    /\ UNCHANGED <<file, runner, starts, allJobs, skipSet>>

LastJobDone ==
    /\ runner = "running" /\ child = NoChild /\ next > Len(allJobs)
    /\ runner' = "done"
    /\ UNCHANGED <<file, starts, failures, allJobs, next, skipSet, child, logs>>

\* It is killed, and its child with it; or the run is taken up although it came
\* to its end, for the sake of the jobs that failed.
KillRunner ==
    /\ runner \in {"running", "done"} /\ starts < MaxStarts
    /\ runner' = "off"
    /\ child' = NoChild
    /\ UNCHANGED <<file, starts, failures, allJobs, next, skipSet, logs>>

JobsNext ==
    StartRunner \/ SkipDone \/ SpawnChild \/ ChildReturns \/ LastJobDone \/ KillRunner

JobsSpec == JobsInit /\ [][JobsNext]_jobsVars

-----------------------------------------------------------------------------
(* Properties.                                                             *)

(* What the variables range over.                                          *)
JobsTypeOK ==
    /\ file \in ConfigFiles
    /\ runner \in {"off", "running", "refused", "done"}
    /\ starts \in 0..MaxStarts /\ failures \in 0..MaxFailures
    /\ \A k \in DOMAIN allJobs : allJobs[k].source \in DOMAIN file.variants
    /\ next \in 1..Len(allJobs) + 1
    /\ skipSet \subseteq NamesOf(allJobs)
    /\ child \in {NoChild, Rejected} \/ DOMAIN child = Known
    /\ \A at \in DOMAIN logs : logs[at].complete \in BOOLEAN

\* What the file asks for, written down without its loops.
Wanted(v, key, default) == ToSet(The(OrElse(Common(v, key), Given(default))))
Matrix(v) ==
    {c \in [tick_rate_hz : Wanted(v, "tick_rate_hz", <<>>),
            values_per_tick : Wanted(v, "values_per_tick", <<>>),
            qos : Wanted(v, "qos", <<1, 2, 3, 4>>),
            threading_mode : Wanted(v, "threading_modes", <<"single">>)] :
        \A modes \in v.supported_modes : c.threading_mode \in modes}

\* The log of a child that was given c, and everything else the file says.
IsLogOf(v, c, log) ==
    /\ \A key \in DOMAIN c : log.given[key] = c[key]
    /\ IsPrefix(v.name, log.given.variant)
    /\ log.given.workload = The(Common(v, "workload"))
    /\ log.given.extra = SpecificArgs(v)

\* What a file may get wrong without being refused: a key of [variant.common]
\* that the child does not know, one that it needs and that is missing, a log_dir
\* that leads out of the folder of the run, two variants that come out with one
\* name.
Sound ==
    /\ \A i \in DOMAIN file.variants :
          LET v == file.variants[i] IN
          /\ {"log_dir", "workload"} \subseteq DOMAIN Resolved(v).common
          /\ {"nic", "threading_mode"} \intersect DOMAIN Resolved(v).common = {}
          /\ LogDirOf(v) = BaseLogDir
    /\ \A k, l \in DOMAIN allJobs :
          allJobs[k].source # allJobs[l].source => allJobs[k].name # allJobs[l].name

(* When the runner comes to its end, each combination the file asks for    *)
(* and the variant supports has one log in the folder of the run, written  *)
(* by a child that was given just that; there are no others, and those     *)
(* that are not complete are of children that failed, however often the    *)
(* runner was killed and took the run up again (expand_variant, the job    *)
(* loop, build_variant_args, compute_local_manifest).                      *)
MatrixIsRun ==
    (runner = "done" /\ Sound) =>
        /\ \A i \in DOMAIN file.variants : \A c \in Matrix(file.variants[i]) :
              Cardinality({at \in DOMAIN logs :
                  /\ {at.dir} = BaseLogDir
                  /\ IsLogOf(file.variants[i], c, logs[at])}) = 1
        /\ Cardinality(DOMAIN logs) =
              MapThenSumSet(LAMBDA i : Cardinality(Matrix(file.variants[i])), DOMAIN file.variants)
        /\ Cardinality({at \in DOMAIN logs : ~logs[at].complete}) <= failures
=============================================================================
