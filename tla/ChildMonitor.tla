----------------------------- MODULE ChildMonitor -----------------------------
(***************************************************************************)
(* One spawn: the variant process (variant-base: the phases of driver.rs,  *)
(* the threads of progress_emitter.rs and watchdog.rs) and the runner that *)
(* watches it (spawn.rs, with the tracker of progress.rs and the limits of *)
(* termination.rs).                                                        *)
(*                                                                         *)
(* The process has three threads.  The driver walks through the phases;    *)
(* the emitter writes a progress line to stdout every second; the watchdog *)
(* compares the counters every second and ends the process when they stand *)
(* still in the operate phase.  The runner polls the child, kills it at    *)
(* its limit, and a reader thread of its own folds the lines into a        *)
(* tracker.                                                                *)
(*                                                                         *)
(* Time passes in steps of a second (ChildTick).  "due" holds the periodic *)
(* tasks that have not had their turn in this second; a second ends when   *)
(* all have had it.  A driver that is stuck inside the transport           *)
(* ("blocked"), or in a phase with no deadline of its own, holds up        *)
(* nothing but itself.                                                     *)
(***************************************************************************)
EXTENDS Integers, Sequences

CONSTANTS
    StabilizeSecs, OperateSecs, SilentSecs,
    IdleSecs,      \* --operate-idle-secs, 0 disables it
    WatchdogSecs,  \* --watchdog-secs, 0 disables it
    SpawnTimeout,  \* timeout_secs of the job
    MaxSpawnSecs,  \* --max-spawn-secs
    MaxCount       \* bound: messages sent, messages received

ASSUME ChildAssumption ==
    {StabilizeSecs, OperateSecs, SilentSecs, IdleSecs, WatchdogSecs, SpawnTimeout,
     MaxSpawnSecs, MaxCount} \subseteq Nat

VARIABLES
    at,        \* where the driver is
    progress,  \* ProgressState: phase and counters, read by all threads
    left,      \* seconds the phase may still last
    idle,      \* the driver's idle detector: counters last seen, ages of their change
    dog,       \* the watchdog thread: counters last seen, age of their change
    files,     \* what the process has put on disk
    code,      \* exit code, or Killed
    pipe,      \* lines on stdout the reader has not read
    tracker,   \* LocalProgressTracker: last phase, highest counters
    elapsed,   \* seconds since the spawn
    monitor,   \* "polling", "running" (try_wait found no exit), "joining", "joined"
    outcome,   \* ChildOutcome
    due,       \* periodic tasks still to run in this second
    stalled,   \* seconds the driver has been blocked (history)
    quiet,     \* seconds since a message was sent, and since one was received (history)
    idleExit   \* idle_triggered

childVars == <<at, progress, left, idle, dog, files, code, pipe, tracker, elapsed,
               monitor, outcome, due, stalled, quiet, idleExit>>

driverVars == <<at, progress, left, idle, files, code, stalled, quiet, idleExit>>
runnerVars == <<tracker, elapsed, monitor, outcome>>

\* Values of "code" that are no exit code.
Running == 256
Killed == -1
Phases == {"connect", "stabilize", "operate", "silent", "digest", "done"}
Count == 0..MaxCount
Counters == [sent : Count, received : Count]
Line == [phase : Phases \union {"unknown"}, sent : Count, received : Count]

\* TerminationConfig::with_bounded_max.
SpawnLimit == IF MaxSpawnSecs < SpawnTimeout THEN MaxSpawnSecs ELSE SpawnTimeout
Age == 0..SpawnLimit + 1

ChildTypeOK ==
    /\ at \in Phases \union {"blocked", "ending", "exited"}
    /\ progress \in Line
    /\ left \in Nat
    /\ idle \in [sent : Count, received : Count, sentAge : Age, receivedAge : Age]
    /\ dog \in [sent : Count, received : Count, age : Age]
    /\ files \subseteq {"eot", "parquet"}
    /\ code \in {Running, Killed, 0, 1, 2}
    /\ pipe \in Seq(Line)
    /\ tracker \in Line
    /\ elapsed \in Age
    /\ monitor \in {"polling", "running", "joining", "joined"}
    /\ outcome \in {"none", "success", "failed", "timeout"}
    /\ due \subseteq {"driver", "emitter", "watchdog", "runner"}
    /\ stalled \in Age
    /\ quiet \in [sent : Age, received : Age]
    /\ idleExit \in BOOLEAN

\* The counters and ages of a detector that has just been started.
Fresh == [sent |-> 0, received |-> 0, sentAge |-> 0, receivedAge |-> 0]

ChildInit ==
    /\ at = "connect"
    /\ progress = [phase |-> "connect", sent |-> 0, received |-> 0]
    /\ left = 0
    /\ idle = Fresh
    /\ dog = [sent |-> 0, received |-> 0, age |-> 0]
    /\ files = {}
    /\ code = Running
    /\ pipe = <<>>
    /\ tracker = [phase |-> "unknown", sent |-> 0, received |-> 0]
    /\ elapsed = 0
    /\ monitor = "polling"
    /\ outcome = "none"
    /\ due = {"emitter", "watchdog", "runner"}
    /\ stalled = 0
    /\ quiet = [sent |-> 0, received |-> 0]
    /\ idleExit = FALSE

-----------------------------------------------------------------------------
(* The driver thread, run_protocol.                                        *)

Enter(p, secs) ==
    /\ at' = p
    /\ progress' = [progress EXCEPT !.phase = p]
    /\ left' = secs

Connected ==
    /\ at = "connect"
    /\ Enter("stabilize", StabilizeSecs)
    /\ UNCHANGED <<idle, dog, files, code, pipe, runnerVars, due, stalled, quiet, idleExit>>

Stabilized ==
    /\ at = "stabilize" /\ left = 0
    /\ Enter("operate", OperateSecs)
    /\ idle' = Fresh
    /\ quiet' = [sent |-> 0, received |-> 0]
    /\ due' = due \union {"driver"}
    /\ UNCHANGED <<dog, files, code, pipe, runnerVars, stalled, idleExit>>

\* The idle detector sees the counters at the end of an iteration.
Observed(snap) ==
    [sent |-> snap.sent, received |-> snap.received,
     sentAge |-> IF snap.sent > idle.sent THEN 0 ELSE idle.sentAge,
     receivedAge |-> IF snap.received > idle.received THEN 0 ELSE idle.receivedAge]

\* Wrong on purpose: one silent direction is enough.
IsIdleEitherWay(d) == IdleSecs > 0 /\ (d.sentAge >= IdleSecs \/ d.receivedAge >= IdleSecs)

IsIdle(d) == IdleSecs > 0 /\ d.sentAge >= IdleSecs /\ d.receivedAge >= IdleSecs

\* One pass of the operate loop that comes back from the transport: publish
\* s messages, drain r, look at the idle detector.
Iterate(s, r) ==
    /\ at = "operate" /\ left > 0 /\ "driver" \in due
    /\ progress.sent + s <= MaxCount /\ progress.received + r <= MaxCount
    /\ progress' = [progress EXCEPT !.sent = @ + s, !.received = @ + r]
    /\ quiet' = [sent |-> IF s > 0 THEN 0 ELSE quiet.sent,
                 received |-> IF r > 0 THEN 0 ELSE quiet.received]
    /\ idle' = Observed(progress')
    /\ idleExit' = IsIdle(idle')
    /\ left' = IF idleExit' THEN 0 ELSE left
    /\ due' = due \ {"driver"}
    /\ UNCHANGED <<at, dog, files, code, pipe, runnerVars, stalled>>

\* A send does not come back: the transport blocks, or it refuses for ever
\* a message that a strict QoS may not skip.
Block ==
    /\ at = "operate" /\ left > 0 /\ "driver" \in due
    /\ at' = "blocked"
    /\ stalled' = 0
    /\ due' = due \ {"driver"}
    /\ UNCHANGED <<progress, left, idle, dog, files, code, pipe, runnerVars, quiet, idleExit>>

Unblock ==
    /\ at = "blocked" /\ "driver" \in due
    /\ progress.sent < MaxCount
    /\ at' = "operate"
    /\ progress' = [progress EXCEPT !.sent = @ + 1]
    /\ quiet' = [quiet EXCEPT !.sent = 0]
    /\ idle' = Observed(progress')
    /\ stalled' = 0
    /\ due' = due \ {"driver"}
    /\ UNCHANGED <<left, dog, files, code, pipe, runnerVars, idleExit>>

\* Either way out of the loop logs eot_sent.
EndOperate ==
    /\ at = "operate" /\ left = 0
    /\ files' = files \union {"eot"}
    /\ Enter("silent", SilentSecs)
    /\ due' = due \ {"driver"}
    /\ UNCHANGED <<idle, dog, code, pipe, runnerVars, stalled, quiet, idleExit>>

SilentReceive ==
    /\ at = "silent" /\ left > 0 /\ progress.received < MaxCount
    /\ progress' = [progress EXCEPT !.received = @ + 1]
    /\ UNCHANGED <<at, left, idle, dog, files, code, pipe, runnerVars, due, stalled, quiet,
                   idleExit>>

\* stop_reader_threads and disconnect have returned.
EndSilent ==
    /\ at = "silent" /\ left = 0
    /\ Enter("digest", 0)
    /\ UNCHANGED <<idle, dog, files, code, pipe, runnerVars, due, stalled, quiet, idleExit>>

\* write_compact_parquet, set_done; the function returns Ok.
Finish ==
    /\ at = "digest"
    /\ files' = files \union {"parquet"}
    /\ at' = "ending"
    /\ progress' = [progress EXCEPT !.phase = "done"]
    /\ UNCHANGED <<left, idle, dog, code, pipe, runnerVars, due, stalled, quiet, idleExit>>

\* Any "?" of run_protocol, a full compact buffer among them.  The locals are
\* dropped in reverse order: the watchdog is stopped first.
Fail ==
    /\ at \in {"connect", "operate", "silent", "digest"}
    /\ at' = "ending"
    /\ due' = due \ {"driver", "watchdog"}
    /\ UNCHANGED <<progress, left, idle, dog, files, code, pipe, runnerVars, stalled, quiet,
                   idleExit>>

\* ProgressEmitter::stop joins the thread and writes one last line itself;
\* main returns, with an error unless the phase is done.
EmitterStopped == pipe' = Append(pipe, progress)

Exit ==
    /\ at = "ending"
    /\ EmitterStopped
    /\ at' = "exited"
    /\ code' = IF progress.phase = "done" THEN 0 ELSE 1
    /\ due' = due \ {"emitter", "watchdog"}
    /\ UNCHANGED <<progress, left, idle, dog, files, runnerVars, stalled, quiet, idleExit>>

-----------------------------------------------------------------------------
(* The emitter thread and the watchdog thread.                             *)

Emit ==
    /\ "emitter" \in due
    /\ pipe' = Append(pipe, progress)
    /\ due' = due \ {"emitter"}
    /\ UNCHANGED <<driverVars, dog, runnerVars>>

\* Wrong on purpose: the age is not reset outside the operate phase.
DogSeesCountersOnly ==
    LET advanced == progress.sent # dog.sent \/ progress.received # dog.received
    IN  [sent |-> progress.sent, received |-> progress.received,
         age |-> IF advanced THEN 0 ELSE dog.age]

\* One turn of the watchdog's loop: what it remembers after it.
DogSees ==
    LET advanced == progress.sent # dog.sent \/ progress.received # dog.received
    IN  [sent |-> progress.sent, received |-> progress.received,
         age |-> IF advanced \/ progress.phase # "operate" THEN 0 ELSE dog.age]

WatchdogFires(d) == WatchdogSecs > 0 /\ d.age >= WatchdogSecs

Watch ==
    /\ "watchdog" \in due
    /\ dog' = DogSees
    /\ ~WatchdogFires(dog')
    /\ due' = due \ {"watchdog"}
    /\ UNCHANGED <<driverVars, pipe, runnerVars>>

\* The logger is flushed and the process ends at once: no last line, no
\* Parquet file, no destructors.
WatchdogExit ==
    /\ "watchdog" \in due
    /\ dog' = DogSees
    /\ WatchdogFires(dog')
    /\ at' = "exited"
    /\ code' = 2
    /\ due' = due \ {"driver", "emitter", "watchdog"}
    /\ UNCHANGED <<progress, left, idle, files, pipe, runnerVars, stalled, quiet, idleExit>>

-----------------------------------------------------------------------------
(* The runner: the poll loop of spawn_and_monitor and the stdout reader.   *)

OutcomeOf(c) ==
    CASE c = 0 -> "success"
      [] c = Killed -> "timeout"
      [] OTHER -> "failed"

\* try_wait finds the child gone.
SeeExit ==
    /\ monitor = "polling" /\ "runner" \in due
    /\ code # Running
    /\ outcome' = OutcomeOf(code)
    /\ monitor' = "joining"
    /\ due' = due \ {"runner"}
    /\ UNCHANGED <<driverVars, dog, pipe, tracker, elapsed>>

SeeRunning ==
    /\ monitor = "polling" /\ "runner" \in due
    /\ code = Running
    /\ monitor' = "running"
    /\ UNCHANGED <<driverVars, dog, pipe, tracker, elapsed, outcome, due>>

\* The wall-clock limit, or the safety net of evaluate.  The kill ends a
\* process that is still there; one that has just exited is only reaped.
PastLimit == elapsed >= SpawnTimeout \/ elapsed >= SpawnLimit

\* Wrong on purpose: the child is waited for but not killed.
GiveUpOnChild ==
    /\ monitor = "running" /\ PastLimit
    /\ outcome' = "timeout"
    /\ monitor' = "joining"
    /\ UNCHANGED <<driverVars, dog, pipe, tracker, elapsed, due>>

Kill ==
    /\ monitor = "running" /\ PastLimit
    /\ IF code = Running THEN at' = "exited" /\ code' = Killed ELSE UNCHANGED <<at, code>>
    /\ outcome' = "timeout"
    /\ monitor' = "joining"
    /\ due' = {}
    /\ UNCHANGED <<progress, left, idle, files, stalled, quiet, idleExit, dog, pipe, tracker,
                   elapsed>>

\* Publish, evaluate, sleep.
KeepPolling ==
    /\ monitor = "running" /\ ~PastLimit
    /\ monitor' = "polling"
    /\ due' = due \ {"runner"}
    /\ UNCHANGED <<driverVars, dog, pipe, tracker, elapsed, outcome>>

\* LocalProgressTracker::apply_progress: the phase is the newest, a counter
\* never goes back.
Higher(a, b) == IF b > a THEN b ELSE a
Applied(t, line) ==
    [phase |-> line.phase, sent |-> Higher(t.sent, line.sent),
     received |-> Higher(t.received, line.received)]

ReadLine ==
    /\ pipe # <<>>
    /\ tracker' = Applied(tracker, Head(pipe))
    /\ pipe' = Tail(pipe)
    /\ UNCHANGED <<driverVars, dog, elapsed, monitor, outcome, due>>

\* Wrong on purpose: the thread is not joined.
ReaderLeft == code # Running

\* The reader thread has seen the end of the pipe.
ReaderEnded == code # Running /\ pipe = <<>>

Join ==
    /\ monitor = "joining" /\ ReaderEnded
    /\ monitor' = "joined"
    /\ UNCHANGED <<driverVars, dog, pipe, tracker, elapsed, outcome, due>>

-----------------------------------------------------------------------------

Later(n) == IF n <= SpawnLimit THEN n + 1 ELSE n
TasksOf == (IF code = Running THEN {"emitter"} ELSE {})
           \union (IF code = Running /\ at # "ending" THEN {"watchdog"} ELSE {})
           \union (IF at \in {"operate", "blocked"} THEN {"driver"} ELSE {})
           \union (IF outcome = "none" THEN {"runner"} ELSE {})

\* A blocked driver is the one that does not take its turn; a driver that has
\* left its loop does not sleep before it logs eot_sent.
SecondIsOver ==
    /\ ~(at = "operate" /\ left = 0)
    /\ due \subseteq (IF at = "blocked" THEN {"driver"} ELSE {})
    /\ monitor \in {"polling", "joining"} /\ pipe = <<>>

ChildTick ==
    /\ outcome = "none" /\ SecondIsOver
    /\ due' = TasksOf
    /\ elapsed' = Later(elapsed)
    /\ left' = IF left > 0 THEN left - 1 ELSE 0
    /\ idle' = [idle EXCEPT !.sentAge = Later(@), !.receivedAge = Later(@)]
    /\ dog' = [dog EXCEPT !.age = Later(@)]
    /\ stalled' = IF at = "blocked" THEN Later(stalled) ELSE stalled
    /\ quiet' = [sent |-> Later(quiet.sent), received |-> Later(quiet.received)]
    /\ UNCHANGED <<at, progress, files, code, pipe, tracker, monitor, outcome, idleExit>>

Over == monitor = "joined" /\ UNCHANGED childVars

DriverStep ==
    \/ Connected \/ Stabilized \/ EndOperate \/ SilentReceive \/ EndSilent
    \/ \E s, r \in 0..1 : Iterate(s, r)
    \/ Block \/ Unblock \/ Finish \/ Fail \/ Exit

RunnerStep == SeeExit \/ SeeRunning \/ Kill \/ KeepPolling \/ ReadLine \/ Join
ThreadStep == Emit \/ Watch \/ WatchdogExit

ChildNext == DriverStep \/ ThreadStep \/ RunnerStep \/ ChildTick \/ Over

\* The scheduler runs the runner's threads and the two helper threads.
\* The driver is owed a turn of its operate loop, nothing else: it may stay
\* in the transport, in connect, or in a slow write for ever.
ChildFairness ==
    /\ WF_childVars(RunnerStep) /\ WF_childVars(ThreadStep) /\ WF_childVars(ChildTick)
    /\ WF_childVars(EndOperate \/ \E s, r \in 0..1 : Iterate(s, r))

ChildSpec == ChildInit /\ [][ChildNext]_childVars /\ ChildFairness
-----------------------------------------------------------------------------
(* Properties.                                                             *)

\* The outcome a runner reports is one its child earned.  Success needs the
\* end-of-transmission mark and the Parquet file on disk, a timeout a child
\* that had used up its time; and with a success the tracker ends at the
\* child's last state, so that no line was lost between the emitter, the pipe
\* and the reader thread.
OutcomeIsEarned ==
    /\ outcome = "success" => files = {"eot", "parquet"}
    /\ outcome = "failed" => code \in {1, 2}
    /\ outcome = "timeout" => elapsed >= SpawnLimit
    /\ outcome = "success" /\ monitor = "joined" => tracker = progress /\ progress.phase = "done"

\* The watchdog ends a process exactly when its driver is stuck: never one
\* that is merely idle, and a stuck one long before the runner's kill, so
\* that the spawn reads "failed" and the log is flushed.
WatchdogTakesTheStuck ==
    /\ code = 2 => stalled > 0
    /\ outcome = "timeout" => stalled <= WatchdogSecs + 1

\* The driver calls the operate phase idle only after neither a message was
\* sent nor one received for the whole threshold.
IdleAfterSilence == [][idleExit' /\ ~idleExit =>
    quiet'.sent >= IdleSecs /\ quiet'.received >= IdleSecs]_childVars

\* Whatever the child does, the runner gets to the done barrier.
EverySpawnEnds == <>(monitor = "joined")
=============================================================================
