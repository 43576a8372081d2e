------------------------------ MODULE Verdicts -------------------------------
(***************************************************************************)
(* From a spawn to its line in the report.  A child of the runner goes     *)
(* through the phases of run_protocol (variant-base/src/driver.rs), keeps  *)
(* what it writes, skips and receives in memory, and leaves three files: a *)
(* JSONL log of its phases, written through a buffer; the compact Parquet  *)
(* file of the digest; and what it said on stderr.  The analysis reads     *)
(* them once all is over: it joins writes with receives (correlate.py),    *)
(* counts (integrity.py), names the cause of a failure                     *)
(* (timeout_classification.py) and warns (incomplete_warnings.py).  One    *)
(* job is modelled, with one child per machine; it may be run again in the *)
(* same folder, as --resume does, which deletes the JSONL log of a job     *)
(* that did not finish everywhere, and no other file of it.                *)
(*                                                                         *)
(* The transport may lose, repeat and reorder what it likes: the question  *)
(* is whether the report says so.  A message stands for its path as well,  *)
(* a line of the JSONL log for the phase it reports (eot_sent counts as    *)
(* one); resource lines only make it longer.  No code records gap_*,       *)
(* eot_received or eot_timeout rows, so the columns and the rules that are *)
(* about them stay out.  Latencies and the late tail are left out too.     *)
(*                                                                         *)
(* A definition under the heading "Wrong on purpose" is the next one with  *)
(* a plausible bug; nothing uses it.                                       *)
(***************************************************************************)
EXTENDS Naturals, FiniteSets, FiniteSetsExt, Sequences, SequencesExt, Selection

CONSTANTS
    Hosts,          \* the machines, a child on each
    WritingHosts,   \* those whose child publishes
    JobsOfInterest, \* [qos, records, attempts]: its QoS level and, as bounds, the
                    \* receives a child records and the times the job is run
    LastWrite,      \* bound: writes of a child
    LeafCount,      \* LeafCount[s]: leaves of the s-th write
    MaxRecords,     \* bound: records, at most
    MaxLaunched     \* bound: attempts, at most

ASSUME VerdictsAssumption ==
    /\ WritingHosts \subseteq Hosts /\ IsFiniteSet(Hosts)
    /\ JobsOfInterest \subseteq
          [qos : 1..4, records : 0..MaxRecords, attempts : 1..MaxLaunched]
    /\ {LastWrite, MaxRecords} \subseteq Nat /\ MaxLaunched \in Nat \ {0}
    /\ LeafCount \in [1..LastWrite -> Nat \ {0}]

VARIABLES
    theJob,     \* the job of this behaviour
    round,      \* which run of the job this is
    childPhase, \* childPhase[h]: the phase the child of h is in
    outcome,    \* outcome[h]: "running", or how the child ended
    records,    \* records[h]: the columns in the child's memory
    journal,    \* journal[h]: the JSONL file, as it is on disk
    compact,    \* compact[h]: the Parquet file
    stderr      \* stderr[h]: what the capture file holds

verdictsVars == <<theJob, round, childPhase, outcome, records, journal, compact, stderr>>

Messages == 1..LastWrite

\* ChildPhases, in the order of the lines of the JSONL log: 1 connect (and connected
\* and stabilize), 2 operate, 3 eot_sent, 4 silent, 5 digest; 0 is a child that
\* has not opened its log, 6 one that writes its Parquet file, 7 one that has.
ChildPhases == 0..7
Operate == 2
EotSent == 3
Silent == 4
Digest == 5

Nothing == [next |-> 1, writes |-> {}, skips |-> 0, receives |-> <<>>]
NoJournal == [there |-> FALSE, lines |-> 0, cut |-> FALSE]
NoCompact == [state |-> "none", round |-> 0, records |-> Nothing]

Receives == [writer : Hosts, seq : Messages, near : BOOLEAN]
RecordSets ==
    [next : 1..LastWrite + 1, writes : SUBSET Messages, skips : 0..LastWrite,
     receives : BoundedSeq(Receives, MaxRecords)]

(* What the variables range over.                                          *)
VerdictsTypeOK ==
    /\ theJob \in JobsOfInterest /\ round \in 1..MaxLaunched
    /\ childPhase \in [Hosts -> ChildPhases]
    /\ outcome \in [Hosts -> {"running", "ok", "rejected", "failed", "killed", "watchdog"}]
    /\ \A h \in Hosts :
          /\ records[h] \in RecordSets
          /\ journal[h] \in [there : BOOLEAN, lines : 0..Digest, cut : BOOLEAN]
          /\ compact[h] \in [state : {"none", "torn", "whole"}, round : 0..MaxLaunched,
                             records : RecordSets]
          /\ stderr[h] \subseteq {"text", "watchdog"}

VerdictsInit ==
    /\ theJob \in JobsOfInterest
    /\ round = 1
    /\ childPhase = [h \in Hosts |-> 0]
    /\ outcome = [h \in Hosts |-> "running"]
    /\ records = [h \in Hosts |-> Nothing]
    /\ journal = [h \in Hosts |-> NoJournal]
    /\ compact = [h \in Hosts |-> NoCompact]
    /\ stderr = [h \in Hosts |-> {}]

Strict == theJob.qos >= 3

-----------------------------------------------------------------------------
(* The child.                                                              *)

\* The process is gone, and what it had in memory with it.
ChildEnds(h, how) ==
    /\ outcome' = [outcome EXCEPT ![h] = how]
    /\ childPhase' = [childPhase EXCEPT ![h] = 0]
    /\ records' = [records EXCEPT ![h] = Nothing]

\* What may be on disk of a log whose last line is that of phase p: a prefix,
\* cut wherever a block of the buffer ended, within a resource line perhaps.
Spilled(p) ==
    {j \in [there : {TRUE}, lines : 0..p, cut : BOOLEAN] :
        j.cut => j.lines < p \/ (p >= Operate /\ j.lines = Operate)}

Flushed(p) == [there |-> TRUE, lines |-> p, cut |-> FALSE]

\* Arguments that do not go together: an error before the log is opened.
Reject(h) ==
    /\ outcome[h] = "running" /\ childPhase[h] = 0
    /\ ChildEnds(h, "rejected")
    /\ stderr' = [stderr EXCEPT ![h] = {"text"}]
    /\ UNCHANGED <<theJob, round, journal, compact>>

OpenLog(h) ==
    /\ outcome[h] = "running" /\ childPhase[h] = 0
    /\ childPhase' = [childPhase EXCEPT ![h] = 1]
    /\ journal' = [journal EXCEPT ![h] = Flushed(0)]
    /\ UNCHANGED <<theJob, round, outcome, records, compact, stderr>>

\* The end of a phase; before the digest the reader threads are joined and the
\* variant disconnects.
NextPhase(h) ==
    /\ childPhase[h] \in 1..Digest - 1
    /\ childPhase' = [childPhase EXCEPT ![h] = @ + 1]
    /\ UNCHANGED <<theJob, round, outcome, records, journal, compact, stderr>>

\* try_publish, and record_write when the variant took the value.
RecordWrite(h) ==
    /\ h \in WritingHosts /\ childPhase[h] = Operate
    /\ records[h].next \in Messages
    /\ records' = [records EXCEPT ![h].next = @ + 1,
                                  ![h].writes = @ \union {records[h].next}]
    /\ UNCHANGED <<theJob, round, childPhase, outcome, journal, compact, stderr>>

\* It reported back-pressure; at QoS 3 and 4 the driver asks again instead.
RecordSkip(h) ==
    /\ h \in WritingHosts /\ childPhase[h] = Operate
    /\ records[h].next \in Messages
    /\ ~Strict
    /\ records' = [records EXCEPT ![h].next = @ + 1, ![h].skips = @ + 1]
    /\ UNCHANGED <<theJob, round, childPhase, outcome, journal, compact, stderr>>

\* The driver polls it, or a reader thread does, from connect on.  "near": the
\* row repeats the one before it within 100 microseconds, an instrument that
\* fired twice.
RecordReceive(h, w, s, near) ==
    LET seen == records[h].receives
    IN  /\ childPhase[h] \in 1..Silent
        /\ Len(seen) < theJob.records
        /\ w # h /\ s \in records[w].writes
        /\ near => seen # <<>> /\ Last(seen).writer = w /\ Last(seen).seq = s
        /\ records' = [records EXCEPT ![h].receives =
                          Append(@, [writer |-> w, seq |-> s, near |-> near])]
        /\ UNCHANGED <<theJob, round, childPhase, outcome, journal, compact, stderr>>

\* The file of the digest is created in place; a Parquet file without its
\* footer is none.
CreateParquet(h) ==
    /\ childPhase[h] = Digest
    /\ childPhase' = [childPhase EXCEPT ![h] = 6]
    /\ compact' = [compact EXCEPT ![h] = [NoCompact EXCEPT !.state = "torn"]]
    /\ UNCHANGED <<theJob, round, outcome, records, journal, stderr>>

CloseParquet(h) ==
    /\ childPhase[h] = 6
    /\ childPhase' = [childPhase EXCEPT ![h] = 7]
    /\ compact' = [compact EXCEPT ![h] =
                      [state |-> "whole", round |-> round, records |-> records[h]]]
    /\ stderr' = [stderr EXCEPT ![h] = @ \union {"text"}]
    /\ UNCHANGED <<theJob, round, outcome, records, journal>>

FinishChild(h) ==
    /\ childPhase[h] = 7
    /\ ChildEnds(h, "ok")
    /\ journal' = [journal EXCEPT ![h] = Flushed(Digest)]
    /\ UNCHANGED <<theJob, round, compact, stderr>>

\* An error or a panic.  The buffer of the log is written when the last handle
\* to it goes, which a reader thread may outlive.
Fail(h) ==
    /\ childPhase[h] \in 1..7
    /\ ChildEnds(h, "failed")
    /\ LET p == Min({childPhase[h], Digest})
       IN  \E j \in {Flushed(p)} \union Spilled(p) : journal' = [journal EXCEPT ![h] = j]
    /\ stderr' = [stderr EXCEPT ![h] = @ \union {"text"}]
    /\ UNCHANGED <<theJob, round, compact>>

\* The runner kills it (or the machine does).
KillChild(h) ==
    /\ outcome[h] = "running"
    /\ ChildEnds(h, "killed")
    /\ \E j \in Spilled(Min({childPhase[h], Digest})) :
          journal' = [journal EXCEPT ![h] = IF childPhase[h] = 0 THEN @ ELSE j]
    /\ stderr' \in {stderr, [stderr EXCEPT ![h] = @ \union {"text"}]}
    /\ UNCHANGED <<theJob, round, compact>>

\* No progress in operate: the watchdog thread says so, flushes and exits.
WatchdogFires(h) ==
    /\ childPhase[h] = Operate
    /\ ChildEnds(h, "watchdog")
    /\ journal' = [journal EXCEPT ![h] = Flushed(Operate)]
    /\ stderr' = [stderr EXCEPT ![h] = @ \union {"watchdog"}]
    /\ UNCHANGED <<theJob, round, compact>>

Settled == \A h \in Hosts : outcome[h] # "running"

\* The job is run again unless it counts as complete on every machine: its log
\* has the eot_sent line.  The logs are deleted, the captures written anew.
RunAgain ==
    /\ Settled /\ round < theJob.attempts
    /\ \E h \in Hosts : journal[h].lines < EotSent
    /\ round' = round + 1
    /\ outcome' = [h \in Hosts |-> "running"]
    /\ journal' = [h \in Hosts |-> NoJournal]
    /\ stderr' = [h \in Hosts |-> {}]
    /\ UNCHANGED <<theJob, childPhase, records, compact>>

VerdictsNext ==
    \/ \E h \in Hosts :
          \/ Reject(h) \/ OpenLog(h) \/ NextPhase(h)
          \/ RecordWrite(h) \/ RecordSkip(h)
          \/ \E w \in Hosts, s \in Messages, near \in BOOLEAN : RecordReceive(h, w, s, near)
          \/ CreateParquet(h) \/ CloseParquet(h) \/ FinishChild(h)
          \/ Fail(h) \/ KillChild(h) \/ WatchdogFires(h)
    \/ RunAgain

VerdictsSpec == VerdictsInit /\ [][VerdictsNext]_verdictsVars

-----------------------------------------------------------------------------
(* The analysis: functions of the files, read when no child runs.          *)

\* discover_sources: of the two files of a spawn the Parquet file wins.  One
\* that is torn makes the whole analysis fail (CompactLoadError).
Aborted == \E h \in Hosts : compact[h].state = "torn"

FromCompact(h) == compact[h].state = "whole"
Rows(h) == IF FromCompact(h) THEN compact[h].records ELSE Nothing

\* The phases the rows of a spawn name; a cut line of a log is none.
LoggedPhases(h) == IF FromCompact(h) THEN 1..Digest ELSE 1..journal[h].lines

\* Wrong on purpose: rows the instruments doubled are kept.
AllRows(seen) == seen

\* _dedupe_near_coincident_receives.
Deduped(seen) == Only(seen, {r \in Receives : ~r.near})

\* correlate_lazy: the inner join of the receives with the writes.
Deliveries(w, h) ==
    Only(Deduped(Rows(h).receives), {r \in Receives : r.writer = w /\ r.seq \in Rows(w).writes})

\* _count_writes_per_writer, _sum_leaves_written_per_writer,
\* _sum_leaves_received_per_pair; a leaf is a number under its write, or under the
\* row that brought it.
WriteCount(w) == Cardinality(Rows(w).writes)
LeavesWritten(w) == Cardinality(UNION {{s} \X (1..LeafCount[s]) : s \in Rows(w).writes})
LeavesReceived(d) == Cardinality(UNION {{i} \X (1..LeafCount[d[i].seq]) : i \in DOMAIN d})

\* Wrong on purpose: a step back by one does not count.
OutOfOrderByTwo(d) == Cardinality({i \in 2..Len(d) : d[i].seq + 1 < d[i - 1].seq})

\* _check_per_pair: in the order of the receives.
OutOfOrder(d) == Cardinality({i \in 2..Len(d) : d[i].seq < d[i - 1].seq})
Distinct(d) == {d[i].seq : i \in DOMAIN d}
Duplicates(d) == Len(d) - Cardinality(Distinct(d))

AtLeastZero(n, m) == IF n > m THEN n - m ELSE 0

\* classify_spawn, rule by rule; what the JSONL log ends with is asked of the
\* file, whichever file the rows are from.
SentEot(h) == EotSent \in LoggedPhases(h)
Operated(h) == Operate \in LoggedPhases(h)
WentSilent(h) == Silent \in LoggedPhases(h)
EndsMidRecord(h) == journal[h].cut

Classify(h) ==
    CASE LoggedPhases(h) = {} -> "unknown"
      [] SentEot(h) /\ WentSilent(h) -> "runner_idle_terminated"
      [] SentEot(h) /\ ~WentSilent(h) -> "eot_lost"
      [] ~Operated(h) /\ stderr[h] # {} -> "variant_rejected"
      [] Operated(h) /\ ~SentEot(h) /\ "watchdog" \in stderr[h] -> "variant_self_killed_idle"
      [] Operated(h) /\ ~SentEot(h) /\ "watchdog" \notin stderr[h] /\ EndsMidRecord(h) ->
             "variant_crashed"
      [] ~Operated(h) /\ LoggedPhases(h) # {} /\ stderr[h] = {} /\ EndsMidRecord(h) ->
             "deadlock"
      [] OTHER -> "unknown"

CleanExits == {"completed", "runner_idle_terminated"}

\* integrity_for_group: a row for each pair that has deliveries, at the QoS of
\* the first of them, which is that of the job.
Pairs == {p \in Hosts \X Hosts : Deliveries(p[1], p[2]) # <<>>}

IntegrityRow(w, h) ==
    LET d == Deliveries(w, h)
        strict == theJob.qos >= 3
    IN  [writer |-> w, receiver |-> h,
         write_count |-> WriteCount(w),
         receive_count |-> Len(d),
         ops_lost |-> AtLeastZero(WriteCount(w), Len(d)),
         leaves_lost |-> AtLeastZero(LeavesWritten(w), LeavesReceived(d)),
         backpressure_skipped_count |-> Rows(w).skips,
         duplicates |-> Duplicates(d),
         completeness_error |-> strict /\ Len(d) < WriteCount(w),
         ordering_error |-> strict /\ OutOfOrder(d) > 0,
         duplicate_error |-> strict /\ Duplicates(d) > 0,
         skip_at_reliable_error |-> strict /\ Rows(w).skips > 0,
         timeout_classification |-> Classify(w)]

Integrity == IF Aborted THEN {} ELSE {IntegrityRow(p[1], p[2]) : p \in Pairs}

\* collect_incomplete_warnings; below 99.995 % is a shortfall.
Shortfall(row) == 20000 * row.receive_count < 19999 * row.write_count

Warnings ==
    [not_completed |-> {row.writer : row \in
                          {row \in Integrity : row.timeout_classification \notin CleanExits}},
     delivery_shortfall |-> {row \in Integrity : Shortfall(row)},
     skip_at_reliable |-> {row.writer : row \in {row \in Integrity : row.skip_at_reliable_error}}]

Flagged(row) ==
    row.completeness_error \/ row.ordering_error \/ row.duplicate_error
        \/ row.skip_at_reliable_error

-----------------------------------------------------------------------------
(* Properties.                                                             *)

\* What h has really received of w, the rows of one run of the job on both.
SameRun(w, h) ==
    FromCompact(w) /\ FromCompact(h) /\ compact[w].round = compact[h].round
HeardOf(w, h) ==
    Only(compact[h].records.receives, {r \in Receives : r.writer = w /\ ~r.near})
OnceInOrder(w, h) ==
    LET heard == HeardOf(w, h)
    IN  /\ Distinct(heard) = compact[w].records.writes
        /\ \A i, j \in DOMAIN heard : i < j => heard[i].seq < heard[j].seq

\* No write is lost that no duplicate stands for, but for one in 20000.
FewLost(missing, row) ==
    20000 * Cardinality(missing) <= 20000 * row.duplicates + row.write_count

(* Safety: a row of the integrity table without a FAIL mark tells the truth.
   At QoS 3 and 4 the receiver got every write, once and in order, however the
   transport behaved and whatever rows were recorded twice; at QoS 1 and 2 no
   shortfall means that at most as many writes were lost as came twice, and one in
   20000 besides, and a lost leaf is seen when no duplicate hides it. *)
HonestReport ==
    Settled => \A row \in Integrity :
        SameRun(row.writer, row.receiver) =>
            LET missing == compact[row.writer].records.writes
                              \ Distinct(HeardOf(row.writer, row.receiver))
            IN  IF Strict
                THEN ~Flagged(row) => OnceInOrder(row.writer, row.receiver) /\ row.leaves_lost = 0
                ELSE /\ ~Shortfall(row) => FewLost(missing, row)
                     /\ missing # {} /\ row.duplicates = 0 => row.leaves_lost > 0

(* Safety: no false alarm.  A pair of children of one run of the job that both
   ended well, the receiver with every write once and in order, has its row, and
   no mark and no warning is about it: not for a row the instruments doubled, nor
   for a file an earlier run has left. *)
NoFalseAlarm ==
    Settled /\ ~Aborted => \A w, h \in Hosts :
        (/\ outcome[w] = "ok" /\ outcome[h] = "ok"
         /\ SameRun(w, h) /\ OnceInOrder(w, h)
         /\ compact[w].records.writes # {})
        => /\ \E row \in Integrity : row.writer = w /\ row.receiver = h
           /\ \A row \in Integrity : (row.writer = w /\ row.receiver = h) =>
                 ~Flagged(row) /\ ~Shortfall(row) /\ row.leaves_lost = 0
           /\ w \notin Warnings.not_completed
=============================================================================
