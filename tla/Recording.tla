------------------------------ MODULE Recording ------------------------------
(***************************************************************************)
(* What a child does is told twice: as lines of a JSONL log, and as rows   *)
(* that are kept in memory until the digest phase writes them to a Parquet *)
(* file, from which the analysis reads them.                               *)
(*                                                                         *)
(*   The workload (variant-base/src/workload.rs) makes the operations of a *)
(* tick out of values_per_tick values.  The driver (driver.rs) publishes   *)
(* them and polls for messages; in Multi mode the reader threads of the    *)
(* variant record messages on their own.  All push their rows to one       *)
(* buffer (compact.rs), whose columns serve every kind of event: a path or *)
(* a peer is a number of a dictionary, and what a kind does not have is    *)
(* zero, or the peer 255.  compact_writer.rs writes the columns and the    *)
(* dictionaries out, and analysis/parse_compact.py puts the events         *)
(* together again.                                                         *)
(*                                                                         *)
(*   Times, sizes and measured values are left out, as is the layout of    *)
(* the file; so is the budget of a drain (Quic has it).  A path is a kind  *)
(* and a sequence of numbers.  An optional value is a set of at most one   *)
(* element; a row that has been decoded is a function of the columns that  *)
(* are not null.                                                           *)
(*                                                                         *)
(* A definition under the heading "Wrong on purpose" is the next one with  *)
(* a plausible bug; nothing uses it.                                       *)
(***************************************************************************)
EXTENDS Naturals, Sequences, SequencesExt, FiniteSets, FiniteSetsExt, TLC

CONSTANTS
    Works,          \* [workload, vpt, ..., qos, mode, hard, ticks, messages]
    Writers,        \* the peers whose messages arrive
    MaxPeers        \* how many names the table of peers takes

\* A child has as many ticks and gets as many messages as bounds say.
ASSUME RecordingAssumption ==
    /\ MaxPeers \in Nat \ {0}
    /\ \A w \in Works : w.ticks \in Nat /\ w.messages \in Nat

VARIABLES
    work,       \* the arguments of the child
    recStage,   \* where run_protocol is
    batch,      \* the operations of the tick that are still to be published
    ticks,      \* how many ticks there have been
    drawn,      \* how many sequence numbers have been drawn
    gathered,   \* how many messages have been recorded
    readers,    \* whether the reader threads run
    lines,      \* the JSONL log
    buffers,    \* [paths, peers, rows]
    parquet,    \* {}, or the file: the buffers and [threading_mode, recv_buffer_kb]
    happened    \* all events, in the order they were recorded in

recVars == <<work, recStage, batch, ticks, drawn, gathered, readers, lines, buffers,
             parquet, happened>>

Null == {}
Just(x) == {x}
ValueOf(option) == CHOOSE x \in option : TRUE

Strict == work.qos \in {3, 4}

-----------------------------------------------------------------------------
(* The operations of a tick.                                               *)

WriteOp(kind, at, leaves, shape) ==
    [path |-> [kind |-> kind, at |-> at], leaf_count |-> leaves, shape |-> shape]

ScalarFlood(vpt) == [i \in 1..vpt |-> WriteOp("scalar", <<i - 1>>, 1, "scalar")]

BlockFlood(vpt, blob) ==
    IF blob = 0 \/ vpt % blob # 0 THEN <<>>
    ELSE [w \in 1..(vpt \div blob) |-> WriteOp("block", <<w - 1>>, blob, "array")]

\* uniform_partition: the differences of distinct cuts, drawn at random.
Differences(cuts) ==
    [k \in DOMAIN cuts |-> IF k = 1 THEN cuts[1] ELSE cuts[k] - cuts[k - 1]]
InOrderOf(numbers) == SortSeq(SetToSeq(numbers), <)

UniformPartition(total, parts) ==
    IF parts = 0 THEN {<<>>}
    ELSE IF parts = 1 \/ total = 0 THEN {<<total>>}
    ELSE IF parts >= total THEN {[k \in 1..parts |-> IF k <= total THEN 1 ELSE 0]}
    ELSE {Differences(Append(InOrderOf(cuts), total)) : cuts \in kSubset(parts - 1, 1..(total - 1))}

\* What comes of parts one after the other, if each of them is one of a set.
Joined(sets) ==
    FoldLeft(LAMBDA before, set : {b \o s : b \in before, s \in set}, {<<>>}, sets)

Under(i, ops) == [k \in DOMAIN ops |-> [ops[k] EXCEPT !.path.at = <<i>> \o @]]

\* expand_dict: a node splits its leaves at random, until few are left.
MaxDepth(vpt) == Min({l \in 0..vpt : 2 ^ l >= vpt}) + 4

ExpandDict(total, vpt, splitMax) ==
    LET expand[deeper \in 0..MaxDepth(vpt), leaves \in 0..vpt] ==
            IF leaves = 0 THEN {<<>>}
            ELSE IF leaves = 1 THEN {<<WriteOp("leaf", <<>>, 1, "scalar")>>}
            ELSE IF leaves <= splitMax \/ deeper = 0
                 THEN {<<WriteOp("flat", <<>>, leaves, "struct")>>}
            ELSE UNION {Joined([i \in DOMAIN parts |->
                            {Under(i - 1, ops) : ops \in expand[deeper - 1, parts[i]]}]) :
                        parts \in UNION {UniformPartition(leaves, k) : k \in 1..splitMax}}
    IN  expand[MaxDepth(vpt), total]

AtMost(a, b) == IF a < b THEN a ELSE b

\* The values of a tick are dealt out to scalars, arrays and one dictionary.
MixedTypes(vpt, w) ==
    LET scalarsMax == AtMost(w.scalarsMax, vpt)
        arraysOf(n) ==
            IF n = 0 THEN {<<>>}
            ELSE {[i \in DOMAIN parts |-> WriteOp("array", <<i - 1>>, parts[i], "array")] :
                  parts \in UNION {UniformPartition(n, k) : k \in 1..AtMost(w.arraysMax, n)}}
        restOf(left) ==
            LET cap == AtMost(w.arraysMax, left \div 2)
            IN  UNION {Joined(<<arraysOf(n), ExpandDict(left - n, vpt, w.splitMax)>>) :
                       n \in AtMost(w.arraysMin, cap)..cap}
    IN  UNION {Joined(<<{ScalarFlood(n)}, restOf(vpt - n)>>) :
               n \in AtMost(w.scalarsMin, scalarsMax)..scalarsMax}

\* Workload::generate.
Batches ==
    CASE work.workload \in {"scalar-flood", "max-throughput"} -> {ScalarFlood(work.vpt)}
      [] work.workload = "block-flood" -> {BlockFlood(work.vpt, work.blob)}
      [] work.workload = "mixed-types" -> MixedTypes(work.vpt, work)

\* What run_protocol asks for before it opens the log, and what it finds out
\* when the log is there.
Accepts ==
    /\ work.workload = "max-throughput" => ~Strict
    /\ work.workload = "block-flood" => work.blob > 0 /\ work.vpt % work.blob = 0
    /\ work.workload = "mixed-types" =>
          /\ work.splitMax >= 2
          /\ work.scalarsMax <= work.vpt
          /\ work.arraysMax + work.scalarsMin <= work.vpt \/ work.arraysMax = 0

Buildable ==
    /\ work.workload \in {"scalar-flood", "max-throughput", "block-flood", "mixed-types"}
    /\ work.workload = "mixed-types" =>
          work.scalarsMin <= work.scalarsMax /\ work.arraysMin <= work.arraysMax

-----------------------------------------------------------------------------
(* Rows.                                                                   *)

PeerSelf == MaxPeers + 1

KindNumber ==
    [write |-> 0, receive |-> 1, backpressure_skipped |-> 2, gap_detected |-> 3,
     gap_filled |-> 4, phase |-> 5, connected |-> 6, eot_sent |-> 7,
     eot_received |-> 8, eot_timeout |-> 9, resource |-> 10, clock_sync |-> 11]

Interned(dict, name) == IF name \in ToSet(dict) THEN dict ELSE Append(dict, name)

\* Wrong on purpose: the number of a new name is taken when it is in the table.
NumberAfterPush(dict, name) ==
    IF name \in ToSet(dict) THEN SelectInSeq(dict, LAMBDA n : n = name) - 1
                            ELSE Len(Interned(dict, name))

\* Numbers begin at 0.
NumberOf(dict, name) ==
    IF name \in ToSet(dict) THEN SelectInSeq(dict, LAMBDA n : n = name) - 1 ELSE Len(dict)

TakesName(dict, name) == name \in ToSet(dict) \/ Len(dict) < MaxPeers

NewRow(kind) ==
    [kind |-> KindNumber[kind], seq |-> 0, path_idx |-> 0, peer_idx |-> PeerSelf, qos |-> 0,
     extra_i64 |-> Null, extra_utf8 |-> Null, leaf_count |-> Null, shape_idx |-> Null]

ShapeIntern == <<"scalar", "array", "struct">>

Push(b, row) == [b EXCEPT !.rows = Append(@, row)]
WithPath(b, path) == [b EXCEPT !.paths = Interned(@, path)]
WithPeer(b, writer) == [b EXCEPT !.peers = Interned(@, writer)]

PushWrite(b, e) ==
    Push(WithPath(b, e.path),
         [NewRow("write") EXCEPT
             !.seq = e.seq, !.path_idx = NumberOf(b.paths, e.path), !.qos = e.qos,
             !.leaf_count = Just(e.leaf_count),
             !.shape_idx = Just(NumberOf(ShapeIntern, e.shape))])

PushSkipped(b, e) ==
    Push(WithPath(b, e.path),
         [NewRow("backpressure_skipped") EXCEPT
             !.path_idx = NumberOf(b.paths, e.path), !.qos = e.qos])

\* Without room for the writer there is no row, but the path is in its table.
PushReceive(b, e) ==
    IF ~TakesName(b.peers, e.writer) THEN WithPath(b, e.path)
    ELSE Push(WithPeer(WithPath(b, e.path), e.writer),
              [NewRow("receive") EXCEPT
                  !.seq = e.seq, !.path_idx = NumberOf(b.paths, e.path),
                  !.peer_idx = NumberOf(b.peers, e.writer), !.qos = e.qos])

PushPhase(b, e) == Push(b, [NewRow("phase") EXCEPT !.extra_utf8 = Just(e.phase)])
PushConnected(b, e) ==
    Push(b, [NewRow("connected") EXCEPT !.peer_idx = PeerSelf, !.extra_utf8 = Just(e.threading_mode)])
PushEotSent(b, e) == Push(b, [NewRow("eot_sent") EXCEPT !.extra_i64 = Just(e.eot_id)])
PushResource(b, e) == Push(b, NewRow("resource"))

Entered(b, e) ==
    CASE e.event = "write" -> PushWrite(b, e)
      [] e.event = "receive" -> PushReceive(b, e)
      [] e.event = "backpressure_skipped" -> PushSkipped(b, e)
      [] e.event = "phase" -> PushPhase(b, e)
      [] e.event = "connected" -> PushConnected(b, e)
      [] e.event = "eot_sent" -> PushEotSent(b, e)
      [] e.event = "resource" -> PushResource(b, e)

-----------------------------------------------------------------------------
(* What the analysis reads.                                                *)

KindToEvent == [n \in 0..11 |-> CHOOSE kind \in DOMAIN KindNumber : KindNumber[kind] = n]

\* The left joins with the dictionaries.
Lookup(dict, idx) == IF idx < Len(dict) THEN Just(dict[idx + 1]) ELSE Null
OrOther(option, other) == IF option = Null THEN Just(other) ELSE option

OfKinds(row, kinds, option) == IF KindToEvent[row.kind] \in kinds THEN option ELSE Null

Projection(file, row) ==
    LET writer == Lookup(file.peers, row.peer_idx)
        shape == IF row.shape_idx = Null THEN Null ELSE Lookup(ShapeIntern, ValueOf(row.shape_idx))
        gaps == {"gap_detected", "gap_filled"}
    IN  [event |-> Just(KindToEvent[row.kind]),
         seq |-> OfKinds(row, {"write", "receive"}, Just(row.seq)),
         path |-> OfKinds(row, {"write", "receive", "backpressure_skipped"},
                          Lookup(file.paths, row.path_idx)),
         writer |-> OfKinds(row, {"receive", "eot_received"} \union gaps, writer),
         qos |-> OfKinds(row, {"write", "receive", "backpressure_skipped"}, Just(row.qos)),
         phase |-> OfKinds(row, {"phase"}, row.extra_utf8),
         missing_seq |-> OfKinds(row, {"gap_detected"}, row.extra_i64),
         recovered_seq |-> OfKinds(row, {"gap_filled"}, row.extra_i64),
         peer |-> IF row.peer_idx = PeerSelf THEN OfKinds(row, {"clock_sync"}, writer)
                  ELSE OfKinds(row, {"connected", "clock_sync"}, writer),
         eot_id |-> OfKinds(row, {"eot_sent", "eot_received"}, row.extra_i64),
         eot_missing |-> OfKinds(row, {"eot_timeout"}, row.extra_utf8),
         threading_mode |-> OfKinds(row, {"connected"},
                                    OrOther(row.extra_utf8, file.threading_mode)),
         recv_buffer_kb |-> OfKinds(row, {"connected"}, Just(file.recv_buffer_kb)),
         leaf_count |-> OfKinds(row, {"write"}, OrOther(row.leaf_count, 1)),
         shape |-> OfKinds(row, {"write"}, OrOther(shape, "scalar"))]

\* A row of the shard, without its nulls.
Decoded(file, row) ==
    LET projection == Projection(file, row)
    IN  [column \in {c \in DOMAIN projection : projection[c] # Null} |->
            ValueOf(projection[column])]

DecodedFile == LET file == ValueOf(parquet)
               IN  [k \in DOMAIN file.rows |-> Decoded(file, file.rows[k])]

\* project_line: of the keys of a line, those that are columns.
ProjectLine(line) ==
    [column \in DOMAIN line \ {"launch_ts", "profile"} |-> line[column]]

-----------------------------------------------------------------------------
(* The child.                                                              *)

NoBuffers == [paths |-> <<>>, peers |-> <<>>, rows |-> <<>>]

RecInit ==
    /\ work \in Works
    /\ recStage = "begin"
    /\ batch = <<>>
    /\ ticks = 0 /\ drawn = 0 /\ gathered = 0
    /\ readers = FALSE
    /\ lines = <<>>
    /\ buffers = NoBuffers
    /\ parquet = {}
    /\ happened = <<>>

Records(e) ==
    /\ buffers' = Entered(buffers, e)
    /\ happened' = Append(happened, e)

\* The driver tells an event of the life cycle to both: first it writes a line.
Tells(e, more) ==
    /\ lines' = Append(lines, e @@ more)
    /\ Records(e)

Phase(name) == [event |-> "phase", phase |-> name]
Nothing == [k \in {} |-> 0]

\* The arguments are looked at, the log is opened, the workload is made.
BeginSpawn ==
    /\ recStage = "begin"
    /\ IF Accepts /\ Buildable
       THEN recStage' = "connect" /\ Tells(Phase("connect"), Nothing)
       ELSE recStage' = "failed" /\ UNCHANGED <<lines, buffers, happened>>
    /\ UNCHANGED <<work, batch, ticks, drawn, gathered, readers, parquet>>

ConnectVariant ==
    /\ recStage = "connect"
    /\ \/ /\ recStage' = "connected"
          /\ readers' = (work.mode = "multi")
       \/ recStage' = "failed" /\ UNCHANGED readers
    /\ UNCHANGED <<work, batch, ticks, drawn, gathered, lines, buffers, parquet, happened>>

TellConnected ==
    /\ recStage = "connected"
    /\ recStage' = "stabilize"
    /\ Tells([event |-> "connected", threading_mode |-> work.mode,
              recv_buffer_kb |-> work.recv_buffer_kb], [launch_ts |-> "launch"])
    /\ UNCHANGED <<work, batch, ticks, drawn, gathered, readers, parquet>>

Stabilize ==
    /\ recStage = "stabilize"
    /\ recStage' = "operate"
    /\ Tells(Phase("stabilize"), Nothing)
    /\ UNCHANGED <<work, batch, ticks, drawn, gathered, readers, parquet>>

StartOperating ==
    /\ recStage = "operate"
    /\ recStage' = "tick"
    /\ Tells(Phase("operate"), [profile |-> work.workload])
    /\ UNCHANGED <<work, batch, ticks, drawn, gathered, readers, parquet>>

Generate ==
    /\ recStage = "tick" /\ ticks < work.ticks
    /\ recStage' = "publish"
    /\ ticks' = ticks + 1
    /\ batch' \in Batches
    /\ UNCHANGED <<work, drawn, gathered, readers, lines, buffers, parquet, happened>>

\* try_publish returned Ok(true), Ok(false) or an error.  At QoS 3 and 4 the
\* driver asks again after Ok(false), as often as it takes.
PublishOp ==
    /\ recStage = "publish" /\ batch # <<>>
    /\ drawn' = drawn + 1
    /\ \/ /\ Records([event |-> "write", seq |-> drawn + 1, qos |-> work.qos] @@ Head(batch))
          /\ batch' = Tail(batch)
          /\ UNCHANGED recStage
       \/ /\ ~Strict
          /\ Records([event |-> "backpressure_skipped", path |-> Head(batch).path,
                      qos |-> work.qos])
          /\ batch' = Tail(batch)
          /\ UNCHANGED recStage
       \/ recStage' = "failed" /\ UNCHANGED <<batch, buffers, happened>>
    /\ UNCHANGED <<work, ticks, gathered, readers, lines, parquet>>

StartDrain ==
    /\ recStage = "publish" /\ batch = <<>>
    /\ recStage' = "drain"
    /\ UNCHANGED <<work, batch, ticks, drawn, gathered, readers, lines, buffers, parquet,
                   happened>>

Message(writer, path) ==
    [event |-> "receive", seq |-> gathered + 1, path |-> path, writer |-> writer,
     qos |-> work.qos]

\* The peers write to the paths this child writes to, among others.
PathsOfPeers == {[kind |-> "scalar", at |-> <<i>>] : i \in {0, 1}}

\* poll_receive, in the drain of a tick and in the silent phase.
PollMessage ==
    /\ recStage \in {"drain", "silent"} /\ gathered < work.messages
    /\ gathered' = gathered + 1
    /\ \E writer \in Writers, path \in PathsOfPeers :
          /\ Records(Message(writer, path))
          /\ recStage' = IF TakesName(buffers.peers, writer) THEN recStage ELSE "failed"
    /\ UNCHANGED <<work, batch, ticks, drawn, readers, lines, parquet>>

\* A reader thread, or in Single mode a variant that waits for room within
\* try_publish, records what arrives; that it cannot is no error.
ReaderRecords ==
    /\ \/ readers
       \/ work.mode = "single" /\ recStage = "publish" /\ batch # <<>>
    /\ recStage \notin {"failed", "done"} /\ parquet = {} /\ gathered < work.messages
    /\ gathered' = gathered + 1
    /\ \E writer \in Writers, path \in PathsOfPeers : Records(Message(writer, path))
    /\ UNCHANGED <<work, recStage, batch, ticks, drawn, readers, lines, parquet>>

Size(b) == Len(b.rows) + Len(b.paths) + Len(b.peers)

\* The end of a turn of the loop: the hard ceiling, and every 100 ms a sample.
EndOfTick ==
    /\ recStage = "drain"
    /\ IF Size(buffers) >= work.hard
       THEN recStage' = "failed" /\ UNCHANGED <<lines, buffers, happened>>
       ELSE /\ recStage' = "tick"
            /\ \/ Tells([event |-> "resource"], Nothing)
               \/ UNCHANGED <<lines, buffers, happened>>
    /\ UNCHANGED <<work, batch, ticks, drawn, gathered, readers, parquet>>

EndOperating ==
    /\ recStage = "tick"
    /\ recStage' = "sent"
    /\ Tells([event |-> "eot_sent", eot_id |-> 0], Nothing)
    /\ UNCHANGED <<work, batch, ticks, drawn, gathered, readers, parquet>>

StartSilent ==
    /\ recStage = "sent"
    /\ recStage' = "silent"
    /\ Tells(Phase("silent"), Nothing)
    /\ UNCHANGED <<work, batch, ticks, drawn, gathered, readers, parquet>>

\* stop_reader_threads abandons a thread that does not end in time; it or
\* disconnect may fail.
StopReaders ==
    /\ recStage = "silent"
    /\ recStage' \in {"stopped", "failed"}
    /\ readers' \in {FALSE, readers}
    /\ UNCHANGED <<work, batch, ticks, drawn, gathered, lines, buffers, parquet, happened>>

StartDigest ==
    /\ recStage = "stopped"
    /\ recStage' = "digest"
    /\ Tells(Phase("digest"), Nothing)
    /\ UNCHANGED <<work, batch, ticks, drawn, gathered, readers, parquet>>

\* write_compact_parquet; the disk may be full.
WriteParquet ==
    /\ recStage = "digest"
    /\ \/ recStage' = "failed" /\ UNCHANGED parquet
       \/ /\ recStage' = "done"
          /\ parquet' = {[threading_mode |-> work.mode,
                          recv_buffer_kb |-> work.recv_buffer_kb] @@ buffers}
    /\ UNCHANGED <<work, batch, ticks, drawn, gathered, readers, lines, buffers, happened>>

RecNext ==
    \/ BeginSpawn \/ ConnectVariant \/ TellConnected \/ Stabilize \/ StartOperating
    \/ Generate \/ PublishOp \/ StartDrain \/ PollMessage \/ ReaderRecords \/ EndOfTick
    \/ EndOperating \/ StartSilent \/ StopReaders \/ StartDigest \/ WriteParquet

RecSpec == RecInit /\ [][RecNext]_recVars

-----------------------------------------------------------------------------
(* Properties.                                                             *)

(* What the variables range over.                                          *)
RecordingTypeOK ==
    /\ work \in Works
    /\ recStage \in {"begin", "connect", "connected", "stabilize", "operate", "tick",
                     "publish", "drain", "sent", "silent", "stopped", "digest", "done",
                     "failed"}
    /\ \A k \in DOMAIN batch : batch[k].leaf_count \in 1..work.vpt
    /\ ticks \in 0..work.ticks /\ gathered \in 0..work.messages /\ drawn \in Nat
    /\ readers \in BOOLEAN
    /\ Len(buffers.peers) <= MaxPeers
    /\ \A k \in DOMAIN buffers.rows :
          /\ buffers.rows[k].kind \in 0..11
          /\ buffers.rows[k].peer_idx \in 0..PeerSelf
          /\ buffers.rows[k].path_idx \in 0..Len(buffers.paths)
    /\ Cardinality(parquet) <= 1
    /\ Len(happened) >= Len(lines)

OfEvents(events, rows) == SelectSeq(rows, LAMBDA r : r.event \in events)
LifeCycle == {"phase", "connected", "eot_sent", "resource"}

(* What the analysis reads from the file of a child is what the driver and *)
(* the reader threads have recorded, event by event and column by column,  *)
(* but for the messages of a writer the table of peers had no room for.    *)
(* The lines of the log tell the same life cycle.  Every sequence number   *)
(* is that of one write or one skip; at QoS 3 and 4 nothing is skipped,    *)
(* and every tick has written all of its values, however the workload has  *)
(* dealt them out (push_*, write_compact_parquet,                          *)
(* _build_projection_lazyframe, project_line, Workload::generate).         *)
FileTellsAll ==
    parquet # {} =>
        LET rows == DecodedFile
            writes == OfEvents({"write"}, rows)
            skips == OfEvents({"backpressure_skipped"}, rows)
        IN  /\ rows = SelectSeq(happened, LAMBDA e :
                          e.event # "receive" \/ e.writer \in ToSet(ValueOf(parquet).peers))
            /\ OfEvents(LifeCycle, rows) = [k \in DOMAIN lines |-> ProjectLine(lines[k])]
            /\ Len(writes) + Len(skips) = drawn
            /\ Cardinality({writes[k].seq : k \in DOMAIN writes}) = Len(writes)
            /\ Strict =>
                  /\ skips = <<>>
                  /\ FoldLeft(LAMBDA sum, e : sum + e.leaf_count, 0, writes) = ticks * work.vpt
=============================================================================
