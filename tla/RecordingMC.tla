----------------------------- MODULE RecordingMC -----------------------------
(***************************************************************************)
(* Children for the model checker: each workload, both modes, arguments    *)
(* that are turned down before and after the log is opened, and a ceiling  *)
(* that a tick can reach.                                                  *)
(***************************************************************************)
EXTENDS Recording

Scalars(q, mode) ==
    [workload |-> "scalar-flood", vpt |-> 2, qos |-> q, mode |-> mode, recv_buffer_kb |-> 4096,
     hard |-> 100, ticks |-> 1, messages |-> 1, blob |-> 0, scalarsMin |-> 0, scalarsMax |-> 0,
     arraysMin |-> 0, arraysMax |-> 0, splitMax |-> 0]

Blocks(blob) ==
    [Scalars(3, "multi") EXCEPT !.workload = "block-flood", !.vpt = 4, !.blob = blob]

\* One value is a scalar; the other four go to arrays and the dictionary.  Messages
\* of peers come in the other ones.
Mixed ==
    [Scalars(4, "single") EXCEPT
        !.workload = "mixed-types", !.vpt = 5, !.scalarsMin = 1,
        !.scalarsMax = 1, !.arraysMax = 2, !.splitMax = 2, !.messages = 0]

Full == [Scalars(1, "multi") EXCEPT !.vpt = 1, !.ticks = 2, !.messages = 2, !.hard = 8]

TurnedDown ==
    {[Scalars(4, "single") EXCEPT !.workload = "max-throughput"],
     [Scalars(1, "single") EXCEPT !.workload = "no-such"],
     Blocks(3), Blocks(0),
     [Mixed EXCEPT !.splitMax = 1], [Mixed EXCEPT !.scalarsMin = 2],
     [Mixed EXCEPT !.scalarsMax = 6], [Mixed EXCEPT !.arraysMax = 5],
     [Mixed EXCEPT !.arraysMin = 3]}

MCWorks ==
    {[Scalars(1, "single") EXCEPT !.messages = 2], Scalars(2, "multi"), Blocks(2), Mixed, Full,
     [Scalars(1, "single") EXCEPT !.workload = "max-throughput"]} \union TurnedDown
=============================================================================
