------------------------------ MODULE ClockSync ------------------------------
(***************************************************************************)
(* How a runner measures the clock of one peer: the probes and answers of  *)
(* measure_one and wait_for_response, and the estimate of pick_best        *)
(* (clock_sync.rs).                                                        *)
(*                                                                         *)
(* A time is a whole number of nanoseconds in the code, and a small whole  *)
(* number here.  "now" is the measuring runner's clock; the peer's clock   *)
(* shows now + theta, and theta is what is to be found out.  The clocks    *)
(* run equally fast during the fraction of a second a measurement takes.   *)
(* The network may lose, delay, reorder and duplicate probes and answers;  *)
(* both travel to several addresses, so duplicates are the normal case.    *)
(***************************************************************************)
EXTENDS Integers, Sequences, FiniteSets, Functions

CONSTANTS
    Thetas,         \* possible differences of the two clocks
    Samples,        \* n_samples
    SampleTimeout,  \* PER_SAMPLE_TIMEOUT
    OutlierFactor,  \* OUTLIER_STDDEV_THRESHOLD
    Copies,         \* bound: copies of a probe that reach the peer
    MaxNow          \* bound: when the clock stops

ASSUME ClockAssumption ==
    /\ Thetas \subseteq Int
    /\ Samples \in Nat \ {0} /\ SampleTimeout \in Nat

VARIABLES
    theta,    \* the peer's clock is ahead by this
    now,      \* the runner's clock
    id,       \* number of the current probe
    sentAt,   \* its t1
    waiting,  \* in wait_for_response
    probes,   \* probes the peer has not read (any number of copies)
    answers,  \* answers on their way back (any number of copies)
    samples   \* the samples taken

clockVars == <<theta, now, id, sentAt, waiting, probes, answers, samples>>

Probes == [id : Nat, t1 : Int]
ProbeAnswers == [id : Nat, t1 : Int, t2 : Int, t3 : Int]
SampleSet == [t1 : Int, t2 : Int, t3 : Int, t4 : Int]

ClockTypeOK ==
    /\ theta \in Thetas
    /\ now \in Nat /\ id \in Nat /\ sentAt \in Nat
    /\ waiting \in BOOLEAN
    /\ probes \subseteq Probes /\ answers \subseteq ProbeAnswers
    /\ samples \in Seq(SampleSet)

ClockInit ==
    /\ theta \in Thetas
    /\ now = 0 /\ id = 0 /\ sentAt = 0
    /\ waiting = FALSE
    /\ probes = {} /\ answers = {}
    /\ samples = <<>>

-----------------------------------------------------------------------------
(* One sample and the estimate.                                            *)

\* Rust's division of integers rounds towards zero.
Half(n) == IF n >= 0 THEN n \div 2 ELSE -((-n) \div 2)
Abs(n) == IF n >= 0 THEN n ELSE -n

Rtt(s) == (s.t4 - s.t1) - (s.t3 - s.t2)
Offset(s) == Half((s.t2 - s.t1) + (s.t3 - s.t4))

Median3(a, b, c) ==
    LET lo == IF a <= b THEN a ELSE b
        hi == IF a <= b THEN b ELSE a
    IN  IF c < lo THEN lo ELSE IF c > hi THEN hi ELSE c

\* The sample with the least round trip of those in D, the earliest of several:
\* sort_by_key is stable.
Fastest(ss, D) ==
    CHOOSE i \in D : \A j \in D :
        \/ Rtt(ss[i]) < Rtt(ss[j])
        \/ Rtt(ss[i]) = Rtt(ss[j]) /\ i <= j

First(ss) == Fastest(ss, DOMAIN ss)
Second(ss) == Fastest(ss, DOMAIN ss \ {First(ss)})
Third(ss) == Fastest(ss, DOMAIN ss \ {First(ss), Second(ss)})

\* Twice the median of all offsets.
TwiceMedian(ss) ==
    LET Below(i) == {j \in DOMAIN ss : \/ Offset(ss[j]) < Offset(ss[i])
                                       \/ Offset(ss[j]) = Offset(ss[i]) /\ j < i}
        Nth(k) == CHOOSE i \in DOMAIN ss : Cardinality(Below(i)) = k
        n == Len(ss)
    IN  IF n % 2 = 1 THEN 2 * Offset(ss[Nth(n \div 2)])
        ELSE Offset(ss[Nth(n \div 2 - 1)]) + Offset(ss[Nth(n \div 2)])

\* The fastest sample lies more than OutlierFactor standard deviations from
\* the median (both sides squared and multiplied by 4 n^2).
Outlier(ss) ==
    LET n == Len(ss)
        sum == FoldFunction(LAMBDA s, acc : Offset(s) + acc, 0, ss)
        squares == FoldFunction(LAMBDA s, acc : Offset(s) * Offset(s) + acc, 0, ss)
        spread == n * squares - sum * sum
        distance == 2 * Offset(ss[First(ss)]) - TwiceMedian(ss)
    IN  n >= 3 /\ spread > 0
        /\ distance * distance * n * n > 4 * OutlierFactor * OutlierFactor * spread

\* pick_best, of at least one sample.
Estimate(ss) ==
    LET a == ss[First(ss)]
        b == ss[Second(ss)]
        c == ss[Third(ss)]
    IN  IF Outlier(ss)
        THEN [offset |-> Median3(Offset(a), Offset(b), Offset(c)),
              rtt |-> Median3(Rtt(a), Rtt(b), Rtt(c))]
        ELSE [offset |-> Offset(a), rtt |-> Rtt(a)]

-----------------------------------------------------------------------------
(* measure_one and wait_for_response.                                      *)

SendProbe ==
    /\ ~waiting /\ id < Samples
    /\ id' = id + 1
    /\ sentAt' = now
    /\ waiting' = TRUE
    /\ probes' = probes \union {[id |-> id + 1, t1 |-> now]}
    /\ UNCHANGED <<theta, now, answers, samples>>

\* respond_to_probe: t2 and t3 are taken on the peer's clock, t1 is echoed.
\* Between the two the peer may be interrupted.
Respond(p) ==
    /\ Cardinality({a \in answers : a.id = p.id}) < Copies
    /\ \E hold \in 0..1 :
        /\ answers' = answers \union {[id |-> p.id, t1 |-> p.t1, t2 |-> now + theta,
                                       t3 |-> now + theta + hold]}
        /\ UNCHANGED <<theta, now, id, sentAt, waiting, probes, samples>>

HasLeft(a) == a.t3 - theta <= now

\* Wrong on purpose: any answer of the peer that is measured.
IsFromPeer(a) == a.id <= id

\* The answer belongs to the probe that is waited for; any other is read and
\* thrown away.
IsFor(a) == a.id = id /\ a.t1 = sentAt

TakeSample(a) ==
    LET s == [t1 |-> sentAt, t2 |-> a.t2, t3 |-> a.t3, t4 |-> now]
    IN  /\ waiting /\ HasLeft(a) /\ IsFor(a)
        /\ samples' = Append(samples, s)
        /\ waiting' = FALSE
        /\ UNCHANGED <<theta, now, id, sentAt, probes, answers>>

GiveUp ==
    /\ waiting /\ now >= sentAt + SampleTimeout
    /\ waiting' = FALSE
    /\ UNCHANGED <<theta, now, id, sentAt, probes, answers, samples>>

TimePasses ==
    /\ now < MaxNow
    /\ now' = now + 1
    /\ UNCHANGED <<theta, id, sentAt, waiting, probes, answers, samples>>

ClockNext ==
    \/ SendProbe \/ GiveUp \/ TimePasses
    \/ \E p \in probes : Respond(p)
    \/ \E a \in answers : TakeSample(a)

ClockSpec == ClockInit /\ [][ClockNext]_clockVars

-----------------------------------------------------------------------------
(* Properties.                                                             *)

\* The offset a runner works with is off by at most half the round trip it
\* reports with it (and half a unit of rounding), whichever way it was picked
\* and whatever the network did to the probes.
OffsetWithinRtt ==
    samples # <<>> =>
        2 * Abs(Estimate(samples).offset - theta) <= Estimate(samples).rtt + 1
=============================================================================
