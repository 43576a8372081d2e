--------------------------- MODULE RunnerPartsProofs ---------------------------
(***************************************************************************)
(* Proofs about four of the parts that RunnerPartsMC runs side by side,    *)
(* each for itself and for every value of its constants.                   *)
(*                                                                         *)
(* ClockSync: a measured offset is good to half the round trip reported    *)
(* with it, for any number of samples, any difference of the clocks and    *)
(* any behaviour of the network.  Every sample has                         *)
(* t1 <= t2 - theta <= t3 - theta <= t4, because an answer echoes the t1   *)
(* it was asked with and only the answer to the present t1 is taken.  Such *)
(* a sample is off by at most half its own round trip.  When the median of *)
(* three is taken instead, two of the three offsets are at least as far    *)
(* from theta as the median (on the same side), and one of these two has   *)
(* at most the median round trip.                                          *)
(*                                                                         *)
(* ChildMonitor: what is on the pipe and in the tracker is what the child  *)
(* has been through, and the ages of the idle detector, of the watchdog    *)
(* and of the blocked driver differ by at most a second, so that the one   *)
(* with the shorter limit is always the first.                             *)
(*                                                                         *)
(* ProgressExchange: a phase that one runner has heard of another one has  *)
(* been reached there, whatever was lost in between, and the done barrier  *)
(* holds the runners within a spawn of one another.                        *)
(*                                                                         *)
(* Addresses: everybody is found.  Places in the list are different, so a  *)
(* port tells whose it is, for any base port and any number of runners; an *)
(* address noted for a peer is one that leads to it from where the runner  *)
(* is; where the ports do not suffice, nobody gets as far as to listen.    *)
(***************************************************************************)
EXTENDS ClockSync, ChildMonitor, ProgressExchange, Addresses, FiniteSetTheorems,
        WellFoundedInduction, TLAPS

-----------------------------------------------------------------------------
(* ClockSync.                                                              *)

\* What a sample says is in the order in which it happened.
Sound(s) == s.t1 + theta <= s.t2 /\ s.t2 <= s.t3 /\ s.t3 <= s.t4 + theta

ClockInv ==
    /\ ClockTypeOK
    /\ sentAt <= now
    /\ \A p \in probes : p.t1 <= now
    /\ \A a \in answers : a.t1 + theta <= a.t2 /\ a.t2 <= a.t3
    /\ \A i \in DOMAIN samples : Sound(samples[i])

-----------------------------------------------------------------------------
(* The estimate.                                                           *)

LEMMA HalfIsClose ==
    ASSUME NEW n \in Int
    PROVE  Half(n) \in Int /\ 2 * Half(n) - n <= 1 /\ n - 2 * Half(n) <= 1
BY DEF Half

\* A sample is off by at most half its round trip.
LEMMA SampleIsClose ==
    ASSUME theta \in Int, NEW s \in SampleSet, Sound(s)
    PROVE  /\ Offset(s) \in Int /\ Rtt(s) \in Nat
           /\ 2 * (Offset(s) - theta) <= Rtt(s) + 1
           /\ 2 * (theta - Offset(s)) <= Rtt(s) + 1
<1> DEFINE n == (s.t2 - s.t1) + (s.t3 - s.t4)
<1>1. n \in Int /\ s.t1 \in Int /\ s.t2 \in Int /\ s.t3 \in Int /\ s.t4 \in Int
  BY DEF SampleSet
<1>2. Half(n) \in Int /\ 2 * Half(n) - n <= 1 /\ n - 2 * Half(n) <= 1
  BY <1>1, HalfIsClose
<1>3. Rtt(s) \in Nat /\ n - 2 * theta <= Rtt(s) /\ 2 * theta - n <= Rtt(s)
  BY <1>1 DEF Rtt, Sound
<1>4. Offset(s) = Half(n)
  BY DEF Offset
<1> HIDE DEF n
<1>5. QED
  BY <1>1, <1>2, <1>3, <1>4

LEMMA LeastExists ==
    ASSUME NEW T \in SUBSET Nat, T # {}
    PROVE  \E x \in T : \A y \in T : x <= y
<1>1. \E x \in T : \A y \in T : ~(<<y, x>> \in OpToRel(<, Nat))
  BY NatLessThanWellFounded, WFMin
<1>2. \A x, y \in Nat : y < x => <<y, x>> \in OpToRel(<, Nat)
  BY DEF OpToRel
<1>3. \A x, y \in Nat : ~(y < x) => x <= y
  OBVIOUS
<1>4. PICK x \in T : \A y \in T : ~(<<y, x>> \in OpToRel(<, Nat))
  BY <1>1
<1>5. \A y \in T : x <= y
  BY <1>2, <1>3, <1>4
<1>6. QED
  BY <1>5

\* There is a fastest sample: the least index among those of least round trip.
LEMMA FastestIsOne ==
    ASSUME NEW ss \in Seq(SampleSet), \A i \in DOMAIN ss : Rtt(ss[i]) \in Nat,
           NEW D \in SUBSET (DOMAIN ss), D # {}
    PROVE  Fastest(ss, D) \in D
<1>1. DOMAIN ss \subseteq Nat
  OBVIOUS
<1>2. PICK m \in {Rtt(ss[i]) : i \in D} : \A k \in {Rtt(ss[i]) : i \in D} : m <= k
  <2>1. {Rtt(ss[i]) : i \in D} \in SUBSET Nat /\ {Rtt(ss[i]) : i \in D} # {}
    OBVIOUS
  <2>2. QED
    BY <2>1, LeastExists
<1>3. PICK x \in {i \in D : Rtt(ss[i]) = m} : \A y \in {i \in D : Rtt(ss[i]) = m} : x <= y
  <2>1. {i \in D : Rtt(ss[i]) = m} \in SUBSET Nat /\ {i \in D : Rtt(ss[i]) = m} # {}
    BY <1>1, <1>2
  <2>2. QED
    BY <2>1, LeastExists
<1>4. \A j \in D : \/ Rtt(ss[x]) < Rtt(ss[j])
                   \/ Rtt(ss[x]) = Rtt(ss[j]) /\ x <= j
  <2>1. TAKE j \in D
  <2>2. m \in Nat /\ Rtt(ss[j]) \in Nat /\ m <= Rtt(ss[j]) /\ Rtt(ss[x]) = m
    BY <1>2, <1>3
  <2>3. CASE Rtt(ss[j]) = m
    BY <1>3, <2>2, <2>3
  <2>4. CASE Rtt(ss[j]) # m
    BY <2>2, <2>4
  <2>5. QED
    BY <2>3, <2>4
<1>5. QED
  BY <1>3, <1>4 DEF Fastest

\* The median of three offsets is covered by the median of their round trips.
LEMMA MedianIsClose ==
    ASSUME NEW t \in Int,
           NEW a \in Int, NEW b \in Int, NEW c \in Int,
           NEW ra \in Int, NEW rb \in Int, NEW rc \in Int,
           2 * (a - t) <= ra + 1, 2 * (t - a) <= ra + 1,
           2 * (b - t) <= rb + 1, 2 * (t - b) <= rb + 1,
           2 * (c - t) <= rc + 1, 2 * (t - c) <= rc + 1
    PROVE  /\ Median3(a, b, c) \in Int
           /\ 2 * (Median3(a, b, c) - t) <= Median3(ra, rb, rc) + 1
           /\ 2 * (t - Median3(a, b, c)) <= Median3(ra, rb, rc) + 1
BY SMTT(60) DEF Median3

\* OffsetWithinRtt follows from what a sample means.
LEMMA EstimateIsClose ==
    ASSUME theta \in Int, NEW ss \in Seq(SampleSet), ss # <<>>,
           \A i \in DOMAIN ss : Sound(ss[i])
    PROVE  2 * Abs(Estimate(ss).offset - theta) <= Estimate(ss).rtt + 1
<1> DEFINE Close(i) == /\ Offset(ss[i]) \in Int /\ Rtt(ss[i]) \in Nat
                       /\ 2 * (Offset(ss[i]) - theta) <= Rtt(ss[i]) + 1
                       /\ 2 * (theta - Offset(ss[i])) <= Rtt(ss[i]) + 1
<1>1. \A i \in DOMAIN ss : Close(i)
  <2>1. \A i \in DOMAIN ss : ss[i] \in SampleSet
    OBVIOUS
  <2>2. QED
    BY <2>1, SampleIsClose
<1>2. \A i \in DOMAIN ss : Rtt(ss[i]) \in Nat
  BY <1>1
<1>3. First(ss) \in DOMAIN ss
  BY <1>2, FastestIsOne DEF First
<1>4. CASE ~Outlier(ss)
  <2>1. Close(First(ss))
    BY <1>1, <1>3
  <2>2. Estimate(ss).offset = Offset(ss[First(ss)]) /\ Estimate(ss).rtt = Rtt(ss[First(ss)])
    BY <1>4 DEF Estimate
  <2>3. QED
    BY <2>1, <2>2 DEF Abs
<1>5. CASE Outlier(ss)
  <2>1. Len(ss) >= 3
    BY <1>5 DEF Outlier
  <2>2. DOMAIN ss = 1..Len(ss) /\ Len(ss) \in Nat
    OBVIOUS
  <2>3. Second(ss) \in DOMAIN ss
    <3>1. DOMAIN ss \ {First(ss)} # {}
      BY <2>1, <2>2
    <3>2. QED
      BY <3>1, <1>2, FastestIsOne DEF Second
  <2>4. Third(ss) \in DOMAIN ss
    <3>1. 1 \in DOMAIN ss /\ 2 \in DOMAIN ss /\ 3 \in DOMAIN ss
      BY <2>1, <2>2
    <3>2. DOMAIN ss \ {First(ss), Second(ss)} # {}
      BY <3>1
    <3>3. QED
      BY <3>2, <1>2, FastestIsOne DEF Third
  <2>5. Close(First(ss)) /\ Close(Second(ss)) /\ Close(Third(ss))
    BY <1>1, <1>3, <2>3, <2>4
  <2> DEFINE off == Median3(Offset(ss[First(ss)]), Offset(ss[Second(ss)]), Offset(ss[Third(ss)]))
             rtt == Median3(Rtt(ss[First(ss)]), Rtt(ss[Second(ss)]), Rtt(ss[Third(ss)]))
  <2>6. off \in Int /\ 2 * (off - theta) <= rtt + 1 /\ 2 * (theta - off) <= rtt + 1
    <3>1. Rtt(ss[First(ss)]) \in Int /\ Rtt(ss[Second(ss)]) \in Int /\ Rtt(ss[Third(ss)]) \in Int
      BY <2>5
    <3>2. QED
      BY <2>5, <3>1, MedianIsClose
  <2>7. Estimate(ss).offset = off /\ Estimate(ss).rtt = rtt
    BY <1>5 DEF Estimate
  <2> HIDE DEF off, rtt
  <2>8. QED
    BY <2>6, <2>7 DEF Abs
<1>6. QED
  BY <1>4, <1>5

-----------------------------------------------------------------------------
(* The probes and answers.                                                 *)

LEMMA ClockInitial == ClockInit => ClockInv
<1> SUFFICES ASSUME ClockInit PROVE ClockInv
  OBVIOUS
<1>1. samples \in Seq(SampleSet) /\ \A i \in DOMAIN samples : Sound(samples[i])
  BY DEF ClockInit
<1>2. theta \in Thetas /\ now \in Nat /\ id \in Nat /\ sentAt \in Nat /\ sentAt <= now
  BY DEF ClockInit
<1>3. waiting \in BOOLEAN /\ probes = {} /\ answers = {}
  BY DEF ClockInit
<1>4. QED
  BY <1>1, <1>2, <1>3 DEF ClockInv, ClockTypeOK

LEMMA ClockStep == ClockInv /\ [ClockNext]_clockVars => ClockInv'
<1> SUFFICES ASSUME ClockInv, [ClockNext]_clockVars PROVE ClockInv'
  OBVIOUS
<1> USE ClockAssumption DEF ClockInv, ClockTypeOK, Sound
<1>1. theta \in Int
  OBVIOUS
<1>2. CASE SendProbe
  BY <1>2 DEF SendProbe, Probes
<1>3. CASE GiveUp
  BY <1>3 DEF GiveUp
<1>4. CASE TimePasses
  BY <1>4 DEF TimePasses, Probes
<1>5. CASE \E p \in probes : Respond(p)
  <2>1. PICK p \in probes : Respond(p)
    BY <1>5
  <2>2. PICK hold \in 0..1 : answers' = answers \union
            {[id |-> p.id, t1 |-> p.t1, t2 |-> now + theta, t3 |-> now + theta + hold]}
    BY <2>1 DEF Respond
  <2>3. p.id \in Nat /\ p.t1 \in Int /\ p.t1 <= now
    BY DEF Probes
  <2>4. answers' \subseteq ProbeAnswers
    BY <1>1, <2>2, <2>3 DEF ProbeAnswers
  <2>5. \A a \in answers' : a.t1 + theta <= a.t2 /\ a.t2 <= a.t3
    BY <1>1, <2>2, <2>3
  <2>6. UNCHANGED <<theta, now, id, sentAt, waiting, probes, samples>>
    BY <2>1 DEF Respond
  <2>7. QED
    BY <2>4, <2>5, <2>6
<1>6. CASE \E a \in answers : TakeSample(a)
  <2>1. PICK a \in answers : TakeSample(a)
    BY <1>6
  <2> DEFINE s == [t1 |-> sentAt, t2 |-> a.t2, t3 |-> a.t3, t4 |-> now]
  <2>2. a.t1 \in Int /\ a.t2 \in Int /\ a.t3 \in Int /\ a.t1 + theta <= a.t2 /\ a.t2 <= a.t3
    BY DEF ProbeAnswers
  <2>3. a.t1 = sentAt /\ a.t3 - theta <= now
    BY <2>1 DEF TakeSample, IsFor, HasLeft
  <2>4. s \in SampleSet /\ Sound(s)
    BY <1>1, <2>2, <2>3 DEF SampleSet
  <2>5. samples' = Append(samples, s) /\ waiting' = FALSE
        /\ UNCHANGED <<theta, now, id, sentAt, probes, answers>>
    BY <2>1 DEF TakeSample
  <2> HIDE DEF s
  <2>6. samples' \in Seq(SampleSet)
    BY <2>4, <2>5
  <2>7. \A i \in DOMAIN samples' : samples'[i] = s \/ (i \in DOMAIN samples /\ samples'[i] = samples[i])
    BY <2>5
  <2>8. \A i \in DOMAIN samples' : Sound(samples'[i])
    BY <2>4, <2>7
  <2>9. sentAt' = sentAt /\ now' = now /\ theta' = theta /\ id' = id
        /\ probes' = probes /\ answers' = answers /\ waiting' \in BOOLEAN
    BY <2>5
  <2>10. QED
    BY <2>6, <2>8, <2>9
<1>7. CASE UNCHANGED clockVars
  BY <1>7 DEF clockVars
<1>8. QED
  BY <1>2, <1>3, <1>4, <1>5, <1>6, <1>7 DEF ClockNext

\* Type correctness and the order of the time stamps in every sample hold
\* throughout a measurement (clock_sync.rs, measure_one).
THEOREM ClockInvariant == ClockSpec => []ClockInv
BY ClockInitial, ClockStep, PTL DEF ClockSpec

\* The offset reported for a peer is within half the reported round trip of
\* the true one (clock_sync.rs, pick_best), for any number of samples.
THEOREM OffsetIsAccurate == ClockSpec => []OffsetWithinRtt
<1>1. ClockInv => OffsetWithinRtt
  <2>1. SUFFICES ASSUME ClockInv, samples # <<>>
                 PROVE  2 * Abs(Estimate(samples).offset - theta) <= Estimate(samples).rtt + 1
    BY DEF OffsetWithinRtt
  <2>2. theta \in Int /\ samples \in Seq(SampleSet) /\ \A i \in DOMAIN samples : Sound(samples[i])
    BY <2>1, ClockAssumption DEF ClockInv, ClockTypeOK
  <2>3. QED
    BY <2>1, <2>2, EstimateIsClose
<1>2. QED
  BY <1>1, ClockInvariant, PTL

-----------------------------------------------------------------------------
(* ProgressExchange.                                                       *)

\* The phase ph of spawn n is behind p, or is where p is.
Reached(p, n, ph) ==
    \A i \in DOMAIN SpawnNames :
        SpawnNames[i] = n =>
            \/ i < spawn[p]
            \/ i = spawn[p] /\ PhaseRank[ph] <= PhaseRank[child[p]]

\* The done barrier: nobody is ahead by more than a spawn, and then waits.
InStep ==
    \A p, q \in Nodes :
        spawn[p] < spawn[q] =>
            spawn[q] = spawn[p] + 1 /\ child[p] = "exited" /\ child[q] = "none"

\* What is on its way, what has arrived, and what the tracker says.
NothingAhead ==
    /\ \A p \in Nodes : child[p] \in InProgress =>
            PhaseRank[told[p].phase] <= PhaseRank[child[p]]
    /\ \A p \in Nodes : child[p] \notin InProgress => told[p] = Untold
    /\ \A p, q \in Nodes : \A k \in 1..Len(wire[p][q]) :
            Reached(p, wire[p][q][k].spawn, wire[p][q][k].phase)
    /\ \A q, p \in Nodes, n \in Names : view[q][p][n] # "none" =>
            Reached(p, n, view[q][p][n])

AgreedInProgress == \A r \in Nodes : agreed[r] => child[r] \in InProgress

ExchangeInv ==
    /\ ExchangeTypeOK /\ InStep /\ NothingAhead /\ AgreedInProgress /\ AgreementIsTrue

LEMMA Ranks ==
    /\ ChildPhases = {"none", "stabilize", "operate", "silent", "digest", "done", "exited"}
    /\ DOMAIN Following = {"stabilize", "operate", "silent", "digest"}
    /\ PhaseRank["none"] = 0 /\ PhaseRank["stabilize"] = 1 /\ PhaseRank["operate"] = 2
    /\ PhaseRank["silent"] = 3 /\ PhaseRank["digest"] = 4 /\ PhaseRank["done"] = 5
    /\ PhaseRank["exited"] = 6
    /\ Following["stabilize"] = "operate" /\ Following["operate"] = "silent"
    /\ Following["silent"] = "digest" /\ Following["digest"] = "done"
BY DEF ChildPhases, PhaseRank, Following


LEMMA RankType ==
    /\ \A ph \in ChildPhases : PhaseRank[ph] \in Int
    /\ InProgress \subseteq ChildPhases
    /\ \A ph \in ChildPhases : ph \in InProgress <=> PhaseRank[ph] \in 1..5
    /\ \A ph \in DOMAIN Following :
            Following[ph] \in InProgress /\ PhaseRank[Following[ph]] = PhaseRank[ph] + 1
BY Ranks DEF InProgress

LEMMA SpawnType ==
    ASSUME ExchangeTypeOK, NEW p \in Nodes
    PROVE  spawn[p] \in Int /\ spawn[p] \in DOMAIN SpawnNames /\ NameOf(p) \in Names
BY ExchangeAssumption DEF ExchangeTypeOK, NameOf, Names

LEMMA ViewType ==
    ASSUME ExchangeTypeOK, NEW p \in Nodes, NEW q \in Nodes
    PROVE  /\ \A n \in Names : view[q][p][n] \in ChildPhases
           /\ wire[p][q] \in Seq(Frames)
           /\ told[p].phase \in InProgress /\ child[p] \in ChildPhases
BY DEF ExchangeTypeOK

\* A child that goes on leaves nothing that was behind it ahead of it.
LEMMA ReachedStays ==
    ASSUME NEW p \in Nodes, NEW n, NEW ph \in ChildPhases, Reached(p, n, ph),
           spawn[p] \in Int, child[p] \in ChildPhases, child'[p] \in ChildPhases,
           \/ spawn'[p] = spawn[p] /\ PhaseRank[child[p]] <= PhaseRank[child'[p]]
           \/ spawn'[p] = spawn[p] + 1
    PROVE  Reached(p, n, ph)'
<1>1. \A i \in DOMAIN SpawnNames : i \in Int
  BY ExchangeAssumption
<1>2. PhaseRank[ph] \in Int /\ PhaseRank[child[p]] \in Int /\ PhaseRank[child'[p]] \in Int
  BY RankType
<1>3. QED
  BY <1>1, <1>2 DEF Reached

\* Steps of a child that leave the connections alone.
LEMMA ChildGoesOn ==
    ASSUME ExchangeInv, NEW r \in Nodes, ExchangeTypeOK', InStep', AgreedInProgress',
           \A p \in Nodes \ {r} : child'[p] = child[p] /\ told'[p] = told[p],
           \A p \in Nodes : agreed'[p] => agreed[p],
           \/ spawn' = spawn /\ PhaseRank[child[r]] <= PhaseRank[child'[r]]
           \/ /\ spawn'[r] = spawn[r] + 1 /\ \A p \in Nodes \ {r} : spawn'[p] = spawn[p]
              /\ \A q \in Nodes : spawn[q] = spawn[r] => ~agreed[q],
           child'[r] \in InProgress => PhaseRank[told'[r].phase] <= PhaseRank[child'[r]],
           child'[r] \notin InProgress => told'[r] = Untold,
           UNCHANGED linkVars
    PROVE  ExchangeInv'
<1>1. ExchangeTypeOK /\ InStep /\ NothingAhead /\ AgreementIsTrue
  BY DEF ExchangeInv
<1>2. UNCHANGED <<wire, view>>
  BY DEF linkVars
<1>3. \A p \in Nodes : /\ spawn[p] \in Int /\ child[p] \in ChildPhases /\ child'[p] \in ChildPhases
                       /\ PhaseRank[child[p]] \in Int /\ PhaseRank[child'[p]] \in Int
  BY <1>1, SpawnType, RankType DEF ExchangeTypeOK
<1>4. \A p \in Nodes : \/ spawn'[p] = spawn[p] /\ PhaseRank[child[p]] <= PhaseRank[child'[p]]
                       \/ spawn'[p] = spawn[p] + 1
  BY <1>3
<1>5. ASSUME NEW p \in Nodes, NEW q \in Nodes, NEW k \in 1..Len(wire[p][q])
      PROVE  Reached(p, wire[p][q][k].spawn, wire[p][q][k].phase)'
  <2>1. wire[p][q][k] \in Frames
    BY <1>1, ViewType
  <2>2. wire[p][q][k].phase \in ChildPhases
    BY <2>1, RankType DEF Frames
  <2>3. Reached(p, wire[p][q][k].spawn, wire[p][q][k].phase)
    BY <1>1 DEF NothingAhead
  <2>4. QED
    BY <1>2, <1>3, <1>4, <2>2, <2>3, ReachedStays
<1>6. ASSUME NEW q \in Nodes, NEW p \in Nodes, NEW n \in Names, view[q][p][n] # "none"
      PROVE  Reached(p, n, view[q][p][n])'
  <2>1. view[q][p][n] \in ChildPhases
    BY <1>1, ViewType
  <2>2. Reached(p, n, view[q][p][n])
    BY <1>1, <1>6 DEF NothingAhead
  <2>3. QED
    BY <1>2, <1>3, <1>4, <2>1, <2>2, ReachedStays
<1>7. NothingAhead'
  <2>1. \A p \in Nodes : child'[p] \in InProgress => PhaseRank[told'[p].phase] <= PhaseRank[child'[p]]
    BY <1>1 DEF NothingAhead
  <2>2. \A p \in Nodes : child'[p] \notin InProgress => told'[p] = Untold
    BY <1>1 DEF NothingAhead
  <2>3. Untold' = Untold
    BY DEF Untold
  <2>4. QED
    BY <1>2, <1>5, <1>6, <2>1, <2>2, <2>3 DEF NothingAhead
<1>8. AgreementIsTrue'
  <2> SUFFICES ASSUME NEW q \in Nodes, agreed'[q], NEW p \in Nodes \ {q}
               PROVE  spawn'[p] = spawn'[q] /\ PhaseRank[child'[p]] > PhaseRank["operate"]
    BY DEF AgreementIsTrue
  <2>1. agreed[q] /\ spawn[p] = spawn[q] /\ PhaseRank[child[p]] > PhaseRank["operate"]
    BY <1>1 DEF AgreementIsTrue
  <2>2. spawn'[p] = spawn[p] /\ spawn'[q] = spawn[q]
    BY <2>1
  <2>3. PhaseRank[child[p]] <= PhaseRank[child'[p]]
    BY <1>3, <1>4, <2>2
  <2>4. QED
    BY <1>3, <2>1, <2>2, <2>3, Ranks
<1>9. QED
  BY <1>7, <1>8 DEF ExchangeInv

LEMMA LaunchGoesOn == ASSUME ExchangeInv, NEW r \in Nodes, Launch(r) PROVE ExchangeInv'
<1>1. ExchangeTypeOK /\ InStep /\ NothingAhead /\ AgreementIsTrue /\ AgreedInProgress
  BY DEF ExchangeInv
<1>2. /\ child[r] = "none" /\ child'[r] = "stabilize"
      /\ \A q \in Nodes : spawn[q] = spawn[r]
      /\ \A p \in Nodes \ {r} : child'[p] = child[p]
      /\ UNCHANGED <<spawn, still, told, linkVars, agreed>>
  BY <1>1 DEF Launch, ExchangeTypeOK
<1>3. ExchangeTypeOK'
  BY <1>1, Ranks DEF Launch, ExchangeTypeOK, linkVars
<1>4. \A q \in Nodes : spawn[q] \in Int
  BY <1>1, SpawnType
<1>5. InStep'
  BY <1>2, <1>4 DEF InStep
<1>6. told[r] = Untold
  BY <1>1, <1>2 DEF NothingAhead, InProgress
<1>7. AgreedInProgress'
  BY <1>1, <1>2 DEF AgreedInProgress, InProgress
<1>8. PhaseRank[told'[r].phase] <= PhaseRank[child'[r]] /\ child'[r] \in InProgress
      /\ PhaseRank[child[r]] <= PhaseRank[child'[r]]
  BY <1>2, <1>6, Ranks DEF Untold, InProgress
<1>9. QED
  BY <1>2, <1>3, <1>5, <1>7, <1>8, ChildGoesOn

LEMMA NextPhaseGoesOn == ASSUME ExchangeInv, NEW r \in Nodes, NextPhase(r) PROVE ExchangeInv'
<1>1. ExchangeTypeOK /\ InStep /\ NothingAhead /\ AgreementIsTrue /\ AgreedInProgress
  BY DEF ExchangeInv
<1>2. /\ child[r] \in DOMAIN Following /\ child'[r] = Following[child[r]]
      /\ \A p \in Nodes \ {r} : child'[p] = child[p]
      /\ UNCHANGED <<spawn, told, linkVars, agreed>>
  BY <1>1 DEF NextPhase, ExchangeTypeOK
<1>3. /\ child[r] \in InProgress /\ child'[r] \in InProgress
      /\ PhaseRank[child'[r]] = PhaseRank[child[r]] + 1 /\ PhaseRank[child[r]] \in Int
      /\ child'[r] \in ChildPhases /\ child[r] \notin {"none", "exited"}
  BY <1>2, RankType, Ranks DEF InProgress
<1>4. ExchangeTypeOK'
  BY <1>1, <1>2, <1>3 DEF NextPhase, ExchangeTypeOK, linkVars
<1>5. InStep'
  BY <1>1, <1>2, <1>3 DEF InStep
<1>6. AgreedInProgress'
  BY <1>1, <1>2, <1>3 DEF AgreedInProgress
<1>7. PhaseRank[told[r].phase] <= PhaseRank[child[r]] /\ PhaseRank[told[r].phase] \in Int
  BY <1>1, <1>3, RankType, ViewType DEF NothingAhead
<1>8. QED
  BY <1>2, <1>3, <1>4, <1>5, <1>6, <1>7, ChildGoesOn

LEMMA ChildEndsGoesOn == ASSUME ExchangeInv, NEW r \in Nodes, ChildEnds(r) PROVE ExchangeInv'
<1>1. ExchangeTypeOK /\ InStep /\ NothingAhead /\ AgreementIsTrue /\ AgreedInProgress
  BY DEF ExchangeInv
<1>2. /\ child[r] \in InProgress /\ child'[r] = "exited" /\ told'[r] = Untold /\ ~agreed'[r]
      /\ \A p \in Nodes \ {r} : child'[p] = child[p] /\ told'[p] = told[p] /\ agreed'[p] = agreed[p]
      /\ UNCHANGED <<spawn, linkVars>>
  BY <1>1 DEF ChildEnds, ExchangeTypeOK
<1>3. /\ child[r] \notin {"none", "exited"} /\ child'[r] \notin InProgress
      /\ PhaseRank[child[r]] <= PhaseRank[child'[r]]
  BY <1>1, <1>2, RankType, Ranks DEF InProgress
<1>4. ExchangeTypeOK'
  BY <1>1, <1>2, Ranks DEF ChildEnds, ExchangeTypeOK, linkVars, Untold, InProgress
<1>5. InStep'
  BY <1>1, <1>2, <1>3 DEF InStep
<1>6. AgreedInProgress'
  BY <1>1, <1>2 DEF AgreedInProgress
<1>7. QED
  BY <1>2, <1>3, <1>4, <1>5, <1>6, ChildGoesOn

LEMMA NextSpawnGoesOn == ASSUME ExchangeInv, NEW r \in Nodes, NextSpawn(r) PROVE ExchangeInv'
<1>1. ExchangeTypeOK /\ InStep /\ NothingAhead /\ AgreementIsTrue /\ AgreedInProgress
  BY DEF ExchangeInv
<1>2. /\ child[r] = "exited" /\ child'[r] = "none"
      /\ spawn[r] < Len(SpawnNames) /\ spawn'[r] = spawn[r] + 1
      /\ \A q \in Nodes : spawn[q] > spawn[r] \/ child[q] = "exited"
      /\ \A p \in Nodes \ {r} : child'[p] = child[p] /\ spawn'[p] = spawn[p]
      /\ UNCHANGED <<still, told, linkVars, agreed>>
  BY <1>1 DEF NextSpawn, ExchangeTypeOK
<1>3. "exited" \notin InProgress /\ "none" \notin InProgress
  BY DEF InProgress
<1>4. \A p \in Nodes : spawn[p] \in Int
  BY <1>1, SpawnType
<1>5. ExchangeTypeOK'
  <2>1. spawn[r] + 1 \in DOMAIN SpawnNames
    BY <1>1, <1>2, ExchangeAssumption DEF ExchangeTypeOK
  <2>2. QED
    BY <1>1, <2>1, Ranks DEF NextSpawn, ExchangeTypeOK, linkVars
<1>6. InStep'
  <2> SUFFICES ASSUME NEW p \in Nodes, NEW q \in Nodes, spawn'[p] < spawn'[q]
               PROVE  spawn'[q] = spawn'[p] + 1 /\ child'[p] = "exited" /\ child'[q] = "none"
    BY DEF InStep
  <2>1. CASE p = r
    BY <1>1, <1>2, <1>4, <2>1 DEF InStep
  <2>2. CASE p # r /\ q = r
    <3>1. spawn[p] <= spawn[r]
      BY <1>2, <1>4, <2>2
    <3>2. child[p] = "exited"
      BY <1>2, <1>4, <3>1
    <3>3. ~(spawn[p] < spawn[r])
      BY <1>1, <1>2 DEF InStep
    <3>4. QED
      BY <1>2, <1>4, <2>2, <3>1, <3>2, <3>3
  <2>3. CASE p # r /\ q # r
    BY <1>1, <1>2, <2>3 DEF InStep
  <2>4. QED
    BY <2>1, <2>2, <2>3
<1>7. \A q \in Nodes : spawn[q] = spawn[r] => ~agreed[q]
  BY <1>1, <1>2, <1>3, <1>4 DEF AgreedInProgress
<1>8. AgreedInProgress'
  BY <1>1, <1>2, <1>3, <1>7 DEF AgreedInProgress
<1>9. told'[r] = Untold
  BY <1>1, <1>2, <1>3 DEF NothingAhead
<1>10. QED
  BY <1>2, <1>3, <1>5, <1>6, <1>7, <1>8, <1>9, ChildGoesOn

\* Steps that leave the children and what their runners conclude alone.
LEMMA LinkStepKeeps ==
    ASSUME ExchangeInv, ExchangeTypeOK',
           \A p \in Nodes : child[p] \in InProgress =>
                PhaseRank[told'[p].phase] <= PhaseRank[child[p]],
           \A p \in Nodes : child[p] \notin InProgress => told'[p] = told[p],
           \A p, q \in Nodes : \A k \in 1..Len(wire'[p][q]) :
                Reached(p, wire'[p][q][k].spawn, wire'[p][q][k].phase),
           \A q, p \in Nodes, n \in Names : view'[q][p][n] # "none" =>
                Reached(p, n, view'[q][p][n]),
           UNCHANGED <<spawn, child, agreed>>
    PROVE  ExchangeInv'
<1>1. NothingAhead'
  BY DEF ExchangeInv, NothingAhead, Reached, Untold
<1>2. InStep' /\ AgreementIsTrue' /\ AgreedInProgress'
  BY DEF ExchangeInv, InStep, AgreementIsTrue, AgreedInProgress
<1>3. QED
  BY <1>1, <1>2 DEF ExchangeInv

LEMMA TrackerKeeps ==
    ASSUME ExchangeInv, NEW r \in Nodes, StandStill(r) \/ Tell(r)
    PROVE  ExchangeInv'
<1>1. ExchangeTypeOK /\ NothingAhead
  BY DEF ExchangeInv
<1>2. ExchangeTypeOK'
  <2>1. CASE StandStill(r)
    <3>1. still' \in [Nodes -> BOOLEAN]
      BY <1>1, <2>1, Zenon DEF StandStill, ExchangeTypeOK
    <3>2. QED
      BY <1>1, <2>1, <3>1 DEF StandStill, ExchangeTypeOK, linkVars
  <2>2. CASE Tell(r)
    <3>1. [phase |-> child[r], still |-> still[r]] \in [phase : InProgress, still : BOOLEAN]
      BY <1>1, <2>2 DEF Tell, ExchangeTypeOK
    <3>2. QED
      BY <1>1, <2>2, <3>1 DEF Tell, ExchangeTypeOK, linkVars
  <2>3. QED
    BY <2>1, <2>2
<1>3. UNCHANGED <<spawn, child, agreed, wire, view>>
  BY DEF StandStill, Tell, linkVars
<1>4. ASSUME NEW p \in Nodes
      PROVE  /\ child[p] \in InProgress => PhaseRank[told'[p].phase] <= PhaseRank[child[p]]
             /\ child[p] \notin InProgress => told'[p] = told[p]
  <2>1. PhaseRank[child[p]] \in Int
    BY <1>1, ViewType, RankType
  <2>2. told'[p] = told[p] \/ (p = r /\ told'[p].phase = child[p] /\ child[r] \in InProgress)
    BY <1>1 DEF StandStill, Tell, ExchangeTypeOK
  <2>3. QED
    BY <1>1, <2>1, <2>2 DEF NothingAhead
<1>5. QED
  BY <1>1, <1>2, <1>3, <1>4, LinkStepKeeps DEF NothingAhead

LEMMA PublishKeeps ==
    ASSUME ExchangeInv, NEW r \in Nodes, Publish(r)
    PROVE  ExchangeInv'
<1>1. ExchangeTypeOK /\ NothingAhead /\ InStep
  BY DEF ExchangeInv
<1>2. child[r] \in InProgress /\ UNCHANGED <<spawn, child, still, told, writers, place, view, agreed>>
  BY DEF Publish
<1>3. told[r].phase \in InProgress /\ NameOf(r) \in Names
  BY <1>1, ViewType, SpawnType
<1> DEFINE f == [spawn |-> NameOf(r), phase |-> told[r].phase]
<1>4. f \in Frames
  BY <1>3 DEF Frames
<1>5. \A p, q \in Nodes : wire[p][q] \in Seq(Frames)
  BY <1>1, ViewType
<1>6. \A p, q \in Nodes : wire'[p][q] = wire[p][q] \/ (p = r /\ wire'[p][q] = Append(wire[p][q], f))
  BY <1>1 DEF Publish, ExchangeTypeOK
<1>7. wire' \in [Nodes -> [Nodes -> Seq(Frames)]]
  <2>1. \A q \in Nodes : Append(wire[r][q], f) \in Seq(Frames)
    BY <1>4, <1>5
  <2>2. QED
    BY <1>1, <1>5, <2>1 DEF Publish, ExchangeTypeOK
<1>8. ExchangeTypeOK'
  BY <1>1, <1>2, <1>7 DEF ExchangeTypeOK
<1>9. Reached(r, f.spawn, f.phase)
  <2>1. PhaseRank[told[r].phase] <= PhaseRank[child[r]]
    BY <1>1, <1>2 DEF NothingAhead
  <2>2. \A i \in DOMAIN SpawnNames : SpawnNames[i] = NameOf(r) => i = spawn[r]
    BY <1>1, ExchangeAssumption DEF NameOf, ExchangeTypeOK
  <2>3. QED
    BY <2>1, <2>2 DEF Reached
<1>10. ASSUME NEW p \in Nodes, NEW q \in Nodes, NEW k \in 1..Len(wire'[p][q])
       PROVE  Reached(p, wire'[p][q][k].spawn, wire'[p][q][k].phase)
  <2>1. CASE wire'[p][q] = wire[p][q]
    BY <1>1, <2>1 DEF NothingAhead
  <2>2. CASE p = r /\ wire'[p][q] = Append(wire[p][q], f)
    <3>1. \/ k \in 1..Len(wire[p][q]) /\ wire'[p][q][k] = wire[p][q][k]
          \/ wire'[p][q][k] = f
      BY <1>5, <2>2
    <3>2. QED
      BY <1>1, <1>9, <2>2, <3>1 DEF NothingAhead
  <2>3. QED
    BY <1>6, <2>1, <2>2
<1>11. QED
  BY <1>1, <1>2, <1>8, <1>10, LinkStepKeeps DEF NothingAhead

LEMMA ReaderKeeps ==
    ASSUME ExchangeInv, NEW q \in Nodes, NEW p \in Nodes,
           LoseWriter(q, p) \/ ReadFrame(q, p) \/ LosePlace(q, p) \/ Misread(q, p)
    PROVE  ExchangeInv'
<1>1. ExchangeTypeOK /\ NothingAhead
  BY DEF ExchangeInv
<1>2. UNCHANGED <<spawn, child, still, told, agreed>>
  BY DEF LoseWriter, ReadFrame, LosePlace, Misread
<1>3. /\ \A a, b \in Nodes : wire[a][b] \in Seq(Frames)
      /\ wire \in [Nodes -> [Nodes -> Seq(Frames)]]
      /\ view \in [Nodes -> [Nodes -> [Names -> ChildPhases]]]
      /\ place \in [Nodes -> [Nodes -> {"frame", "lost", "gone"}]]
      /\ writers \in [Nodes -> SUBSET Nodes]
  BY <1>1, ViewType DEF ExchangeTypeOK
<1>4. \/ wire' = wire
      \/ wire[p][q] # <<>> /\ wire' = [wire EXCEPT ![p][q] = Tail(wire[p][q])]
  BY DEF LoseWriter, ReadFrame, LosePlace, Misread
<1>5. /\ wire' \in [Nodes -> [Nodes -> Seq(Frames)]]
      /\ \A a, b \in Nodes :
            wire'[a][b] = wire[a][b] \/ (wire[a][b] # <<>> /\ wire'[a][b] = Tail(wire[a][b]))
  <2>1. wire[p][q] # <<>> => Tail(wire[p][q]) \in Seq(Frames)
    BY <1>3
  <2>2. CASE wire' = wire
    BY <1>3, <2>2
  <2>3. CASE wire[p][q] # <<>> /\ wire' = [wire EXCEPT ![p][q] = Tail(wire[p][q])]
    <3>1. /\ wire' \in [Nodes -> [Nodes -> Seq(Frames)]]
          /\ \A a, b \in Nodes :
                wire'[a][b] = IF a = p /\ b = q THEN Tail(wire[p][q]) ELSE wire[a][b]
      <4> DEFINE row == [wire[p] EXCEPT ![q] = Tail(wire[p][q])]
      <4>1. wire' = [wire EXCEPT ![p] = row]
        BY <2>3
      <4>2. wire[p] \in [Nodes -> Seq(Frames)]
        BY <1>3
      <4>3. /\ row \in [Nodes -> Seq(Frames)]
            /\ \A b \in Nodes : row[b] = IF b = q THEN Tail(wire[p][q]) ELSE wire[p][b]
        BY <2>1, <2>3, <4>2
      <4> HIDE DEF row
      <4>4. QED
        BY <1>3, <4>1, <4>3
    <3>2. QED
      BY <2>3, <3>1
  <2>4. QED
    BY <1>4, <2>2, <2>3
<1>6. ASSUME NEW a \in Nodes, NEW b \in Nodes, NEW k \in 1..Len(wire'[a][b])
      PROVE  Reached(a, wire'[a][b][k].spawn, wire'[a][b][k].phase)
  <2>1. \E m \in 1..Len(wire[a][b]) : wire'[a][b][k] = wire[a][b][m]
    <3>1. CASE wire'[a][b] = wire[a][b]
      BY <3>1
    <3>2. CASE wire[a][b] # <<>> /\ wire'[a][b] = Tail(wire[a][b])
      <4>1. k + 1 \in 1..Len(wire[a][b]) /\ wire'[a][b][k] = wire[a][b][k + 1]
        BY <1>3, <3>2
      <4>2. QED
        BY <4>1
    <3>3. QED
      BY <1>5, <3>1, <3>2
  <2>2. QED
    BY <1>1, <2>1 DEF NothingAhead
<1> DEFINE f == Head(wire[p][q])
<1>7. wire[p][q] # <<>> =>
        /\ f.spawn \in Names /\ f.phase \in ChildPhases
        /\ Reached(p, f.spawn, f.phase)
  <2>1. wire[p][q] # <<>> => f = wire[p][q][1] /\ 1 \in 1..Len(wire[p][q]) /\ f \in Frames
    BY <1>3
  <2>2. QED
    BY <1>1, <2>1, RankType DEF NothingAhead, Frames
<1>8. /\ view' \in [Nodes -> [Nodes -> [Names -> ChildPhases]]]
      /\ \A a, b \in Nodes, n \in Names :
            \/ view'[a][b][n] = view[a][b][n]
            \/ b = p /\ wire[p][q] # <<>> /\ n = f.spawn /\ view'[a][b][n] = f.phase
  <2>1. view' = view \/ (wire[p][q] # <<>> /\ view' = Heard(q, p, f))
    BY DEF LoseWriter, ReadFrame, LosePlace, Misread
  <2>2. CASE view' = view
    BY <1>3, <2>2
  <2>3. CASE wire[p][q] # <<>> /\ view' = Heard(q, p, f)
    <3>1. view' = [view EXCEPT ![q][p] = [view[q][p] EXCEPT ![f.spawn] = f.phase]]
      BY <1>3, <2>3 DEF Heard
    <3>2. view[q][p] \in [Names -> ChildPhases]
      BY <1>3
    <3>3. [view[q][p] EXCEPT ![f.spawn] = f.phase] \in [Names -> ChildPhases]
      BY <1>7, <2>3, <3>2
    <3>4. /\ view' \in [Nodes -> [Nodes -> [Names -> ChildPhases]]]
          /\ \A a, b \in Nodes : view'[a][b] = IF a = q /\ b = p
                THEN [view[q][p] EXCEPT ![f.spawn] = f.phase] ELSE view[a][b]
      <4> DEFINE row == [view[q] EXCEPT ![p] = [view[q][p] EXCEPT ![f.spawn] = f.phase]]
      <4>1. view' = [view EXCEPT ![q] = row]
        BY <3>1
      <4>2. view[q] \in [Nodes -> [Names -> ChildPhases]]
        BY <1>3
      <4>3. /\ row \in [Nodes -> [Names -> ChildPhases]]
            /\ \A b \in Nodes : row[b] = IF b = p
                  THEN [view[q][p] EXCEPT ![f.spawn] = f.phase] ELSE view[q][b]
        BY <3>3, <4>2
      <4> HIDE DEF row
      <4>4. QED
        BY <1>3, <4>1, <4>3
    <3>5. QED
      BY <1>7, <2>3, <3>2, <3>4
  <2>4. QED
    BY <2>1, <2>2, <2>3
<1>9. writers' \in [Nodes -> SUBSET Nodes]
  <2>1. writers' = writers \/ writers' = [writers EXCEPT ![q] = writers[q] \ {p}]
    BY DEF LoseWriter, ReadFrame, LosePlace, Misread
  <2>2. writers[q] \ {p} \in SUBSET Nodes
    BY <1>3
  <2>3. QED
    BY <1>3, <2>1, <2>2
<1>10. place' \in [Nodes -> [Nodes -> {"frame", "lost", "gone"}]]
  <2>1. \E w \in {"frame", "lost", "gone"} : place' \in {place, [place EXCEPT ![q][p] = w]}
    BY DEF LoseWriter, ReadFrame, LosePlace, Misread
  <2>2. PICK w \in {"frame", "lost", "gone"} : place' \in {place, [place EXCEPT ![q][p] = w]}
    BY <2>1
  <2> DEFINE row == [place[q] EXCEPT ![p] = w]
  <2>3. place[q] \in [Nodes -> {"frame", "lost", "gone"}]
    BY <1>3
  <2>4. row \in [Nodes -> {"frame", "lost", "gone"}]
    BY <2>2, <2>3
  <2>5. place' = place \/ place' = [place EXCEPT ![q] = row]
    BY <2>2
  <2> HIDE DEF row
  <2>6. QED
    BY <1>3, <2>4, <2>5
<1>11. ExchangeTypeOK'
  BY <1>1, <1>2, <1>5, <1>8, <1>9, <1>10 DEF ExchangeTypeOK
<1>12. ASSUME NEW a \in Nodes, NEW b \in Nodes, NEW n \in Names, view'[a][b][n] # "none"
       PROVE  Reached(b, n, view'[a][b][n])
  <2>1. CASE view'[a][b][n] = view[a][b][n]
    BY <1>1, <1>12, <2>1 DEF NothingAhead
  <2>2. CASE b = p /\ wire[p][q] # <<>> /\ n = f.spawn /\ view'[a][b][n] = f.phase
    BY <1>7, <2>2
  <2>3. QED
    BY <1>8, <2>1, <2>2
<1>13. QED
  BY <1>1, <1>2, <1>6, <1>11, <1>12, LinkStepKeeps DEF NothingAhead

LEMMA EvaluateKeeps == ASSUME ExchangeInv, NEW r \in Nodes, Evaluate(r) PROVE ExchangeInv'
<1>1. ExchangeTypeOK /\ NothingAhead /\ InStep /\ AgreementIsTrue /\ AgreedInProgress
  BY DEF ExchangeInv
<1>2. /\ child[r] \in InProgress /\ OperateIdle(r)
      /\ \A q \in Nodes \ {r} : agreed'[q] = agreed[q]
      /\ UNCHANGED <<spawn, child, still, told, wire, writers, place, view>>
  BY <1>1 DEF Evaluate, ExchangeTypeOK, linkVars
<1>3. ExchangeTypeOK'
  BY <1>1 DEF Evaluate, ExchangeTypeOK, linkVars
<1>4. NothingAhead' /\ InStep' /\ AgreedInProgress'
  BY <1>1, <1>2 DEF NothingAhead, InStep, AgreedInProgress, Reached, Untold
<1>5. ASSUME NEW p \in Nodes \ {r}
      PROVE  spawn[p] = spawn[r] /\ PhaseRank[child[p]] > PhaseRank["operate"]
  <2>1. view[r][p][NameOf(r)] \in {"silent", "done"}
    BY <1>2 DEF OperateIdle, SnapshotFor, PostOperate
  <2>2. Reached(p, NameOf(r), view[r][p][NameOf(r)])
    BY <1>1, <2>1, SpawnType DEF NothingAhead
  <2>3. spawn[r] < spawn[p] \/ (spawn[r] = spawn[p] /\ PhaseRank[view[r][p][NameOf(r)]] <= PhaseRank[child[p]])
    BY <1>1, <2>2, SpawnType DEF Reached, NameOf
  <2>4. ~(spawn[r] < spawn[p])
    BY <1>1, <1>2 DEF InStep, InProgress
  <2>5. PhaseRank[child[p]] \in Int
    BY <1>1, RankType, ViewType
  <2>6. QED
    BY <2>1, <2>3, <2>4, <2>5, Ranks
<1>6. AgreementIsTrue'
  BY <1>1, <1>2, <1>5 DEF AgreementIsTrue
<1>7. QED
  BY <1>3, <1>4, <1>6 DEF ExchangeInv

LEMMA ExchangeInvInit == ExchangeInit => ExchangeInv
<1> SUFFICES ASSUME ExchangeInit PROVE ExchangeInv
  OBVIOUS
<1>1. 1 \in DOMAIN SpawnNames
  BY ExchangeAssumption
<1>2. ExchangeTypeOK
  BY <1>1, Ranks DEF ExchangeInit, ExchangeTypeOK, Untold, InProgress
<1>3. InStep /\ AgreementIsTrue /\ AgreedInProgress
  BY DEF ExchangeInit, InStep, AgreementIsTrue, AgreedInProgress
<1>4. NothingAhead
  BY DEF ExchangeInit, NothingAhead, InProgress
<1>5. QED
  BY <1>2, <1>3, <1>4 DEF ExchangeInv

LEMMA ExchangeStepKeeps ==
    ASSUME ExchangeInv, [ExchangeNext]_exchangeVars
    PROVE  ExchangeInv'
<1>1. CASE UNCHANGED exchangeVars
  BY <1>1 DEF exchangeVars, ExchangeInv, ExchangeTypeOK, InStep, NothingAhead, Reached, Untold,
              AgreedInProgress, AgreementIsTrue
<1>2. ASSUME NEW r \in Nodes, Launch(r) \/ NextPhase(r) \/ ChildEnds(r) \/ NextSpawn(r)
      PROVE  ExchangeInv'
  BY <1>2, LaunchGoesOn, NextPhaseGoesOn, ChildEndsGoesOn, NextSpawnGoesOn
<1>3. ASSUME NEW r \in Nodes, StandStill(r) \/ Tell(r) \/ Publish(r) \/ Evaluate(r)
      PROVE  ExchangeInv'
  BY <1>3, TrackerKeeps, PublishKeeps, EvaluateKeeps
<1>4. ASSUME NEW q \in Nodes, NEW p \in Nodes,
             LoseWriter(q, p) \/ ReadFrame(q, p) \/ LosePlace(q, p) \/ Misread(q, p)
      PROVE  ExchangeInv'
  BY <1>4, ReaderKeeps
<1>5. QED
  BY <1>1, <1>2, <1>3, <1>4 DEF ExchangeNext

(* What a runner hears of a peer's child, that child has behind it or is at, in
   every reachable state: frames that were lost, half-read or left over from an
   earlier spawn never tell more than what is true. *)
THEOREM ExchangeInvariant == ExchangeSpec => []ExchangeInv
<1>1. ExchangeInv /\ [ExchangeNext]_exchangeVars => ExchangeInv'
  BY ExchangeStepKeeps
<1>2. QED
  BY ExchangeInvInit, <1>1, PTL DEF ExchangeSpec

(* A runner that announces that a spawn is idle everywhere is right about its
   peers. *)
THEOREM AgreementsAreTrue == ExchangeSpec => []AgreementIsTrue
<1>1. ExchangeInv => AgreementIsTrue
  BY DEF ExchangeInv
<1>2. QED
  BY ExchangeInvariant, <1>1, PTL

-----------------------------------------------------------------------------
(* ChildMonitor.                                                           *)

\* The watchdog is slower than the idle detector, as it is with the default
\* values of the two (5 s and 30 s, cli.rs).
Tuned == IdleSecs > 0 /\ WatchdogSecs > IdleSecs + 1

\* The life of the process: its phases, its files and its exit code.
ChildLife ==
    /\ at # "done" /\ (at = "exited" <=> code # Running)
    /\ code # Running => "emitter" \notin due /\ "watchdog" \notin due
    /\ at = "ending" /\ progress.phase # "done" => "watchdog" \notin due
    /\ at \in {"connect", "stabilize", "operate", "silent", "digest"} => progress.phase = at
    /\ at = "blocked" => progress.phase = "operate"
    /\ at \in {"silent", "digest"} => "eot" \in files
    /\ progress.phase = "done" => files = {"eot", "parquet"}
    /\ code = 0 => progress.phase = "done"
    /\ code = Killed => outcome = "timeout"

ChildOutcome ==
    /\ outcome = "none" <=> monitor \in {"polling", "running"}
    /\ outcome = "success" => code = 0
    /\ outcome = "failed" => code \in {1, 2}
    /\ outcome = "timeout" => elapsed >= SpawnLimit

\* No line tells more than what the child has counted; of a child that has
\* ended of itself the last one tells all of it.
ChildLines ==
    /\ tracker.sent <= progress.sent /\ tracker.received <= progress.received
    /\ \A k \in 1..Len(pipe) :
            pipe[k].sent <= progress.sent /\ pipe[k].received <= progress.received
    /\ code \in {0, 1} => IF pipe = <<>> THEN tracker = progress ELSE pipe[Len(pipe)] = progress
    /\ monitor = "joined" => pipe = <<>> /\ code # Running

\* The idle detector is as old as the silence it measures.
Detector ==
    /\ at \in {"connect", "stabilize"} => progress.sent = 0 /\ progress.received = 0
    /\ at \in {"operate", "blocked"} =>
            /\ idle.sent = progress.sent /\ idle.received = progress.received
            /\ idle.sentAge = quiet.sent /\ idle.receivedAge = quiet.received

DogSeesAll == dog.sent = progress.sent /\ dog.received = progress.received

\* The watchdog is at most a second ahead of the idle detector, and at most one
\* behind a driver that has been blocked.
DogAge ==
    /\ dog.sent <= progress.sent /\ dog.received <= progress.received
    /\ at \in {"connect", "stabilize"} => dog.age <= (IF "watchdog" \in due THEN 1 ELSE 0)
    /\ at \in {"operate", "blocked"} /\ DogSeesAll =>
            dog.age <= idle.sentAge + 1 /\ dog.age <= idle.receivedAge + 1
    /\ at = "blocked" /\ DogSeesAll => stalled <= dog.age + 1
    /\ at = "blocked" /\ ~DogSeesAll => stalled = 0 \/ (stalled = 1 /\ "watchdog" \in due)
    /\ code = Running /\ at # "blocked" => stalled = 0

\* A driver that comes round is caught by the idle detector first.
DriverComesRound ==
    /\ at = "operate" \/ (at = "blocked" /\ stalled = 0) =>
            idle.sentAge <= IdleSecs \/ idle.receivedAge <= IdleSecs
    /\ at = "operate" /\ left > 0 /\ "driver" \notin due =>
            idle.sentAge < IdleSecs \/ idle.receivedAge < IdleSecs
    /\ code = 2 => stalled > 0

\* The watchdog does not miss its second.
DogOnTime ==
    /\ at \in {"operate", "blocked"} =>
            dog.age <= (IF "watchdog" \in due THEN WatchdogSecs ELSE WatchdogSecs - 1)
    /\ stalled <= WatchdogSecs + 1

ChildInv ==
    /\ ChildTypeOK /\ ChildLife /\ ChildOutcome /\ ChildLines /\ Detector /\ DogAge
    /\ Tuned => DriverComesRound
    /\ WatchdogSecs > 0 => DogOnTime

-----------------------------------------------------------------------------

\* The limit of a spawn is a number of seconds, and an age goes up to one more.
LEMMA AgesAreNumbers ==
    /\ SpawnLimit \in Nat /\ SpawnLimit <= SpawnTimeout
    /\ \A n \in Age : /\ n \in Nat /\ Later(n) \in Age
                      /\ Later(n) >= n /\ Later(n) <= n + 1 /\ (n <= SpawnLimit => Later(n) = n + 1)
    /\ \A m, n \in Age : m <= n => Later(m) <= Later(n)
    /\ \A m, n \in Age : m <= n + 1 => Later(m) <= Later(n) + 1
    /\ 0 \in Age
  BY ChildAssumption DEF SpawnLimit, Age, Later

\* The numbers in a typed state.
LEMMA StateOfNumbers ==
    ASSUME ChildTypeOK
    PROVE  /\ progress.sent \in Nat /\ progress.received \in Nat
           /\ idle.sent \in Nat /\ idle.received \in Nat
           /\ dog.sent \in Nat /\ dog.received \in Nat
           /\ tracker.sent \in Nat /\ tracker.received \in Nat
           /\ elapsed \in Nat /\ stalled \in Nat /\ left \in Nat
           /\ idle.sentAge \in Nat /\ idle.receivedAge \in Nat /\ dog.age \in Nat
           /\ quiet.sent \in Nat /\ quiet.received \in Nat
  <1>1. \A n \in Count : n \in Nat
    BY ChildAssumption DEF Count
  <1>2. QED
    BY <1>1, AgesAreNumbers DEF ChildTypeOK, Line

\* A second does not change how the ages of the watchdog, the idle detector and
\* the blocked driver compare.
LEMMA AgesGoTogether ==
    ASSUME ChildTypeOK
    PROVE  /\ Later(idle.sentAge) \in Nat /\ Later(idle.receivedAge) \in Nat
           /\ Later(dog.age) \in Nat /\ Later(stalled) \in Nat
           /\ Later(idle.sentAge) >= idle.sentAge /\ Later(idle.sentAge) <= idle.sentAge + 1
           /\ Later(idle.receivedAge) >= idle.receivedAge
           /\ Later(idle.receivedAge) <= idle.receivedAge + 1
           /\ Later(dog.age) <= dog.age + 1
           /\ Later(stalled) >= 1 /\ Later(stalled) >= stalled /\ Later(stalled) <= stalled + 1
           /\ dog.age <= idle.sentAge + 1 => Later(dog.age) <= Later(idle.sentAge) + 1
           /\ dog.age <= idle.receivedAge + 1 => Later(dog.age) <= Later(idle.receivedAge) + 1
           /\ stalled <= dog.age + 1 => Later(stalled) <= Later(dog.age) + 1
  <1>1. idle.sentAge \in Age /\ idle.receivedAge \in Age /\ dog.age \in Age /\ stalled \in Age
    BY DEF ChildTypeOK
  <1>2. \A n \in Age : Later(n) \in Nat
    BY AgesAreNumbers
  <1>3. \A n \in Age : Later(n) >= n /\ Later(n) <= n + 1
    BY AgesAreNumbers
  <1>4. \A m, n \in Age : m <= n + 1 => Later(m) <= Later(n) + 1
    BY AgesAreNumbers
  <1>5. Later(stalled) >= 1
    BY <1>1, AgesAreNumbers DEF Age, Later
  <1>6. QED
    BY <1>1, <1>2, <1>3, <1>4, <1>5

\* What the actions of the driver make of the progress has the type of it.
LEMMA ProgressType ==
    ASSUME ChildTypeOK
    PROVE  /\ \A p \in Phases : [progress EXCEPT !.phase = p] \in Line
           /\ \A s, r \in 0..1 :
                progress.sent + s <= MaxCount /\ progress.received + r <= MaxCount =>
                    [progress EXCEPT !.sent = @ + s, !.received = @ + r] \in Line
           /\ progress.sent < MaxCount => [progress EXCEPT !.sent = @ + 1] \in Line
           /\ progress.received < MaxCount => [progress EXCEPT !.received = @ + 1] \in Line
  <1>1. progress \in [phase : Phases \union {"unknown"}, sent : 0..MaxCount, received : 0..MaxCount]
    BY DEF ChildTypeOK, Line, Count
  <1>2. \A s \in 0..1 : progress.sent + s <= MaxCount => progress.sent + s \in 0..MaxCount
    BY <1>1, ChildAssumption
  <1>3. \A r \in 0..1 : progress.received + r <= MaxCount => progress.received + r \in 0..MaxCount
    BY <1>1, ChildAssumption
  <1>4. /\ progress.sent < MaxCount => progress.sent + 1 \in 0..MaxCount
        /\ progress.received < MaxCount => progress.received + 1 \in 0..MaxCount
    BY <1>1, ChildAssumption
  <1>5. QED
    BY <1>1, <1>2, <1>3, <1>4 DEF Line, Count

LEMMA IdleType ==
    ASSUME ChildTypeOK, NEW snap \in Line
    PROVE  Observed(snap) \in [sent : Count, received : Count, sentAge : Age, receivedAge : Age]
  BY AgesAreNumbers DEF ChildTypeOK, Line, Observed

LEMMA DogType ==
    ASSUME ChildTypeOK
    PROVE  DogSees \in [sent : Count, received : Count, age : Age]
  BY AgesAreNumbers DEF ChildTypeOK, Line, DogSees

LEMMA TrackerType ==
    ASSUME NEW t \in Line, NEW line \in Line
    PROVE  Applied(t, line) \in Line
  BY DEF Line, Applied, Higher

\* A second makes every age of a typed state one of the type again.
LEMMA TickType ==
    ASSUME ChildTypeOK
    PROVE  /\ [idle EXCEPT !.sentAge = Later(@), !.receivedAge = Later(@)] \in
                [sent : Count, received : Count, sentAge : Age, receivedAge : Age]
           /\ [dog EXCEPT !.age = Later(@)] \in [sent : Count, received : Count, age : Age]
           /\ [sent |-> Later(quiet.sent), received |-> Later(quiet.received)] \in
                [sent : Age, received : Age]
           /\ Later(elapsed) \in Age /\ Later(stalled) \in Age
  <1>1. \A n \in Age : Later(n) \in Age
    BY AgesAreNumbers
  <1>2. QED
    BY <1>1 DEF ChildTypeOK

LEMMA TypeKept == ASSUME ChildTypeOK, ChildNext PROVE ChildTypeOK'
  <1> USE DEF ChildTypeOK
  <1>p. \A p \in Phases : p # "blocked" /\ [progress EXCEPT !.phase = p] \in Line
    BY ProgressType DEF Phases
  <1>1. CASE Connected
    BY <1>1, <1>p, ChildAssumption DEF Connected, Enter, Phases, runnerVars
  <1>2. CASE Stabilized
    <2>1. 0 \in Count /\ 0 \in Age /\ OperateSecs \in Nat
      BY ChildAssumption, AgesAreNumbers DEF Count
    <2>2. /\ idle' \in [sent : Count, received : Count, sentAge : Age, receivedAge : Age]
          /\ quiet' \in [sent : Age, received : Age]
      BY <1>2, <2>1 DEF Stabilized, Fresh
    <2>3. progress' \in Line
      BY <1>2, <1>p DEF Stabilized, Enter, Phases
    <2>4. QED
      BY <1>2, <2>1, <2>2, <2>3 DEF Stabilized, Enter, Phases, runnerVars
  <1>3. CASE EndOperate
    BY <1>3, <1>p, ChildAssumption DEF EndOperate, Enter, Phases, runnerVars
  <1>4. CASE SilentReceive
    BY <1>4, ProgressType DEF SilentReceive, runnerVars
  <1>5. CASE EndSilent
    BY <1>5, <1>p DEF EndSilent, Enter, Phases, runnerVars
  <1>6. ASSUME NEW s \in 0..1, NEW r \in 0..1, Iterate(s, r)
        PROVE  ChildTypeOK'
    <2>1. progress' \in Line
      BY <1>6, ProgressType DEF Iterate
    <2>2. idle' \in [sent : Count, received : Count, sentAge : Age, receivedAge : Age]
      BY <1>6, <2>1, IdleType DEF Iterate
    <2>3. quiet' \in [sent : Age, received : Age]
      BY <1>6, AgesAreNumbers DEF Iterate
    <2>4. left' \in Nat /\ idleExit' \in BOOLEAN
      BY <1>6 DEF Iterate, IsIdle
    <2>5. QED
      BY <1>6, <2>1, <2>2, <2>3, <2>4 DEF Iterate, runnerVars
  <1>7. CASE Block
    BY <1>7, AgesAreNumbers DEF Block, runnerVars
  <1>8. CASE Unblock
    <2>1. progress' \in Line
      BY <1>8, ProgressType DEF Unblock
    <2>2. idle' \in [sent : Count, received : Count, sentAge : Age, receivedAge : Age]
      BY <1>8, <2>1, IdleType DEF Unblock
    <2>3. QED
      BY <1>8, <2>1, <2>2, AgesAreNumbers DEF Unblock, runnerVars, Phases
  <1>9. CASE Finish
    BY <1>9, <1>p DEF Finish, Phases, runnerVars
  <1>10. CASE Fail
    BY <1>10 DEF Fail, runnerVars
  <1>11. CASE Exit
    BY <1>11 DEF Exit, EmitterStopped, runnerVars
  <1>12. CASE Emit
    BY <1>12 DEF Emit, driverVars, runnerVars
  <1>13. CASE Watch
    BY <1>13, DogType DEF Watch, driverVars, runnerVars
  <1>14. CASE WatchdogExit
    BY <1>14, DogType DEF WatchdogExit, runnerVars
  <1>15. CASE SeeExit
    BY <1>15 DEF SeeExit, OutcomeOf, driverVars
  <1>16. CASE SeeRunning \/ KeepPolling \/ Join
    BY <1>16 DEF SeeRunning, KeepPolling, Join, driverVars
  <1>17. CASE Kill
    BY <1>17 DEF Kill
  <1>18. CASE ReadLine
    <2>1. Head(pipe) \in Line /\ Tail(pipe) \in Seq(Line)
      BY <1>18 DEF ReadLine
    <2>2. tracker' \in Line
      BY <1>18, <2>1, TrackerType DEF ReadLine
    <2>3. QED
      BY <1>18, <2>1, <2>2 DEF ReadLine, driverVars
  <1>19. CASE ChildTick
    <2>1. left' \in Nat /\ due' \subseteq {"driver", "emitter", "watchdog", "runner"}
      BY <1>19 DEF ChildTick, TasksOf
    <2>2. /\ idle' \in [sent : Count, received : Count, sentAge : Age, receivedAge : Age]
          /\ dog' \in [sent : Count, received : Count, age : Age]
          /\ quiet' \in [sent : Age, received : Age]
          /\ elapsed' \in Age /\ stalled' \in Age
      BY <1>19, TickType DEF ChildTick
    <2>3. QED
      BY <1>19, <2>1, <2>2 DEF ChildTick
  <1>20. CASE Over
    BY <1>20 DEF Over, childVars
  <1>21. QED
    BY <1>1, <1>2, <1>3, <1>4, <1>5, <1>6, <1>7, <1>8, <1>9, <1>10, <1>11, <1>12, <1>13, <1>14,
       <1>15, <1>16, <1>17, <1>18, <1>19, <1>20
    DEF ChildNext, DriverStep, RunnerStep, ThreadStep

\* The driver goes through its phases once, writes its files on the way and
\* leaves the two helper threads nothing to do.
LEMMA LifeKept == ASSUME ChildInv, ChildNext PROVE ChildLife'
  <1> USE DEF ChildInv, ChildLife, ChildOutcome, Running, Killed
  <1>t. ChildTypeOK /\ ChildTypeOK'
    BY TypeKept DEF ChildInv
  <1>p. /\ progress \in [phase : Phases \union {"unknown"}, sent : Count, received : Count]
        /\ files \subseteq {"eot", "parquet"}
    BY <1>t DEF ChildTypeOK, Line
  <1>1. CASE Connected
    BY <1>1, <1>p DEF Connected, Enter, runnerVars
  <1>2. CASE Stabilized
    BY <1>2, <1>p DEF Stabilized, Enter, runnerVars
  <1>3. CASE EndOperate
    BY <1>3, <1>p DEF EndOperate, Enter, runnerVars
  <1>4. CASE SilentReceive
    BY <1>4, <1>p DEF SilentReceive, runnerVars
  <1>5. CASE EndSilent
    BY <1>5, <1>p DEF EndSilent, Enter, runnerVars
  <1>6. ASSUME NEW s \in 0..1, NEW r \in 0..1, Iterate(s, r) PROVE ChildLife'
    BY <1>6, <1>p DEF Iterate, runnerVars
  <1>7. CASE Block
    BY <1>7, <1>p DEF Block, runnerVars
  <1>8. CASE Unblock
    BY <1>8, <1>p DEF Unblock, runnerVars
  <1>9. CASE Finish
    BY <1>9, <1>p DEF Finish, runnerVars
  <1>10. CASE Fail
    BY <1>10, <1>p DEF Fail, runnerVars
  <1>11. CASE Exit
    BY <1>11, <1>p DEF Exit, EmitterStopped, runnerVars
  <1>12. CASE Emit
    BY <1>12, <1>p DEF Emit, driverVars, runnerVars
  <1>13. CASE Watch
    BY <1>13, <1>p DEF Watch, driverVars, runnerVars
  <1>14. CASE WatchdogExit
    BY <1>14, <1>p DEF WatchdogExit, runnerVars
  <1>15. CASE SeeExit
    BY <1>15, <1>p DEF SeeExit, OutcomeOf, driverVars
  <1>16. CASE SeeRunning \/ KeepPolling \/ Join
    BY <1>16, <1>p DEF SeeRunning, KeepPolling, Join, driverVars
  <1>17. CASE Kill
    BY <1>17, <1>p DEF Kill, driverVars
  <1>18. CASE ReadLine
    BY <1>18, <1>p DEF ReadLine, driverVars
  <1>19. CASE ChildTick
    BY <1>19, <1>p DEF ChildTick, TasksOf
  <1>20. CASE Over
    BY <1>20, <1>p DEF Over, childVars
  <1>21. QED
    BY <1>1, <1>2, <1>3, <1>4, <1>5, <1>6, <1>7, <1>8, <1>9, <1>10, <1>11, <1>12, <1>13, <1>14,
       <1>15, <1>16, <1>17, <1>18, <1>19, <1>20
    DEF ChildNext, DriverStep, RunnerStep, ThreadStep

\* An outcome is decided once, by an exit code or by the limit.
LEMMA OutcomeKept == ASSUME ChildInv, ChildNext PROVE ChildOutcome'
  <1> USE DEF ChildInv, ChildLife, ChildOutcome, Running, Killed
  <1>t. ChildTypeOK /\ ChildTypeOK'
    BY TypeKept DEF ChildInv
  <1>p. /\ code \in {Running, Killed, 0, 1, 2} /\ elapsed \in Age
        /\ monitor \in {"polling", "running", "joining", "joined"}
    BY <1>t DEF ChildTypeOK
  <1>q. /\ elapsed \in Nat /\ Later(elapsed) >= elapsed
        /\ SpawnLimit \in Nat /\ SpawnLimit <= SpawnTimeout /\ SpawnTimeout \in Nat
    BY <1>p, AgesAreNumbers, ChildAssumption
  <1>1. CASE Connected
    BY <1>1, <1>p, <1>q DEF Connected, runnerVars
  <1>2. CASE Stabilized
    BY <1>2, <1>p, <1>q DEF Stabilized, runnerVars
  <1>3. CASE EndOperate
    BY <1>3, <1>p, <1>q DEF EndOperate, runnerVars
  <1>4. CASE SilentReceive
    BY <1>4, <1>p, <1>q DEF SilentReceive, runnerVars
  <1>5. CASE EndSilent
    BY <1>5, <1>p, <1>q DEF EndSilent, runnerVars
  <1>6. ASSUME NEW s \in 0..1, NEW r \in 0..1, Iterate(s, r) PROVE ChildOutcome'
    BY <1>6, <1>p, <1>q DEF Iterate, runnerVars
  <1>7. CASE Block
    BY <1>7, <1>p, <1>q DEF Block, runnerVars
  <1>8. CASE Unblock
    BY <1>8, <1>p, <1>q DEF Unblock, runnerVars
  <1>9. CASE Finish
    BY <1>9, <1>p, <1>q DEF Finish, runnerVars
  <1>10. CASE Fail
    BY <1>10, <1>p, <1>q DEF Fail, runnerVars
  <1>11. CASE Exit
    BY <1>11, <1>p, <1>q DEF Exit, runnerVars
  <1>12. CASE Emit
    BY <1>12, <1>p, <1>q DEF Emit, driverVars, runnerVars
  <1>13. CASE Watch
    BY <1>13, <1>p, <1>q DEF Watch, driverVars, runnerVars
  <1>14. CASE WatchdogExit
    BY <1>14, <1>p, <1>q DEF WatchdogExit, runnerVars
  <1>15. CASE SeeExit
    BY <1>15, <1>p, <1>q DEF SeeExit, OutcomeOf, driverVars
  <1>16. CASE SeeRunning \/ KeepPolling \/ Join
    BY <1>16, <1>p, <1>q DEF SeeRunning, KeepPolling, Join, driverVars
  <1>17. CASE Kill
    BY <1>17, <1>p, <1>q DEF Kill, PastLimit, driverVars
  <1>18. CASE ReadLine
    BY <1>18, <1>p, <1>q DEF ReadLine, driverVars
  <1>19. CASE ChildTick
    BY <1>19, <1>p, <1>q DEF ChildTick
  <1>20. CASE Over
    BY <1>20, <1>p, <1>q DEF Over, childVars
  <1>21. QED
    BY <1>1, <1>2, <1>3, <1>4, <1>5, <1>6, <1>7, <1>8, <1>9, <1>10, <1>11, <1>12, <1>13, <1>14,
       <1>15, <1>16, <1>17, <1>18, <1>19, <1>20
    DEF ChildNext, DriverStep, RunnerStep, ThreadStep

\* Whatever resets or ages the detector does the same to the silence.
LEMMA DetectorKept == ASSUME ChildInv, ChildNext PROVE Detector'
  <1> USE DEF ChildInv, ChildLife, Detector
  <1>t. ChildTypeOK /\ ChildTypeOK'
    BY TypeKept DEF ChildInv
  <1>p. /\ progress \in [phase : Phases \union {"unknown"}, sent : Count, received : Count]
        /\ idle \in [sent : Count, received : Count, sentAge : Age, receivedAge : Age]
    BY <1>t DEF ChildTypeOK, Line
  <1>q. progress.sent \in Nat /\ progress.received \in Nat
    BY <1>t, StateOfNumbers
  <1>1. CASE Connected
    BY <1>1, <1>p, <1>q DEF Connected, Enter, runnerVars
  <1>2. CASE Stabilized
    BY <1>2, <1>p, <1>q DEF Stabilized, Enter, Fresh, runnerVars
  <1>3. CASE EndOperate
    BY <1>3, <1>p, <1>q DEF EndOperate, Enter, runnerVars
  <1>4. CASE SilentReceive
    BY <1>4, <1>p, <1>q DEF SilentReceive, runnerVars
  <1>5. CASE EndSilent
    BY <1>5, <1>p, <1>q DEF EndSilent, Enter, runnerVars
  <1>6. ASSUME NEW s \in 0..1, NEW r \in 0..1, Iterate(s, r) PROVE Detector'
    BY <1>6, <1>p, <1>q DEF Iterate, Observed, runnerVars
  <1>7. CASE Block
    BY <1>7, <1>p, <1>q DEF Block, runnerVars
  <1>8. CASE Unblock
    BY <1>8, <1>p, <1>q DEF Unblock, Observed, runnerVars
  <1>9. CASE Finish
    BY <1>9, <1>p, <1>q DEF Finish, runnerVars
  <1>10. CASE Fail
    BY <1>10, <1>p, <1>q DEF Fail, runnerVars
  <1>11. CASE Exit
    BY <1>11, <1>p, <1>q DEF Exit, runnerVars
  <1>12. CASE Emit
    BY <1>12, <1>p, <1>q DEF Emit, driverVars, runnerVars
  <1>13. CASE Watch
    BY <1>13, <1>p, <1>q DEF Watch, driverVars, runnerVars
  <1>14. CASE WatchdogExit
    BY <1>14, <1>p, <1>q DEF WatchdogExit, runnerVars
  <1>15. CASE SeeExit
    BY <1>15, <1>p, <1>q DEF SeeExit, driverVars
  <1>16. CASE SeeRunning \/ KeepPolling \/ Join
    BY <1>16, <1>p, <1>q DEF SeeRunning, KeepPolling, Join, driverVars
  <1>17. CASE Kill
    BY <1>17, <1>p, <1>q DEF Kill, driverVars
  <1>18. CASE ReadLine
    BY <1>18, <1>p, <1>q DEF ReadLine, driverVars
  <1>19. CASE ChildTick
    BY <1>19, <1>p, <1>q DEF ChildTick
  <1>20. CASE Over
    BY <1>20, <1>p, <1>q DEF Over, childVars
  <1>21. QED
    BY <1>1, <1>2, <1>3, <1>4, <1>5, <1>6, <1>7, <1>8, <1>9, <1>10, <1>11, <1>12, <1>13, <1>14,
       <1>15, <1>16, <1>17, <1>18, <1>19, <1>20
    DEF ChildNext, DriverStep, RunnerStep, ThreadStep

\* The watchdog forgets what it saw whenever a counter moves or the phase is not
\* operate, and ages with the others.
LEMMA DogAgeKept == ASSUME ChildInv, ChildNext PROVE DogAge'
  <1> USE DEF Running, Killed, ChildInv, ChildLife, Detector, DogAge, DogSeesAll
  <1>t. ChildTypeOK /\ ChildTypeOK'
    BY TypeKept DEF ChildInv
  <1>p. /\ progress \in [phase : Phases \union {"unknown"}, sent : Count, received : Count]
        /\ idle \in [sent : Count, received : Count, sentAge : Age, receivedAge : Age]
        /\ dog \in [sent : Count, received : Count, age : Age]
    BY <1>t DEF ChildTypeOK, Line
  <1>q. /\ progress.sent \in Nat /\ progress.received \in Nat
        /\ dog.sent \in Nat /\ dog.received \in Nat /\ dog.age \in Nat
        /\ idle.sentAge \in Nat /\ idle.receivedAge \in Nat /\ stalled \in Nat
    BY <1>t, StateOfNumbers
  <1>l. /\ Later(idle.sentAge) \in Nat /\ Later(idle.receivedAge) \in Nat
        /\ Later(dog.age) \in Nat /\ Later(stalled) \in Nat
        /\ Later(idle.sentAge) >= idle.sentAge /\ Later(idle.sentAge) <= idle.sentAge + 1
        /\ Later(idle.receivedAge) >= idle.receivedAge
        /\ Later(idle.receivedAge) <= idle.receivedAge + 1
        /\ Later(dog.age) <= dog.age + 1
        /\ Later(stalled) >= 1 /\ Later(stalled) >= stalled /\ Later(stalled) <= stalled + 1
        /\ dog.age <= idle.sentAge + 1 => Later(dog.age) <= Later(idle.sentAge) + 1
        /\ dog.age <= idle.receivedAge + 1 => Later(dog.age) <= Later(idle.receivedAge) + 1
        /\ stalled <= dog.age + 1 => Later(stalled) <= Later(dog.age) + 1
    BY <1>t, AgesGoTogether
  <1>1. CASE Connected
    BY <1>1, <1>p, <1>q, <1>l DEF Connected, Enter, runnerVars
  <1>2. CASE Stabilized
    BY <1>2, <1>p, <1>q, <1>l DEF Stabilized, Enter, Fresh, runnerVars
  <1>3. CASE EndOperate
    BY <1>3, <1>p, <1>q, <1>l DEF EndOperate, Enter, runnerVars
  <1>4. CASE SilentReceive
    BY <1>4, <1>p, <1>q, <1>l DEF SilentReceive, runnerVars
  <1>5. CASE EndSilent
    BY <1>5, <1>p, <1>q, <1>l DEF EndSilent, Enter, runnerVars
  <1>6. ASSUME NEW s \in 0..1, NEW r \in 0..1, Iterate(s, r) PROVE DogAge'
    BY <1>6, <1>p, <1>q, <1>l DEF Iterate, Observed, runnerVars
  <1>7. CASE Block
    BY <1>7, <1>p, <1>q, <1>l DEF Block, runnerVars
  <1>8. CASE Unblock
    BY <1>8, <1>p, <1>q, <1>l DEF Unblock, Observed, runnerVars
  <1>9. CASE Finish
    BY <1>9, <1>p, <1>q, <1>l DEF Finish, runnerVars
  <1>10. CASE Fail
    BY <1>10, <1>p, <1>q, <1>l DEF Fail, runnerVars
  <1>11. CASE Exit
    BY <1>11, <1>p, <1>q, <1>l DEF Exit, runnerVars
  <1>12. CASE Emit
    BY <1>12, <1>p, <1>q, <1>l DEF Emit, driverVars, runnerVars
  <1>13. CASE Watch
    BY <1>13, <1>p, <1>q, <1>l DEF Watch, DogSees, driverVars, runnerVars
  <1>14. CASE WatchdogExit
    BY <1>14, <1>p, <1>q, <1>l DEF WatchdogExit, DogSees, runnerVars
  <1>15. CASE SeeExit
    BY <1>15, <1>p, <1>q, <1>l DEF SeeExit, driverVars
  <1>16. CASE SeeRunning \/ KeepPolling \/ Join
    <2>1. UNCHANGED <<at, progress, idle, dog, stalled, code>>
      BY <1>16 DEF SeeRunning, KeepPolling, Join, driverVars
    <2>2. "watchdog" \in due' <=> "watchdog" \in due
      BY <1>16 DEF SeeRunning, KeepPolling, Join
    <2>3. QED
      BY <2>1, <2>2
  <1>17. CASE Kill
    BY <1>17, <1>p, <1>q, <1>l DEF Kill, driverVars
  <1>18. CASE ReadLine
    BY <1>18, <1>p, <1>q, <1>l DEF ReadLine, driverVars
  <1>19. CASE ChildTick
    <2>1. /\ dog' = [dog EXCEPT !.age = Later(dog.age)] /\ UNCHANGED <<at, progress, code>>
          /\ idle' = [idle EXCEPT !.sentAge = Later(idle.sentAge),
                                  !.receivedAge = Later(idle.receivedAge)]
          /\ stalled' = IF at = "blocked" THEN Later(stalled) ELSE stalled
      BY <1>19 DEF ChildTick
    <2>2. "watchdog" \notin due
      BY <1>19 DEF ChildTick, SecondIsOver
    <2>3. code = Running /\ at # "ending" => "watchdog" \in due'
      BY <1>19 DEF ChildTick, TasksOf
    <2>4. /\ dog'.sent = dog.sent /\ dog'.received = dog.received /\ dog'.age = Later(dog.age)
          /\ idle'.sentAge = Later(idle.sentAge) /\ idle'.receivedAge = Later(idle.receivedAge)
      BY <2>1, <1>p
    <2>5. DogSeesAll' = DogSeesAll
      BY <2>1, <2>4
    <2>6. at \in {"connect", "stabilize"} =>
              dog'.age <= (IF "watchdog" \in due' THEN 1 ELSE 0)
      BY <2>2, <2>3, <2>4, <1>q, <1>l
    <2>7. at = "blocked" /\ ~DogSeesAll => stalled' = 1 /\ "watchdog" \in due'
      BY <2>1, <2>2, <2>3, <1>q, <1>l
    <2>8. QED
      BY <2>1, <2>4, <2>5, <2>6, <2>7, <1>q, <1>l
  <1>20. CASE Over
    BY <1>20, <1>p, <1>q, <1>l DEF Over, childVars
  <1>21. QED
    BY <1>1, <1>2, <1>3, <1>4, <1>5, <1>6, <1>7, <1>8, <1>9, <1>10, <1>11, <1>12, <1>13, <1>14,
       <1>15, <1>16, <1>17, <1>18, <1>19, <1>20
    DEF ChildNext, DriverStep, RunnerStep, ThreadStep

\* A watchdog with a longer threshold finds only a blocked driver.
LEMMA DriverKept == ASSUME Tuned, ChildInv, ChildNext PROVE DriverComesRound'
  <1> USE DEF Running, Killed, ChildInv, ChildLife, Detector, DogAge, DogSeesAll,
             DriverComesRound, Tuned
  <1>t. ChildTypeOK /\ ChildTypeOK'
    BY TypeKept DEF ChildInv
  <1>p. /\ progress \in [phase : Phases \union {"unknown"}, sent : Count, received : Count]
        /\ idle \in [sent : Count, received : Count, sentAge : Age, receivedAge : Age]
        /\ dog \in [sent : Count, received : Count, age : Age]
    BY <1>t DEF ChildTypeOK, Line
  <1>q. /\ progress.sent \in Nat /\ progress.received \in Nat
        /\ dog.sent \in Nat /\ dog.received \in Nat /\ dog.age \in Nat
        /\ idle.sentAge \in Nat /\ idle.receivedAge \in Nat /\ stalled \in Nat
    BY <1>t, StateOfNumbers
  <1>l. /\ Later(idle.sentAge) \in Nat /\ Later(idle.receivedAge) \in Nat
        /\ Later(dog.age) \in Nat /\ Later(stalled) \in Nat
        /\ Later(idle.sentAge) >= idle.sentAge /\ Later(idle.sentAge) <= idle.sentAge + 1
        /\ Later(idle.receivedAge) >= idle.receivedAge
        /\ Later(idle.receivedAge) <= idle.receivedAge + 1
        /\ Later(dog.age) <= dog.age + 1
        /\ Later(stalled) >= 1 /\ Later(stalled) >= stalled /\ Later(stalled) <= stalled + 1
        /\ dog.age <= idle.sentAge + 1 => Later(dog.age) <= Later(idle.sentAge) + 1
        /\ dog.age <= idle.receivedAge + 1 => Later(dog.age) <= Later(idle.receivedAge) + 1
        /\ stalled <= dog.age + 1 => Later(stalled) <= Later(dog.age) + 1
    BY <1>t, AgesGoTogether
  <1>r. IdleSecs \in Nat /\ WatchdogSecs \in Nat
    BY ChildAssumption
  <1>1. CASE Connected
    BY <1>1, <1>p, <1>q, <1>l, <1>r DEF Connected, Enter, runnerVars
  <1>2. CASE Stabilized
    BY <1>2, <1>p, <1>q, <1>l, <1>r DEF Stabilized, Enter, Fresh, runnerVars
  <1>3. CASE EndOperate
    BY <1>3, <1>p, <1>q, <1>l, <1>r DEF EndOperate, Enter, runnerVars
  <1>4. CASE SilentReceive
    BY <1>4, <1>p, <1>q, <1>l, <1>r DEF SilentReceive, runnerVars
  <1>5. CASE EndSilent
    BY <1>5, <1>p, <1>q, <1>l, <1>r DEF EndSilent, Enter, runnerVars
  <1>6. ASSUME NEW s \in 0..1, NEW r \in 0..1, Iterate(s, r) PROVE DriverComesRound'
    <2>1. /\ idle'.sentAge <= idle.sentAge /\ idle'.receivedAge <= idle.receivedAge
          /\ idle'.sentAge \in Nat /\ idle'.receivedAge \in Nat
      BY <1>6, <1>p, <1>q DEF Iterate, Observed
    <2>2. left' > 0 => ~IsIdle(idle')
      BY <1>6 DEF Iterate
    <2>3. left' > 0 => idle'.sentAge < IdleSecs \/ idle'.receivedAge < IdleSecs
      BY <2>1, <2>2, <1>r DEF IsIdle
    <2>4. at = "operate" /\ at' = at /\ code' = code /\ stalled' = stalled
      BY <1>6 DEF Iterate
    <2>5. QED
      BY <2>1, <2>3, <2>4, <1>q, <1>r
  <1>7. CASE Block
    BY <1>7, <1>p, <1>q, <1>l, <1>r DEF Block, runnerVars
  <1>8. CASE Unblock
    BY <1>8, <1>p, <1>q, <1>l, <1>r DEF Unblock, Observed, runnerVars
  <1>9. CASE Finish
    BY <1>9, <1>p, <1>q, <1>l, <1>r DEF Finish, runnerVars
  <1>10. CASE Fail
    BY <1>10, <1>p, <1>q, <1>l, <1>r DEF Fail, runnerVars
  <1>11. CASE Exit
    BY <1>11, <1>p, <1>q, <1>l, <1>r DEF Exit, runnerVars
  <1>12. CASE Emit
    BY <1>12, <1>p, <1>q, <1>l, <1>r DEF Emit, driverVars, runnerVars
  <1>13. CASE Watch
    BY <1>13, <1>p, <1>q, <1>l, <1>r DEF Watch, DogSees, WatchdogFires, driverVars, runnerVars
  <1>14. CASE WatchdogExit
    <2>1. dog'.age >= WatchdogSecs /\ "watchdog" \in due /\ stalled' = stalled /\ at' = "exited"
      BY <1>14 DEF WatchdogExit, WatchdogFires
    <2>2. progress.phase = "operate" /\ DogSeesAll /\ dog.age >= WatchdogSecs
      BY <1>14, <2>1, <1>p, <1>q, <1>r DEF WatchdogExit, DogSees
    <2>3. at \in Phases \union {"blocked", "ending", "exited"}
      BY <1>t DEF ChildTypeOK
    <2>4. at \in {"operate", "blocked"}
      BY <2>1, <2>2, <2>3 DEF Phases
    <2>5. stalled > 0
      BY <2>2, <2>4, <1>q, <1>r
    <2>6. QED
      BY <2>1, <2>5
  <1>15. CASE SeeExit
    BY <1>15, <1>p, <1>q, <1>l, <1>r DEF SeeExit, driverVars
  <1>16. CASE SeeRunning \/ KeepPolling \/ Join
    <2>1. UNCHANGED <<at, idle, stalled, code, left>>
      BY <1>16 DEF SeeRunning, KeepPolling, Join, driverVars
    <2>2. "driver" \in due' <=> "driver" \in due
      BY <1>16 DEF SeeRunning, KeepPolling, Join
    <2>3. QED
      BY <2>1, <2>2
  <1>17. CASE Kill
    BY <1>17, <1>p, <1>q, <1>l, <1>r DEF Kill, driverVars
  <1>18. CASE ReadLine
    BY <1>18, <1>p, <1>q, <1>l, <1>r DEF ReadLine, driverVars
  <1>19. CASE ChildTick
    <2>1. /\ UNCHANGED <<at, code>>
          /\ idle' = [idle EXCEPT !.sentAge = Later(idle.sentAge),
                                  !.receivedAge = Later(idle.receivedAge)]
          /\ stalled' = IF at = "blocked" THEN Later(stalled) ELSE stalled
      BY <1>19 DEF ChildTick
    <2>2. at = "operate" => left > 0 /\ "driver" \notin due
      BY <1>19, <1>t DEF ChildTick, SecondIsOver, ChildTypeOK
    <2>3. at = "operate" => "driver" \in due'
      BY <1>19 DEF ChildTick, TasksOf
    <2>4. idle'.sentAge = Later(idle.sentAge) /\ idle'.receivedAge = Later(idle.receivedAge)
      BY <2>1, <1>p
    <2>5. QED
      BY <2>1, <2>2, <2>3, <2>4, <1>q, <1>l, <1>r
  <1>20. CASE Over
    BY <1>20, <1>p, <1>q, <1>l, <1>r DEF Over, childVars
  <1>21. QED
    BY <1>1, <1>2, <1>3, <1>4, <1>5, <1>6, <1>7, <1>8, <1>9, <1>10, <1>11, <1>12, <1>13, <1>14,
       <1>15, <1>16, <1>17, <1>18, <1>19, <1>20
    DEF ChildNext, DriverStep, RunnerStep, ThreadStep

\* The watchdog takes its turn before the second in which it is due is over.
LEMMA DogOnTimeKept == ASSUME WatchdogSecs > 0, ChildInv, ChildNext PROVE DogOnTime'
  <1> USE DEF Running, Killed, ChildInv, ChildLife, Detector, DogAge, DogSeesAll, DogOnTime
  <1>t. ChildTypeOK /\ ChildTypeOK'
    BY TypeKept DEF ChildInv
  <1>p. /\ progress \in [phase : Phases \union {"unknown"}, sent : Count, received : Count]
        /\ idle \in [sent : Count, received : Count, sentAge : Age, receivedAge : Age]
        /\ dog \in [sent : Count, received : Count, age : Age]
    BY <1>t DEF ChildTypeOK, Line
  <1>q. /\ progress.sent \in Nat /\ progress.received \in Nat
        /\ dog.sent \in Nat /\ dog.received \in Nat /\ dog.age \in Nat
        /\ idle.sentAge \in Nat /\ idle.receivedAge \in Nat /\ stalled \in Nat
    BY <1>t, StateOfNumbers
  <1>l. /\ Later(idle.sentAge) \in Nat /\ Later(idle.receivedAge) \in Nat
        /\ Later(dog.age) \in Nat /\ Later(stalled) \in Nat
        /\ Later(idle.sentAge) >= idle.sentAge /\ Later(idle.sentAge) <= idle.sentAge + 1
        /\ Later(idle.receivedAge) >= idle.receivedAge
        /\ Later(idle.receivedAge) <= idle.receivedAge + 1
        /\ Later(dog.age) <= dog.age + 1
        /\ Later(stalled) >= 1 /\ Later(stalled) >= stalled /\ Later(stalled) <= stalled + 1
        /\ dog.age <= idle.sentAge + 1 => Later(dog.age) <= Later(idle.sentAge) + 1
        /\ dog.age <= idle.receivedAge + 1 => Later(dog.age) <= Later(idle.receivedAge) + 1
        /\ stalled <= dog.age + 1 => Later(stalled) <= Later(dog.age) + 1
    BY <1>t, AgesGoTogether
  <1>r. IdleSecs \in Nat /\ WatchdogSecs \in Nat
    BY ChildAssumption
  <1>1. CASE Connected
    BY <1>1, <1>p, <1>q, <1>l, <1>r DEF Connected, Enter, runnerVars
  <1>2. CASE Stabilized
    BY <1>2, <1>p, <1>q, <1>l, <1>r DEF Stabilized, Enter, Fresh, runnerVars
  <1>3. CASE EndOperate
    BY <1>3, <1>p, <1>q, <1>l, <1>r DEF EndOperate, Enter, runnerVars
  <1>4. CASE SilentReceive
    BY <1>4, <1>p, <1>q, <1>l, <1>r DEF SilentReceive, runnerVars
  <1>5. CASE EndSilent
    BY <1>5, <1>p, <1>q, <1>l, <1>r DEF EndSilent, Enter, runnerVars
  <1>6. ASSUME NEW s \in 0..1, NEW r \in 0..1, Iterate(s, r) PROVE DogOnTime'
    BY <1>6, <1>p, <1>q, <1>l, <1>r DEF Iterate, runnerVars
  <1>7. CASE Block
    BY <1>7, <1>p, <1>q, <1>l, <1>r DEF Block, runnerVars
  <1>8. CASE Unblock
    BY <1>8, <1>p, <1>q, <1>l, <1>r DEF Unblock, runnerVars
  <1>9. CASE Finish
    BY <1>9, <1>p, <1>q, <1>l, <1>r DEF Finish, runnerVars
  <1>10. CASE Fail
    BY <1>10, <1>p, <1>q, <1>l, <1>r DEF Fail, runnerVars
  <1>11. CASE Exit
    BY <1>11, <1>p, <1>q, <1>l, <1>r DEF Exit, runnerVars
  <1>12. CASE Emit
    BY <1>12, <1>p, <1>q, <1>l, <1>r DEF Emit, driverVars, runnerVars
  <1>13. CASE Watch
    BY <1>13, <1>p, <1>q, <1>l, <1>r DEF Watch, DogSees, WatchdogFires, driverVars, runnerVars
  <1>14. CASE WatchdogExit
    BY <1>14, <1>p, <1>q, <1>l, <1>r DEF WatchdogExit, DogSees, WatchdogFires, runnerVars
  <1>15. CASE SeeExit
    BY <1>15, <1>p, <1>q, <1>l, <1>r DEF SeeExit, driverVars
  <1>16. CASE SeeRunning \/ KeepPolling \/ Join
    BY <1>16, <1>p, <1>q, <1>l, <1>r DEF SeeRunning, KeepPolling, Join, driverVars
  <1>17. CASE Kill
    BY <1>17, <1>p, <1>q, <1>l, <1>r DEF Kill, driverVars
  <1>18. CASE ReadLine
    BY <1>18, <1>p, <1>q, <1>l, <1>r DEF ReadLine, driverVars
  <1>19. CASE ChildTick
    <2>1. /\ dog' = [dog EXCEPT !.age = Later(dog.age)] /\ UNCHANGED <<at, progress, code>>
          /\ stalled' = IF at = "blocked" THEN Later(stalled) ELSE stalled
      BY <1>19 DEF ChildTick
    <2>2. "watchdog" \notin due
      BY <1>19 DEF ChildTick, SecondIsOver
    <2>3. at \in {"operate", "blocked"} => "watchdog" \in due'
      BY <1>19 DEF ChildTick, TasksOf
    <2>4. dog'.age = Later(dog.age)
      BY <2>1, <1>p
    <2>5. at = "blocked" => stalled <= WatchdogSecs
      BY <2>2, <1>q, <1>r
    <2>6. QED
      BY <2>1, <2>2, <2>3, <2>4, <2>5, <1>q, <1>l, <1>r
  <1>20. CASE Over
    BY <1>20, <1>p, <1>q, <1>l, <1>r DEF Over, childVars
  <1>21. QED
    BY <1>1, <1>2, <1>3, <1>4, <1>5, <1>6, <1>7, <1>8, <1>9, <1>10, <1>11, <1>12, <1>13, <1>14,
       <1>15, <1>16, <1>17, <1>18, <1>19, <1>20
    DEF ChildNext, DriverStep, RunnerStep, ThreadStep

\* The emitter's lines are in the order of the counters, and the last one is
\* written by the process as it ends.
LEMMA LinesKept == ASSUME ChildInv, ChildNext PROVE ChildLines'
  <1> USE DEF ChildInv, ChildLife, ChildLines, Running, Killed
  <1>t. ChildTypeOK /\ ChildTypeOK'
    BY TypeKept DEF ChildInv
  <1>p. /\ progress \in [phase : Phases \union {"unknown"}, sent : Count, received : Count]
        /\ tracker \in [phase : Phases \union {"unknown"}, sent : Count, received : Count]
        /\ pipe \in Seq([phase : Phases \union {"unknown"}, sent : Count, received : Count])
    BY <1>t DEF ChildTypeOK, Line
  <1>q. \A n \in Count : n \in Nat
    BY ChildAssumption DEF Count
  <1>n. /\ progress.sent \in Nat /\ progress.received \in Nat
        /\ tracker.sent \in Nat /\ tracker.received \in Nat
    BY <1>t, StateOfNumbers
  <1>k. \A k \in 1..Len(pipe) : pipe[k].sent \in Nat /\ pipe[k].received \in Nat
    <2>1. \A k \in 1..Len(pipe) : pipe[k] \in Line
      BY <1>t DEF ChildTypeOK
    <2>2. QED
      BY <2>1, <1>q DEF Line
  <1>1. CASE Connected
    BY <1>1, <1>p, <1>q DEF Connected, Enter, runnerVars
  <1>2. CASE Stabilized
    BY <1>2, <1>p, <1>q DEF Stabilized, Enter, runnerVars
  <1>3. CASE EndOperate
    BY <1>3, <1>p, <1>q DEF EndOperate, Enter, runnerVars
  <1>4. CASE SilentReceive
    <2>1. UNCHANGED <<pipe, tracker, monitor, code>> /\ code \notin {0, 1}
      BY <1>4 DEF SilentReceive, runnerVars
    <2>2. progress'.sent >= progress.sent /\ progress'.received >= progress.received
      BY <1>4, <1>p, <1>q DEF SilentReceive
    <2>3. /\ progress'.sent \in Nat /\ progress'.received \in Nat
      BY <1>t, <1>q DEF ChildTypeOK, Line
    <2>4. QED
      BY <2>1, <2>2, <2>3, <1>n, <1>k
  <1>5. CASE EndSilent
    BY <1>5, <1>p, <1>q DEF EndSilent, Enter, runnerVars
  <1>6. ASSUME NEW s \in 0..1, NEW r \in 0..1, Iterate(s, r) PROVE ChildLines'
    <2>1. UNCHANGED <<pipe, tracker, monitor, code>> /\ code \notin {0, 1}
      BY <1>6 DEF Iterate, runnerVars
    <2>2. progress'.sent >= progress.sent /\ progress'.received >= progress.received
      BY <1>6, <1>p, <1>q DEF Iterate
    <2>3. /\ progress'.sent \in Nat /\ progress'.received \in Nat
      BY <1>t, <1>q DEF ChildTypeOK, Line
    <2>4. QED
      BY <2>1, <2>2, <2>3, <1>n, <1>k
  <1>7. CASE Block
    BY <1>7, <1>p, <1>q DEF Block, runnerVars
  <1>8. CASE Unblock
    <2>1. UNCHANGED <<pipe, tracker, monitor, code>> /\ code \notin {0, 1}
      BY <1>8 DEF Unblock, runnerVars
    <2>2. progress'.sent >= progress.sent /\ progress'.received >= progress.received
      BY <1>8, <1>p, <1>q DEF Unblock
    <2>3. /\ progress'.sent \in Nat /\ progress'.received \in Nat
      BY <1>t, <1>q DEF ChildTypeOK, Line
    <2>4. QED
      BY <2>1, <2>2, <2>3, <1>n, <1>k
  <1>9. CASE Finish
    BY <1>9, <1>p, <1>q DEF Finish, runnerVars
  <1>10. CASE Fail
    BY <1>10, <1>p, <1>q DEF Fail, runnerVars
  <1>11. CASE Exit
    <2>1. pipe' = Append(pipe, progress) /\ UNCHANGED <<progress, tracker, monitor>>
      BY <1>11 DEF Exit, EmitterStopped, runnerVars
    <2>2. Len(pipe') = Len(pipe) + 1 /\ pipe'[Len(pipe')] = progress
      BY <2>1, <1>t DEF ChildTypeOK
    <2>3. \A k \in 1..Len(pipe') :
              pipe'[k] = progress \/ (k \in 1..Len(pipe) /\ pipe'[k] = pipe[k])
      BY <2>1, <1>t DEF ChildTypeOK
    <2>4. monitor # "joined"
      BY <1>11 DEF Exit
    <2>5. pipe' # <<>>
      BY <2>2, <1>t DEF ChildTypeOK
    <2>6. QED
      BY <2>1, <2>2, <2>3, <2>4, <2>5, <1>n, <1>k
  <1>12. CASE Emit
    <2>1. pipe' = Append(pipe, progress) /\ UNCHANGED <<progress, tracker, monitor, code>>
      BY <1>12 DEF Emit, driverVars, runnerVars
    <2>2. Len(pipe') = Len(pipe) + 1 /\ pipe'[Len(pipe')] = progress
      BY <2>1, <1>t DEF ChildTypeOK
    <2>3. \A k \in 1..Len(pipe') : pipe'[k] = progress \/ (k \in 1..Len(pipe) /\ pipe'[k] = pipe[k])
      BY <2>1, <1>t DEF ChildTypeOK
    <2>4. "emitter" \in due
      BY <1>12 DEF Emit
    <2>5. pipe' # <<>>
      BY <2>2, <1>t DEF ChildTypeOK
    <2>6. QED
      BY <2>1, <2>2, <2>3, <2>4, <2>5, <1>n, <1>k
  <1>13. CASE Watch
    BY <1>13, <1>p, <1>q DEF Watch, driverVars, runnerVars
  <1>14. CASE WatchdogExit
    BY <1>14, <1>p, <1>q DEF WatchdogExit, runnerVars
  <1>15. CASE SeeExit
    BY <1>15, <1>p, <1>q DEF SeeExit, driverVars
  <1>16. CASE SeeRunning \/ KeepPolling \/ Join
    BY <1>16, <1>p, <1>q DEF SeeRunning, KeepPolling, Join, ReaderEnded, driverVars
  <1>17. CASE Kill
    BY <1>17, <1>p, <1>q DEF Kill, driverVars
  <1>18. CASE ReadLine
    <2>1. /\ pipe # <<>> /\ pipe' = Tail(pipe) /\ tracker' = Applied(tracker, pipe[1])
          /\ UNCHANGED <<progress, code, monitor>>
      BY <1>18, <1>t DEF ReadLine, driverVars, ChildTypeOK
    <2>2. 1 \in 1..Len(pipe) /\ pipe[1] \in Line
      BY <2>1, <1>t DEF ChildTypeOK
    <2>3. /\ Len(pipe') = Len(pipe) - 1
          /\ \A k \in 1..Len(pipe') : pipe'[k] = pipe[k + 1] /\ k + 1 \in 1..Len(pipe)
      BY <2>1, <1>t DEF ChildTypeOK
    <2>4. /\ pipe[1].sent <= progress.sent /\ pipe[1].received <= progress.received
          /\ pipe[1].sent \in Nat /\ pipe[1].received \in Nat
      BY <2>2, <1>q DEF Line
    <2>5. tracker'.sent <= progress.sent /\ tracker'.received <= progress.received
      BY <2>1, <2>4, <1>n DEF Applied, Higher
    <2>6. pipe[1] = progress => tracker' = progress
      BY <2>1, <2>4, <1>n, <1>k, <1>p DEF Applied, Higher
    <2>7. pipe' = <<>> => Len(pipe) = 1
      BY <2>3, <1>t DEF ChildTypeOK
    <2>8. pipe' # <<>> => pipe'[Len(pipe')] = pipe[Len(pipe)]
      BY <2>1, <2>3, <1>t DEF ChildTypeOK
    <2>9. QED
      BY <2>1, <2>3, <2>5, <2>6, <2>7, <2>8
  <1>19. CASE ChildTick
    BY <1>19, <1>p, <1>q DEF ChildTick
  <1>20. CASE Over
    BY <1>20, <1>p, <1>q DEF Over, childVars
  <1>21. QED
    BY <1>1, <1>2, <1>3, <1>4, <1>5, <1>6, <1>7, <1>8, <1>9, <1>10, <1>11, <1>12, <1>13, <1>14,
       <1>15, <1>16, <1>17, <1>18, <1>19, <1>20
    DEF ChildNext, DriverStep, RunnerStep, ThreadStep

LEMMA ChildInitial == ChildInit => ChildInv
  <1> SUFFICES ASSUME ChildInit PROVE ChildInv
    OBVIOUS
  <1> USE DEF ChildInit
  <1>1. ChildTypeOK
    <2>1. 0 \in Count /\ 0 \in Age
      BY ChildAssumption, AgesAreNumbers DEF Count
    <2>2. progress \in Line /\ tracker \in Line
      BY <2>1 DEF Line, Phases
    <2>3. /\ idle \in [sent : Count, received : Count, sentAge : Age, receivedAge : Age]
          /\ dog \in [sent : Count, received : Count, age : Age]
          /\ quiet \in [sent : Age, received : Age]
      BY <2>1 DEF Fresh
    <2>4. /\ at \in Phases /\ left \in Nat /\ files \subseteq {"eot", "parquet"} /\ pipe \in Seq(Line)
          /\ code \in {Running, Killed, 0, 1, 2} /\ elapsed \in Age /\ stalled \in Age
      BY <2>1 DEF Phases
    <2>5. QED
      BY <2>2, <2>3, <2>4 DEF ChildTypeOK
  <1>2. ChildLife /\ ChildOutcome /\ ChildLines
    BY DEF ChildLife, ChildOutcome, ChildLines, Running, Killed
  <1>3. Detector /\ DogAge
    BY DEF Detector, DogAge, Fresh
  <1>4. DriverComesRound /\ (WatchdogSecs > 0 => DogOnTime)
    BY ChildAssumption DEF DriverComesRound, DogOnTime, Running
  <1>5. QED
    BY <1>1, <1>2, <1>3, <1>4 DEF ChildInv

LEMMA ChildStep == ChildInv /\ [ChildNext]_childVars => ChildInv'
  <1>1. ASSUME ChildInv, ChildNext PROVE ChildInv'
    <2>1. ChildTypeOK'
      BY <1>1, TypeKept DEF ChildInv
    <2>2. ChildLife' /\ ChildOutcome' /\ ChildLines'
      BY <1>1, LifeKept, OutcomeKept, LinesKept
    <2>3. Detector' /\ DogAge'
      BY <1>1, DetectorKept, DogAgeKept
    <2>4. Tuned => DriverComesRound'
      BY <1>1, DriverKept
    <2>5. WatchdogSecs > 0 => DogOnTime'
      BY <1>1, DogOnTimeKept
    <2>6. QED
      BY <2>1, <2>2, <2>3, <2>4, <2>5 DEF ChildInv
  <1>2. ASSUME ChildInv, UNCHANGED childVars PROVE ChildInv'
    BY <1>2
    DEF childVars, ChildInv, ChildTypeOK, ChildLife, ChildOutcome, ChildLines, Detector, DogAge,
        DogSeesAll, DriverComesRound, DogOnTime
  <1>3. QED
    BY <1>1, <1>2

\* The spawn of the model is always in a state of ChildInv: the life of the
\* process, the lines between it and the reader thread, and how the ages of the
\* two detectors and of the blocked driver compare.
THEOREM ChildInvariant == ChildSpec => []ChildInv
  <1>1. ChildInit => ChildInv
    BY ChildInitial
  <1>2. ChildInv /\ [ChildNext]_childVars => ChildInv'
    BY ChildStep
  <1>3. QED
    BY <1>1, <1>2, PTL DEF ChildSpec

\* The outcome that spawn_and_monitor returns is one the child earned, for every
\* setting of the limits.
THEOREM OutcomesAreEarned == ChildSpec => []OutcomeIsEarned
  <1>1. ChildInv => OutcomeIsEarned
    <2> SUFFICES ASSUME ChildInv PROVE OutcomeIsEarned
      OBVIOUS
    <2>1. outcome = "success" => code = 0 /\ progress.phase = "done"
      BY DEF ChildInv, ChildLife, ChildOutcome
    <2>2. outcome = "success" /\ monitor = "joined" => tracker = progress
      BY <2>1 DEF ChildInv, ChildLines
    <2>3. QED
      BY <2>1, <2>2 DEF OutcomeIsEarned, ChildInv, ChildLife, ChildOutcome
  <1>2. QED
    BY <1>1, ChildInvariant, PTL

\* With a watchdog slower than the idle detector by two seconds or more, it ends
\* only a process that is stuck, and no stuck one is left to the runner's limit
\* for longer than the watchdog's own.
THEOREM StuckAreTaken == Tuned => (ChildSpec => []WatchdogTakesTheStuck)
  <1> SUFFICES ASSUME Tuned PROVE ChildSpec => []WatchdogTakesTheStuck
    OBVIOUS
  <1>1. ChildInv => WatchdogTakesTheStuck
    <2>1. WatchdogSecs > 0
      BY ChildAssumption DEF Tuned
    <2>2. QED
      BY <2>1 DEF Tuned, ChildInv, DriverComesRound, DogOnTime, WatchdogTakesTheStuck
  <1>2. QED
    BY <1>1, ChildInvariant, PTL

\* The driver calls a run idle only after a silence of the whole threshold in
\* both directions.
THEOREM IdleOnlyAfterSilence == ChildSpec => IdleAfterSilence
  <1> DEFINE Silent == idleExit' /\ ~idleExit =>
                           quiet'.sent >= IdleSecs /\ quiet'.received >= IdleSecs
  <1>1. ChildInv /\ ChildInv' /\ [ChildNext]_childVars => [Silent]_childVars
    <2> SUFFICES ASSUME ChildInv, ChildInv', ChildNext, idleExit', ~idleExit
                 PROVE  quiet'.sent >= IdleSecs /\ quiet'.received >= IdleSecs
      OBVIOUS
    <2>1. PICK s, r \in 0..1 : Iterate(s, r)
      BY DEF ChildNext, DriverStep, ThreadStep, RunnerStep, Connected, Stabilized, EndOperate,
             SilentReceive, EndSilent, Block, Unblock, Finish, Fail, Exit, Emit, Watch, WatchdogExit,
             SeeExit, SeeRunning, Kill, KeepPolling, ReadLine, Join, ChildTick, Over, driverVars,
             childVars
    <2>2. at' = "operate" /\ IsIdle(idle')
      BY <2>1 DEF Iterate
    <2>3. idle'.sentAge = quiet'.sent /\ idle'.receivedAge = quiet'.received
      BY <2>2 DEF ChildInv, Detector
    <2>4. QED
      BY <2>2, <2>3 DEF IsIdle
  <1>2. QED
    BY <1>1, ChildInvariant, PTL DEF ChildSpec, IdleAfterSilence

-----------------------------------------------------------------------------
(* Addresses.                                                              *)

\* Places in the list, whichever list it is, are natural numbers, and no two
\* runners have the same.
LEMMA PlacesDiffer ==
    ASSUME layout \in Layouts, NEW p \in Hosted, NEW q \in Hosted
    PROVE  /\ PeerIndex(p) \in Nat
           /\ PeerIndex(p) = PeerIndex(q) => p = q
<1> DEFINE Before(x) == {y \in Hosted : y < x}
<1>1. \A x \in Hosted : IsFiniteSet(Before(x)) /\ Cardinality(Before(x)) \in Nat
  <2> TAKE x \in Hosted
  <2>1. Before(x) \subseteq Hosted /\ IsFiniteSet(Hosted)
    BY HostedAssumption
  <2> QED BY <2>1, FS_Subset, FS_CardinalityType
<1>2. ASSUME NEW x \in Hosted, NEW y \in Hosted, x < y
      PROVE  Cardinality(Before(x)) # Cardinality(Before(y))
  <2>0. x \in Nat /\ y \in Nat /\ Hosted \subseteq Nat
    BY HostedAssumption
  <2>1. Before(x) \subseteq Before(y)
    <3>1. ASSUME NEW z \in Hosted, z < x
          PROVE  z < y
      BY <1>2, <2>0, <3>1
    <3> QED BY <3>1
  <2>2. x \in Before(y) /\ x \notin Before(x)
    BY <1>2, <2>0
  <2>3. IsFiniteSet(Before(y))
    BY <1>1
  <2> HIDE DEF Before
  <2>4. Before(x) # Before(y)
    BY <2>2
  <2> QED BY <2>1, <2>3, <2>4, FS_Subset
<1>3. \A x \in Hosted : SortedIndex(x) = Cardinality(Before(x))
  BY DEF SortedIndex
<1> HIDE DEF Before
<1>4. p \in Nat /\ q \in Nat
  BY HostedAssumption
<1>5. SortedIndex(p) = SortedIndex(q) => p = q
  <2>1. p < q \/ q < p \/ p = q
    BY <1>4
  <2> QED BY <2>1, <1>2, <1>3
<1>6. /\ layout.order \in [Hosted -> Nat]
      /\ layout.order[p] = layout.order[q] => p = q
  BY LayoutsAssumption
<1> QED BY <1>1, <1>3, <1>5, <1>6 DEF PeerIndex

\* What a layout is made of.
LEMMA LayoutFacts ==
    ASSUME layout \in Layouts
    PROVE  /\ layout.home \in [Hosted -> Machines]
           /\ layout.base \in 0..MaxPort /\ layout.qos \in 1..4
           /\ layout.use.offset \in Nat /\ layout.use.stride \in Nat
           /\ layout.use.plus \in 0..MaxPort
           /\ layout.use.face \in {"any", "own"}
<1>1. /\ layout.home \in [Hosted -> Machines] /\ layout.use \in Uses
      /\ layout.base \in 0..MaxPort /\ layout.qos \in 1..4
  BY LayoutsAssumption
<1>2. \A u \in Uses : /\ u.offset \in Nat /\ u.stride \in Nat /\ u.plus \in 0..MaxPort
                      /\ u.face \in {"any", "own"}
  <2> DEFINE Fine(u) == /\ u.offset \in Nat /\ u.stride \in Nat /\ u.plus \in 0..MaxPort
                        /\ u.face \in {"any", "own"}
  <2> USE HostedAssumption
  <2>1. Fine(CustomUdpUse) /\ Fine(HybridUse) /\ Fine(QuicUse)
    BY DEF VariantUse, CustomUdpUse, HybridUse, QuicUse
  <2>2. Fine(WebSocketUse) /\ Fine(WebRtcUse)
    BY DEF VariantUse, WebSocketUse, WebRtcUse
  <2>3. Fine(ZenohUse) /\ Fine(ZenohdUse)
    BY DEF VariantUse, ZenohUse, ZenohdUse
  <2>4. Fine(ManifestUse) /\ Fine(ProgressUse) /\ Fine(BarrierUse)
    BY DEF RunnerUse, ManifestUse, ProgressUse, BarrierUse
  <2> HIDE DEF Fine
  <2>5. \A u \in Uses : Fine(u)
    BY <2>1, <2>2, <2>3, <2>4 DEF Uses
  <2> QED BY <2>5 DEF Fine
<1> QED BY <1>1, <1>2

\* All processes work out the same port for a runner, and no two runners
\* that have a port have the same.
LEMMA PortsDiffer ==
    ASSUME layout \in Layouts, NEW p \in Hosted, NEW q \in Hosted, NEW r1, NEW r2,
           HasPort(p), HasPort(q)
    PROVE  /\ PortFor(r1, p) \in 0..MaxPort
           /\ PortFor(r1, p) = PortFor(r2, q) => p = q
<1> USE DEF Wrapped
<1>1. /\ layout.base \in Nat /\ layout.qos - 1 \in Nat /\ layout.use.offset \in Nat
      /\ layout.use.stride \in Nat /\ layout.use.plus \in 0..MaxPort /\ MaxPort \in Nat
  <2>1. /\ layout.base \in 0..MaxPort /\ layout.qos \in 1..4 /\ layout.use.offset \in Nat
        /\ layout.use.stride \in Nat /\ layout.use.plus \in 0..MaxPort /\ MaxPort \in Nat
    BY LayoutFacts, HostedAssumption
  <2> QED BY <2>1
<1>2. (layout.qos - 1) * layout.use.stride \in Nat
  BY <1>1
<1>3. /\ PeerIndex(p) \in Nat /\ PeerIndex(q) \in Nat
      /\ PeerIndex(p) = PeerIndex(q) => p = q
  BY PlacesDiffer
<1> DEFINE k == layout.base + layout.use.offset + (layout.qos - 1) * layout.use.stride
<1>4. k \in Nat
  BY <1>1, <1>2
<1>5. SumFor(p) = k + PeerIndex(p) /\ SumFor(q) = k + PeerIndex(q)
  BY <1>1, <1>2, <1>3 DEF SumFor
<1> HIDE DEF k
<1>6. SumFor(p) \in Nat /\ SumFor(q) \in Nat /\ (SumFor(p) = SumFor(q) => p = q)
  BY <1>3, <1>4, <1>5
<1>7. SumFor(p) <= MaxPort /\ SumFor(q) <= MaxPort
  BY DEF HasPort
<1> QED BY <1>1, <1>6, <1>7 DEF PortFor, Unchecked

-----------------------------------------------------------------------------
(* Addresses: the inductive invariant.                                     *)

\* The entries of peer_hosts are hosts that the peer can be reached at.
HostsKnown ==
    \A r, p \in Hosted : peerHosts[r][p] # Unheard => HostFits(r, p, peerHosts[r][p])

\* Whoever got beyond the ports has one, and a variant's child only when all have.
FitToGo ==
    \A r \in Hosted : status[r] \in {"derived", "listening", "gone"} => ~NoPortFor(r)
UnfitToGo == \A r \in Hosted : status[r] = "unfit" => NoPortFor(r)

AddressesFit ==
    \A r \in Hosted : \A a \in toDial[r] :
        /\ HostFits(r, a.peer, a.host)
        /\ a.port = PortFor(r, a.peer) /\ HasPort(a.peer)

SocketsFit ==
    /\ \A s \in sockets : s = SocketOf(s.owner) /\ status[s.owner] = "listening"
    /\ \A r \in Hosted : status[r] = "listening" => SocketOf(r) \in sockets

AddressInv ==
    /\ AddressTypeOK /\ HostsKnown /\ FitToGo /\ UnfitToGo /\ AddressesFit /\ SocketsFit
    /\ NobodyElse /\ PortsAreFree

LEMMA HasPortIfFit ==
    ASSUME NEW r \in Hosted, ~NoPortFor(r)
    PROVE  HasPort(r)
BY DEF NoPortFor

\* Two runners that listen have different ports.
LEMMA SocketsDiffer ==
    ASSUME AddressTypeOK, FitToGo, SocketsFit, NEW s \in sockets, NEW r, NEW q \in Hosted,
           HasPort(q), s.port = PortFor(r, q)
    PROVE  s.owner = q
<1>1. s.owner \in Hosted /\ s = SocketOf(s.owner) /\ status[s.owner] = "listening"
  BY DEF AddressTypeOK, SocketsFit
<1>2. HasPort(s.owner)
  BY <1>1, HasPortIfFit DEF FitToGo
<1>3. s.port = PortFor(s.owner, s.owner)
  BY <1>1 DEF SocketOf
<1>4. layout \in Layouts
  BY DEF AddressTypeOK
<1> QED BY <1>1, <1>2, <1>3, <1>4, PortsDiffer

\* What is noted for a peer is a host it can be reached at.
LEMMA CanonicalFits ==
    ASSUME layout \in Layouts, NEW r \in Hosted, NEW p \in Hosted, NEW h \in SourcesOf(r, p)
    PROVE  HostFits(r, p, Canonical(r, h)) /\ Canonical(r, h) \in AllHosts
<1>1. layout.home[r] \in Machines /\ layout.home[p] \in Machines /\ 0 \notin Machines
  BY LayoutFacts, HostedAssumption
<1>2. CASE h = Own
  <2>1. Own \notin HostsOf(layout.home[p])
    BY <1>1 DEF Own, HostsOf
  <2>2. layout.home[p] = layout.home[r]
    BY <1>2, <2>1 DEF SourcesOf
  <2> QED BY <1>2, <2>2 DEF HostFits, Canonical, AllHosts
<1>3. CASE h \in HostsOf(layout.home[p])
  <2>1. h.machine = layout.home[p] /\ h \in AllHosts
    BY <1>1, <1>3 DEF HostsOf, AllHosts
  <2> QED BY <1>3, <2>1 DEF HostFits, Canonical, AllHosts
<1> QED BY <1>2, <1>3 DEF SourcesOf

LEMMA AddressInitially == AddressInit => AddressInv
<1> SUFFICES ASSUME AddressInit PROVE AddressInv
  OBVIOUS
<1>1. AddressTypeOK
  BY DEF AddressInit, AddressTypeOK, AllHosts
<1>2. HostsKnown
  BY DEF AddressInit, HostsKnown, HostFits
<1> QED BY <1>1, <1>2 DEF AddressInit, AddressInv, FitToGo, UnfitToGo, AddressesFit, SocketsFit,
             NobodyElse, PortsAreFree

LEMMA HearPeerKeeps ==
    ASSUME AddressInv, NEW r \in Hosted, NEW p \in Hosted, HearPeer(r, p)
    PROVE  AddressInv'
<1>1. PICK h \in SourcesOf(r, p) : peerHosts' = [peerHosts EXCEPT ![r][p] = Canonical(r, h)]
  BY DEF HearPeer
<1>2. layout \in Layouts /\ peerHosts \in [Hosted -> [Hosted -> AllHosts \union {Unheard}]]
  BY DEF AddressInv, AddressTypeOK
<1>3. HostFits(r, p, Canonical(r, h)) /\ Canonical(r, h) \in AllHosts
  BY <1>2, CanonicalFits
<1> HIDE DEF Canonical
<1>4. peerHosts' \in [Hosted -> [Hosted -> AllHosts \union {Unheard}]]
  BY <1>1, <1>2, <1>3
<1>5. \A x, y \in Hosted :
        peerHosts'[x][y] = IF x = r /\ y = p THEN Canonical(r, h) ELSE peerHosts[x][y]
  BY <1>1, <1>2
<1>6. AddressTypeOK'
  BY <1>4 DEF HearPeer, AddressInv, AddressTypeOK
<1>7. HostsKnown'
  BY <1>3, <1>5 DEF HearPeer, AddressInv, HostsKnown, HostFits
<1> QED BY <1>6, <1>7 DEF HearPeer, AddressInv, FitToGo, UnfitToGo, AddressesFit, SocketsFit,
             NobodyElse, PortsAreFree, NoPortFor, HasPort, SumFor, PeerIndex, Unchecked, PortFor,
             HostFits, SocketOf

LEMMA DeriveKeeps ==
    ASSUME AddressInv, NEW r \in Hosted, DeriveEndpoints(r)
    PROVE  AddressInv'
<1> USE DEF DeriveEndpoints
<1>0. /\ AddressTypeOK /\ layout \in Layouts /\ layout' = layout
      /\ peerHosts \in [Hosted -> [Hosted -> AllHosts \union {Unheard}]]
      /\ status \in [Hosted -> {"discovery", "derived", "listening", "unfit", "taken", "gone"}]
      /\ toDial \in [Hosted -> SUBSET [peer : Hosted, host : AllHosts, port : 0..MaxPort]]
  BY DEF AddressInv, AddressTypeOK
<1> DEFINE News == {[peer |-> q, host |-> peerHosts[r][q], port |-> PortFor(r, q)] : q \in DialsTo(r)}
<1>1. \A a \in News : /\ a \in [peer : Hosted, host : AllHosts, port : 0..MaxPort]
                      /\ HostFits(r, a.peer, a.host)
                      /\ a.port = PortFor(r, a.peer) /\ HasPort(a.peer)
  <2> SUFFICES ASSUME NEW q \in DialsTo(r)
               PROVE  /\ peerHosts[r][q] \in AllHosts /\ PortFor(r, q) \in 0..MaxPort /\ q \in Hosted
                      /\ HostFits(r, q, peerHosts[r][q]) /\ HasPort(q)
    OBVIOUS
  <2>1. q \in Hosted /\ HasPort(q)
    BY DEF DialsTo
  <2>2. peerHosts[r][q] # Unheard /\ peerHosts[r][q] \in AllHosts
    BY <1>0, <2>1
  <2> QED BY <1>0, <2>1, <2>2, PortsDiffer DEF AddressInv, HostsKnown
<1>2. CASE NoPortFor(r)
  <2>1. status' = [status EXCEPT ![r] = "unfit"] /\ toDial' = toDial
    BY <1>2
  <2>2. AddressTypeOK'
    BY <1>0, <2>1 DEF AddressTypeOK
  <2> QED BY <1>0, <1>2, <2>1, <2>2 DEF AddressInv, HostsKnown, FitToGo, UnfitToGo, AddressesFit,
               SocketsFit, NobodyElse, PortsAreFree, NoPortFor, HasPort, SumFor, PeerIndex, Unchecked,
               PortFor, HostFits, SocketOf, AddressTypeOK
<1>3. CASE ~NoPortFor(r)
  <2>1. status' = [status EXCEPT ![r] = "derived"] /\ toDial' = [toDial EXCEPT ![r] = News]
    BY <1>3
  <2> HIDE DEF News
  <2>2. toDial' \in [Hosted -> SUBSET [peer : Hosted, host : AllHosts, port : 0..MaxPort]]
    <3>1. News \in SUBSET [peer : Hosted, host : AllHosts, port : 0..MaxPort]
      BY <1>1
    <3> QED BY <1>0, <2>1, <3>1
  <2>3. AddressTypeOK'
    BY <1>0, <2>1, <2>2 DEF AddressTypeOK
  <2>4. \A x \in Hosted : toDial'[x] = IF x = r THEN News ELSE toDial[x]
    BY <1>0, <2>1
  <2>5. AddressesFit'
    BY <1>0, <1>1, <2>4 DEF AddressInv, AddressesFit, HasPort, SumFor, PeerIndex, Unchecked, PortFor,
       HostFits
  <2> QED BY <1>0, <1>3, <2>1, <2>3, <2>5 DEF AddressInv, HostsKnown, FitToGo, UnfitToGo,
               SocketsFit, NobodyElse, PortsAreFree, NoPortFor, HasPort, SumFor, PeerIndex, Unchecked,
               PortFor, HostFits, SocketOf, AddressTypeOK
<1> QED BY <1>2, <1>3

LEMMA BindKeeps ==
    ASSUME AddressInv, NEW r \in Hosted, BindListener(r)
    PROVE  AddressInv'
<1>0. /\ AddressTypeOK /\ layout \in Layouts /\ layout' = layout
      /\ status \in [Hosted -> {"discovery", "derived", "listening", "unfit", "taken", "gone"}]
      /\ status[r] = "derived" /\ FitToGo /\ SocketsFit
  BY DEF AddressInv, AddressTypeOK, BindListener
<1>1. HasPort(r)
  BY <1>0, HasPortIfFit DEF FitToGo
<1>2. ~\E s \in sockets : s.machine = layout.home[r] /\ s.port = PortFor(r, r)
  <2> SUFFICES ASSUME NEW s \in sockets, s.port = PortFor(r, r) PROVE FALSE
    OBVIOUS
  <2>1. s.owner = r
    BY <1>0, <1>1, SocketsDiffer
  <2> QED BY <1>0, <2>1 DEF SocketsFit
<1>3. /\ status' = [status EXCEPT ![r] = "listening"]
      /\ sockets' = sockets \union {SocketOf(r)}
  BY <1>2 DEF BindListener
<1>4. SocketOf(r) \in [machine : Machines, face : {"any", "own"}, port : 0..MaxPort, owner : Hosted]
  BY <1>0, <1>1, PortsDiffer, LayoutFacts DEF SocketOf
<1>5. AddressTypeOK'
  BY <1>0, <1>3, <1>4 DEF AddressTypeOK, BindListener
<1>6. \A x \in Hosted : status'[x] = IF x = r THEN "listening" ELSE status[x]
  BY <1>0, <1>3
<1>7. SocketOf(r).owner = r
  BY DEF SocketOf
<1>8. \A x : SocketOf(x)' = SocketOf(x)
  BY <1>0 DEF SocketOf, PortFor, Unchecked, SumFor, PeerIndex
<1>9. SocketsFit'
  <2>1. \A s \in sockets' : s.owner \in Hosted /\ s = SocketOf(s.owner) /\ status'[s.owner] = "listening"
    BY <1>0, <1>3, <1>6, <1>7 DEF SocketsFit, AddressTypeOK
  <2>2. \A x \in Hosted : status'[x] = "listening" => SocketOf(x) \in sockets'
    BY <1>0, <1>3, <1>6 DEF SocketsFit
  <2> QED BY <1>8, <2>1, <2>2 DEF SocketsFit
<1> QED BY <1>0, <1>3, <1>5, <1>6, <1>9 DEF BindListener, AddressInv, HostsKnown, FitToGo, UnfitToGo,
             AddressesFit, NobodyElse, PortsAreFree, NoPortFor, HasPort, SumFor, PeerIndex, Unchecked,
             PortFor, HostFits

LEMMA DialKeeps ==
    ASSUME AddressInv, NEW r \in Hosted, DialAddress(r)
    PROVE  AddressInv'
<1>1. PICK a \in toDial[r] : \E s \in ReachedBy(r, a) :
        /\ toDial' = [toDial EXCEPT ![r] = @ \ {a}]
        /\ met' = met \union {[from |-> r, meant |-> a.peer, got |-> s.owner]}
  BY DEF DialAddress
<1>2. PICK s \in ReachedBy(r, a) :
        met' = met \union {[from |-> r, meant |-> a.peer, got |-> s.owner]}
  BY <1>1
<1>0. /\ AddressTypeOK /\ layout' = layout /\ FitToGo /\ SocketsFit
      /\ toDial \in [Hosted -> SUBSET [peer : Hosted, host : AllHosts, port : 0..MaxPort]]
  BY DEF AddressInv, AddressTypeOK, DialAddress
<1>3. s \in sockets /\ s.port = a.port
  BY DEF ReachedBy
<1>4. a.peer \in Hosted /\ a.port = PortFor(r, a.peer) /\ HasPort(a.peer)
  BY <1>0 DEF AddressInv, AddressesFit
<1>5. s.owner = a.peer
  BY <1>0, <1>3, <1>4, SocketsDiffer
<1>6. toDial' = [toDial EXCEPT ![r] = @ \ {a}]
  BY <1>1
<1>7. \A x \in Hosted : toDial'[x] \subseteq toDial[x]
  BY <1>0, <1>6
<1>8. AddressTypeOK'
  BY <1>0, <1>2, <1>4, <1>5, <1>6 DEF AddressTypeOK, DialAddress
<1>9. NobodyElse'
  BY <1>2, <1>5 DEF AddressInv, NobodyElse
<1> QED BY <1>0, <1>7, <1>8, <1>9 DEF DialAddress, AddressInv, HostsKnown, FitToGo, UnfitToGo,
             AddressesFit, SocketsFit, PortsAreFree, NoPortFor, HasPort, SumFor, PeerIndex, Unchecked,
             PortFor, HostFits, SocketOf

LEMMA GoOnKeeps ==
    ASSUME AddressInv, NEW r \in Hosted, GoOnWithout(r)
    PROVE  AddressInv'
<1>1. PICK a \in toDial[r] : toDial' = [toDial EXCEPT ![r] = @ \ {a}]
  BY DEF GoOnWithout
<1>0. /\ AddressTypeOK /\ UNCHANGED <<layout, peerHosts, status, sockets, met>>
      /\ toDial \in [Hosted -> SUBSET [peer : Hosted, host : AllHosts, port : 0..MaxPort]]
  BY DEF AddressInv, AddressTypeOK, GoOnWithout
<1>2. \A x \in Hosted : toDial'[x] \subseteq toDial[x]
  BY <1>0, <1>1
<1>3. AddressTypeOK'
  BY <1>0, <1>1 DEF AddressTypeOK, GoOnWithout
<1>4. AddressesFit'
  BY <1>0, <1>2 DEF AddressInv, AddressesFit, HasPort, SumFor, PeerIndex, Unchecked, PortFor, HostFits
<1> QED BY <1>0, <1>3, <1>4 DEF AddressInv, HostsKnown, FitToGo, UnfitToGo,
             SocketsFit, PortsAreFree, NobodyElse, NoPortFor, HasPort, SumFor, PeerIndex, Unchecked,
             PortFor, HostFits, SocketOf

LEMMA EndKeeps ==
    ASSUME AddressInv, NEW r \in Hosted, EndForWant(r)
    PROVE  AddressInv'
<1>0. /\ AddressTypeOK /\ layout' = layout /\ status[r] = "listening"
      /\ toDial' = [toDial EXCEPT ![r] = {}] /\ status' = [status EXCEPT ![r] = "gone"]
      /\ sockets' = {s \in sockets : s.owner # r}
      /\ toDial \in [Hosted -> SUBSET [peer : Hosted, host : AllHosts, port : 0..MaxPort]]
      /\ status \in [Hosted -> {"discovery", "derived", "listening", "unfit", "taken", "gone"}]
      /\ \A s \in sockets : s.owner \in Hosted
  BY DEF AddressInv, AddressTypeOK, EndForWant
<1>1. AddressTypeOK'
  BY <1>0 DEF AddressTypeOK, EndForWant
<1>2. \A x \in Hosted : /\ toDial'[x] \subseteq toDial[x]
                        /\ status'[x] = IF x = r THEN "gone" ELSE status[x]
  BY <1>0
<1>3. \A x : SocketOf(x)' = SocketOf(x) /\ SocketOf(x).owner = x
  BY <1>0 DEF SocketOf, PortFor, Unchecked, SumFor, PeerIndex
<1>4. SocketsFit'
  <2>1. \A s \in sockets' : s = SocketOf(s.owner) /\ status'[s.owner] = "listening"
    BY <1>0, <1>2 DEF AddressInv, SocketsFit
  <2>2. \A x \in Hosted : status'[x] = "listening" => SocketOf(x) \in sockets'
    BY <1>0, <1>2, <1>3 DEF AddressInv, SocketsFit
  <2> QED BY <1>3, <2>1, <2>2 DEF SocketsFit
<1> QED BY <1>0, <1>1, <1>2, <1>4 DEF EndForWant, AddressInv, HostsKnown, FitToGo, UnfitToGo,
             AddressesFit, PortsAreFree, NobodyElse, NoPortFor, HasPort, SumFor, PeerIndex, Unchecked,
             PortFor, HostFits

LEMMA AddressStutters ==
    ASSUME AddressInv, UNCHANGED addressVars
    PROVE  AddressInv'
BY DEF addressVars, AddressInv, AddressTypeOK, HostsKnown, FitToGo, UnfitToGo, AddressesFit,
       SocketsFit, PortsAreFree, NobodyElse, NoPortFor, HasPort, SumFor, PeerIndex, Unchecked,
       PortFor, HostFits, SocketOf

(* The invariant of Addresses, for any number of runners and machines, any
   order, use, port and QoS. *)
THEOREM AddressInvariant == AddressSpec => []AddressInv
<1>1. AddressInit => AddressInv
  BY AddressInitially
<1>2. AddressInv /\ [AddressNext]_addressVars => AddressInv'
  <2> SUFFICES ASSUME AddressInv, [AddressNext]_addressVars PROVE AddressInv'
    OBVIOUS
  <2>1. CASE UNCHANGED addressVars
    BY <2>1, AddressStutters
  <2>2. ASSUME NEW r \in Hosted,
               \/ \E p \in Hosted : HearPeer(r, p)
               \/ DeriveEndpoints(r) \/ BindListener(r) \/ DialAddress(r)
               \/ GoOnWithout(r) \/ EndForWant(r)
        PROVE  AddressInv'
    BY <2>2, HearPeerKeeps, DeriveKeeps, BindKeeps, DialKeeps, GoOnKeeps, EndKeeps
  <2> QED BY <2>1, <2>2 DEF AddressNext
<1> QED BY <1>1, <1>2, PTL DEF AddressSpec

\* A host that is not 127.0.0.1 is one of the peer's machine, another one.
LEMMA HostsTell ==
    ASSUME layout \in Layouts, NEW r \in Hosted, NEW q \in Hosted, NEW h, HostFits(r, q, h)
    PROVE  IF h = Own THEN layout.home[q] = layout.home[r]
           ELSE h.machine = layout.home[q] /\ layout.home[q] # layout.home[r]
<1>1. layout.home[q] \in Machines /\ 0 \notin Machines
  BY LayoutFacts, HostedAssumption
<1>2. Own \notin HostsOf(layout.home[q])
  BY <1>1 DEF Own, HostsOf
<1> QED BY <1>2 DEF HostFits, HostsOf

LEMMA InvLeads == AddressInv => PeersMeet
<1> SUFFICES ASSUME AddressInv PROVE PeersMeet
  OBVIOUS
<1>0. AddressTypeOK /\ layout \in Layouts
  BY DEF AddressInv, AddressTypeOK
<1>1. AddressesLead
  <2> SUFFICES ASSUME NEW r \in Hosted, NEW a \in toDial[r], status[a.peer] = "listening",
                      layout.use.face = "any" \/ layout.home[r] = layout.home[a.peer]
               PROVE  \E s \in ReachedBy(r, a) : s.owner = a.peer
    BY DEF AddressesLead
  <2>1. a.peer \in Hosted
    BY <1>0 DEF AddressTypeOK
  <2>2. SocketOf(a.peer) \in sockets
    BY <2>1 DEF AddressInv, SocketsFit
  <2>3. HostFits(r, a.peer, a.host) /\ a.port = PortFor(a.peer, a.peer)
    BY DEF AddressInv, AddressesFit, PortFor
  <2>4. /\ SocketOf(a.peer).port = a.port /\ SocketOf(a.peer).owner = a.peer
        /\ SocketOf(a.peer).machine = layout.home[a.peer]
        /\ SocketOf(a.peer).face = layout.use.face
    BY <2>3 DEF SocketOf
  <2>5. IF a.host = Own THEN layout.home[a.peer] = layout.home[r]
        ELSE a.host.machine = layout.home[a.peer] /\ layout.home[a.peer] # layout.home[r]
    BY <1>0, <2>1, <2>3, HostsTell
  <2>6. SocketOf(a.peer) \in ReachedBy(r, a)
    BY <2>2, <2>4, <2>5 DEF ReachedBy
  <2> QED BY <2>4, <2>6
<1>2. AllOrNone
  <2> SUFFICES ASSUME ~layout.use.alone, NEW r \in Hosted, status[r] = "unfit", NEW q \in Hosted
               PROVE  status[q] \in {"discovery", "unfit"}
    BY DEF AllOrNone
  <2>1. NoPortFor(r)
    BY DEF AddressInv, UnfitToGo
  <2>2. NoPortFor(q)
    BY <2>1 DEF NoPortFor
  <2>3. status[q] \in {"discovery", "derived", "listening", "unfit", "taken", "gone"}
    BY <1>0 DEF AddressTypeOK
  <2> QED BY <2>2, <2>3 DEF AddressInv, FitToGo, PortsAreFree
<1> QED BY <1>1, <1>2 DEF AddressInv, PeersMeet

(* Everybody finds whom it looks for, and nobody else: PeersMeet in the code of
   discovery, of derive_endpoints and of the start functions. *)
THEOREM EveryoneIsFound == AddressSpec => []PeersMeet
BY AddressInvariant, InvLeads, PTL
=============================================================================
