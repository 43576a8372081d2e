------------------------- MODULE RunnerBarrierProofs -------------------------
(***************************************************************************)
(* Proofs about RunnerBarrier, for every set of runners, every job list,   *)
(* every skip set and every naming of the jobs, under every fault.         *)
(*                                                                         *)
(* The argument.  Number the barriers in the order in which the job loop   *)
(* meets them, 2j for Ready and 2j + 1 for Done of job j.  A runner has    *)
(* entered every barrier up to reach[r] and left every one up to past[r].  *)
(* Frames travel in order, so that once a runner has counted a frame of p  *)
(* for its barrier nothing older is left on the link from p, and once it   *)
(* has counted everyone nothing older is left on any.  The frames that are *)
(* still there when a later barrier starts are of the barrier just left,   *)
(* and that one is of the other kind: a frame of the right kind is of the  *)
(* right job, whatever the jobs are called.                                *)
(*                                                                         *)
(* Then what the runners tell each other: the summary table, the exit      *)
(* status, and that nobody is left behind in a barrier.  A Done frame      *)
(* carries the outcome its sender has reached for that job, from the       *)
(* moment it is sent: the outcome is set when the barrier is entered, and  *)
(* by the order of the frames (LockstepInv) no Done frame of the job is in *)
(* flight, no peer has counted its sender and no summary has a row for the *)
(* job before that.  A frame a barrier counts is of its own job, so what   *)
(* it counts is that job's outcome; the rows of the jobs a runner has      *)
(* behind it are therefore the same everywhere, and with them the          *)
(* verdicts.                                                               *)
(***************************************************************************)
EXTENDS RunnerBarrier, SequenceTheorems, WellFoundedInduction, TLAPS

\* The place of a barrier, and of a frame, in that order.
Pos(j, kind) == 2 * j + (IF kind = "Done" THEN 1 ELSE 0)
PosOf(f) == Pos(f.job, f.kind)
Places == {Pos(j, kind) : j \in Active, kind \in Kinds}

\* The last barrier each runner has entered, and the last it has left (of
\* all the jobs, skipped or not), and whom it has counted in the one it is in.
reach ==
    [r \in Runners |->
        2 * job[r] + (CASE pc[r] = "next" -> -1
                        [] pc[r] = "done" -> 1
                        [] OTHER -> 0)]
past ==
    [r \in Runners |-> 2 * job[r] + (IF pc[r] \in {"next", "ready"} THEN -1 ELSE 0)]
heard == [r \in Runners |-> IF InBarrier(r) THEN Heard(r) ELSE {}]

Links == [Runners -> [Runners -> Seq(Frames)]]

\* l is a matrix of links, e, v and h are values of reach, past and heard.
Within(l, e) ==
    \A p, q \in Runners : \A i \in 1..Len(l[p][q]) : PosOf(l[p][q][i]) <= e[p]

Sorted(l) ==
    \A p, q \in Runners : \A i, k \in 1..Len(l[p][q]) :
        i <= k => PosOf(l[p][q][i]) <= PosOf(l[p][q][k])

NothingBelow(l, p, q, x) == \A i \in 1..Len(l[p][q]) : x <= PosOf(l[p][q][i])

\* What a runner has left, everyone has entered, and nothing older is in
\* flight to it.
LeftTogether(l, e, v) ==
    \A r, p \in Runners, x \in Places :
        x <= v[r] => x <= e[p] /\ NothingBelow(l, p, r, x)

\* Whoever a barrier has counted is in it, with nothing older in flight.
HeardAreIn(l, e, h) ==
    \A r \in Runners : \A p \in h[r] : e[r] <= e[p] /\ NothingBelow(l, p, r, e[r])

Ordered(l, e, v, h) ==
    /\ Within(l, e)
    /\ Sorted(l)
    /\ LeftTogether(l, e, v)
    /\ HeardAreIn(l, e, h)

\* No connection to oneself, and no frame on it.
NoSelfLink ==
    \A r \in Runners : r \notin writers[r] /\ r \notin readers[r] /\ link[r][r] = <<>>

LockstepInv == TypeOK /\ NoSelfLink /\ Ordered(link, reach, past, heard)

-----------------------------------------------------------------------------
(* What draining, sending and a broken connection do to the links.         *)

LEMMA Suffix ==
    ASSUME NEW S, NEW s \in Seq(S), NEW k \in 0..Len(s)
    PROVE  /\ SubSeq(s, k + 1, Len(s)) \in Seq(S)
           /\ Len(SubSeq(s, k + 1, Len(s))) = Len(s) - k
           /\ \A i \in 1..(Len(s) - k) : SubSeq(s, k + 1, Len(s))[i] = s[i + k]
<1>1. Len(s) \in Nat /\ \A i \in 1..Len(s) : s[i] \in S
  BY ElementOfSeq, LenProperties
<1>2. \A i \in (k + 1)..Len(s) : s[i] \in S
  BY <1>1
<1>3. /\ SubSeq(s, k + 1, Len(s)) \in Seq(S)
      /\ Len(SubSeq(s, k + 1, Len(s)))
            = IF k + 1 <= Len(s) THEN Len(s) - (k + 1) + 1 ELSE 0
      /\ \A i \in 1..(Len(s) - (k + 1) + 1) :
            SubSeq(s, k + 1, Len(s))[i] = s[(k + 1) + i - 1]
  BY <1>1, <1>2, SubSeqProperties
<1>4. QED
  BY <1>1, <1>3

LEMMA Prefix ==
    ASSUME NEW S, NEW s \in Seq(S), NEW k \in 0..Len(s)
    PROVE  /\ SubSeq(s, 1, k) \in Seq(S)
           /\ Len(SubSeq(s, 1, k)) = k
           /\ \A i \in 1..k : SubSeq(s, 1, k)[i] = s[i]
<1>1. Len(s) \in Nat /\ \A i \in 1..Len(s) : s[i] \in S
  BY ElementOfSeq, LenProperties
<1>2. \A i \in 1..k : s[i] \in S
  BY <1>1
<1>3. /\ SubSeq(s, 1, k) \in Seq(S)
      /\ Len(SubSeq(s, 1, k)) = IF 1 <= k THEN k - 1 + 1 ELSE 0
      /\ \A i \in 1..(k - 1 + 1) : SubSeq(s, 1, k)[i] = s[1 + i - 1]
  BY <1>1, <1>2, SubSeqProperties
<1>4. QED
  BY <1>1, <1>3

LEMMA LinkType ==
    ASSUME TypeOK, NEW p \in Runners, NEW r \in Runners
    PROVE  /\ link[p][r] \in Seq(Frames)
           /\ Len(link[p][r]) \in Nat
           /\ \A i \in 1..Len(link[p][r]) : link[p][r][i] \in Frames
<1>1. link[p][r] \in Seq(Frames)
  BY DEF TypeOK
<1>2. QED
  BY <1>1, ElementOfSeq, LenProperties

LEMMA ArrivalsType ==
    ASSUME TypeOK, NEW r \in Runners, NEW n \in Arrivals(r)
    PROVE  /\ n \in [Runners -> Nat]
           /\ \A p \in Runners : n[p] \in 0..Len(link[p][r])
<1>1. ASSUME NEW p \in Runners PROVE Len(link[p][r]) \in Nat
  BY LinkType
<1>2. (UNION {0..Len(link[p][r]) : p \in Runners}) \subseteq Nat
  BY <1>1
<1>3. QED
  BY <1>1, <1>2 DEF Arrivals

LEMMA DrainedLinks ==
    ASSUME TypeOK, NEW r \in Runners, NEW n \in Arrivals(r)
    PROVE  /\ Drained(r, n) \in [Runners -> [Runners -> Seq(Frames)]]
           /\ \A p \in Runners :
                /\ Len(Drained(r, n)[p][r]) = Len(link[p][r]) - n[p]
                /\ \A i \in 1..Len(Drained(r, n)[p][r]) :
                        Drained(r, n)[p][r][i] = link[p][r][i + n[p]]
           /\ \A p \in Runners, q \in Runners \ {r} :
                Drained(r, n)[p][q] = link[p][q]
<1>1. ASSUME NEW p \in Runners
      PROVE  /\ SubSeq(link[p][r], n[p] + 1, Len(link[p][r])) \in Seq(Frames)
             /\ Len(SubSeq(link[p][r], n[p] + 1, Len(link[p][r]))) = Len(link[p][r]) - n[p]
             /\ \A i \in 1..(Len(link[p][r]) - n[p]) :
                    SubSeq(link[p][r], n[p] + 1, Len(link[p][r]))[i] = link[p][r][i + n[p]]
  BY LinkType, ArrivalsType, Suffix
<1>2. ASSUME NEW p \in Runners, NEW q \in Runners
      PROVE link[p][q] \in Seq(Frames)
  BY LinkType
<1>3. Drained(r, n) \in [Runners -> [Runners -> Seq(Frames)]]
  BY <1>1, <1>2 DEF Drained
<1>4. QED
  BY <1>1, <1>3 DEF Drained

\* A step of r drains n frames of each link to r, and appends f to some of
\* the links from r.
LinkStep(l, m, r, f, n) ==
    /\ m \in Links
    /\ \A p \in Runners :
        /\ Len(m[p][r]) = Len(l[p][r]) - n[p]
        /\ \A i \in 1..Len(m[p][r]) : m[p][r][i] = l[p][r][i + n[p]]
    /\ \A q \in Runners \ {r} :
        \/ m[r][q] = l[r][q]
        \/ /\ Len(m[r][q]) = Len(l[r][q]) + 1
           /\ \A i \in 1..Len(l[r][q]) : m[r][q][i] = l[r][q][i]
           /\ m[r][q][Len(l[r][q]) + 1] = f
    /\ \A p, q \in Runners \ {r} : m[p][q] = l[p][q]

NoArrivals == [p \in Runners |-> 0]

LEMMA SendingIsLinkStep ==
    ASSUME TypeOK, NoSelfLink, NEW r \in Runners, NEW f \in Frames, NEW failed,
           link' = Sent(link, r, f, failed)
    PROVE  LinkStep(link, link', r, f, NoArrivals)
<1>1. link \in [Runners -> [Runners -> Seq(Frames)]]
  BY DEF TypeOK
<1>2. ASSUME NEW q \in Runners
      PROVE  /\ Append(link[r][q], f) \in Seq(Frames)
             /\ Len(Append(link[r][q], f)) = Len(link[r][q]) + 1
             /\ \A i \in 1..Len(link[r][q]) : Append(link[r][q], f)[i] = link[r][q][i]
             /\ Append(link[r][q], f)[Len(link[r][q]) + 1] = f
  BY LinkType, AppendProperties
<1>3. link' \in [Runners -> [Runners -> Seq(Frames)]]
  BY <1>1, <1>2 DEF Sent
<1>4. \A q \in Runners \ {r} :
            \/ link'[r][q] = link[r][q]
            \/ /\ Len(link'[r][q]) = Len(link[r][q]) + 1
               /\ \A i \in 1..Len(link[r][q]) : link'[r][q][i] = link[r][q][i]
               /\ link'[r][q][Len(link[r][q]) + 1] = f
  BY <1>1, <1>2 DEF Sent
<1>5. \A p \in Runners \ {r} : link'[p] = link[p]
  BY <1>1 DEF Sent
<1>6. link'[r][r] = link[r][r]
  BY <1>1 DEF Sent, NoSelfLink
<1>7. ASSUME NEW p \in Runners
      PROVE  /\ Len(link'[p][r]) = Len(link[p][r]) - NoArrivals[p]
             /\ \A i \in 1..Len(link'[p][r]) : link'[p][r][i] = link[p][r][i + NoArrivals[p]]
  BY <1>5, <1>6, LinkType DEF NoArrivals
<1>8. QED
  BY <1>3, <1>4, <1>5, <1>7 DEF LinkStep, Links

LEMMA PollingIsLinkStep ==
    ASSUME TypeOK, NoSelfLink, NEW r \in Runners, NEW f \in Frames, NEW failed,
           NEW n \in Arrivals(r),
           link' = Sent(Drained(r, n), r, f, failed) \/ link' = Drained(r, n)
    PROVE  LinkStep(link, link', r, f, n)
<1> DEFINE D == Drained(r, n)
<1>1. /\ D \in [Runners -> [Runners -> Seq(Frames)]]
      /\ \A p \in Runners :
           /\ Len(D[p][r]) = Len(link[p][r]) - n[p]
           /\ \A i \in 1..Len(D[p][r]) : D[p][r][i] = link[p][r][i + n[p]]
      /\ \A p \in Runners, q \in Runners \ {r} : D[p][q] = link[p][q]
  BY DrainedLinks
<1>2. ASSUME NEW q \in Runners
      PROVE  /\ Append(D[r][q], f) \in Seq(Frames)
             /\ Len(Append(D[r][q], f)) = Len(D[r][q]) + 1
             /\ \A i \in 1..Len(D[r][q]) : Append(D[r][q], f)[i] = D[r][q][i]
             /\ Append(D[r][q], f)[Len(D[r][q]) + 1] = f
  <2>1. D[r][q] \in Seq(Frames)
    BY <1>1
  <2> HIDE DEF D
  <2>2. QED
    BY <2>1, AppendProperties
<1>3. link' = Sent(D, r, f, failed) \/ link' = D
  OBVIOUS
<1> HIDE DEF D
<1>4. CASE link' = D
  BY <1>1, <1>4 DEF LinkStep, Links
<1>5. CASE link' = Sent(D, r, f, failed)
  <2>1. link' = [D EXCEPT ![r] = [q \in Runners |->
            IF q \in writers[r] \ failed /\ r \in readers[q] /\ up[q] = "running"
            THEN Append(D[r][q], f) ELSE D[r][q]]]
    BY <1>5 DEF Sent
  <2>2. /\ \A q \in Runners : link'[r][q] = Append(D[r][q], f) \/ link'[r][q] = D[r][q]
        /\ \A p \in Runners \ {r} : link'[p] = D[p]
    BY <1>1, <2>1
  <2>3. link'[r][r] = D[r][r]
    BY <1>1, <2>1 DEF NoSelfLink
  <2>4. link' \in [Runners -> [Runners -> Seq(Frames)]]
    BY <1>1, <1>2, <2>1
  <2>5. \A q \in Runners \ {r} :
            \/ link'[r][q] = D[r][q]
            \/ /\ Len(link'[r][q]) = Len(D[r][q]) + 1
               /\ \A i \in 1..Len(D[r][q]) : link'[r][q][i] = D[r][q][i]
               /\ link'[r][q][Len(D[r][q]) + 1] = f
    BY <1>2, <2>2
  <2>6. \A p \in Runners : link'[p][r] = D[p][r]
    BY <2>2, <2>3
  <2>7. \A p \in Runners :
            /\ Len(link'[p][r]) = Len(link[p][r]) - n[p]
            /\ \A i \in 1..Len(link'[p][r]) : link'[p][r][i] = link[p][r][i + n[p]]
    BY <1>1, <2>6
  <2>8. \A q \in Runners \ {r} : D[r][q] = link[r][q]
    BY <1>1
  <2>9. \A p, q \in Runners \ {r} : link'[p][q] = link[p][q]
    BY <1>1, <2>2
  <2>10. \A q \in Runners \ {r} :
            \/ link'[r][q] = link[r][q]
            \/ /\ Len(link'[r][q]) = Len(link[r][q]) + 1
               /\ \A i \in 1..Len(link[r][q]) : link'[r][q][i] = link[r][q][i]
               /\ link'[r][q][Len(link[r][q]) + 1] = f
    <3> SUFFICES ASSUME NEW q \in Runners \ {r}
                 PROVE  \/ link'[r][q] = link[r][q]
                        \/ /\ Len(link'[r][q]) = Len(link[r][q]) + 1
                           /\ \A i \in 1..Len(link[r][q]) : link'[r][q][i] = link[r][q][i]
                           /\ link'[r][q][Len(link[r][q]) + 1] = f
      OBVIOUS
    <3>1. D[r][q] = link[r][q]
      BY <2>8
    <3>2. QED
      BY <2>5, <3>1, Zenon
  <2>11. QED
    BY <2>4, <2>7, <2>9, <2>10 DEF LinkStep, Links
<1>6. QED
  BY <1>3, <1>4, <1>5

-----------------------------------------------------------------------------
(* The order of the frames in flight, as facts about values of the state.  *)

LEMMA FrameType ==
    ASSUME NEW f \in Frames
    PROVE  f.job \in Active /\ f.kind \in Kinds /\ PosOf(f) \in Places /\ PosOf(f) \in Nat
<1>1. f.job \in Active /\ f.kind \in Kinds
  BY DEF Frames
<1>2. f.job \in Nat
  BY <1>1, JobsAssumption DEF Active, Jobs
<1>3. QED
  BY <1>1, <1>2 DEF PosOf, Pos, Places

LEMMA LinksType ==
    ASSUME NEW l \in Links, NEW p \in Runners, NEW q \in Runners
    PROVE  /\ Len(l[p][q]) \in Nat
           /\ \A i \in 1..Len(l[p][q]) : PosOf(l[p][q][i]) \in Nat
<1>1. l[p][q] \in Seq(Frames)
  BY DEF Links
<1>2. Len(l[p][q]) \in Nat /\ \A i \in 1..Len(l[p][q]) : l[p][q][i] \in Frames
  BY <1>1, ElementOfSeq, LenProperties
<1>3. QED
  BY <1>2, FrameType

\* A frame after the step was there before it, or is the one just sent.
Origin(l, m, r, f, n, p, q, i) ==
    \/ /\ q = r
       /\ i + n[p] \in 1..Len(l[p][q])
       /\ m[p][q][i] = l[p][q][i + n[p]]
    \/ /\ q # r
       /\ i \in 1..Len(l[p][q])
       /\ m[p][q][i] = l[p][q][i]
    \/ /\ q # r /\ p = r
       /\ i = Len(l[p][q]) + 1
       /\ i = Len(m[p][q])
       /\ m[p][q][i] = f

LEMMA FrameOrigin ==
    ASSUME NEW l \in Links, NEW m \in Links, NEW r \in Runners, NEW f \in Frames,
           NEW n \in [Runners -> Nat], LinkStep(l, m, r, f, n)
    PROVE  \A p, q \in Runners : \A i \in 1..Len(m[p][q]) : Origin(l, m, r, f, n, p, q, i)
<1> SUFFICES ASSUME NEW p \in Runners, NEW q \in Runners, NEW i \in 1..Len(m[p][q])
             PROVE  Origin(l, m, r, f, n, p, q, i)
  OBVIOUS
<1>1. Len(l[p][q]) \in Nat /\ Len(m[p][q]) \in Nat /\ n[p] \in Nat
  BY LinksType
<1>2. CASE q = r
  <2>1. Len(m[p][q]) = Len(l[p][q]) - n[p] /\ m[p][q][i] = l[p][q][i + n[p]]
    BY <1>2 DEF LinkStep
  <2>2. QED
    BY <1>1, <1>2, <2>1 DEF Origin
<1>3. CASE q # r /\ p # r
  BY <1>1, <1>3 DEF LinkStep, Origin
<1>4. CASE q # r /\ p = r
  <2>1. CASE m[r][q] = l[r][q]
    BY <1>1, <1>4, <2>1 DEF Origin
  <2>2. CASE /\ Len(m[r][q]) = Len(l[r][q]) + 1
             /\ \A k \in 1..Len(l[r][q]) : m[r][q][k] = l[r][q][k]
             /\ m[r][q][Len(l[r][q]) + 1] = f
    <3>1. i \in 1..Len(l[r][q]) \/ i = Len(l[r][q]) + 1
      BY <1>1, <1>4, <2>2
    <3>2. QED
      BY <1>1, <1>4, <2>2, <3>1 DEF Origin
  <2>3. QED
    BY <1>4, <2>1, <2>2 DEF LinkStep
<1>5. QED
  BY <1>2, <1>3, <1>4

\* A runner that sends frames of the last barrier it has entered keeps the
\* links in order.
LEMMA LinkStepOrder ==
    ASSUME NEW l \in Links, NEW m \in Links, NEW r \in Runners, NEW f \in Frames,
           NEW n \in [Runners -> Nat],
           NEW e \in [Runners -> Int], NEW e1 \in [Runners -> Int],
           LinkStep(l, m, r, f, n),
           \A p \in Runners : e[p] <= e1[p],
           e[r] <= PosOf(f), PosOf(f) <= e1[r],
           Within(l, e), Sorted(l)
    PROVE  /\ Within(m, e1)
           /\ Sorted(m)
           /\ \A p, q \in Runners, x \in Int :
                (NothingBelow(l, p, q, x) /\ (p = r => x <= PosOf(f)))
                    => NothingBelow(m, p, q, x)
<1>1. PosOf(f) \in Nat
  BY FrameType
<1>2. \A p, q \in Runners : \A i \in 1..Len(m[p][q]) : Origin(l, m, r, f, n, p, q, i)
  BY FrameOrigin
<1>3. Within(m, e1)
  <2> SUFFICES ASSUME NEW p \in Runners, NEW q \in Runners, NEW i \in 1..Len(m[p][q])
               PROVE  PosOf(m[p][q][i]) <= e1[p]
    BY DEF Within
  <2>1. \/ m[p][q][i] = f /\ p = r
        \/ \E k \in 1..Len(l[p][q]) : m[p][q][i] = l[p][q][k]
    BY <1>2 DEF Origin
  <2>2. ASSUME NEW k \in 1..Len(l[p][q]), m[p][q][i] = l[p][q][k]
        PROVE  PosOf(m[p][q][i]) <= e1[p]
    <3>1. PosOf(l[p][q][k]) <= e[p] /\ PosOf(l[p][q][k]) \in Nat
      BY LinksType DEF Within
    <3>2. QED
      BY <2>2, <3>1
  <2>3. QED
    BY <2>1, <2>2
<1>4. Sorted(m)
  <2> SUFFICES ASSUME NEW p \in Runners, NEW q \in Runners,
                      NEW i \in 1..Len(m[p][q]), NEW k \in 1..Len(m[p][q]), i <= k
               PROVE  PosOf(m[p][q][i]) <= PosOf(m[p][q][k])
    BY DEF Sorted
  <2>1. Len(l[p][q]) \in Nat /\ Len(m[p][q]) \in Nat
    BY LinksType
  <2>2. CASE q = r
    <3>1. /\ i + n[p] \in 1..Len(l[p][q]) /\ m[p][q][i] = l[p][q][i + n[p]]
          /\ k + n[p] \in 1..Len(l[p][q]) /\ m[p][q][k] = l[p][q][k + n[p]]
      BY <2>2, <1>2 DEF Origin
    <3>2. i + n[p] <= k + n[p]
      BY <2>1
    <3>3. QED
      BY <3>1, <3>2 DEF Sorted
  <2>3. CASE q # r /\ k \in 1..Len(l[p][q]) /\ m[p][q][k] = l[p][q][k]
    <3>1. i # Len(l[p][q]) + 1
      BY <2>1, <2>3
    <3>2. i \in 1..Len(l[p][q]) /\ m[p][q][i] = l[p][q][i]
      BY <2>3, <3>1, <1>2 DEF Origin
    <3>3. QED
      BY <2>3, <3>2 DEF Sorted
  <2>4. CASE q # r /\ p = r /\ k = Len(l[p][q]) + 1 /\ m[p][q][k] = f
    <3>1. CASE i = k
      BY <1>1, <2>4, <3>1
    <3>2. CASE i # k
      <4>1. i \in 1..Len(l[p][q]) /\ m[p][q][i] = l[p][q][i]
        <5>1. i # Len(l[p][q]) + 1
          BY <2>1, <2>4, <3>2
        <5>2. QED
          BY <2>4, <5>1, <1>2 DEF Origin
      <4>2. PosOf(l[p][q][i]) <= e[p] /\ PosOf(l[p][q][i]) \in Nat
        BY <4>1, LinksType DEF Within
      <4>3. QED
        BY <1>1, <2>4, <4>1, <4>2
    <3>3. QED
      BY <3>1, <3>2
  <2>5. QED
    BY <2>2, <2>3, <2>4, <1>2 DEF Origin
<1>5. ASSUME NEW p \in Runners, NEW q \in Runners, NEW x \in Int,
             NothingBelow(l, p, q, x), p = r => x <= PosOf(f)
      PROVE  NothingBelow(m, p, q, x)
  <2> SUFFICES ASSUME NEW i \in 1..Len(m[p][q])
               PROVE  x <= PosOf(m[p][q][i])
    BY DEF NothingBelow
  <2>1. \/ m[p][q][i] = f /\ p = r
        \/ \E k \in 1..Len(l[p][q]) : m[p][q][i] = l[p][q][k]
    BY <1>2 DEF Origin
  <2>2. QED
    BY <1>5, <2>1 DEF NothingBelow
<1>6. QED
  BY <1>3, <1>4, <1>5

\* What such a step carries over of the rest of the order.
LEMMA OrderCarries ==
    ASSUME NEW l \in Links, NEW m \in Links, NEW r \in Runners, NEW f \in Frames,
           NEW n \in [Runners -> Nat],
           NEW e \in [Runners -> Int], NEW e1 \in [Runners -> Int],
           NEW v \in [Runners -> Int], NEW h \in [Runners -> SUBSET Runners],
           LinkStep(l, m, r, f, n),
           \A p \in Runners : e[p] <= e1[p],
           e[r] <= PosOf(f), PosOf(f) <= e1[r],
           Ordered(l, e, v, h)
    PROVE  /\ Within(m, e1) /\ Sorted(m) /\ LeftTogether(m, e1, v)
           /\ \A q \in Runners : e1[q] = e[q] =>
                \A p \in h[q] : e1[q] <= e1[p] /\ NothingBelow(m, p, q, e1[q])
<1>1. /\ Within(m, e1) /\ Sorted(m)
      /\ \A p, q \in Runners, x \in Int :
            (NothingBelow(l, p, q, x) /\ (p = r => x <= PosOf(f)))
                => NothingBelow(m, p, q, x)
  BY LinkStepOrder DEF Ordered
<1>2. PosOf(f) \in Int
  BY FrameType
<1>3. ASSUME NEW q \in Runners, NEW p \in Runners, NEW x \in Places, x <= v[q]
      PROVE  x <= e1[p] /\ NothingBelow(m, p, q, x)
  <2>1. x \in Int
    BY JobsAssumption DEF Places, Pos, Active, Jobs
  <2>2. x <= e[p] /\ NothingBelow(l, p, q, x)
    BY <1>3 DEF Ordered, LeftTogether
  <2>3. p = r => x <= PosOf(f)
    BY <1>2, <2>1, <2>2
  <2>4. NothingBelow(m, p, q, x)
    BY <1>1, <2>1, <2>2, <2>3
  <2>5. QED
    BY <2>1, <2>2, <2>4
<1>4. ASSUME NEW q \in Runners, e1[q] = e[q], NEW p \in h[q]
      PROVE  e1[q] <= e1[p] /\ NothingBelow(m, p, q, e1[q])
  <2>1. p \in Runners /\ e[q] <= e[p] /\ NothingBelow(l, p, q, e[q])
    BY DEF Ordered, HeardAreIn
  <2>2. p = r => e[q] <= PosOf(f)
    BY <1>2, <2>1
  <2>3. NothingBelow(m, p, q, e[q])
    BY <1>1, <2>1, <2>2
  <2>4. QED
    BY <1>4, <2>1, <2>3
<1>5. QED
  BY <1>1, <1>3, <1>4 DEF LeftTogether

\* Entering a barrier: the frame sent is of the barrier entered.
LEMMA EnterKeepsOrder ==
    ASSUME NEW l \in Links, NEW m \in Links, NEW r \in Runners, NEW f \in Frames,
           NEW n \in [Runners -> Nat],
           NEW e \in [Runners -> Int], NEW v \in [Runners -> Int],
           NEW h \in [Runners -> SUBSET Runners],
           LinkStep(l, m, r, f, n), e[r] <= PosOf(f), m[r][r] = <<>>,
           Ordered(l, e, v, h)
    PROVE  Ordered(m, [e EXCEPT ![r] = PosOf(f)], v, [h EXCEPT ![r] = {r}])
<1> DEFINE e1 == [e EXCEPT ![r] = PosOf(f)]
<1>1. PosOf(f) \in Int
  BY FrameType
<1>2. /\ e1 \in [Runners -> Int] /\ e1[r] = PosOf(f)
      /\ \A q \in Runners \ {r} : e1[q] = e[q]
      /\ \A p \in Runners : e[p] <= e1[p]
      /\ PosOf(f) <= e1[r]
  BY <1>1
<1> HIDE DEF e1
<1>3. /\ Within(m, e1) /\ Sorted(m) /\ LeftTogether(m, e1, v)
      /\ \A q \in Runners : e1[q] = e[q] =>
            \A p \in h[q] : e1[q] <= e1[p] /\ NothingBelow(m, p, q, e1[q])
  BY <1>1, <1>2, OrderCarries
<1>4. e1[r] <= e1[r] /\ NothingBelow(m, r, r, e1[r])
  BY <1>1, <1>2 DEF NothingBelow
<1>5. HeardAreIn(m, e1, [h EXCEPT ![r] = {r}])
  BY <1>2, <1>3, <1>4 DEF HeardAreIn
<1>6. QED
  BY <1>3, <1>5 DEF Ordered, e1

\* Whom a poll has counted, before or now, is in the barrier and has
\* nothing older left on its link.
LEMMA CountedAreIn ==
    ASSUME NEW l \in Links, NEW m \in Links, NEW r \in Runners, NEW f \in Frames,
           NEW n \in [Runners -> Nat],
           NEW e \in [Runners -> Int], NEW v \in [Runners -> Int],
           NEW h \in [Runners -> SUBSET Runners], NEW a \in SUBSET Runners,
           LinkStep(l, m, r, f, n), \A p \in Runners : n[p] <= Len(l[p][r]),
           PosOf(f) = e[r],
           \A p \in a : p \in h[r] \/ \E i \in 1..n[p] : PosOf(l[p][r][i]) = e[r],
           Ordered(l, e, v, h)
    PROVE  \A p \in a : e[r] <= e[p] /\ NothingBelow(m, p, r, e[r])
<1> SUFFICES ASSUME NEW p \in a PROVE e[r] <= e[p] /\ NothingBelow(m, p, r, e[r])
  OBVIOUS
<1>1. CASE p \in h[r]
  <2>1. e[r] <= PosOf(f) /\ PosOf(f) <= e[r] /\ \A q \in Runners : e[q] <= e[q]
    BY FrameType
  <2>2. \A q \in Runners : \A k \in h[q] : e[q] <= e[k] /\ NothingBelow(m, k, q, e[q])
    BY <2>1, OrderCarries
  <2>3. QED
    BY <1>1, <2>2
<1>2. CASE \E i \in 1..n[p] : PosOf(l[p][r][i]) = e[r]
  <2>1. PICK i \in 1..n[p] : PosOf(l[p][r][i]) = e[r]
    BY <1>2
  <2>2. Len(l[p][r]) \in Nat /\ n[p] \in Nat /\ n[p] <= Len(l[p][r])
    BY LinksType
  <2>3. i \in 1..Len(l[p][r])
    BY <2>2
  <2>4. e[r] <= e[p]
    BY <2>1, <2>3 DEF Ordered, Within
  <2>5. ASSUME NEW k \in 1..Len(m[p][r]) PROVE e[r] <= PosOf(m[p][r][k])
    <3>1. Len(m[p][r]) = Len(l[p][r]) - n[p] /\ m[p][r][k] = l[p][r][k + n[p]]
      BY DEF LinkStep
    <3>2. k \in Nat /\ 1 <= k /\ k <= Len(l[p][r]) - n[p]
      BY <2>2, <3>1
    <3>3. k + n[p] \in 1..Len(l[p][r]) /\ i <= k + n[p]
      BY <2>2, <3>2
    <3>4. PosOf(l[p][r][i]) <= PosOf(l[p][r][k + n[p]])
      BY <2>3, <3>3 DEF Ordered, Sorted
    <3>5. QED
      BY <2>1, <3>1, <3>4
  <2>6. QED
    BY <2>4, <2>5 DEF NothingBelow
<1>3. QED
  BY <1>1, <1>2

LEMMA WaitKeepsOrder ==
    ASSUME NEW l \in Links, NEW m \in Links, NEW r \in Runners, NEW f \in Frames,
           NEW n \in [Runners -> Nat],
           NEW e \in [Runners -> Int], NEW v \in [Runners -> Int],
           NEW h \in [Runners -> SUBSET Runners], NEW a \in SUBSET Runners,
           LinkStep(l, m, r, f, n), \A p \in Runners : n[p] <= Len(l[p][r]),
           PosOf(f) = e[r],
           \A p \in a : p \in h[r] \/ \E i \in 1..n[p] : PosOf(l[p][r][i]) = e[r],
           Ordered(l, e, v, h)
    PROVE  Ordered(m, e, v, [h EXCEPT ![r] = a])
<1>1. \A p \in a : e[r] <= e[p] /\ NothingBelow(m, p, r, e[r])
  BY CountedAreIn
<1>2. e[r] <= PosOf(f) /\ PosOf(f) <= e[r] /\ \A p \in Runners : e[p] <= e[p]
  BY FrameType
<1>3. /\ Within(m, e) /\ Sorted(m) /\ LeftTogether(m, e, v)
      /\ \A q \in Runners : \A p \in h[q] : e[q] <= e[p] /\ NothingBelow(m, p, q, e[q])
  BY <1>2, OrderCarries
<1>4. HeardAreIn(m, e, [h EXCEPT ![r] = a])
  BY <1>1, <1>3 DEF HeardAreIn
<1>5. QED
  BY <1>3, <1>4 DEF Ordered

\* Leaving a barrier with everyone counted.
LEMMA LeaveKeepsOrder ==
    ASSUME NEW l \in Links, NEW m \in Links, NEW r \in Runners, NEW f \in Frames,
           NEW n \in [Runners -> Nat],
           NEW e \in [Runners -> Int], NEW v \in [Runners -> Int],
           NEW h \in [Runners -> SUBSET Runners],
           LinkStep(l, m, r, f, n), \A p \in Runners : n[p] <= Len(l[p][r]),
           PosOf(f) = e[r],
           \A p \in Runners : p \in h[r] \/ \E i \in 1..n[p] : PosOf(l[p][r][i]) = e[r],
           Ordered(l, e, v, h)
    PROVE  Ordered(m, e, [v EXCEPT ![r] = e[r]], [h EXCEPT ![r] = {}])
<1>1. \A p \in Runners : e[r] <= e[p] /\ NothingBelow(m, p, r, e[r])
  BY CountedAreIn
<1>2. e[r] <= PosOf(f) /\ PosOf(f) <= e[r] /\ \A p \in Runners : e[p] <= e[p]
  BY FrameType
<1>3. /\ Within(m, e) /\ Sorted(m) /\ LeftTogether(m, e, v)
      /\ \A q \in Runners : \A p \in h[q] : e[q] <= e[p] /\ NothingBelow(m, p, q, e[q])
  BY <1>2, OrderCarries
<1>4. HeardAreIn(m, e, [h EXCEPT ![r] = {}])
  BY <1>3 DEF HeardAreIn
<1>5. ASSUME NEW p \in Runners, NEW x \in Places, x <= e[r]
      PROVE  x <= e[p] /\ NothingBelow(m, p, r, x)
  <2>1. x \in Int /\ e[r] <= e[p]
    BY <1>1, JobsAssumption DEF Places, Pos, Active, Jobs
  <2>2. ASSUME NEW i \in 1..Len(m[p][r]) PROVE x <= PosOf(m[p][r][i])
    <3>1. e[r] <= PosOf(m[p][r][i]) /\ PosOf(m[p][r][i]) \in Nat
      BY <1>1, LinksType DEF NothingBelow
    <3>2. QED
      BY <1>5, <2>1, <3>1
  <2>3. QED
    BY <1>5, <2>1, <2>2 DEF NothingBelow
<1>6. LeftTogether(m, e, [v EXCEPT ![r] = e[r]])
  BY <1>3, <1>5 DEF LeftTogether
<1>7. QED
  BY <1>3, <1>4, <1>6 DEF Ordered

\* Passing over a job that has no barriers.
LEMMA SkipKeepsOrder ==
    ASSUME NEW l \in Links, NEW r \in Runners, NEW y \in Int,
           NEW e \in [Runners -> Int], NEW v \in [Runners -> Int],
           NEW h \in [Runners -> SUBSET Runners],
           e[r] <= y, h[r] = {}, \A x \in Places : x <= y => x <= v[r],
           Ordered(l, e, v, h)
    PROVE  Ordered(l, [e EXCEPT ![r] = y], [v EXCEPT ![r] = y], h)
<1> DEFINE e1 == [e EXCEPT ![r] = y]
<1>1. /\ e1 \in [Runners -> Int]
      /\ \A q \in Runners \ {r} : e1[q] = e[q]
      /\ \A p \in Runners : e[p] <= e1[p]
  OBVIOUS
<1> HIDE DEF e1
<1>2. Within(l, e1)
  <2> SUFFICES ASSUME NEW p \in Runners, NEW q \in Runners, NEW i \in 1..Len(l[p][q])
               PROVE  PosOf(l[p][q][i]) <= e1[p]
    BY DEF Within
  <2>1. PosOf(l[p][q][i]) <= e[p] /\ PosOf(l[p][q][i]) \in Nat
    BY LinksType DEF Ordered, Within
  <2>2. QED
    BY <1>1, <2>1
<1>3. LeftTogether(l, e1, [v EXCEPT ![r] = y])
  <2> SUFFICES ASSUME NEW q \in Runners, NEW p \in Runners, NEW x \in Places,
                      x <= [v EXCEPT ![r] = y][q]
               PROVE  x <= e1[p] /\ NothingBelow(l, p, q, x)
    BY DEF LeftTogether
  <2>1. x \in Int
    BY JobsAssumption DEF Places, Pos, Active, Jobs
  <2>2. x <= v[q]
    OBVIOUS
  <2>3. x <= e[p] /\ NothingBelow(l, p, q, x)
    BY <2>2 DEF Ordered, LeftTogether
  <2>4. QED
    BY <1>1, <2>1, <2>3
<1>4. HeardAreIn(l, e1, h)
  <2> SUFFICES ASSUME NEW q \in Runners, NEW p \in h[q]
               PROVE  e1[q] <= e1[p] /\ NothingBelow(l, p, q, e1[q])
    BY DEF HeardAreIn
  <2>1. q # r /\ e1[q] = e[q] /\ p \in Runners
    BY <1>1
  <2>2. e[q] <= e[p] /\ NothingBelow(l, p, q, e[q])
    BY DEF Ordered, HeardAreIn
  <2>3. QED
    BY <1>1, <2>1, <2>2
<1>5. QED
  BY <1>2, <1>3, <1>4 DEF Ordered, e1

\* Losing the tail of a link.
LEMMA BreakKeepsOrder ==
    ASSUME NEW l \in Links, NEW m \in Links,
           NEW e \in [Runners -> Int], NEW v \in [Runners -> Int],
           NEW h \in [Runners -> SUBSET Runners],
           \A p, q \in Runners :
                /\ Len(m[p][q]) <= Len(l[p][q])
                /\ \A i \in 1..Len(m[p][q]) : m[p][q][i] = l[p][q][i],
           Ordered(l, e, v, h)
    PROVE  Ordered(m, e, v, h)
<1>1. ASSUME NEW p \in Runners, NEW q \in Runners, NEW i \in 1..Len(m[p][q])
      PROVE  i \in 1..Len(l[p][q]) /\ m[p][q][i] = l[p][q][i]
  BY LinksType
<1>2. Within(m, e)
  BY <1>1 DEF Ordered, Within
<1>3. Sorted(m)
  BY <1>1 DEF Ordered, Sorted
<1>4. \A p, q \in Runners, x \in Int : NothingBelow(l, p, q, x) => NothingBelow(m, p, q, x)
  BY <1>1 DEF NothingBelow
<1>5. Places \subseteq Int
  BY JobsAssumption DEF Places, Pos, Active, Jobs
<1>6. LeftTogether(m, e, v)
  BY <1>4, <1>5 DEF Ordered, LeftTogether
<1>7. HeardAreIn(m, e, h)
  <2> SUFFICES ASSUME NEW q \in Runners, NEW p \in h[q]
               PROVE  e[q] <= e[p] /\ NothingBelow(m, p, q, e[q])
    BY DEF HeardAreIn
  <2>1. p \in Runners /\ e[q] <= e[p] /\ NothingBelow(l, p, q, e[q])
    BY DEF Ordered, HeardAreIn
  <2>2. QED
    BY <1>4, <2>1
<1>8. QED
  BY <1>2, <1>3, <1>6, <1>7 DEF Ordered

\* A frame of the kind a runner waits for is of the job it waits in.
LEMMA MatchIsCurrent ==
    ASSUME NEW l \in Links, NEW e \in [Runners -> Int], NEW v \in [Runners -> Int],
           NEW h \in [Runners -> SUBSET Runners],
           NEW r \in Runners, NEW p \in Runners, NEW i \in 1..Len(l[p][r]),
           NEW j \in Active, NEW kind \in Kinds,
           l[p][r][i].kind = kind,
           e[r] = Pos(j, kind), v[r] = e[r] - 1, e[p] - 1 <= v[p],
           Ordered(l, e, v, h)
    PROVE  l[p][r][i].job = j
<1> DEFINE k == l[p][r][i].job
<1>1. l[p][r][i] \in Frames
  <2>1. l[p][r] \in Seq(Frames)
    BY DEF Links
  <2>2. QED
    BY <2>1, ElementOfSeq
<1>2. k \in Active /\ k \in Int /\ j \in Int /\ PosOf(l[p][r][i]) = Pos(k, kind)
  BY <1>1, FrameType, JobsAssumption DEF PosOf, Active, Jobs
<1>3. Pos(k, kind) <= e[p]
  BY <1>2 DEF Ordered, Within
<1>4. \A x \in Places : x <= v[r] => x <= Pos(k, kind)
  BY <1>2 DEF Ordered, LeftTogether, NothingBelow
<1>5. \A x \in Places : x <= v[p] => x <= e[r]
  BY DEF Ordered, LeftTogether
<1>6. Pos(k, "Done") \in Places /\ Pos(k, "Ready") \in Places
      /\ Pos(j, "Done") \in Places /\ Pos(j, "Ready") \in Places
  BY <1>2 DEF Places, Kinds
<1>7. /\ Pos(k, "Done") <= v[r] => Pos(k, "Done") <= Pos(k, kind)
      /\ Pos(j, "Ready") <= v[r] => Pos(j, "Ready") <= Pos(k, kind)
      /\ Pos(j, "Done") <= v[p] => Pos(j, "Done") <= e[r]
      /\ Pos(k, "Ready") <= v[p] => Pos(k, "Ready") <= e[r]
  BY <1>4, <1>5, <1>6
<1>8. e[r] \in Int /\ v[r] \in Int /\ e[p] \in Int /\ v[p] \in Int
  OBVIOUS
<1>9. k \in Int /\ j \in Int
  BY <1>2
<1> HIDE DEF k
<1>10. CASE kind = "Ready"
  <2>1. k = j
    BY <1>3, <1>10, <1>7, <1>8, <1>9 DEF Pos
  <2>2. QED
    BY <2>1 DEF k
<1>11. CASE kind = "Done"
  <2>1. k = j
    BY <1>3, <1>11, <1>7, <1>8, <1>9 DEF Pos
  <2>2. QED
    BY <2>1 DEF k
<1>12. QED
  BY <1>10, <1>11 DEF Kinds

-----------------------------------------------------------------------------
(* Types.                                                                  *)

LEMMA LastInProperties ==
    ASSUME NEW N \in Nat, NEW S \in SUBSET (1..N), S # {}
    PROVE  LastIn(S) \in S /\ \A k \in S : k <= LastIn(S)
<1> DEFINE T == {N - i : i \in S}
           R == {ss \in Nat \X Nat : ss[1] < ss[2]}
<1>1. T \subseteq Nat /\ T # {}
  <2>1. PICK i \in S : TRUE
    OBVIOUS
  <2>2. N - i \in T
    OBVIOUS
  <2>3. T \subseteq Nat
    OBVIOUS
  <2>4. QED
    BY <2>2, <2>3
<1>2. IsWellFoundedOn(R, Nat)
  <2>1. R = OpToRel(<, Nat)
    BY DEF OpToRel
  <2>2. QED
    BY <2>1, NatLessThanWellFounded
<1>3. PICK m \in T : \A y \in T : <<y, m>> \notin R
  <2> HIDE DEF R, T
  <2>1. QED
    BY <1>1, <1>2, WFMin
<1>4. ASSUME NEW y \in T PROVE m <= y
  <2>1. m \in Nat /\ y \in Nat
    BY <1>1
  <2>2. <<y, m>> \notin R
    BY <1>3
  <2>3. ~(y < m)
    BY <2>1, <2>2
  <2>4. QED
    BY <2>1, <2>3
<1>5. \E i \in S : \A k \in S : k <= i
  <2>1. PICK i \in S : m = N - i
    OBVIOUS
  <2>2. \A k \in S : m <= N - k
    BY <1>4
  <2>3. QED
    BY <2>1, <2>2
<1>6. QED
  BY <1>5 DEF LastIn

LEMMA AcceptedRange ==
    ASSUME TypeOK, NEW r \in Runners, NEW n \in Arrivals(r), NEW kind, NEW p \in Runners
    PROVE  /\ n[p] \in Nat
           /\ AcceptedAt(r, kind, n, p) \subseteq 1..n[p]
           /\ AcceptedAt(r, kind, n, p) \subseteq 1..Len(link[p][r])
           /\ \A i \in AcceptedAt(r, kind, n, p) :
                link[p][r][i] \in Frames /\ Accepts(r, kind, link[p][r][i])
<1>1. n[p] \in 0..Len(link[p][r]) /\ Len(link[p][r]) \in Nat
  BY ArrivalsType, LinkType
<1>2. \A i \in 1..Len(link[p][r]) : link[p][r][i] \in Frames
  BY LinkType
<1>3. QED
  BY <1>1, <1>2 DEF AcceptedAt

LEMMA ResultsType ==
    ASSUME TypeOK, NEW r \in Runners, NEW n \in Arrivals(r)
    PROVE  Results(r, n) \in [Runners -> Statuses]
<1> SUFFICES ASSUME NEW p \in Runners PROVE Results(r, n)[p] \in Statuses
  BY DEF Results
<1> DEFINE A == AcceptedAt(r, "Done", n, p)
<1>1. CASE A = {}
  BY <1>1 DEF Results, TypeOK
<1>2. CASE A # {}
  <2>1. LastIn(A) \in A
    <3>1. n[p] \in Nat /\ A \in SUBSET (1..n[p])
      BY AcceptedRange
    <3> HIDE DEF A
    <3>2. QED
      BY <1>2, <3>1, LastInProperties
  <2>2. link[p][r][LastIn(A)] \in Frames
    BY <2>1, AcceptedRange
  <2>3. Results(r, n)[p] = link[p][r][LastIn(A)].status
    BY <1>2 DEF Results
  <2>4. QED
    BY <2>2, <2>3 DEF Frames
<1>3. QED
  BY <1>1, <1>2

LEMMA ActiveType == Active \subseteq Jobs /\ Jobs \subseteq Int
BY JobsAssumption DEF Active, Jobs

LEMMA SentFrames ==
    ASSUME TypeOK, NEW r \in Runners, job[r] \in Active, NEW s \in Statuses
    PROVE  /\ Ready(r) \in Frames /\ PosOf(Ready(r)) = 2 * job[r]
           /\ Done(r, s) \in Frames /\ PosOf(Done(r, s)) = 2 * job[r] + 1
BY ActiveType DEF Ready, Done, Frames, Kinds, Statuses, PosOf, Pos, TypeOK

LEMMA ControlType ==
    ASSUME TypeOK
    PROVE  /\ reach \in [Runners -> Int] /\ past \in [Runners -> Int]
           /\ heard \in [Runners -> SUBSET Runners]
           /\ link \in Links
           /\ \A r \in Runners :
                /\ reach[r] - 1 <= past[r]
                /\ pc[r] = "next" => reach[r] = 2 * job[r] - 1 /\ heard[r] = {}
                /\ pc[r] = "ready" => reach[r] = 2 * job[r] /\ heard[r] = seen[r]
                /\ pc[r] = "spawn" => reach[r] = 2 * job[r] /\ heard[r] = {}
                /\ pc[r] = "done" => /\ reach[r] = 2 * job[r] + 1
                                     /\ heard[r] = {p \in Runners : results[r][p] # NoOutcome}
                /\ InBarrier(r) => /\ past[r] = reach[r] - 1
                                   /\ reach[r] = Pos(job[r], KindAt(r))
                                   /\ KindAt(r) \in Kinds /\ job[r] \in Active
<1>1. \A r \in Runners : job[r] \in Int
  <2>1. job \in [Runners -> 1..(NumJobs + 1)]
    BY DEF TypeOK
  <2>2. QED
    BY <2>1, JobsAssumption
<1>2. heard \in [Runners -> SUBSET Runners]
  BY DEF TypeOK, heard, InBarrier, Heard
<1>3. link \in Links
  BY DEF TypeOK, Links
<1>4. reach \in [Runners -> Int] /\ past \in [Runners -> Int]
  BY <1>1 DEF reach, past
<1>5. ASSUME NEW r \in Runners
      PROVE  /\ reach[r] - 1 <= past[r]
             /\ pc[r] = "next" => reach[r] = 2 * job[r] - 1
             /\ pc[r] = "ready" => reach[r] = 2 * job[r] /\ past[r] = 2 * job[r] - 1
             /\ pc[r] = "spawn" => reach[r] = 2 * job[r]
             /\ pc[r] = "done" => reach[r] = 2 * job[r] + 1 /\ past[r] = 2 * job[r]
  BY <1>1 DEF reach, past, TypeOK
<1>6. ASSUME NEW r \in Runners
      PROVE  /\ pc[r] \in {"next", "spawn"} => heard[r] = {}
             /\ pc[r] = "ready" => heard[r] = seen[r]
             /\ pc[r] = "done" => heard[r] = {p \in Runners : results[r][p] # NoOutcome}
  BY DEF TypeOK, heard, InBarrier, Heard
<1>7. ASSUME NEW r \in Runners, InBarrier(r)
      PROVE  /\ past[r] = reach[r] - 1
             /\ reach[r] = Pos(job[r], KindAt(r))
             /\ KindAt(r) \in Kinds /\ job[r] \in Active
  BY <1>1, <1>5, <1>7 DEF InBarrier, KindAt, Kinds, Pos, TypeOK
<1>8. QED
  BY <1>2, <1>3, <1>4, <1>5, <1>6, <1>7

\* A frame a barrier counts is of the barrier its receiver is in.
LEMMA AcceptedIsCurrent ==
    ASSUME LockstepInv, NEW r \in Runners, NEW p \in Runners, InBarrier(r),
           NEW i \in 1..Len(link[p][r]), Accepts(r, KindAt(r), link[p][r][i])
    PROVE  link[p][r][i].job = job[r] /\ PosOf(link[p][r][i]) = reach[r]
<1>1. TypeOK /\ Ordered(link, reach, past, heard)
  BY DEF LockstepInv
<1>2. /\ reach \in [Runners -> Int] /\ past \in [Runners -> Int]
      /\ heard \in [Runners -> SUBSET Runners] /\ link \in Links
      /\ past[r] = reach[r] - 1 /\ reach[r] = Pos(job[r], KindAt(r))
      /\ KindAt(r) \in Kinds /\ job[r] \in Active
      /\ reach[p] - 1 <= past[p]
  BY <1>1, ControlType
<1>3. link[p][r][i].kind = KindAt(r)
  BY DEF Accepts
<1>4. link[p][r][i].job = job[r]
  BY <1>1, <1>2, <1>3, MatchIsCurrent
<1>5. QED
  BY <1>2, <1>3, <1>4 DEF PosOf

-----------------------------------------------------------------------------
(* Where an action takes its runner, in terms of reach, past and heard.    *)

\* Whom a done barrier has counted after a poll.
CountedDone(r, n) == {p \in Runners : Results(r, n)[p] # NoOutcome}

LEMMA EnterReadyMoves ==
    ASSUME TypeOK, NEW r \in Runners, EnterReady(r)
    PROVE  /\ reach' = [reach EXCEPT ![r] = 2 * job[r]]
           /\ past' = past
           /\ heard' = [heard EXCEPT ![r] = {r}]
           /\ reach[r] = 2 * job[r] - 1 /\ job[r] \in Int
<1>1. /\ pc' = [pc EXCEPT ![r] = "ready"] /\ seen' = [seen EXCEPT ![r] = {r}]
      /\ job' = job /\ results' = results
      /\ pc \in [Runners -> {"next", "ready", "spawn", "done"}]
      /\ seen \in [Runners -> SUBSET Runners]
  BY DEF EnterReady, TypeOK
<1>2. job[r] \in Active /\ pc[r] = "next" /\ job[r] \in Int
  BY ActiveType DEF EnterReady, Running
<1>3. reach' = [reach EXCEPT ![r] = 2 * job[r]]
  <2>1. 2 * job[r] + 0 = 2 * job[r]
    BY <1>2
  <2>2. QED
    BY <1>1, <2>1 DEF reach
<1>4. past' = past
  BY <1>1, <1>2 DEF past
<1>5. heard' = [heard EXCEPT ![r] = {r}]
  BY <1>1 DEF heard, InBarrier, Heard
<1>6. QED
  BY <1>2, <1>3, <1>4, <1>5, ControlType

LEMMA LeaveReadyMoves ==
    ASSUME TypeOK, NEW r \in Runners, NEW n, LeaveReady(r, n)
    PROVE  /\ reach' = reach
           /\ past' = [past EXCEPT ![r] = reach[r]]
           /\ heard' = [heard EXCEPT ![r] = {}]
<1>1. /\ pc' = [pc EXCEPT ![r] = "spawn"]
      /\ job' = job /\ results' = results
      /\ \A q \in Runners \ {r} : seen'[q] = seen[q]
      /\ pc \in [Runners -> {"next", "ready", "spawn", "done"}]
  BY DEF LeaveReady, TypeOK
<1>2. pc[r] = "ready" /\ job[r] \in Int
  <2>1. pc[r] = "ready"
    BY DEF LeaveReady, Running
  <2>2. QED
    BY <2>1, ActiveType DEF TypeOK
<1>3. reach[r] = 2 * job[r] + 0
  BY <1>2, ControlType
<1>4. reach' = reach
  BY <1>2, <1>1 DEF reach
<1>5. past' = [past EXCEPT ![r] = reach[r]]
  BY <1>1, <1>2, <1>3 DEF past
<1>6. heard' = [heard EXCEPT ![r] = {}]
  BY <1>1 DEF heard, InBarrier, Heard
<1>7. QED
  BY <1>4, <1>5, <1>6

LEMMA KeepWaitingReadyMoves ==
    ASSUME TypeOK, NEW r \in Runners, NEW n, NEW again, KeepWaitingReady(r, n, again)
    PROVE  /\ reach' = reach
           /\ past' = past
           /\ heard' = [heard EXCEPT ![r] = Seen(r, n)]
<1>1. /\ pc' = pc /\ job' = job /\ results' = results
      /\ seen' = [seen EXCEPT ![r] = Seen(r, n)]
      /\ seen \in [Runners -> SUBSET Runners]
  BY DEF KeepWaitingReady, TypeOK
<1>2. pc[r] = "ready"
  BY DEF KeepWaitingReady, Running
<1>3. heard' = [heard EXCEPT ![r] = Seen(r, n)]
  BY <1>1, <1>2 DEF heard, InBarrier, Heard
<1>4. QED
  BY <1>1, <1>3 DEF reach, past

LEMMA EnterDoneMoves ==
    ASSUME TypeOK, NEW r \in Runners, EnterDone(r)
    PROVE  /\ reach' = [reach EXCEPT ![r] = 2 * job[r] + 1]
           /\ past' = past
           /\ heard' = [heard EXCEPT ![r] = {r}]
           /\ reach[r] = 2 * job[r] /\ job[r] \in Int
<1>1. /\ pc' = [pc EXCEPT ![r] = "done"] /\ seen' = seen
      /\ job' = job
      /\ \A q \in Runners \ {r} : results'[q] = results[q]
      /\ pc \in [Runners -> {"next", "ready", "spawn", "done"}]
  BY DEF EnterDone, TypeOK
<1>2. pc[r] = "spawn" /\ job[r] \in Int
  <2>1. pc[r] = "spawn"
    BY DEF EnterDone, Running
  <2>2. QED
    BY <2>1, ActiveType DEF TypeOK
<1>3. {p \in Runners : results'[r][p] # NoOutcome} = {r}
  <2>1. PICK s \in Outcomes : results' = [results EXCEPT ![r] = [NoRow EXCEPT ![r] = s]]
    BY DEF EnterDone
  <2>2. s # NoOutcome
    BY OutcomeAssumption
  <2>3. QED
    BY <2>1, <2>2 DEF TypeOK, NoRow
<1>4. reach' = [reach EXCEPT ![r] = 2 * job[r] + 1]
  BY <1>1 DEF reach
<1>5. past' = past
  BY <1>2, <1>1 DEF past
<1>6. heard' = [heard EXCEPT ![r] = {r}]
  BY <1>1, <1>3 DEF heard, InBarrier, Heard
<1>7. QED
  BY <1>2, <1>4, <1>5, <1>6, ControlType

LEMMA KeepWaitingDoneMoves ==
    ASSUME TypeOK, NEW r \in Runners, NEW n, NEW again, KeepWaitingDone(r, n, again)
    PROVE  /\ reach' = reach
           /\ past' = past
           /\ heard' = [heard EXCEPT ![r] = CountedDone(r, n)]
<1>1. /\ pc' = pc /\ job' = job /\ seen' = seen
      /\ results' = [results EXCEPT ![r] = Results(r, n)]
      /\ results \in [Runners -> [Runners -> Statuses]]
  BY DEF KeepWaitingDone, TypeOK
<1>2. pc[r] = "done"
  BY DEF KeepWaitingDone, Running
<1>3. {p \in Runners : results'[r][p] # NoOutcome} = CountedDone(r, n)
  BY <1>1 DEF CountedDone
<1>4. \A q \in Runners \ {r} : results'[q] = results[q]
  BY <1>1
<1>5. heard' = [heard EXCEPT ![r] = CountedDone(r, n)]
  BY <1>1, <1>2, <1>3, <1>4 DEF heard, InBarrier, Heard
<1>6. QED
  BY <1>1, <1>5 DEF reach, past

\* Moving on to the next job, which may be the end of the list.
LEMMA NextJob ==
    ASSUME TypeOK, NEW r \in Runners, job[r] \in Jobs, job' = [job EXCEPT ![r] = @ + 1]
    PROVE  job' \in [Runners -> 1..(NumJobs + 1)] /\ job'[r] = job[r] + 1 /\ job[r] \in Int
<1>1. job[r] \in 1..NumJobs
  BY DEF Jobs
<1>2. job[r] + 1 \in 1..(NumJobs + 1)
  BY <1>1, JobsAssumption
<1>3. QED
  BY <1>1, <1>2 DEF TypeOK

LEMMA LeaveDoneMoves ==
    ASSUME TypeOK, NEW r \in Runners, NEW n, LeaveDone(r, n)
    PROVE  /\ reach' = reach
           /\ past' = [past EXCEPT ![r] = reach[r]]
           /\ heard' = [heard EXCEPT ![r] = {}]
<1>1. pc[r] = "done" /\ job[r] \in Jobs
  <2>1. pc[r] = "done"
    BY DEF LeaveDone, Running
  <2>2. QED
    BY <2>1, ActiveType DEF TypeOK
<1>2. job'[r] = job[r] + 1 /\ job[r] \in Int /\ job' = [job EXCEPT ![r] = @ + 1]
  BY <1>1, NextJob DEF LeaveDone
<1>3. /\ pc' = [pc EXCEPT ![r] = "next"] /\ seen' = seen
      /\ \A q \in Runners \ {r} : results'[q] = results[q] /\ job'[q] = job[q]
      /\ pc \in [Runners -> {"next", "ready", "spawn", "done"}]
  BY <1>2 DEF LeaveDone, TypeOK
<1>4. reach[r] = 2 * job[r] + 1 /\ 2 * job'[r] - 1 = 2 * job[r] + 1
  BY <1>1, <1>2, ControlType
<1>5. reach' = reach
  <2>1. reach'[r] = reach[r]
    BY <1>2, <1>3, <1>4 DEF reach
  <2>2. \A q \in Runners \ {r} : reach'[q] = reach[q]
    BY <1>3 DEF reach
  <2>3. QED
    BY <2>1, <2>2 DEF reach
<1>6. past' = [past EXCEPT ![r] = reach[r]]
  <2>1. past'[r] = reach[r]
    BY <1>2, <1>3, <1>4 DEF past
  <2>2. \A q \in Runners \ {r} : past'[q] = past[q]
    BY <1>3 DEF past
  <2>3. QED
    BY <2>1, <2>2 DEF past
<1>7. heard' = [heard EXCEPT ![r] = {}]
  BY <1>3 DEF heard, InBarrier, Heard
<1>8. QED
  BY <1>5, <1>6, <1>7

\* A skipped job is passed without a barrier, and has none to pass.
LEMMA SkipJobMoves ==
    ASSUME TypeOK, NEW r \in Runners, SkipJob(r)
    PROVE  /\ reach' = [reach EXCEPT ![r] = 2 * job[r] + 1]
           /\ past' = [past EXCEPT ![r] = 2 * job[r] + 1]
           /\ heard' = heard
           /\ reach[r] = 2 * job[r] - 1 /\ past[r] = 2 * job[r] - 1 /\ heard[r] = {}
           /\ \A x \in Places : x <= 2 * job[r] + 1 => x <= past[r]
<1>1. pc[r] = "next" /\ job[r] \in Skip /\ job[r] \in Jobs
  BY JobsAssumption DEF SkipJob, Running
<1>2. /\ job'[r] = job[r] + 1 /\ job[r] \in Int
      /\ job' = [job EXCEPT ![r] = @ + 1] /\ job' \in [Runners -> 1..(NumJobs + 1)]
  BY <1>1, NextJob DEF SkipJob
<1> DEFINE y == 2 * job[r] + 1
<1>3. /\ reach' = [reach EXCEPT ![r] = y]
      /\ past' = [past EXCEPT ![r] = y]
      /\ heard' = heard
  <2>1. /\ pc' = pc /\ seen' = seen /\ results' = results
        /\ \A q \in Runners \ {r} : job'[q] = job[q]
    BY <1>2 DEF SkipJob, TypeOK
  <2>2. 2 * job'[r] - 1 = y
    BY <1>2
  <2>3. reach' = [reach EXCEPT ![r] = y]
    BY <1>1, <1>2, <2>1, <2>2 DEF reach
  <2>4. past' = [past EXCEPT ![r] = y]
    BY <1>1, <1>2, <2>1, <2>2 DEF past
  <2>5. heard' = heard
    BY <2>1 DEF heard, InBarrier, Heard
  <2>6. QED
    BY <2>3, <2>4, <2>5
<1>4. reach[r] = 2 * job[r] - 1 /\ past[r] = 2 * job[r] - 1 /\ heard[r] = {}
  BY <1>1, <1>2, ControlType DEF past
<1>5. ASSUME NEW x \in Places, x <= y PROVE x <= past[r]
  <2>1. PICK j \in Active, kind \in Kinds : x = Pos(j, kind)
    BY DEF Places
  <2>2. j \in Int /\ j # job[r]
    BY <1>1, ActiveType DEF Active
  <2>3. QED
    BY <1>2, <1>4, <1>5, <2>1, <2>2 DEF Pos
<1>6. QED
  BY <1>3, <1>4, <1>5

-----------------------------------------------------------------------------
(* Every action preserves the invariant.                                   *)

LEMMA LinkStepNoSelf ==
    ASSUME NEW l \in Links, NEW m \in Links, NEW r \in Runners, NEW f \in Frames,
           NEW n \in [Runners -> Nat], LinkStep(l, m, r, f, n),
           \A q \in Runners : l[q][q] = <<>>
    PROVE  \A q \in Runners : m[q][q] = <<>>
<1> SUFFICES ASSUME NEW q \in Runners PROVE m[q][q] = <<>>
  OBVIOUS
<1>1. CASE q # r
  BY <1>1 DEF LinkStep
<1>2. CASE q = r
  <2>1. Len(m[r][r]) = 0 - n[r] /\ Len(m[r][r]) \in Nat /\ n[r] \in Nat
    BY LinksType DEF LinkStep
  <2>2. Len(m[r][r]) = 0 /\ m[r][r] \in Seq(Frames)
    BY <2>1 DEF Links
  <2>3. QED
    BY <1>2, <2>2, EmptySeq
<1>3. QED
  BY <1>1, <1>2

LEMMA InvInit == Init => LockstepInv
<1> SUFFICES ASSUME Init PROVE LockstepInv
  OBVIOUS
<1>1. TypeOK
  <2>1. 1 \in 1..(NumJobs + 1)
    BY JobsAssumption
  <2>2. <<>> \in Seq(Frames)
    BY EmptySeq
  <2>3. QED
    BY <2>1, <2>2 DEF Init, TypeOK, NoRow, Statuses
<1>2. \A p, q \in Runners : link[p][q] = <<>>
  BY DEF Init
<1>3. NoSelfLink
  BY <1>2 DEF Init, NoSelfLink
<1>4. /\ \A r \in Runners : reach[r] = 1 /\ past[r] = 1
      /\ \A r \in Runners : heard[r] = {}
  BY DEF Init, reach, past, heard, InBarrier
<1>5. Within(link, reach) /\ Sorted(link)
  BY <1>2 DEF Within, Sorted
<1>6. \A p, q \in Runners, x \in Int : NothingBelow(link, p, q, x)
  BY <1>2 DEF NothingBelow
<1>7. Places \subseteq Int
  BY JobsAssumption DEF Places, Pos, Active, Jobs
<1>8. LeftTogether(link, reach, past) /\ HeardAreIn(link, reach, heard)
  BY <1>4, <1>6, <1>7 DEF LeftTogether, HeardAreIn
<1>9. QED
  BY <1>1, <1>3, <1>5, <1>8 DEF LockstepInv, Ordered

LEMMA EnterReadyInv ==
    ASSUME LockstepInv, NEW r \in Runners, EnterReady(r)
    PROVE  LockstepInv'
<1>1. TypeOK /\ NoSelfLink /\ Ordered(link, reach, past, heard)
  BY DEF LockstepInv
<1>2. PICK failed : link' = Sent(link, r, Ready(r), failed) /\ DropWriters(r, failed)
  BY DEF EnterReady
<1>3. job[r] \in Active /\ pc[r] = "next"
  BY DEF EnterReady, Running
<1>4. Ready(r) \in Frames /\ PosOf(Ready(r)) = 2 * job[r]
  BY <1>1, <1>3, SentFrames DEF Statuses
<1>5. LinkStep(link, link', r, Ready(r), NoArrivals) /\ NoArrivals \in [Runners -> Nat]
  BY <1>1, <1>2, <1>4, SendingIsLinkStep DEF NoArrivals
<1>6. link \in Links /\ link' \in Links
  BY <1>1, <1>5, ControlType DEF LinkStep
<1>7. TypeOK'
  <2>1. /\ pc' \in [Runners -> {"next", "ready", "spawn", "done"}]
        /\ seen' \in [Runners -> SUBSET Runners]
        /\ \A q \in Runners : pc'[q] # "next" => job'[q] \in Active
    BY <1>1, <1>3 DEF EnterReady, TypeOK
  <2>2. writers' \in [Runners -> SUBSET Runners]
    BY <1>1, <1>2 DEF TypeOK, DropWriters
  <2>3. UNCHANGED <<job, up, results, outcome, summary, readers>>
    BY DEF EnterReady
  <2>4. QED
    BY <1>1, <1>6, <2>1, <2>2, <2>3 DEF TypeOK, Links
<1>8. NoSelfLink'
  <2>1. \A q \in Runners : link'[q][q] = <<>>
    BY <1>1, <1>4, <1>5, <1>6, LinkStepNoSelf DEF NoSelfLink
  <2>2. \A q \in Runners : q \notin writers'[q] /\ q \notin readers'[q]
    BY <1>1, <1>2 DEF NoSelfLink, EnterReady, DropWriters, TypeOK
  <2>3. QED
    BY <2>1, <2>2 DEF NoSelfLink
<1>9. /\ reach' = [reach EXCEPT ![r] = PosOf(Ready(r))]
      /\ past' = past
      /\ heard' = [heard EXCEPT ![r] = {r}]
  BY <1>1, <1>4, EnterReadyMoves
<1>10. reach[r] <= PosOf(Ready(r))
  BY <1>1, <1>4, EnterReadyMoves
<1>11. Ordered(link', reach', past', heard')
  <2>1. link'[r][r] = <<>>
    BY <1>8 DEF NoSelfLink
  <2>2. /\ reach \in [Runners -> Int] /\ past \in [Runners -> Int]
        /\ heard \in [Runners -> SUBSET Runners]
    BY <1>1, ControlType
  <2>3. QED
    BY <1>1, <1>4, <1>5, <1>6, <1>9, <1>10, <2>1, <2>2, EnterKeepsOrder
<1>12. QED
  BY <1>7, <1>8, <1>11 DEF LockstepInv

LEMMA CountedAreCurrent ==
    ASSUME LockstepInv, NEW r \in Runners, NEW n \in Arrivals(r)
    PROVE  /\ pc[r] = "ready" =>
                \A p \in Seen(r, n) :
                    p \in heard[r] \/ \E i \in 1..n[p] : PosOf(link[p][r][i]) = reach[r]
           /\ pc[r] = "done" =>
                \A p \in CountedDone(r, n) :
                    p \in heard[r] \/ \E i \in 1..n[p] : PosOf(link[p][r][i]) = reach[r]
<1>1. TypeOK
  BY DEF LockstepInv
<1>2. ASSUME InBarrier(r), NEW p \in Runners, AcceptedAt(r, KindAt(r), n, p) # {}
      PROVE  \E i \in 1..n[p] : PosOf(link[p][r][i]) = reach[r]
  <2>1. PICK i \in AcceptedAt(r, KindAt(r), n, p) : TRUE
    BY <1>2
  <2>2. /\ i \in 1..n[p] /\ i \in 1..Len(link[p][r])
        /\ Accepts(r, KindAt(r), link[p][r][i])
    BY <1>1, <2>1, AcceptedRange
  <2>3. PosOf(link[p][r][i]) = reach[r]
    BY <1>2, <2>2, AcceptedIsCurrent
  <2>4. QED
    BY <2>2, <2>3
<1>3. ASSUME pc[r] = "ready", NEW p \in Seen(r, n)
      PROVE  p \in heard[r] \/ \E i \in 1..n[p] : PosOf(link[p][r][i]) = reach[r]
  <2>1. p \in Runners /\ (p \in seen[r] \/ AcceptedAt(r, "Ready", n, p) # {})
    BY <1>1 DEF Seen, TypeOK
  <2>2. heard[r] = seen[r] /\ InBarrier(r) /\ KindAt(r) = "Ready"
    BY <1>1, <1>3, ControlType DEF InBarrier, KindAt
  <2>3. QED
    BY <1>2, <2>1, <2>2
<1>4. ASSUME pc[r] = "done", NEW p \in CountedDone(r, n)
      PROVE  p \in heard[r] \/ \E i \in 1..n[p] : PosOf(link[p][r][i]) = reach[r]
  <2>1. p \in Runners /\ (results[r][p] # NoOutcome \/ AcceptedAt(r, "Done", n, p) # {})
    BY DEF CountedDone, Results
  <2>2. heard[r] = {q \in Runners : results[r][q] # NoOutcome}
        /\ InBarrier(r) /\ KindAt(r) = "Done"
    BY <1>1, <1>4, ControlType DEF InBarrier, KindAt
  <2>3. QED
    BY <1>2, <2>1, <2>2
<1>5. QED
  BY <1>3, <1>4

\* What a poll leaves of the links and of the connections, whether it
\* broadcast or not.
PollLinks(r, n, f) ==
    \/ link' = Drained(r, n) /\ UNCHANGED writers
    \/ \E failed \in WriteFailures(r) :
        link' = Sent(Drained(r, n), r, f, failed) /\ DropWriters(r, failed)

LEMMA PollLinkStep ==
    ASSUME LockstepInv, NEW r \in Runners, NEW n \in Arrivals(r), NEW f \in Frames,
           PollLinks(r, n, f), UNCHANGED readers
    PROVE  /\ LinkStep(link, link', r, f, n)
           /\ link \in Links /\ link' \in Links
           /\ n \in [Runners -> Nat] /\ \A p \in Runners : n[p] <= Len(link[p][r])
           /\ writers' \in [Runners -> SUBSET Runners]
           /\ NoSelfLink'
<1>1. TypeOK /\ NoSelfLink
  BY DEF LockstepInv
<1>2. PICK failed :
        \/ link' = Drained(r, n) /\ UNCHANGED writers
        \/ link' = Sent(Drained(r, n), r, f, failed) /\ DropWriters(r, failed)
  BY DEF PollLinks
<1>3. LinkStep(link, link', r, f, n)
  BY <1>1, <1>2, PollingIsLinkStep
<1>4. link \in Links /\ link' \in Links
  BY <1>1, <1>3, ControlType DEF LinkStep
<1>5. n \in [Runners -> Nat] /\ \A p \in Runners : n[p] <= Len(link[p][r])
  <2>1. n \in [Runners -> Nat] /\ \A p \in Runners : n[p] \in 0..Len(link[p][r])
    BY <1>1, ArrivalsType
  <2>2. QED
    BY <2>1
<1>6. writers' \in [Runners -> SUBSET Runners] /\ \A q \in Runners : writers'[q] \subseteq writers[q]
  <2>1. writers \in [Runners -> SUBSET Runners]
    BY <1>1 DEF TypeOK
  <2>2. writers' = writers \/ writers' = [writers EXCEPT ![r] = writers[r] \ failed]
    BY <1>2 DEF DropWriters
  <2>3. QED
    BY <2>1, <2>2
<1>7. \A q \in Runners : link'[q][q] = <<>>
  BY <1>1, <1>3, <1>4, <1>5, LinkStepNoSelf DEF NoSelfLink
<1>8. NoSelfLink'
  BY <1>1, <1>6, <1>7 DEF NoSelfLink
<1>9. QED
  BY <1>3, <1>4, <1>5, <1>6, <1>8

LEMMA LeaveReadyInv ==
    ASSUME LockstepInv, NEW r \in Runners, NEW n \in Arrivals(r), LeaveReady(r, n)
    PROVE  LockstepInv'
<1>1. TypeOK /\ Ordered(link, reach, past, heard)
  BY DEF LockstepInv
<1>2. pc[r] = "ready" /\ job[r] \in Active /\ job[r] \in Int
  <2>1. pc[r] = "ready"
    BY DEF LeaveReady, Running
  <2>2. QED
    BY <1>1, <2>1, ActiveType DEF TypeOK
<1>3. Ready(r) \in Frames /\ PosOf(Ready(r)) = 2 * job[r]
  BY <1>1, <1>2, SentFrames DEF Statuses
<1>4. PollLinks(r, n, Ready(r)) /\ UNCHANGED readers
  BY DEF LeaveReady, PollLinks
<1>5. /\ LinkStep(link, link', r, Ready(r), n)
      /\ link \in Links /\ link' \in Links
      /\ n \in [Runners -> Nat] /\ \A p \in Runners : n[p] <= Len(link[p][r])
      /\ writers' \in [Runners -> SUBSET Runners]
      /\ NoSelfLink'
  BY <1>3, <1>4, PollLinkStep
<1>6. TypeOK'
  <2>1. pc' \in [Runners -> {"next", "ready", "spawn", "done"}]
        /\ \A q \in Runners : pc'[q] # "next" => job'[q] \in Active
    BY <1>1, <1>2 DEF LeaveReady, TypeOK
  <2>2. seen' \in [Runners -> SUBSET Runners]
    BY <1>1 DEF LeaveReady, TypeOK, Seen
  <2>3. UNCHANGED <<job, up, results, outcome, summary, readers>>
    BY DEF LeaveReady
  <2>4. QED
    BY <1>1, <1>5, <2>1, <2>2, <2>3 DEF TypeOK, Links
<1>7. /\ reach' = reach
      /\ past' = [past EXCEPT ![r] = reach[r]]
      /\ heard' = [heard EXCEPT ![r] = {}]
  BY <1>1, LeaveReadyMoves
<1>8. Ordered(link', reach', past', heard')
  <2>1. /\ reach \in [Runners -> Int] /\ past \in [Runners -> Int]
        /\ heard \in [Runners -> SUBSET Runners]
        /\ PosOf(Ready(r)) = reach[r]
    BY <1>1, <1>2, <1>3, ControlType
  <2>2. \A p \in Runners :
            p \in heard[r] \/ \E i \in 1..n[p] : PosOf(link[p][r][i]) = reach[r]
    <3>1. Seen(r, n) = Runners
      BY DEF LeaveReady, ReadyQuorum
    <3>2. QED
      BY <1>2, <3>1, CountedAreCurrent
  <2>3. QED
    BY <1>1, <1>3, <1>5, <1>7, <2>1, <2>2, LeaveKeepsOrder
<1>9. QED
  BY <1>5, <1>6, <1>8 DEF LockstepInv

LEMMA KeepWaitingReadyInv ==
    ASSUME LockstepInv, NEW r \in Runners, NEW n \in Arrivals(r), NEW again \in BOOLEAN,
           KeepWaitingReady(r, n, again)
    PROVE  LockstepInv'
<1>1. TypeOK /\ Ordered(link, reach, past, heard)
  BY DEF LockstepInv
<1>2. pc[r] = "ready" /\ job[r] \in Active
  <2>1. pc[r] = "ready"
    BY DEF KeepWaitingReady, Running
  <2>2. QED
    BY <1>1, <2>1 DEF TypeOK
<1>3. Ready(r) \in Frames /\ PosOf(Ready(r)) = 2 * job[r]
  BY <1>1, <1>2, SentFrames DEF Statuses
<1>4. PollLinks(r, n, Ready(r)) /\ UNCHANGED readers
  BY DEF KeepWaitingReady, PollLinks
<1>5. /\ LinkStep(link, link', r, Ready(r), n)
      /\ link \in Links /\ link' \in Links
      /\ n \in [Runners -> Nat] /\ \A p \in Runners : n[p] <= Len(link[p][r])
      /\ writers' \in [Runners -> SUBSET Runners]
      /\ NoSelfLink'
  BY <1>3, <1>4, PollLinkStep
<1>6. Seen(r, n) \subseteq Runners
  BY <1>1 DEF Seen, TypeOK
<1>7. TypeOK'
  <2>1. seen' \in [Runners -> SUBSET Runners]
    BY <1>1, <1>6 DEF KeepWaitingReady, TypeOK
  <2>2. UNCHANGED <<job, pc, up, results, outcome, summary, readers>>
    BY DEF KeepWaitingReady
  <2>3. QED
    BY <1>1, <1>5, <2>1, <2>2 DEF TypeOK, Links
<1>8. /\ reach' = reach
      /\ past' = past
      /\ heard' = [heard EXCEPT ![r] = Seen(r, n)]
  BY <1>1, KeepWaitingReadyMoves
<1>9. Ordered(link', reach', past', heard')
  <2>1. /\ reach \in [Runners -> Int] /\ past \in [Runners -> Int]
        /\ heard \in [Runners -> SUBSET Runners]
        /\ PosOf(Ready(r)) = reach[r]
    BY <1>1, <1>2, <1>3, ControlType
  <2>2. \A p \in Seen(r, n) :
            p \in heard[r] \/ \E i \in 1..n[p] : PosOf(link[p][r][i]) = reach[r]
    BY <1>2, CountedAreCurrent
  <2>3. QED
    BY <1>1, <1>3, <1>5, <1>6, <1>8, <2>1, <2>2, WaitKeepsOrder
<1>10. QED
  BY <1>5, <1>7, <1>9 DEF LockstepInv

LEMMA EnterDoneInv ==
    ASSUME LockstepInv, NEW r \in Runners, EnterDone(r)
    PROVE  LockstepInv'
<1>1. TypeOK /\ NoSelfLink /\ Ordered(link, reach, past, heard)
  BY DEF LockstepInv
<1>2. PICK s \in Outcomes, failed \in WriteFailures(r) :
        /\ outcome' = [outcome EXCEPT ![r][job[r]] = s]
        /\ results' = [results EXCEPT ![r] = [NoRow EXCEPT ![r] = s]]
        /\ link' = Sent(link, r, Done(r, s), failed)
        /\ DropWriters(r, failed)
  BY DEF EnterDone
<1>3. pc[r] = "spawn" /\ job[r] \in Active /\ job[r] \in Int /\ job[r] \in Jobs
  <2>1. pc[r] = "spawn"
    BY DEF EnterDone, Running
  <2>2. QED
    BY <1>1, <2>1, ActiveType DEF TypeOK
<1>4. s \in Statuses /\ s # NoOutcome
  BY OutcomeAssumption DEF Statuses
<1>5. Done(r, s) \in Frames /\ PosOf(Done(r, s)) = 2 * job[r] + 1
  BY <1>1, <1>3, <1>4, SentFrames
<1>6. LinkStep(link, link', r, Done(r, s), NoArrivals) /\ NoArrivals \in [Runners -> Nat]
  BY <1>1, <1>2, <1>5, SendingIsLinkStep DEF NoArrivals
<1>7. link \in Links /\ link' \in Links
  BY <1>1, <1>6, ControlType DEF LinkStep
<1>8. TypeOK'
  <2>1. /\ pc' \in [Runners -> {"next", "ready", "spawn", "done"}]
        /\ \A q \in Runners : pc'[q] # "next" => job'[q] \in Active
    BY <1>1, <1>3 DEF EnterDone, TypeOK
  <2>2. writers' \in [Runners -> SUBSET Runners]
    BY <1>1, <1>2 DEF TypeOK, DropWriters
  <2>3. results' \in [Runners -> [Runners -> Statuses]]
    BY <1>1, <1>2, <1>4 DEF TypeOK, NoRow, Statuses
  <2>4. outcome' \in [Runners -> [Jobs -> Statuses]]
    BY <1>1, <1>2, <1>3, <1>4 DEF TypeOK
  <2>5. UNCHANGED <<job, up, seen, summary, readers>>
    BY DEF EnterDone
  <2>6. QED
    BY <1>1, <1>7, <2>1, <2>2, <2>3, <2>4, <2>5 DEF TypeOK, Links
<1>9. NoSelfLink'
  <2>1. \A q \in Runners : link'[q][q] = <<>>
    BY <1>1, <1>5, <1>6, <1>7, LinkStepNoSelf DEF NoSelfLink
  <2>2. \A q \in Runners : q \notin writers'[q] /\ q \notin readers'[q]
    BY <1>1, <1>2 DEF NoSelfLink, EnterDone, DropWriters, TypeOK
  <2>3. QED
    BY <2>1, <2>2 DEF NoSelfLink
<1>10. /\ reach' = [reach EXCEPT ![r] = PosOf(Done(r, s))]
       /\ past' = past
       /\ heard' = [heard EXCEPT ![r] = {r}]
  BY <1>1, <1>5, EnterDoneMoves
<1>11. reach[r] <= PosOf(Done(r, s))
  BY <1>1, <1>5, EnterDoneMoves
<1>12. Ordered(link', reach', past', heard')
  <2>1. link'[r][r] = <<>>
    BY <1>9 DEF NoSelfLink
  <2>2. /\ reach \in [Runners -> Int] /\ past \in [Runners -> Int]
        /\ heard \in [Runners -> SUBSET Runners]
    BY <1>1, ControlType
  <2>3. QED
    BY <1>1, <1>5, <1>6, <1>7, <1>10, <1>11, <2>1, <2>2, EnterKeepsOrder
<1>13. QED
  BY <1>8, <1>9, <1>12 DEF LockstepInv

LEMMA OwnDone ==
    ASSUME TypeOK, NEW r \in Runners, pc[r] = "done"
    PROVE  /\ job[r] \in Active /\ job[r] \in Int /\ job[r] \in Jobs
           /\ Done(r, outcome[r][job[r]]) \in Frames
           /\ PosOf(Done(r, outcome[r][job[r]])) = 2 * job[r] + 1
<1>1. job[r] \in Active /\ job[r] \in Int /\ job[r] \in Jobs
  BY ActiveType DEF TypeOK
<1>2. outcome[r][job[r]] \in Statuses
  BY <1>1 DEF TypeOK
<1>3. QED
  BY <1>1, <1>2, SentFrames

LEMMA KeepWaitingDoneInv ==
    ASSUME LockstepInv, NEW r \in Runners, NEW n \in Arrivals(r), NEW again \in BOOLEAN,
           KeepWaitingDone(r, n, again)
    PROVE  LockstepInv'
<1> DEFINE f == Done(r, outcome[r][job[r]])
<1>1. TypeOK /\ Ordered(link, reach, past, heard)
  BY DEF LockstepInv
<1>2. pc[r] = "done"
  BY DEF KeepWaitingDone, Running
<1>3. f \in Frames /\ PosOf(f) = 2 * job[r] + 1
  BY <1>1, <1>2, OwnDone
<1>4. PollLinks(r, n, f) /\ UNCHANGED readers
  BY DEF KeepWaitingDone, PollLinks
<1> HIDE DEF f
<1>5. /\ LinkStep(link, link', r, f, n)
      /\ link \in Links /\ link' \in Links
      /\ n \in [Runners -> Nat] /\ \A p \in Runners : n[p] <= Len(link[p][r])
      /\ writers' \in [Runners -> SUBSET Runners]
      /\ NoSelfLink'
  BY <1>3, <1>4, PollLinkStep
<1>6. Results(r, n) \in [Runners -> Statuses]
  BY <1>1, ResultsType
<1>7. TypeOK'
  <2>1. results' \in [Runners -> [Runners -> Statuses]]
    BY <1>1, <1>6 DEF KeepWaitingDone, TypeOK
  <2>2. UNCHANGED <<job, pc, up, seen, outcome, summary, readers>>
    BY DEF KeepWaitingDone
  <2>3. QED
    BY <1>1, <1>5, <2>1, <2>2 DEF TypeOK, Links
<1>8. /\ reach' = reach
      /\ past' = past
      /\ heard' = [heard EXCEPT ![r] = CountedDone(r, n)]
  BY <1>1, KeepWaitingDoneMoves
<1>9. Ordered(link', reach', past', heard')
  <2>1. /\ reach \in [Runners -> Int] /\ past \in [Runners -> Int]
        /\ heard \in [Runners -> SUBSET Runners]
        /\ PosOf(f) = reach[r]
    BY <1>1, <1>2, <1>3, ControlType
  <2>2. \A p \in CountedDone(r, n) :
            p \in heard[r] \/ \E i \in 1..n[p] : PosOf(link[p][r][i]) = reach[r]
    BY <1>2, CountedAreCurrent
  <2>3. CountedDone(r, n) \in SUBSET Runners
    BY DEF CountedDone
  <2>4. QED
    BY <1>1, <1>3, <1>5, <1>8, <2>1, <2>2, <2>3, WaitKeepsOrder
<1>10. QED
  BY <1>5, <1>7, <1>9 DEF LockstepInv

LEMMA LeaveDoneInv ==
    ASSUME LockstepInv, NEW r \in Runners, NEW n \in Arrivals(r), LeaveDone(r, n)
    PROVE  LockstepInv'
<1> DEFINE f == Done(r, outcome[r][job[r]])
<1>1. TypeOK /\ Ordered(link, reach, past, heard)
  BY DEF LockstepInv
<1>2. pc[r] = "done" /\ job[r] \in Jobs
  <2>1. pc[r] = "done"
    BY DEF LeaveDone, Running
  <2>2. QED
    BY <1>1, <2>1, OwnDone
<1>3. f \in Frames /\ PosOf(f) = 2 * job[r] + 1
  BY <1>1, <1>2, OwnDone
<1>4. PollLinks(r, n, f) /\ UNCHANGED readers
  BY DEF LeaveDone, PollLinks
<1> HIDE DEF f
<1>5. /\ LinkStep(link, link', r, f, n)
      /\ link \in Links /\ link' \in Links
      /\ n \in [Runners -> Nat] /\ \A p \in Runners : n[p] <= Len(link[p][r])
      /\ writers' \in [Runners -> SUBSET Runners]
      /\ NoSelfLink'
  BY <1>3, <1>4, PollLinkStep
<1>6. /\ job' \in [Runners -> 1..(NumJobs + 1)]
      /\ job'[r] = job[r] + 1 /\ job[r] \in Int
      /\ job' = [job EXCEPT ![r] = @ + 1]
  BY <1>1, <1>2, NextJob DEF LeaveDone
<1>7. TypeOK'
  <2>1. /\ pc' \in [Runners -> {"next", "ready", "spawn", "done"}]
        /\ \A q \in Runners : pc'[q] # "next" => job'[q] \in Active
    BY <1>1 DEF LeaveDone, TypeOK
  <2>2. results' \in [Runners -> [Runners -> Statuses]]
    BY <1>1 DEF LeaveDone, TypeOK, NoRow, Statuses
  <2>3. summary' \in [Runners -> [Jobs -> [Runners -> Statuses \union {Skipped}]]]
    <3>1. Results(r, n) \in [Runners -> Statuses \union {Skipped}]
      BY <1>1, ResultsType
    <3>2. summary \in [Runners -> [Jobs -> [Runners -> Statuses \union {Skipped}]]]
      BY <1>1 DEF TypeOK
    <3>3. summary' = [summary EXCEPT ![r][job[r]] = Results(r, n)]
      BY DEF LeaveDone
    <3>4. QED
      BY <1>2, <3>1, <3>2, <3>3
  <2>4. UNCHANGED <<up, seen, outcome, readers>>
    BY DEF LeaveDone
  <2>5. QED
    BY <1>1, <1>5, <1>6, <2>1, <2>2, <2>3, <2>4 DEF TypeOK, Links
<1>8. /\ reach' = reach
      /\ past' = [past EXCEPT ![r] = reach[r]]
      /\ heard' = [heard EXCEPT ![r] = {}]
  BY <1>1, LeaveDoneMoves
<1>9. Ordered(link', reach', past', heard')
  <2>1. /\ reach \in [Runners -> Int] /\ past \in [Runners -> Int]
        /\ heard \in [Runners -> SUBSET Runners]
        /\ PosOf(f) = reach[r]
    BY <1>1, <1>2, <1>3, ControlType
  <2>2. \A p \in Runners :
            p \in heard[r] \/ \E i \in 1..n[p] : PosOf(link[p][r][i]) = reach[r]
    <3>1. CountedDone(r, n) = Runners
      BY DEF LeaveDone, DoneQuorum, CountedDone
    <3>2. QED
      BY <1>2, <3>1, CountedAreCurrent
  <2>3. QED
    BY <1>1, <1>3, <1>5, <1>8, <2>1, <2>2, LeaveKeepsOrder
<1>10. QED
  BY <1>5, <1>7, <1>9 DEF LockstepInv

LEMMA SkipJobInv ==
    ASSUME LockstepInv, NEW r \in Runners, SkipJob(r)
    PROVE  LockstepInv'
<1>1. TypeOK /\ NoSelfLink /\ Ordered(link, reach, past, heard)
  BY DEF LockstepInv
<1>2. pc[r] = "next" /\ job[r] \in Skip /\ job[r] \in Jobs
  BY JobsAssumption DEF SkipJob, Running
<1>3. /\ job' \in [Runners -> 1..(NumJobs + 1)]
      /\ job'[r] = job[r] + 1 /\ job[r] \in Int
      /\ job' = [job EXCEPT ![r] = @ + 1]
  BY <1>1, <1>2, NextJob DEF SkipJob
<1>4. TypeOK'
  <2>1. \A q \in Runners : pc'[q] # "next" => job'[q] \in Active
    BY <1>1, <1>2, <1>3 DEF SkipJob, TypeOK
  <2>2. summary' \in [Runners -> [Jobs -> [Runners -> Statuses \union {Skipped}]]]
    BY <1>1, <1>2 DEF SkipJob, TypeOK, Statuses
  <2>3. UNCHANGED <<pc, up, seen, results, outcome, link, writers, readers>>
    BY DEF SkipJob
  <2>4. QED
    BY <1>1, <1>3, <2>1, <2>2, <2>3 DEF TypeOK
<1>5. NoSelfLink'
  BY <1>1 DEF NoSelfLink, SkipJob
<1> DEFINE y == 2 * job[r] + 1
<1>6. /\ reach' = [reach EXCEPT ![r] = y]
      /\ past' = [past EXCEPT ![r] = y]
      /\ heard' = heard
      /\ reach[r] = 2 * job[r] - 1 /\ past[r] = 2 * job[r] - 1 /\ heard[r] = {}
      /\ \A x \in Places : x <= y => x <= past[r]
  BY <1>1, SkipJobMoves
<1>7. Ordered(link', reach', past', heard')
  <2>1. /\ reach \in [Runners -> Int] /\ past \in [Runners -> Int]
        /\ heard \in [Runners -> SUBSET Runners] /\ link \in Links
    BY <1>1, ControlType
  <2>2. y \in Int /\ reach[r] <= y
    BY <1>3, <1>6
  <2>3. link' = link
    BY DEF SkipJob
  <2> HIDE DEF y
  <2>4. QED
    BY <1>1, <1>6, <2>1, <2>2, <2>3, SkipKeepsOrder
<1>8. QED
  BY <1>4, <1>5, <1>7 DEF LockstepInv

\* A process that ends changes nothing but "up".
LEMMA EndInv ==
    ASSUME LockstepInv,
           up' \in [Runners -> {"running", "exit0", "exit1", "exit75", "crashed"}],
           UNCHANGED <<job, pc, seen, results, outcome, summary, link, writers, readers>>
    PROVE  LockstepInv'
<1>1. TypeOK'
  BY DEF LockstepInv, TypeOK
<1>2. NoSelfLink'
  BY DEF LockstepInv, NoSelfLink
<1>3. reach' = reach /\ past' = past /\ heard' = heard /\ link' = link
  BY DEF reach, past, heard, InBarrier, Heard
<1>4. Ordered(link', reach', past', heard')
  BY <1>3 DEF LockstepInv
<1>5. QED
  BY <1>1, <1>2, <1>4 DEF LockstepInv

LEMMA ConnectionBreaksInv ==
    ASSUME LockstepInv, NEW p \in Runners, NEW r \in Runners, ConnectionBreaks(p, r)
    PROVE  LockstepInv'
<1>1. TypeOK /\ NoSelfLink /\ Ordered(link, reach, past, heard)
  BY DEF LockstepInv
<1>2. PICK k \in 0..Len(link[p][r]) :
        link' = [link EXCEPT ![p][r] = SubSeq(link[p][r], 1, k)]
  BY DEF ConnectionBreaks
<1>3. /\ SubSeq(link[p][r], 1, k) \in Seq(Frames)
      /\ Len(SubSeq(link[p][r], 1, k)) = k
      /\ \A i \in 1..k : SubSeq(link[p][r], 1, k)[i] = link[p][r][i]
  BY <1>1, LinkType, Prefix
<1>4. link \in Links /\ k \in Nat /\ k <= Len(link[p][r])
  BY <1>1, ControlType, LinkType
<1>5. link' \in Links
  BY <1>2, <1>3, <1>4 DEF Links
<1>6. ASSUME NEW a \in Runners, NEW b \in Runners
      PROVE  /\ Len(link'[a][b]) <= Len(link[a][b])
             /\ \A i \in 1..Len(link'[a][b]) : link'[a][b][i] = link[a][b][i]
  <2>1. CASE a = p /\ b = r
    <3>1. link'[a][b] = SubSeq(link[p][r], 1, k)
      BY <1>2, <1>4, <2>1 DEF Links
    <3>2. QED
      BY <1>3, <1>4, <2>1, <3>1
  <2>2. CASE ~(a = p /\ b = r)
    <3>1. link'[a][b] = link[a][b] /\ Len(link[a][b]) \in Nat
      BY <1>2, <1>4, <2>2, LinksType DEF Links
    <3>2. QED
      BY <3>1
  <2>3. QED
    BY <2>1, <2>2
<1>7. p # r
  BY <1>1 DEF ConnectionBreaks, NoSelfLink
<1>8. TypeOK'
  <2>1. readers' \in [Runners -> SUBSET Runners]
    BY <1>1 DEF ConnectionBreaks, TypeOK
  <2>2. UNCHANGED <<job, pc, up, seen, results, outcome, summary, writers>>
    BY DEF ConnectionBreaks
  <2>3. QED
    BY <1>1, <1>5, <2>1, <2>2 DEF TypeOK, Links
<1>9. NoSelfLink'
  <2>1. \A q \in Runners : link'[q][q] = <<>>
    BY <1>1, <1>2, <1>4, <1>7 DEF NoSelfLink, Links
  <2>2. \A q \in Runners : q \notin writers'[q] /\ q \notin readers'[q]
    BY <1>1 DEF NoSelfLink, ConnectionBreaks, TypeOK
  <2>3. QED
    BY <2>1, <2>2 DEF NoSelfLink
<1>10. reach' = reach /\ past' = past /\ heard' = heard
  BY DEF ConnectionBreaks, reach, past, heard, InBarrier, Heard
<1>11. Ordered(link', reach', past', heard')
  <2>1. /\ reach \in [Runners -> Int] /\ past \in [Runners -> Int]
        /\ heard \in [Runners -> SUBSET Runners]
    BY <1>1, ControlType
  <2>2. QED
    BY <1>1, <1>4, <1>5, <1>6, <1>10, <2>1, BreakKeepsOrder
<1>12. QED
  BY <1>8, <1>9, <1>11 DEF LockstepInv

LEMMA InvNext == LockstepInv /\ [Next]_vars => LockstepInv'
<1> SUFFICES ASSUME LockstepInv, [Next]_vars PROVE LockstepInv'
  OBVIOUS
<1>1. TypeOK
  BY DEF LockstepInv
<1>2. ASSUME NEW r \in Runners, Loop(r) PROVE LockstepInv'
  <2>1. CASE SkipJob(r)
    BY <2>1, SkipJobInv
  <2>2. CASE EnterReady(r)
    BY <2>2, EnterReadyInv
  <2>3. CASE EnterDone(r)
    BY <2>3, EnterDoneInv
  <2>4. CASE Finish(r)
    <3>1. up' \in [Runners -> {"running", "exit0", "exit1", "exit75", "crashed"}]
      BY <1>1, <2>4 DEF Finish, TypeOK
    <3>2. QED
      BY <2>4, <3>1, EndInv DEF Finish
  <2>5. QED
    BY <1>2, <2>1, <2>2, <2>3, <2>4 DEF Loop
<1>3. ASSUME NEW r \in Runners, Poll(r) PROVE LockstepInv'
  <2>1. PICK n \in Arrivals(r) :
            \/ Leave(r, n)
            \/ \E again \in BOOLEAN : KeepWaiting(r, n, again)
            \/ BarrierTimesOut(r, n)
    BY <1>3 DEF Poll
  <2>2. CASE Leave(r, n)
    BY <2>2, LeaveReadyInv, LeaveDoneInv DEF Leave
  <2>3. CASE \E again \in BOOLEAN : KeepWaiting(r, n, again)
    BY <2>3, KeepWaitingReadyInv, KeepWaitingDoneInv DEF KeepWaiting
  <2>4. CASE BarrierTimesOut(r, n)
    <3>1. up' \in [Runners -> {"running", "exit0", "exit1", "exit75", "crashed"}]
      BY <1>1, <2>4 DEF BarrierTimesOut, TypeOK
    <3>2. QED
      BY <2>4, <3>1, EndInv DEF BarrierTimesOut
  <2>5. QED
    BY <2>1, <2>2, <2>3, <2>4
<1>4. ASSUME NEW r \in Runners, SpawnError(r) \/ Crash(r) PROVE LockstepInv'
  <2>1. up' \in [Runners -> {"running", "exit0", "exit1", "exit75", "crashed"}]
    BY <1>1, <1>4 DEF SpawnError, Crash, TypeOK
  <2>2. QED
    BY <1>4, <2>1, EndInv DEF SpawnError, Crash
<1>5. ASSUME NEW p \in Runners, NEW r \in Runners, ConnectionBreaks(p, r) PROVE LockstepInv'
  BY <1>5, ConnectionBreaksInv
<1>6. CASE UNCHANGED vars
  <2>1. up' \in [Runners -> {"running", "exit0", "exit1", "exit75", "crashed"}]
    BY <1>1, <1>6 DEF vars, TypeOK
  <2>2. QED
    BY <1>6, <2>1, EndInv DEF vars
<1>7. QED
  BY <1>2, <1>3, <1>4, <1>5, <1>6 DEF Next

\* Entered and Left in terms of reach and past.
LEMMA BarrierPlaces ==
    ASSUME TypeOK, NEW r \in Runners, NEW j \in Active, NEW kind \in Kinds
    PROVE  /\ Entered(r, j, kind) <=> Pos(j, kind) <= reach[r]
           /\ Left(r, j, kind) <=> Pos(j, kind) <= past[r]
           /\ Pos(j, kind) \in Places
<1>1. j \in Int /\ job[r] \in Int
  <2>1. job \in [Runners -> 1..(NumJobs + 1)]
    BY DEF TypeOK
  <2>2. QED
    BY <2>1, JobsAssumption, ActiveType
<1>2. /\ reach[r] = 2 * job[r] + (CASE pc[r] = "next" -> -1 [] pc[r] = "done" -> 1 [] OTHER -> 0)
      /\ past[r] = 2 * job[r] + (IF pc[r] \in {"next", "ready"} THEN -1 ELSE 0)
      /\ pc[r] \in {"next", "ready", "spawn", "done"}
  BY DEF reach, past, TypeOK
<1>3. ASSUME kind = "Ready"
      PROVE  /\ Entered(r, j, kind) <=> Pos(j, kind) <= reach[r]
             /\ Left(r, j, kind) <=> Pos(j, kind) <= past[r]
  BY <1>1, <1>2, <1>3 DEF Entered, Left, Pos
<1>4. ASSUME kind = "Done"
      PROVE  /\ Entered(r, j, kind) <=> Pos(j, kind) <= reach[r]
             /\ Left(r, j, kind) <=> Pos(j, kind) <= past[r]
  BY <1>1, <1>2, <1>4 DEF Entered, Left, Pos
<1>5. Pos(j, kind) \in Places
  BY DEF Places
<1>6. QED
  BY <1>3, <1>4, <1>5 DEF Kinds

-----------------------------------------------------------------------------
(* Theorems.                                                               *)

(* The invariant: what every runner has entered, left and counted, and the
   order of the frames between them, fit together in every reachable state. *)
THEOREM LockstepInvariant == Spec => []LockstepInv
<1>1. Init => LockstepInv
  BY InvInit
<1>2. LockstepInv /\ [Next]_vars => LockstepInv'
  BY InvNext
<1>3. QED
  BY <1>1, <1>2, PTL DEF Spec

(* Every variable of the job loop keeps its type. *)
THEOREM TypeCorrect == Spec => []TypeOK
<1>1. LockstepInv => TypeOK
  BY DEF LockstepInv
<1>2. QED
  BY <1>1, LockstepInvariant, PTL

(* ready_barrier_tcp and done_barrier_tcp return on no runner before every
   runner has entered the same barrier. *)
THEOREM BarrierSafety == Spec => []NobodyLeavesEarly
<1>1. LockstepInv => NobodyLeavesEarly
  <2> SUFFICES ASSUME LockstepInv, NEW r \in Runners, NEW p \in Runners,
                      NEW j \in Active, NEW kind \in Kinds, Left(r, j, kind)
               PROVE  Entered(p, j, kind)
    BY DEF NobodyLeavesEarly
  <2>1. TypeOK /\ LeftTogether(link, reach, past)
    BY DEF LockstepInv, Ordered
  <2>2. Pos(j, kind) <= past[r] /\ Pos(j, kind) \in Places
    BY <2>1, BarrierPlaces
  <2>3. Pos(j, kind) <= reach[p]
    BY <2>1, <2>2 DEF LeftTogether
  <2>4. QED
    BY <2>1, <2>3, BarrierPlaces
<1>2. QED
  BY <1>1, LockstepInvariant, PTL

(* No frame left over from an earlier barrier is ever counted for a later
   one, though frames carry the effective name of a job, which two jobs may
   share, and not its place in the list. *)
THEOREM FramesMatchTheirJob == Spec => []NoFalseMatch
<1>1. LockstepInv => NoFalseMatch
  BY AcceptedIsCurrent DEF NoFalseMatch
<1>2. QED
  BY <1>1, LockstepInvariant, PTL

-----------------------------------------------------------------------------
(* The two barriers implement Lockstep.  A step that moves a runner into   *)
(* or out of a barrier is an Enter or a Leave of Lockstep; every other     *)
(* step, the polls, the faults and the jobs in the skip set among them, is *)
(* a stutter.  The guard of Leave is NobodyLeavesEarly after the step.     *)

AllBarriers == [job : Active, kind : Kinds]

enteredSet == [r \in Runners |-> {b \in AllBarriers : Entered(r, b.job, b.kind)}]
leftSet == [r \in Runners |-> {b \in AllBarriers : Left(r, b.job, b.kind)}]

Barrier(j, kind) == [job |-> j, kind |-> kind]

-----------------------------------------------------------------------------

LEMMA BarrierType ==
    ASSUME NEW b \in AllBarriers
    PROVE  b.job \in Active /\ b.job \in Int /\ b.kind \in Kinds /\ b = Barrier(b.job, b.kind)
<1>1. b.job \in Active /\ b.kind \in Kinds /\ b = Barrier(b.job, b.kind)
  BY DEF AllBarriers, Barrier
<1>2. QED
  BY <1>1, ActiveType

LEMMA JobType == ASSUME TypeOK, NEW r \in Runners PROVE job[r] \in Int
<1>1. job \in [Runners -> 1..(NumJobs + 1)]
  BY DEF TypeOK
<1>2. QED
  BY <1>1, JobsAssumption

\* What Lockstep calls its steps, in terms of the runner's state.
AbstractEnter(r, b) ==
    /\ b \in AllBarriers
    /\ b \notin enteredSet[r]
    /\ \A c \in AllBarriers : Abstract!Before(c, b) => c \in leftSet[r]
    /\ enteredSet' = [enteredSet EXCEPT ![r] = @ \union {b}]
    /\ leftSet' = leftSet

AbstractLeave(r, b) ==
    /\ b \in enteredSet[r] \ leftSet[r]
    /\ \A p \in Runners : b \in enteredSet[p]
    /\ leftSet' = [leftSet EXCEPT ![r] = @ \union {b}]
    /\ enteredSet' = enteredSet

LEMMA EnterReadyIsEnter ==
    ASSUME LockstepInv, NEW r \in Runners, EnterReady(r)
    PROVE  AbstractEnter(r, Barrier(job[r], "Ready"))
<1> DEFINE b0 == Barrier(job[r], "Ready")
<1>1. TypeOK /\ \A q \in Runners : job[q] \in Int
  BY JobType DEF LockstepInv
<1>2. /\ pc[r] = "next" /\ job[r] \in Active
      /\ job' = job
      /\ \A q \in Runners \ {r} : pc'[q] = pc[q]
      /\ pc'[r] = "ready"
  BY <1>1 DEF EnterReady, Running, TypeOK
<1>3. b0 \in AllBarriers /\ b0.job = job[r] /\ b0.kind = "Ready"
  BY <1>2 DEF Barrier, AllBarriers, Kinds
<1>4. b0 \notin enteredSet[r]
  BY <1>1, <1>2, <1>3 DEF enteredSet, Entered
<1>5. ASSUME NEW c \in AllBarriers, Abstract!Before(c, b0) PROVE c \in leftSet[r]
  <2>1. c.job < job[r]
    BY <1>3, <1>5 DEF Abstract!Before
  <2>2. QED
    BY <1>1, <2>1, BarrierType DEF leftSet, Left
<1>6. enteredSet' = [enteredSet EXCEPT ![r] = @ \union {b0}]
  <2>1. \A q \in Runners \ {r} : enteredSet'[q] = enteredSet[q]
    BY <1>2 DEF enteredSet, Entered
  <2>2. ASSUME NEW b \in AllBarriers
        PROVE  b \in enteredSet'[r] <=> b \in enteredSet[r] \/ b = b0
    <3>1. b = b0 <=> b.job = job[r] /\ b.kind = "Ready"
      BY <1>3, BarrierType
    <3>2. b.job \in Int /\ b.kind \in {"Ready", "Done"}
      BY BarrierType DEF Kinds
    <3>3. QED
      BY <1>1, <1>2, <3>1, <3>2 DEF enteredSet, Entered
  <2>3. enteredSet'[r] = enteredSet[r] \union {b0}
    BY <1>3, <2>2 DEF enteredSet
  <2>4. QED
    BY <2>1, <2>3 DEF enteredSet
<1>7. leftSet' = leftSet
  BY <1>2 DEF leftSet, Left
<1>8. QED
  BY <1>3, <1>4, <1>5, <1>6, <1>7 DEF AbstractEnter

LEMMA EnterDoneIsEnter ==
    ASSUME LockstepInv, NEW r \in Runners, EnterDone(r)
    PROVE  AbstractEnter(r, Barrier(job[r], "Done"))
<1> DEFINE b0 == Barrier(job[r], "Done")
<1>1. TypeOK /\ \A q \in Runners : job[q] \in Int
  BY JobType DEF LockstepInv
<1>2. /\ pc[r] = "spawn" /\ job[r] \in Active
      /\ job' = job
      /\ \A q \in Runners \ {r} : pc'[q] = pc[q]
      /\ pc'[r] = "done"
  BY <1>1 DEF EnterDone, Running, TypeOK
<1>3. b0 \in AllBarriers /\ b0.job = job[r] /\ b0.kind = "Done"
  BY <1>2 DEF Barrier, AllBarriers, Kinds
<1>4. b0 \notin enteredSet[r]
  BY <1>1, <1>2, <1>3 DEF enteredSet, Entered
<1>5. ASSUME NEW c \in AllBarriers, Abstract!Before(c, b0) PROVE c \in leftSet[r]
  <2>1. c.job < job[r] \/ (c.job = job[r] /\ c.kind = "Ready")
    BY <1>3, <1>5 DEF Abstract!Before
  <2>2. QED
    BY <1>1, <1>2, <2>1, BarrierType DEF leftSet, Left
<1>6. enteredSet' = [enteredSet EXCEPT ![r] = @ \union {b0}]
  <2>1. \A q \in Runners \ {r} : enteredSet'[q] = enteredSet[q]
    BY <1>2 DEF enteredSet, Entered
  <2>2. ASSUME NEW b \in AllBarriers
        PROVE  b \in enteredSet'[r] <=> b \in enteredSet[r] \/ b = b0
    <3>1. b = b0 <=> b.job = job[r] /\ b.kind = "Done"
      BY <1>3, BarrierType
    <3>2. b.job \in Int /\ b.kind \in {"Ready", "Done"}
      BY BarrierType DEF Kinds
    <3>3. QED
      BY <1>1, <1>2, <3>1, <3>2 DEF enteredSet, Entered
  <2>3. enteredSet'[r] = enteredSet[r] \union {b0}
    BY <1>3, <2>2 DEF enteredSet
  <2>4. QED
    BY <2>1, <2>3 DEF enteredSet
<1>7. leftSet' = leftSet
  BY <1>2 DEF leftSet, Left
<1>8. QED
  BY <1>3, <1>4, <1>5, <1>6, <1>7 DEF AbstractEnter

LEMMA LeaveReadyIsLeave ==
    ASSUME LockstepInv, NobodyLeavesEarly', NEW r \in Runners, NEW n \in Arrivals(r),
           LeaveReady(r, n)
    PROVE  AbstractLeave(r, Barrier(job[r], "Ready"))
<1> DEFINE b0 == Barrier(job[r], "Ready")
<1>1. TypeOK /\ \A q \in Runners : job[q] \in Int
  BY JobType DEF LockstepInv
<1>2. /\ pc[r] = "ready" /\ job[r] \in Active
      /\ job' = job
      /\ \A q \in Runners \ {r} : pc'[q] = pc[q]
      /\ pc'[r] = "spawn"
  BY <1>1 DEF LeaveReady, Running, TypeOK
<1>3. b0 \in AllBarriers /\ b0.job = job[r] /\ b0.kind = "Ready"
  BY <1>2 DEF Barrier, AllBarriers, Kinds
<1>4. b0 \in enteredSet[r] \ leftSet[r]
  BY <1>1, <1>2, <1>3 DEF enteredSet, Entered, leftSet, Left
<1>5. enteredSet' = enteredSet
  <2>1. \A q \in Runners \ {r} : enteredSet'[q] = enteredSet[q]
    BY <1>2 DEF enteredSet, Entered
  <2>2. enteredSet'[r] = enteredSet[r]
    BY <1>2 DEF enteredSet, Entered
  <2>3. QED
    BY <2>1, <2>2 DEF enteredSet
<1>6. ASSUME NEW p \in Runners PROVE b0 \in enteredSet[p]
  <2>1. Left(r, job[r], "Ready")'
    BY <1>2 DEF Left
  <2>2. Entered(p, job[r], "Ready")'
    BY <1>2, <2>1 DEF NobodyLeavesEarly, Kinds, Left, Entered
  <2>3. b0 \in enteredSet'[p]
    BY <1>2, <1>3, <2>2 DEF enteredSet, Entered
  <2>4. QED
    BY <1>5, <2>3
<1>7. leftSet' = [leftSet EXCEPT ![r] = @ \union {b0}]
  <2>1. \A q \in Runners \ {r} : leftSet'[q] = leftSet[q]
    BY <1>2 DEF leftSet, Left
  <2>2. ASSUME NEW b \in AllBarriers
        PROVE  b \in leftSet'[r] <=> b \in leftSet[r] \/ b = b0
    <3>1. b = b0 <=> b.job = job[r] /\ b.kind = "Ready"
      BY <1>3, BarrierType
    <3>2. b.job \in Int /\ b.kind \in {"Ready", "Done"}
      BY BarrierType DEF Kinds
    <3>3. QED
      BY <1>1, <1>2, <3>1, <3>2 DEF leftSet, Left
  <2>3. leftSet'[r] = leftSet[r] \union {b0}
    BY <1>3, <2>2 DEF leftSet
  <2>4. QED
    BY <2>1, <2>3 DEF leftSet
<1>8. QED
  BY <1>4, <1>5, <1>6, <1>7 DEF AbstractLeave

LEMMA LeaveDoneIsLeave ==
    ASSUME LockstepInv, NobodyLeavesEarly', NEW r \in Runners, NEW n \in Arrivals(r),
           LeaveDone(r, n)
    PROVE  AbstractLeave(r, Barrier(job[r], "Done"))
<1> DEFINE b0 == Barrier(job[r], "Done")
<1>1. TypeOK /\ \A q \in Runners : job[q] \in Int
  BY JobType DEF LockstepInv
<1>2. /\ pc[r] = "done" /\ job[r] \in Active
      /\ \A q \in Runners \ {r} : pc'[q] = pc[q] /\ job'[q] = job[q]
      /\ pc'[r] = "next" /\ job'[r] = job[r] + 1
  BY <1>1 DEF LeaveDone, Running, TypeOK
<1>3. b0 \in AllBarriers /\ b0.job = job[r] /\ b0.kind = "Done"
  BY <1>2 DEF Barrier, AllBarriers, Kinds
<1>4. b0 \in enteredSet[r] \ leftSet[r]
  BY <1>1, <1>2, <1>3 DEF enteredSet, Entered, leftSet, Left
<1>5. enteredSet' = enteredSet
  <2>1. \A q \in Runners \ {r} : enteredSet'[q] = enteredSet[q]
    BY <1>2 DEF enteredSet, Entered
  <2>2. ASSUME NEW b \in AllBarriers
        PROVE  b \in enteredSet'[r] <=> b \in enteredSet[r]
    <3>1. b.job \in Int /\ b.kind \in {"Ready", "Done"}
      BY BarrierType DEF Kinds
    <3>2. QED
      BY <1>1, <1>2, <3>1 DEF enteredSet, Entered
  <2>3. enteredSet'[r] = enteredSet[r]
    BY <2>2 DEF enteredSet
  <2>4. QED
    BY <2>1, <2>3 DEF enteredSet
<1>6. ASSUME NEW p \in Runners PROVE b0 \in enteredSet[p]
  <2>1. PICK j \in Active : j = job[r]
    BY <1>2
  <2>2. Left(r, j, "Done")'
    BY <1>1, <1>2, <2>1 DEF Left
  <2>3. Entered(p, j, "Done")'
    BY <2>2 DEF NobodyLeavesEarly, Kinds, Left, Entered
  <2>4. b0 \in enteredSet'[p]
    BY <1>3, <2>1, <2>3 DEF enteredSet, Entered
  <2>5. QED
    BY <1>5, <2>4
<1>7. leftSet' = [leftSet EXCEPT ![r] = @ \union {b0}]
  <2>1. \A q \in Runners \ {r} : leftSet'[q] = leftSet[q]
    BY <1>2 DEF leftSet, Left
  <2>2. ASSUME NEW b \in AllBarriers
        PROVE  b \in leftSet'[r] <=> b \in leftSet[r] \/ b = b0
    <3>1. b = b0 <=> b.job = job[r] /\ b.kind = "Done"
      BY <1>3, BarrierType
    <3>2. b.job \in Int /\ b.kind \in {"Ready", "Done"}
      BY BarrierType DEF Kinds
    <3>3. QED
      BY <1>1, <1>2, <3>1, <3>2 DEF leftSet, Left
  <2>3. leftSet'[r] = leftSet[r] \union {b0}
    BY <1>3, <2>2 DEF leftSet
  <2>4. QED
    BY <2>1, <2>3 DEF leftSet
<1>8. QED
  BY <1>4, <1>5, <1>6, <1>7 DEF AbstractLeave

\* A job in the skip set has no barriers.
LEMMA SkipJobStutters ==
    ASSUME LockstepInv, NEW r \in Runners, SkipJob(r)
    PROVE  enteredSet' = enteredSet /\ leftSet' = leftSet
<1>1. TypeOK /\ \A q \in Runners : job[q] \in Int
  BY JobType DEF LockstepInv
<1>2. /\ pc' = pc /\ pc[r] = "next" /\ job[r] \in Skip
      /\ \A q \in Runners \ {r} : job'[q] = job[q]
      /\ job'[r] = job[r] + 1
  BY <1>1 DEF SkipJob, Running, TypeOK
<1>3. ASSUME NEW b \in AllBarriers
      PROVE  /\ b \in enteredSet'[r] <=> b \in enteredSet[r]
             /\ b \in leftSet'[r] <=> b \in leftSet[r]
  <2>1. b.job \in Int /\ b.job # job[r]
    BY <1>2, BarrierType DEF Active
  <2>2. QED
    BY <1>1, <1>2, <2>1 DEF enteredSet, leftSet, Entered, Left
<1>4. enteredSet'[r] = enteredSet[r] /\ leftSet'[r] = leftSet[r]
  BY <1>3 DEF enteredSet, leftSet
<1>5. \A q \in Runners \ {r} : enteredSet'[q] = enteredSet[q] /\ leftSet'[q] = leftSet[q]
  BY <1>2 DEF enteredSet, leftSet, Entered, Left
<1>6. QED
  BY <1>4, <1>5 DEF enteredSet, leftSet

LEMMA OtherStepsStutter ==
    ASSUME UNCHANGED <<job, pc>>
    PROVE  enteredSet' = enteredSet /\ leftSet' = leftSet
BY DEF enteredSet, leftSet, Entered, Left

-----------------------------------------------------------------------------

LEMMA AbstractBarriers == Abstract!Barriers = AllBarriers
BY DEF Abstract!Barriers, AllBarriers, Active, Jobs, Kinds

LEMMA AbstractInit == Init => Abstract!Init
<1> SUFFICES ASSUME Init PROVE Abstract!Init
  OBVIOUS
<1>1. ASSUME NEW r \in Runners, NEW b \in AllBarriers
      PROVE  ~Entered(r, b.job, b.kind) /\ ~Left(r, b.job, b.kind)
  <2>1. b.job \in Active /\ b.job \in Int
    BY BarrierType
  <2>2. job[r] = 1 /\ pc[r] = "next" /\ b.job >= 1
    BY <2>1, JobsAssumption DEF Init, Active, Jobs
  <2>3. QED
    BY <2>1, <2>2 DEF Entered, Left
<1>2. QED
  BY <1>1 DEF Abstract!Init, AllBarriers

LEMMA AbstractNext ==
    LockstepInv /\ NobodyLeavesEarly' /\ [Next]_vars => [Abstract!Next]_(Abstract!vars)
<1> SUFFICES ASSUME LockstepInv, NobodyLeavesEarly', [Next]_vars
             PROVE  [Abstract!Next]_(Abstract!vars)
  OBVIOUS
<1>1. ASSUME NEW r \in Runners, NEW b, AbstractEnter(r, b)
      PROVE  Abstract!Next
  <2>1. b \in Abstract!Barriers
    BY <1>1, AbstractBarriers DEF AbstractEnter
  <2>2. Abstract!Enter(r, b)
    BY <1>1, AbstractBarriers
       DEF AbstractEnter, Abstract!Enter, enteredSet, leftSet, AllBarriers
  <2>3. QED
    BY <2>1, <2>2 DEF Abstract!Next
<1>2. ASSUME NEW r \in Runners, NEW b, AbstractLeave(r, b)
      PROVE  Abstract!Next
  <2>1. b \in Abstract!Barriers
    BY <1>2, AbstractBarriers DEF AbstractLeave, enteredSet
  <2>2. Abstract!Leave(r, b)
    BY <1>2 DEF AbstractLeave, Abstract!Leave, enteredSet, leftSet, AllBarriers
  <2>3. QED
    BY <2>1, <2>2 DEF Abstract!Next
<1>3. ASSUME enteredSet' = enteredSet, leftSet' = leftSet
      PROVE  UNCHANGED Abstract!vars
  BY <1>3 DEF Abstract!vars, enteredSet, leftSet, AllBarriers
<1>4. ASSUME NEW r \in Runners, Loop(r) PROVE [Abstract!Next]_(Abstract!vars)
  <2>1. CASE SkipJob(r)
    BY <1>3, <2>1, SkipJobStutters
  <2>2. CASE EnterReady(r)
    BY <1>1, <2>2, EnterReadyIsEnter
  <2>3. CASE EnterDone(r)
    BY <1>1, <2>3, EnterDoneIsEnter
  <2>4. CASE Finish(r)
    BY <1>3, <2>4, OtherStepsStutter DEF Finish
  <2>5. QED
    BY <1>4, <2>1, <2>2, <2>3, <2>4 DEF Loop
<1>5. ASSUME NEW r \in Runners, Poll(r) PROVE [Abstract!Next]_(Abstract!vars)
  <2>1. PICK n \in Arrivals(r) :
            \/ Leave(r, n)
            \/ \E again \in BOOLEAN : KeepWaiting(r, n, again)
            \/ BarrierTimesOut(r, n)
    BY <1>5 DEF Poll
  <2>2. CASE LeaveReady(r, n)
    BY <1>2, <2>2, LeaveReadyIsLeave
  <2>3. CASE LeaveDone(r, n)
    BY <1>2, <2>3, LeaveDoneIsLeave
  <2>4. CASE \E again \in BOOLEAN : KeepWaiting(r, n, again)
    BY <1>3, <2>4, OtherStepsStutter DEF KeepWaiting, KeepWaitingReady, KeepWaitingDone
  <2>5. CASE BarrierTimesOut(r, n)
    BY <1>3, <2>5, OtherStepsStutter DEF BarrierTimesOut
  <2>6. QED
    BY <2>1, <2>2, <2>3, <2>4, <2>5 DEF Leave
<1>6. ASSUME NEW r \in Runners, SpawnError(r) \/ Crash(r)
      PROVE  [Abstract!Next]_(Abstract!vars)
  BY <1>3, <1>6, OtherStepsStutter DEF SpawnError, Crash
<1>7. ASSUME NEW p \in Runners, NEW r \in Runners, ConnectionBreaks(p, r)
      PROVE  [Abstract!Next]_(Abstract!vars)
  BY <1>3, <1>7, OtherStepsStutter DEF ConnectionBreaks
<1>8. CASE UNCHANGED vars
  BY <1>3, <1>8, OtherStepsStutter DEF vars
<1>9. QED
  BY <1>4, <1>5, <1>6, <1>7, <1>8 DEF Next

(* The job loop with its TCP barriers implements Lockstep: whatever is late,
   lost, re-broadcast, timed out or crashed, each runner enters the barriers
   one by one in job order and leaves one only when everyone has entered it. *)
THEOREM BarriersImplementLockstep == Spec => ImplementsLockstep
<1>1. Init => Abstract!Init
  BY AbstractInit
<1>2. LockstepInv /\ NobodyLeavesEarly' /\ [Next]_vars => [Abstract!Next]_(Abstract!vars)
  BY AbstractNext
<1>3. QED
  BY <1>1, <1>2, LockstepInvariant, BarrierSafety, PTL
     DEF Spec, Abstract!Spec, ImplementsLockstep

-----------------------------------------------------------------------------
(* What the runners tell each other.                                       *)

Tells(f, row) == f.kind = "Done" => f.status = row[f.job] /\ f.status # NoOutcome

\* Every frame in flight tells what its sender's child did.
Telling(l, o) == \A p, q \in Runners : \A i \in 1..Len(l[p][q]) : Tells(l[p][q][i], o[p])

\* A runner in the done barrier knows what its own child did.
Judged == \A r \in Runners : pc[r] = "done" => outcome[r][job[r]] # NoOutcome

\* And so does everything a done barrier has counted.
ResultsTell ==
    \A r, p \in Runners :
        pc[r] = "done" /\ results[r][p] # NoOutcome => results[r][p] = outcome[p][job[r]]

\* A runner has the rows of the jobs behind it, and only those.
RowsTold ==
    \A r \in Runners, j \in Active :
        summary[r][j] = IF j < job[r] THEN [p \in Runners |-> outcome[p][j]] ELSE NoRow

RowsOfSkipped ==
    \A r, p \in Runners, j \in Skip : summary[r][j][p] \in {Skipped, NoOutcome}

\* The exit status of a runner that has no job left is its summary's verdict.
StatusTold ==
    \A r \in Runners :
        job[r] = NumJobs + 1 /\ up[r] \in {"exit0", "exit1"}
            => (up[r] = "exit1" <=> AnyFailure(r))

Told ==
    /\ Telling(link, outcome)
    /\ Judged
    /\ ResultsTell
    /\ RowsTold
    /\ RowsOfSkipped
    /\ StatusTold

ReportInv == LockstepInv /\ Told

-----------------------------------------------------------------------------
(* Frames.                                                                 *)

\* A step that sends a truthful frame leaves the links truthful.
LEMMA StepTells ==
    ASSUME NEW l \in Links, NEW m \in Links, NEW r \in Runners, NEW f \in Frames,
           NEW n \in [Runners -> Nat], LinkStep(l, m, r, f, n),
           NEW o, Telling(l, o), Tells(f, o[r])
    PROVE  Telling(m, o)
<1> SUFFICES ASSUME NEW p \in Runners, NEW q \in Runners, NEW i \in 1..Len(m[p][q])
             PROVE  Tells(m[p][q][i], o[p])
  BY DEF Telling
<1>1. Origin(l, m, r, f, n, p, q, i)
  BY FrameOrigin
<1>2. CASE p = r /\ m[p][q][i] = f
  BY <1>2
<1>3. CASE \E k \in 1..Len(l[p][q]) : m[p][q][i] = l[p][q][k]
  BY <1>3 DEF Telling
<1>4. QED
  BY <1>1, <1>2, <1>3 DEF Origin

\* What the done barrier has counted after a poll is the outcome of its job.
LEMMA CountedTell ==
    ASSUME ReportInv, NEW r \in Runners, NEW n \in Arrivals(r), pc[r] = "done",
           NEW p \in Runners, Results(r, n)[p] # NoOutcome
    PROVE  Results(r, n)[p] = outcome[p][job[r]]
<1> DEFINE A == AcceptedAt(r, "Done", n, p)
<1>1. TypeOK /\ LockstepInv /\ Telling(link, outcome) /\ ResultsTell
  BY DEF ReportInv, LockstepInv, Told
<1>2. CASE A = {}
  BY <1>1, <1>2 DEF Results, ResultsTell
<1>3. CASE A # {}
  <2>1. LastIn(A) \in A
    <3>1. n[p] \in Nat /\ A \in SUBSET (1..n[p])
      BY <1>1, AcceptedRange
    <3> HIDE DEF A
    <3>2. QED
      BY <1>3, <3>1, LastInProperties
  <2>2. Results(r, n)[p] = link[p][r][LastIn(A)].status
    BY <1>3 DEF Results
  <2>3. LastIn(A) \in 1..Len(link[p][r]) /\ Accepts(r, "Done", link[p][r][LastIn(A)])
    BY <1>1, <2>1, AcceptedRange
  <2> DEFINE i == LastIn(A)
  <2> HIDE DEF i
  <2>4. link[p][r][i].job = job[r] /\ link[p][r][i].kind = "Done"
    <3>1. InBarrier(r) /\ KindAt(r) = "Done"
      BY DEF InBarrier, KindAt
    <3>2. QED
      BY <1>1, <2>3, <3>1, AcceptedIsCurrent DEF i, Accepts
  <2>5. QED
    BY <1>1, <2>2, <2>3, <2>4 DEF i, Telling, Tells
<1>4. QED
  BY <1>2, <1>3

LEMMA ReportInit == Init => Told
<1> SUFFICES ASSUME Init PROVE Told
  OBVIOUS
<1>1. Telling(link, outcome)
  BY DEF Init, Telling
<1>2. Judged /\ ResultsTell
  BY DEF Init, Judged, ResultsTell
<1>3. RowsTold
  <2>1. ASSUME NEW j \in Active PROVE ~(j < 1)
    BY JobsAssumption DEF Active, Jobs
  <2>2. QED
    BY <2>1 DEF Init, RowsTold, Active, Jobs
<1>4. RowsOfSkipped
  BY JobsAssumption DEF Init, RowsOfSkipped, NoRow
<1>5. StatusTold
  BY DEF Init, StatusTold
<1>6. QED
  BY <1>1, <1>2, <1>3, <1>4, <1>5 DEF Told

-----------------------------------------------------------------------------
(* Every action keeps the reports truthful.                                *)

\* The ready barrier touches neither outcomes nor rows.
LEMMA ReadyStepTold ==
    ASSUME ReportInv, NEW r \in Runners, NEW n \in [Runners -> Nat],
           NEW f \in Frames, f.kind = "Ready",
           LinkStep(link, link', r, f, n),
           \A q \in Runners : pc'[q] = "done" => pc[q] = "done",
           UNCHANGED <<job, up, results, outcome, summary>>
    PROVE  Told'
<1>1. Told /\ link \in Links /\ link' \in Links
  BY ControlType DEF ReportInv, LockstepInv, LinkStep
<1>2. Telling(link', outcome)
  BY <1>1, StepTells DEF Told, Tells
<1>3. Judged' /\ ResultsTell'
  BY <1>1 DEF Told, Judged, ResultsTell
<1>4. RowsTold' /\ RowsOfSkipped'
  BY <1>1 DEF Told, RowsTold, RowsOfSkipped
<1>5. StatusTold'
  BY <1>1 DEF Told, StatusTold, AnyFailure
<1>6. QED
  BY <1>2, <1>3, <1>4, <1>5 DEF Told

LEMMA EnterReadyTold ==
    ASSUME ReportInv, NEW r \in Runners, EnterReady(r)
    PROVE  Told'
<1>1. TypeOK /\ NoSelfLink
  BY DEF ReportInv, LockstepInv
<1>2. PICK failed \in WriteFailures(r) : link' = Sent(link, r, Ready(r), failed)
  BY DEF EnterReady
<1>3. job[r] \in Active
  BY DEF EnterReady
<1>4. Ready(r) \in Frames /\ Ready(r).kind = "Ready"
  BY <1>1, <1>3, SentFrames DEF Statuses, Ready
<1>5. LinkStep(link, link', r, Ready(r), NoArrivals) /\ NoArrivals \in [Runners -> Nat]
  BY <1>1, <1>2, <1>4, SendingIsLinkStep DEF NoArrivals
<1>6. \A q \in Runners : pc'[q] = "done" => pc[q] = "done"
  BY <1>1 DEF EnterReady, TypeOK
<1>7. UNCHANGED <<job, up, results, outcome, summary>>
  BY DEF EnterReady
<1>8. QED
  BY <1>4, <1>5, <1>6, <1>7, ReadyStepTold

LEMMA PollReadyTold ==
    ASSUME ReportInv, NEW r \in Runners, NEW n \in Arrivals(r), NEW again \in BOOLEAN,
           LeaveReady(r, n) \/ KeepWaitingReady(r, n, again)
    PROVE  Told'
<1>1. LockstepInv /\ TypeOK
  BY DEF ReportInv, LockstepInv
<1>2. pc[r] = "ready"
  BY DEF LeaveReady, KeepWaitingReady, Running
<1>3. Ready(r) \in Frames /\ Ready(r).kind = "Ready"
  BY <1>1, <1>2, SentFrames DEF Statuses, Ready, TypeOK
<1>4. PollLinks(r, n, Ready(r)) /\ UNCHANGED readers
  BY DEF LeaveReady, KeepWaitingReady, PollLinks
<1>5. LinkStep(link, link', r, Ready(r), n) /\ n \in [Runners -> Nat]
  BY <1>1, <1>3, <1>4, PollLinkStep
<1>6. \A q \in Runners : pc'[q] = "done" => pc[q] = "done"
  BY <1>1 DEF LeaveReady, KeepWaitingReady, TypeOK
<1>7. UNCHANGED <<job, up, results, outcome, summary>>
  BY DEF LeaveReady, KeepWaitingReady
<1>8. QED
  BY <1>3, <1>5, <1>6, <1>7, ReadyStepTold

\* Nobody has heard the outcome of a child that is still running.
LEMMA SpawnIsUnknown ==
    ASSUME LockstepInv, NEW r \in Runners, pc[r] = "spawn"
    PROVE  /\ \A q \in Runners : job[q] <= job[r]
           /\ \A q \in Runners :
                pc[q] = "done" /\ job[q] = job[r] => results[q][r] = NoOutcome
           /\ \A q \in Runners : \A i \in 1..Len(link[r][q]) :
                link[r][q][i].kind = "Done" => link[r][q][i].job # job[r]
<1>1. TypeOK /\ Ordered(link, reach, past, heard)
  BY DEF LockstepInv
<1>2. /\ reach[r] = 2 * job[r] /\ job[r] \in Active
      /\ \A q \in Runners : job[q] \in Int
  <2>1. job \in [Runners -> 1..(NumJobs + 1)] /\ job[r] \in Active
    BY <1>1 DEF TypeOK
  <2>2. QED
    BY <1>1, <2>1, ControlType, JobsAssumption
<1>3. ASSUME NEW q \in Runners PROVE job[q] <= job[r]
  <2>1. SUFFICES ASSUME job[q] > job[r] PROVE FALSE
    BY <1>2
  <2>2. Left(q, job[r], "Done")
    BY <2>1 DEF Left
  <2>3. Pos(job[r], "Done") <= past[q] /\ Pos(job[r], "Done") \in Places
    BY <1>1, <1>2, <2>2, BarrierPlaces DEF Kinds
  <2>4. Pos(job[r], "Done") <= reach[r]
    BY <1>1, <2>3 DEF Ordered, LeftTogether
  <2>5. QED
    BY <1>2, <2>4 DEF Pos
<1>4. ASSUME NEW q \in Runners, pc[q] = "done", job[q] = job[r]
      PROVE  results[q][r] = NoOutcome
  <2>1. SUFFICES ASSUME results[q][r] # NoOutcome PROVE FALSE
    OBVIOUS
  <2>2. r \in heard[q] /\ reach[q] = 2 * job[r] + 1
    BY <1>1, <1>4, <2>1, ControlType
  <2>3. reach[q] <= reach[r]
    BY <1>1, <2>2 DEF Ordered, HeardAreIn
  <2>4. QED
    BY <1>2, <2>2, <2>3
<1>5. ASSUME NEW q \in Runners, NEW i \in 1..Len(link[r][q]), link[r][q][i].kind = "Done"
      PROVE  link[r][q][i].job # job[r]
  <2>1. PosOf(link[r][q][i]) <= reach[r]
    BY <1>1 DEF Ordered, Within
  <2>2. QED
    BY <1>2, <1>5, <2>1 DEF PosOf, Pos
<1>6. QED
  BY <1>3, <1>4, <1>5

LEMMA EnterDoneTold ==
    ASSUME ReportInv, NEW r \in Runners, EnterDone(r)
    PROVE  Told'
<1>1. LockstepInv /\ TypeOK /\ NoSelfLink /\ Told /\ link \in Links
  BY ControlType DEF ReportInv, LockstepInv
<1>2. PICK s \in Outcomes, failed \in WriteFailures(r) :
        /\ outcome' = [outcome EXCEPT ![r][job[r]] = s]
        /\ results' = [results EXCEPT ![r] = [NoRow EXCEPT ![r] = s]]
        /\ link' = Sent(link, r, Done(r, s), failed)
  BY DEF EnterDone
<1>3. pc[r] = "spawn" /\ job[r] \in Active /\ job[r] \in Jobs
  <2>1. pc[r] = "spawn"
    BY DEF EnterDone, Running
  <2>2. QED
    BY <1>1, <2>1, ActiveType DEF TypeOK
<1>4. s \in Statuses /\ s # NoOutcome
  BY OutcomeAssumption DEF Statuses
<1>5. Done(r, s) \in Frames
  BY <1>1, <1>3, <1>4, SentFrames
<1>6. LinkStep(link, link', r, Done(r, s), NoArrivals) /\ NoArrivals \in [Runners -> Nat]
  BY <1>1, <1>2, <1>5, SendingIsLinkStep DEF NoArrivals
<1>7. link' \in Links
  BY <1>6 DEF LinkStep
<1>8. /\ outcome'[r][job[r]] = s
      /\ \A j \in Jobs : j # job[r] => outcome'[r][j] = outcome[r][j]
      /\ \A q \in Runners \ {r} : outcome'[q] = outcome[q]
  BY <1>1, <1>2, <1>3 DEF TypeOK
<1>9. /\ pc'[r] = "done" /\ \A q \in Runners \ {r} : pc'[q] = pc[q]
      /\ results'[r] = [NoRow EXCEPT ![r] = s]
      /\ \A q \in Runners \ {r} : results'[q] = results[q]
      /\ UNCHANGED <<job, up, summary>>
  BY <1>1, <1>2 DEF EnterDone, TypeOK
<1>10. Telling(link', outcome')
  <2>1. Telling(link, outcome')
    <3> SUFFICES ASSUME NEW p \in Runners, NEW q \in Runners,
                        NEW i \in 1..Len(link[p][q]), link[p][q][i].kind = "Done"
                 PROVE  /\ link[p][q][i].status = outcome'[p][link[p][q][i].job]
                        /\ link[p][q][i].status # NoOutcome
      BY DEF Telling, Tells
    <3>1. /\ link[p][q][i].status = outcome[p][link[p][q][i].job]
          /\ link[p][q][i].status # NoOutcome
      BY <1>1 DEF Told, Telling, Tells
    <3>2. link[p][q][i].job \in Jobs
      <4>1. link[p][q][i] \in Frames
        BY <1>1, LinkType
      <4>2. QED
        BY <4>1, ActiveType DEF Frames
    <3>3. CASE p = r
      <4>1. link[p][q][i].job # job[r]
        BY <1>1, <1>3, <3>3, SpawnIsUnknown
      <4>2. QED
        BY <1>8, <3>1, <3>2, <3>3, <4>1
    <3>4. CASE p # r
      BY <1>8, <3>1, <3>4
    <3>5. QED
      BY <3>3, <3>4
  <2>2. Tells(Done(r, s), outcome'[r])
    BY <1>4, <1>8 DEF Tells, Done
  <2>3. QED
    BY <1>1, <1>5, <1>6, <1>7, <2>1, <2>2, StepTells
<1>11. ResultsTell'
  <2> SUFFICES ASSUME NEW q \in Runners, NEW p \in Runners,
                      pc'[q] = "done", results'[q][p] # NoOutcome
               PROVE  results'[q][p] = outcome'[p][job[q]]
    BY <1>9 DEF ResultsTell
  <2>1. CASE q = r
    <3>1. p = r /\ results'[r][r] = s
      BY <1>9, <2>1 DEF NoRow
    <3>2. QED
      BY <1>8, <2>1, <3>1
  <2>2. CASE q # r
    <3>1. pc[q] = "done" /\ results'[q][p] = results[q][p] /\ results[q][p] # NoOutcome
      BY <1>9, <2>2
    <3>2. results[q][p] = outcome[p][job[q]]
      BY <1>1, <3>1 DEF Told, ResultsTell
    <3>3. CASE p # r
      BY <1>8, <3>1, <3>2, <3>3
    <3>4. CASE p = r
      <4>1. job[q] # job[r]
        BY <1>1, <1>3, <3>1, <3>4, SpawnIsUnknown
      <4>2. job[q] \in Jobs
        BY <1>1, <3>1, ActiveType DEF TypeOK
      <4>3. QED
        BY <1>8, <3>1, <3>2, <3>4, <4>1, <4>2
    <3>5. QED
      BY <3>3, <3>4
  <2>3. QED
    BY <2>1, <2>2
<1>12. RowsTold'
  <2> SUFFICES ASSUME NEW q \in Runners, NEW j \in Active
               PROVE  summary[q][j] =
                        IF j < job[q] THEN [p \in Runners |-> outcome'[p][j]] ELSE NoRow
    BY <1>9 DEF RowsTold
  <2>1. summary[q][j] = IF j < job[q] THEN [p \in Runners |-> outcome[p][j]] ELSE NoRow
    BY <1>1 DEF Told, RowsTold
  <2>2. ASSUME j < job[q] PROVE \A p \in Runners : outcome'[p][j] = outcome[p][j]
    <3>1. j \in Jobs /\ j \in Int
      BY ActiveType
    <3>2. job[q] <= job[r] /\ job[q] \in Int /\ job[r] \in Int
      <4>1. job \in [Runners -> 1..(NumJobs + 1)]
        BY <1>1 DEF TypeOK
      <4>2. QED
        BY <1>1, <1>3, <4>1, SpawnIsUnknown, JobsAssumption
    <3>3. j # job[r]
      BY <2>2, <3>1, <3>2
    <3>4. QED
      BY <1>8, <3>1, <3>3
  <2>3. QED
    BY <2>1, <2>2
<1>13. RowsOfSkipped' /\ StatusTold'
  BY <1>1, <1>9 DEF Told, RowsOfSkipped, StatusTold, AnyFailure
<1>14. Judged'
  BY <1>1, <1>4, <1>8, <1>9 DEF Told, Judged
<1>15. QED
  BY <1>10, <1>11, <1>12, <1>13, <1>14 DEF Told

\* A poll of the done barrier, whether it returns or not.
LEMMA PollDoneTells ==
    ASSUME ReportInv, NEW r \in Runners, NEW n \in Arrivals(r), NEW again \in BOOLEAN,
           LeaveDone(r, n) \/ KeepWaitingDone(r, n, again)
    PROVE  /\ pc[r] = "done" /\ job[r] \in Active
           /\ Telling(link', outcome')
<1> DEFINE f == Done(r, outcome[r][job[r]])
<1>1. LockstepInv /\ TypeOK /\ Told
  BY DEF ReportInv, LockstepInv
<1>2. pc[r] = "done"
  BY DEF LeaveDone, KeepWaitingDone, Running
<1>3. f \in Frames /\ Tells(f, outcome[r]) /\ job[r] \in Active
  BY <1>1, <1>2, OwnDone DEF Tells, Done, Told, Judged
<1>4. PollLinks(r, n, f) /\ UNCHANGED <<readers, outcome>>
  BY DEF LeaveDone, KeepWaitingDone, PollLinks
<1> HIDE DEF f
<1>5. /\ LinkStep(link, link', r, f, n) /\ n \in [Runners -> Nat]
      /\ link \in Links /\ link' \in Links
  BY <1>1, <1>3, <1>4, PollLinkStep
<1>6. Telling(link', outcome)
  BY <1>1, <1>3, <1>5, StepTells DEF Told
<1>7. QED
  BY <1>2, <1>3, <1>4, <1>6

LEMMA KeepWaitingDoneTold ==
    ASSUME ReportInv, NEW r \in Runners, NEW n \in Arrivals(r), NEW again \in BOOLEAN,
           KeepWaitingDone(r, n, again)
    PROVE  Told'
<1>1. TypeOK /\ Told
  BY DEF ReportInv, LockstepInv
<1>2. pc[r] = "done" /\ Telling(link', outcome')
  BY PollDoneTells
<1>3. /\ results'[r] = Results(r, n)
      /\ \A q \in Runners \ {r} : results'[q] = results[q]
      /\ UNCHANGED <<job, pc, up, outcome, summary>>
  BY <1>1 DEF KeepWaitingDone, TypeOK
<1>4. Judged' /\ ResultsTell'
  BY <1>1, <1>2, <1>3, CountedTell DEF Told, Judged, ResultsTell
<1>5. RowsTold' /\ RowsOfSkipped' /\ StatusTold'
  BY <1>1, <1>3 DEF Told, RowsTold, RowsOfSkipped, StatusTold, AnyFailure
<1>6. QED
  BY <1>2, <1>4, <1>5 DEF Told

LEMMA LeaveDoneTold ==
    ASSUME ReportInv, NEW r \in Runners, NEW n \in Arrivals(r), LeaveDone(r, n)
    PROVE  Told'
<1>1. TypeOK /\ Told
  BY DEF ReportInv, LockstepInv
<1>2. pc[r] = "done" /\ job[r] \in Active /\ Telling(link', outcome')
  BY PollDoneTells
<1>3. job[r] \in Jobs /\ job[r] \in Int
  BY <1>2, ActiveType
<1>4. /\ pc'[r] = "next" /\ \A q \in Runners \ {r} : pc'[q] = pc[q]
      /\ job'[r] = job[r] + 1 /\ \A q \in Runners \ {r} : job'[q] = job[q]
      /\ \A q \in Runners \ {r} : results'[q] = results[q]
      /\ UNCHANGED <<up, outcome>> /\ up[r] = "running"
  BY <1>1 DEF LeaveDone, Running, TypeOK
<1>5. /\ summary'[r][job[r]] = Results(r, n)
      /\ \A j \in Jobs : j # job[r] => summary'[r][j] = summary[r][j]
      /\ \A q \in Runners \ {r} : summary'[q] = summary[q]
  BY <1>1, <1>3 DEF LeaveDone, TypeOK
<1>6. Results(r, n) = [p \in Runners |-> outcome[p][job[r]]]
  <2>1. \A p \in Runners : Results(r, n)[p] = outcome[p][job[r]]
    BY <1>2, CountedTell DEF LeaveDone, DoneQuorum
  <2>2. Results(r, n) = [p \in Runners |-> Results(r, n)[p]]
    BY DEF Results
  <2> HIDE DEF Results
  <2>3. QED
    BY <2>1, <2>2
<1>7. Judged' /\ ResultsTell'
  BY <1>1, <1>4 DEF Told, Judged, ResultsTell
<1>8. RowsTold'
  <2> SUFFICES ASSUME NEW q \in Runners, NEW j \in Active
               PROVE  summary'[q][j] =
                        IF j < job'[q] THEN [p \in Runners |-> outcome[p][j]] ELSE NoRow
    BY <1>4 DEF RowsTold
  <2>1. summary[q][j] = IF j < job[q] THEN [p \in Runners |-> outcome[p][j]] ELSE NoRow
    BY <1>1 DEF Told, RowsTold
  <2>2. j \in Jobs /\ j \in Int
    BY ActiveType
  <2>3. CASE q # r
    BY <1>4, <1>5, <2>1, <2>3
  <2>4. CASE q = r /\ j = job[r]
    <3>1. j < job'[q] /\ summary'[q][j] = Results(r, n)
      BY <1>3, <1>4, <1>5, <2>4
    <3>2. QED
      BY <1>6, <2>4, <3>1
  <2>5. CASE q = r /\ j # job[r]
    <3>1. j < job'[q] <=> j < job[q]
      BY <1>3, <1>4, <2>2, <2>5
    <3>2. summary'[q][j] = summary[q][j]
      BY <1>5, <2>2, <2>5
    <3>3. QED
      BY <2>1, <3>1, <3>2
  <2>6. QED
    BY <2>3, <2>4, <2>5
<1>9. RowsOfSkipped'
  <2>1. \A j \in Skip : j \in Jobs /\ j # job[r]
    BY <1>2, JobsAssumption DEF Active
  <2>2. \A q \in Runners, j \in Skip : summary'[q][j] = summary[q][j]
    BY <1>5, <2>1
  <2>3. QED
    BY <1>1, <2>2 DEF Told, RowsOfSkipped
<1>10. StatusTold'
  <2> SUFFICES ASSUME NEW q \in Runners, job'[q] = NumJobs + 1, up[q] \in {"exit0", "exit1"}
               PROVE  up[q] = "exit1" <=> AnyFailure(q)'
    BY <1>4 DEF StatusTold
  <2>1. q # r
    BY <1>4
  <2>2. summary'[q] = summary[q] /\ job[q] = NumJobs + 1
    BY <1>4, <1>5, <2>1
  <2>3. QED
    BY <1>1, <2>2 DEF Told, StatusTold, AnyFailure
<1>11. QED
  BY <1>2, <1>7, <1>8, <1>9, <1>10 DEF Told

LEMMA SkipJobTold ==
    ASSUME ReportInv, NEW r \in Runners, SkipJob(r)
    PROVE  Told'
<1>1. TypeOK /\ Told
  BY DEF ReportInv, LockstepInv
<1>2. pc[r] = "next" /\ job[r] \in Skip /\ job[r] \in Jobs /\ up[r] = "running"
  BY JobsAssumption DEF SkipJob, Running
<1>3. /\ UNCHANGED <<pc, up, results, outcome, link>>
      /\ job'[r] = job[r] + 1 /\ \A q \in Runners \ {r} : job'[q] = job[q]
      /\ job[r] \in Int
  BY <1>1, <1>2, JobsAssumption DEF SkipJob, TypeOK, Jobs
<1>4. /\ summary'[r][job[r]] = [p \in Runners |-> IF p = r THEN Skipped ELSE NoOutcome]
      /\ \A j \in Jobs : j # job[r] => summary'[r][j] = summary[r][j]
      /\ \A q \in Runners \ {r} : summary'[q] = summary[q]
  BY <1>1, <1>2 DEF SkipJob, TypeOK
<1>5. Telling(link', outcome') /\ Judged' /\ ResultsTell'
  BY <1>1, <1>2, <1>3 DEF Told, Judged, ResultsTell
<1>6. RowsTold'
  <2> SUFFICES ASSUME NEW q \in Runners, NEW j \in Active
               PROVE  summary'[q][j] =
                        IF j < job'[q] THEN [p \in Runners |-> outcome[p][j]] ELSE NoRow
    BY <1>3 DEF RowsTold
  <2>1. summary[q][j] = IF j < job[q] THEN [p \in Runners |-> outcome[p][j]] ELSE NoRow
    BY <1>1 DEF Told, RowsTold
  <2>2. j \in Jobs /\ j \in Int /\ j # job[r]
    BY <1>2, ActiveType DEF Active
  <2>3. summary'[q][j] = summary[q][j]
    BY <1>4, <2>2
  <2>4. j < job'[q] <=> j < job[q]
    BY <1>3, <2>2
  <2>5. QED
    BY <2>1, <2>3, <2>4
<1>7. RowsOfSkipped'
  <2> SUFFICES ASSUME NEW q \in Runners, NEW p \in Runners, NEW j \in Skip
               PROVE  summary'[q][j][p] \in {Skipped, NoOutcome}
    BY DEF RowsOfSkipped
  <2>1. j \in Jobs /\ summary[q][j][p] \in {Skipped, NoOutcome}
    BY <1>1, JobsAssumption DEF Told, RowsOfSkipped
  <2>2. QED
    BY <1>4, <2>1
<1>8. StatusTold'
  <2> SUFFICES ASSUME NEW q \in Runners, job'[q] = NumJobs + 1, up[q] \in {"exit0", "exit1"}
               PROVE  up[q] = "exit1" <=> AnyFailure(q)'
    BY <1>3 DEF StatusTold
  <2>1. q # r
    BY <1>2
  <2>2. summary'[q] = summary[q] /\ job[q] = NumJobs + 1
    BY <1>3, <1>4, <2>1
  <2>3. QED
    BY <1>1, <2>2 DEF Told, StatusTold, AnyFailure
<1>9. QED
  BY <1>5, <1>6, <1>7, <1>8 DEF Told

\* A process that ends keeps its rows; only Finish ends one that has no job
\* left with a verdict.
LEMMA EndTold ==
    ASSUME ReportInv, NEW r \in Runners,
           \A q \in Runners \ {r} : up'[q] = up[q],
           job[r] = NumJobs + 1 /\ up'[r] \in {"exit0", "exit1"}
               => (up'[r] = "exit1" <=> AnyFailure(r)),
           UNCHANGED <<job, pc, seen, results, outcome, summary, link, writers, readers>>
    PROVE  Told'
<1>1. Told
  BY DEF ReportInv
<1>2. Telling(link', outcome') /\ Judged' /\ ResultsTell' /\ RowsTold' /\ RowsOfSkipped'
  BY <1>1 DEF Told, Judged, ResultsTell, RowsTold, RowsOfSkipped
<1>3. \A q \in Runners : AnyFailure(q)' <=> AnyFailure(q)
  BY DEF AnyFailure
<1>4. StatusTold'
  BY <1>1, <1>3 DEF Told, StatusTold
<1>5. QED
  BY <1>2, <1>4 DEF Told

LEMMA ConnectionBreaksTold ==
    ASSUME ReportInv, NEW p \in Runners, NEW r \in Runners, ConnectionBreaks(p, r)
    PROVE  Told'
<1>1. TypeOK /\ Told /\ link \in Links
  BY ControlType DEF ReportInv, LockstepInv
<1>2. PICK k \in 0..Len(link[p][r]) :
        link' = [link EXCEPT ![p][r] = SubSeq(link[p][r], 1, k)]
  BY DEF ConnectionBreaks
<1>3. /\ Len(SubSeq(link[p][r], 1, k)) = k
      /\ \A i \in 1..k : SubSeq(link[p][r], 1, k)[i] = link[p][r][i]
      /\ k \in Nat /\ k <= Len(link[p][r]) /\ Len(link[p][r]) \in Nat
  BY <1>1, LinkType, Prefix
<1>4. ASSUME NEW a \in Runners, NEW b \in Runners, NEW i \in 1..Len(link'[a][b])
      PROVE  Tells(link'[a][b][i], outcome[a])
  <2>1. CASE a = p /\ b = r
    <3>1. link'[a][b] = SubSeq(link[p][r], 1, k)
      BY <1>1, <1>2, <2>1 DEF Links
    <3>2. i \in 1..Len(link[p][r]) /\ link'[a][b][i] = link[p][r][i]
      BY <1>3, <3>1
    <3>3. QED
      BY <1>1, <2>1, <3>2 DEF Told, Telling
  <2>2. CASE ~(a = p /\ b = r)
    <3>1. link'[a][b] = link[a][b]
      BY <1>1, <1>2, <2>2 DEF Links
    <3>2. QED
      BY <1>1, <3>1 DEF Told, Telling
  <2>3. QED
    BY <2>1, <2>2
<1>5. UNCHANGED <<job, pc, up, results, outcome, summary>>
  BY DEF ConnectionBreaks
<1>6. Telling(link', outcome')
  BY <1>4, <1>5 DEF Telling
<1>7. Judged' /\ ResultsTell' /\ RowsTold' /\ RowsOfSkipped' /\ StatusTold'
  BY <1>1, <1>5 DEF Told, Judged, ResultsTell, RowsTold, RowsOfSkipped, StatusTold, AnyFailure
<1>8. QED
  BY <1>6, <1>7 DEF Told

-----------------------------------------------------------------------------
(* Nobody is left behind in a barrier.                                     *)

\* p still has both ends of the connection that carries r's frames to it.
Connected(r, p) == up[p] = "running" /\ p \in writers[r] /\ r \in readers[p]

\* r is known in p's barrier, or will be when p reads what is on the link.
Reaches(r, p) ==
    \/ r \in heard[p]
    \/ \E i \in 1..Len(link[r][p]) : PosOf(link[r][p][i]) = reach[p]

Gathered ==
    \A r, p \in Runners :
        p # r /\ Connected(r, p) /\ InBarrier(p) /\ reach[p] <= past[r] => Reaches(r, p)

\* A frame of the receiver's own barrier is one that barrier accepts.
LEMMA CurrentIsAccepted ==
    ASSUME TypeOK, NEW r \in Runners, NEW p \in Runners, InBarrier(p),
           NEW i \in 1..Len(link[r][p])
    PROVE  PosOf(link[r][p][i]) = reach[p] => Accepts(p, KindAt(p), link[r][p][i])
<1> DEFINE f == link[r][p][i]
<1>1. f \in Frames
  BY LinkType
<1>2. f.job \in Active /\ f.kind \in Kinds /\ f.job \in Int
  BY <1>1, FrameType, ActiveType
<1>3. reach[p] = Pos(job[p], KindAt(p)) /\ KindAt(p) \in Kinds /\ job[p] \in Int
  BY ControlType, ActiveType
<1> HIDE DEF f
<1>4. f.kind \in {"Ready", "Done"} /\ KindAt(p) \in {"Ready", "Done"}
  BY <1>2, <1>3 DEF Kinds
<1>5. PosOf(f) = reach[p] => f.job = job[p] /\ f.kind = KindAt(p)
  BY <1>2, <1>3, <1>4 DEF PosOf, Pos
<1>6. QED
  BY <1>5 DEF f, Accepts

\* A poll counts every frame of its barrier that it takes from a link.
LEMMA TakenIsCounted ==
    ASSUME ReportInv, NEW p \in Runners, NEW n \in Arrivals(p), NEW r \in Runners,
           NEW i \in 1..n[r], PosOf(link[r][p][i]) = reach[p]
    PROVE  /\ pc[p] = "ready" => r \in Seen(p, n)
           /\ pc[p] = "done" => r \in CountedDone(p, n)
<1>1. TypeOK /\ LockstepInv /\ Telling(link, outcome)
  BY DEF ReportInv, LockstepInv, Told
<1>2. i \in 1..Len(link[r][p])
  BY <1>1, ArrivalsType, LinkType
<1>3. CASE pc[p] = "ready"
  <2>1. Accepts(p, "Ready", link[r][p][i])
    BY <1>1, <1>2, <1>3, CurrentIsAccepted DEF InBarrier, KindAt
  <2>2. QED
    BY <1>3, <2>1 DEF Seen, AcceptedAt
<1>4. CASE pc[p] = "done"
  <2> DEFINE A == AcceptedAt(p, "Done", n, r)
  <2>1. i \in A
    BY <1>1, <1>2, <1>4, CurrentIsAccepted DEF InBarrier, KindAt, AcceptedAt
  <2>2. n[r] \in Nat /\ A \in SUBSET (1..n[r])
        /\ \A k \in A : k \in 1..Len(link[r][p]) /\ link[r][p][k].kind = "Done"
    BY <1>1, AcceptedRange DEF Accepts
  <2>3. Results(p, n)[r] = link[r][p][LastIn(A)].status
    BY <2>1 DEF Results
  <2> HIDE DEF A
  <2>4. LastIn(A) \in A
    BY <2>1, <2>2, LastInProperties
  <2>5. link[r][p][LastIn(A)].status # NoOutcome
    BY <1>1, <2>2, <2>4 DEF Telling, Tells
  <2>6. QED
    BY <1>4, <2>3, <2>5 DEF CountedDone
<1>5. QED
  BY <1>3, <1>4

\* A step of a: what it does to the links, to a's own place, and to nobody
\* else's.  "heard" of a may only grow while it stays in its barrier.
LEMMA StepGathers ==
    ASSUME ReportInv, Gathered, NEW a \in Runners, NEW n \in [Runners -> Nat],
           NEW f \in Frames, LinkStep(link, link', a, f, n), LockstepInv',
           \A q \in Runners \ {a} : /\ reach'[q] = reach[q] /\ past'[q] = past[q]
                                    /\ heard'[q] = heard[q] /\ pc'[q] = pc[q],
           \A q \in Runners : writers'[q] \subseteq writers[q],
           readers' = readers, up' = up,
           \* a has returned from no barrier, or told everyone still connected
           \A p \in Runners \ {a} :
                Connected(a, p)' /\ InBarrier(p) /\ reach[p] <= past'[a]
                    => reach[p] <= past[a] \/ Reaches(a, p)',
           \* a is in no barrier, or has just entered one, or counts what it takes
           InBarrier(a)' =>
                \/ reach'[a] \in Places /\ reach[a] < reach'[a]
                \/ /\ InBarrier(a) /\ reach'[a] = reach[a] /\ heard[a] \subseteq heard'[a]
                   /\ \A r \in Runners : \A i \in 1..n[r] :
                        i \in 1..Len(link[r][a]) /\ PosOf(link[r][a][i]) = reach[a] => r \in heard'[a]
    PROVE  Gathered'
<1>1. TypeOK /\ link \in Links /\ link' \in Links /\ Ordered(link, reach, past, heard)
  BY ControlType DEF ReportInv, LockstepInv, LinkStep
<1>2. /\ reach \in [Runners -> Int] /\ past \in [Runners -> Int]
      /\ reach' \in [Runners -> Int] /\ past' \in [Runners -> Int]
  <2>1. TypeOK'
    BY DEF LockstepInv
  <2>2. \A r \in Runners : job[r] \in Int /\ job'[r] \in Int
    <3>1. job \in [Runners -> 1..(NumJobs + 1)] /\ job' \in [Runners -> 1..(NumJobs + 1)]
      BY <1>1, <2>1 DEF TypeOK
    <3>2. QED
      BY <3>1, JobsAssumption
  <2>3. QED
    BY <2>2 DEF reach, past
<1> SUFFICES ASSUME NEW r \in Runners, NEW p \in Runners, p # r, Connected(r, p)',
                    InBarrier(p)', reach'[p] <= past'[r]
             PROVE  Reaches(r, p)'
  BY DEF Gathered
<1>3. Connected(r, p)
  BY DEF Connected
<1>4. Len(link[r][p]) \in Nat /\ Len(link'[r][p]) \in Nat
  BY <1>1, LinksType
<1>5. CASE a # p
  <2>1. InBarrier(p) /\ reach'[p] = reach[p] /\ heard'[p] = heard[p]
    BY <1>5 DEF InBarrier
  <2>2. ASSUME Reaches(r, p) PROVE Reaches(r, p)'
    <3>1. \A i \in 1..Len(link[r][p]) :
            i \in 1..Len(link'[r][p]) /\ link'[r][p][i] = link[r][p][i]
      <4>1. CASE r = a
        BY <1>4, <1>5, <4>1 DEF LinkStep
      <4>2. CASE r # a
        BY <1>4, <1>5, <4>2 DEF LinkStep
      <4>3. QED
        BY <4>1, <4>2
    <3>2. QED
      BY <2>1, <2>2, <3>1 DEF Reaches
  <2>3. CASE r # a
    BY <1>3, <1>5, <2>1, <2>2, <2>3 DEF Gathered
  <2>4. CASE r = a
    BY <1>3, <1>5, <2>1, <2>2, <2>4 DEF Gathered
  <2>5. QED
    BY <2>3, <2>4
<1>6. CASE a = p
  <2>1. past'[r] = past[r]
    BY <1>6
  <2>2. CASE reach'[a] \in Places /\ reach[a] < reach'[a]
    <3>1. reach'[a] <= past[r]
      BY <1>6, <2>1
    <3>2. reach'[a] <= reach[a]
      BY <1>1, <2>2, <3>1 DEF Ordered, LeftTogether
    <3>3. QED
      BY <1>2, <2>2, <3>2
  <2>3. CASE /\ InBarrier(a) /\ reach'[a] = reach[a] /\ heard[a] \subseteq heard'[a]
             /\ \A q \in Runners : \A i \in 1..n[q] :
                  i \in 1..Len(link[q][a]) /\ PosOf(link[q][a][i]) = reach[a] => q \in heard'[a]
    <3>1. Reaches(r, a)
      BY <1>3, <1>6, <2>1, <2>3 DEF Gathered
    <3>2. CASE r \in heard[a]
      BY <1>6, <2>3, <3>2 DEF Reaches
    <3>3. ASSUME NEW i \in 1..Len(link[r][a]), PosOf(link[r][a][i]) = reach[a]
          PROVE  Reaches(r, a)'
      <4>1. n[r] \in Nat
        OBVIOUS
      <4>2. CASE i <= n[r]
        <5>1. i \in 1..n[r]
          BY <4>1, <4>2
        <5>2. QED
          BY <2>3, <3>3, <5>1 DEF Reaches
      <4>3. CASE i > n[r]
        <5>1. /\ Len(link'[r][a]) = Len(link[r][a]) - n[r]
              /\ \A k \in 1..Len(link'[r][a]) : link'[r][a][k] = link[r][a][k + n[r]]
          BY DEF LinkStep
        <5> DEFINE k == i - n[r]
        <5>2. k \in 1..Len(link'[r][a]) /\ k + n[r] = i
          BY <1>4, <1>6, <4>1, <4>3, <5>1
        <5>3. link'[r][a][k] = link[r][a][i]
          BY <5>1, <5>2
        <5>4. QED
          BY <2>3, <3>3, <5>2, <5>3 DEF Reaches
      <4>4. QED
        BY <1>4, <1>6, <4>1, <4>2, <4>3
    <3>4. QED
      BY <1>6, <3>1, <3>2, <3>3 DEF Reaches
  <2>4. QED
    BY <1>6, <2>2, <2>3
<1>7. QED
  BY <1>5, <1>6

\* A broadcast reaches everyone who is still connected after it.
LEMMA BroadcastArrives ==
    ASSUME NEW l \in Links, NEW a \in Runners, NEW f, NEW failed, NEW p \in Runners,
           writers \in [Runners -> SUBSET Runners],
           link' = Sent(l, a, f, failed), DropWriters(a, failed),
           UNCHANGED <<up, readers>>, Connected(a, p)'
    PROVE  \E i \in 1..Len(link'[a][p]) : link'[a][p][i] = f
<1>1. p \in writers[a] \ failed /\ a \in readers[p] /\ up[p] = "running"
  BY DEF DropWriters, Connected
<1>2. link'[a][p] = Append(l[a][p], f)
  BY <1>1 DEF Sent, Links
<1>3. l[a][p] \in Seq(Frames)
  BY DEF Links
<1>4. Len(link'[a][p]) = Len(l[a][p]) + 1 /\ link'[a][p][Len(l[a][p]) + 1] = f
      /\ Len(l[a][p]) \in Nat
  BY <1>2, <1>3, AppendProperties, LenProperties
<1>5. QED
  BY <1>4

\* Returning from a barrier with the final broadcast.
LEMMA LeaveGathers ==
    ASSUME ReportInv, Gathered, LockstepInv', NEW r \in Runners, NEW n \in Arrivals(r),
           NEW f \in Frames, PosOf(f) = reach[r], past[r] = reach[r] - 1,
           NEW failed, link' = Sent(Drained(r, n), r, f, failed), DropWriters(r, failed),
           reach' = reach, past' = [past EXCEPT ![r] = reach[r]],
           heard' = [heard EXCEPT ![r] = {}],
           \A q \in Runners \ {r} : pc'[q] = pc[q], ~InBarrier(r)',
           UNCHANGED <<up, readers>>
    PROVE  Gathered'
<1>1. LockstepInv /\ TypeOK /\ NoSelfLink
  BY DEF ReportInv, LockstepInv
<1>2. /\ reach \in [Runners -> Int] /\ past \in [Runners -> Int]
      /\ heard \in [Runners -> SUBSET Runners]
      /\ writers \in [Runners -> SUBSET Runners]
  BY <1>1, ControlType DEF TypeOK
<1>3. LinkStep(link, link', r, f, n) /\ n \in [Runners -> Nat]
  BY <1>1, PollingIsLinkStep, ArrivalsType
<1>4. ASSUME NEW p \in Runners \ {r}, Connected(r, p)', reach[p] <= past'[r]
      PROVE  reach[p] <= past[r] \/ Reaches(r, p)'
  <2>1. reach[p] <= reach[r]
    BY <1>2, <1>4
  <2>2. CASE reach[p] = reach[r]
    <3> DEFINE D == Drained(r, n)
    <3>1. D \in Links /\ link' = Sent(D, r, f, failed) /\ p \in Runners
      BY <1>1, DrainedLinks DEF Links
    <3> HIDE DEF D
    <3>2. \E i \in 1..Len(link'[r][p]) : link'[r][p][i] = f
      BY <1>2, <1>4, <3>1, BroadcastArrives
    <3>3. QED
      BY <2>2, <3>2 DEF Reaches
  <2>3. CASE reach[p] # reach[r]
    BY <1>2, <2>1, <2>3
  <2>4. QED
    BY <2>2, <2>3
<1>5. /\ \A q \in Runners \ {r} : /\ reach'[q] = reach[q] /\ past'[q] = past[q]
                                  /\ heard'[q] = heard[q] /\ pc'[q] = pc[q]
      /\ \A q \in Runners : writers'[q] \subseteq writers[q]
  BY <1>2 DEF DropWriters
<1>6. QED
  BY <1>3, <1>4, <1>5, StepGathers

\* Waiting on in a barrier.
LEMMA WaitGathers ==
    ASSUME ReportInv, Gathered, LockstepInv', NEW r \in Runners, NEW n \in Arrivals(r),
           NEW f \in Frames, PollLinks(r, n, f), InBarrier(r),
           reach' = reach, past' = past, pc' = pc,
           NEW counted \in SUBSET Runners, heard' = [heard EXCEPT ![r] = counted],
           heard[r] \subseteq counted,
           \A q \in Runners : \A i \in 1..n[q] : PosOf(link[q][r][i]) = reach[r] => q \in counted,
           UNCHANGED <<up, readers>>
    PROVE  Gathered'
<1>1. LockstepInv /\ TypeOK /\ heard \in [Runners -> SUBSET Runners]
  BY ControlType DEF ReportInv, LockstepInv
<1>2. LinkStep(link, link', r, f, n) /\ n \in [Runners -> Nat]
  BY <1>1, PollLinkStep
<1>3. \A q \in Runners : writers'[q] \subseteq writers[q]
  <2>1. writers \in [Runners -> SUBSET Runners]
    BY <1>1 DEF TypeOK
  <2>2. UNCHANGED writers \/ \E failed : DropWriters(r, failed)
    BY DEF PollLinks
  <2>3. QED
    BY <2>1, <2>2 DEF DropWriters
<1>4. heard'[r] = counted /\ \A q \in Runners \ {r} : heard'[q] = heard[q]
  BY <1>1
<1>5. QED
  BY <1>2, <1>3, <1>4, StepGathers

\* Entering a barrier: nobody has left it.
LEMMA EnterGathers ==
    ASSUME ReportInv, Gathered, LockstepInv', NEW r \in Runners,
           NEW f \in Frames, NEW failed, link' = Sent(link, r, f, failed), DropWriters(r, failed),
           reach' = [reach EXCEPT ![r] = PosOf(f)], reach[r] < PosOf(f),
           past' = past, heard' = [heard EXCEPT ![r] = {r}],
           \A q \in Runners \ {r} : pc'[q] = pc[q],
           UNCHANGED <<up, readers>>
    PROVE  Gathered'
<1>1. LockstepInv /\ TypeOK /\ NoSelfLink
  BY DEF ReportInv, LockstepInv
<1>2. reach \in [Runners -> Int] /\ heard \in [Runners -> SUBSET Runners]
      /\ writers \in [Runners -> SUBSET Runners]
  BY <1>1, ControlType DEF TypeOK
<1>3. LinkStep(link, link', r, f, NoArrivals) /\ NoArrivals \in [Runners -> Nat]
  BY <1>1, SendingIsLinkStep DEF NoArrivals
<1>4. reach'[r] \in Places /\ reach[r] < reach'[r]
  BY <1>2, FrameType
<1>5. /\ \A q \in Runners \ {r} : /\ reach'[q] = reach[q] /\ past'[q] = past[q]
                                  /\ heard'[q] = heard[q] /\ pc'[q] = pc[q]
      /\ \A q \in Runners : writers'[q] \subseteq writers[q]
  BY <1>2 DEF DropWriters
<1>6. QED
  BY <1>3, <1>4, <1>5, StepGathers

\* A runner that ends, or loses a connection, or passes a skipped job.
LEMMA RestGathers ==
    ASSUME ReportInv, Gathered,
           \A r, p \in Runners : Connected(r, p)' =>
                Connected(r, p) /\ link'[r][p] = link[r][p],
           heard' = heard, pc' = pc,
           \A p \in Runners : InBarrier(p) => reach'[p] = reach[p],
           \A r, p \in Runners : InBarrier(p) /\ reach[p] <= past'[r] => reach[p] <= past[r]
    PROVE  Gathered'
BY DEF Gathered, Reaches, InBarrier

LEMMA GatheredInit == Init => Gathered
BY DEF Init, Gathered, InBarrier

LEMMA GatheredLoop ==
    ASSUME ReportInv, Gathered, LockstepInv', NEW r \in Runners, Loop(r)
    PROVE  Gathered'
<1>1. TypeOK /\ LockstepInv
  BY DEF ReportInv, LockstepInv
<1>2. CASE SkipJob(r)
  <2>1. /\ reach' = [reach EXCEPT ![r] = 2 * job[r] + 1]
        /\ past' = [past EXCEPT ![r] = 2 * job[r] + 1]
        /\ heard' = heard
        /\ \A x \in Places : x <= 2 * job[r] + 1 => x <= past[r]
    BY <1>1, <1>2, SkipJobMoves
  <2>2. UNCHANGED <<pc, up, link, writers, readers>> /\ ~InBarrier(r)
    BY <1>2 DEF SkipJob, Running, InBarrier
  <2>3. \A p \in Runners : InBarrier(p) => reach[p] \in Places
    BY <1>1, ControlType DEF Places
  <2>4. past \in [Runners -> Int] /\ reach \in [Runners -> Int]
    BY <1>1, ControlType
  <2>5. \A q, p \in Runners : InBarrier(p) /\ reach[p] <= past'[q] => reach[p] <= past[q]
    BY <2>1, <2>3, <2>4
  <2>6. \A p \in Runners : InBarrier(p) => reach'[p] = reach[p]
    BY <2>1, <2>2, <2>4
  <2>7. \A q, p \in Runners : Connected(q, p)' =>
                Connected(q, p) /\ link'[q][p] = link[q][p]
    BY <2>2 DEF Connected
  <2>8. QED
    BY <2>1, <2>2, <2>5, <2>6, <2>7, RestGathers
<1>3. CASE EnterReady(r)
  <2>1. PICK failed : link' = Sent(link, r, Ready(r), failed) /\ DropWriters(r, failed)
    BY <1>3 DEF EnterReady
  <2>2. Ready(r) \in Frames /\ PosOf(Ready(r)) = 2 * job[r]
    BY <1>1, <1>3, SentFrames DEF Statuses, EnterReady
  <2>3. /\ reach' = [reach EXCEPT ![r] = PosOf(Ready(r))] /\ reach[r] < PosOf(Ready(r))
        /\ past' = past /\ heard' = [heard EXCEPT ![r] = {r}]
    BY <1>1, <1>3, <2>2, EnterReadyMoves
  <2>4. (\A q \in Runners \ {r} : pc'[q] = pc[q]) /\ UNCHANGED <<up, readers>>
    BY <1>1, <1>3 DEF EnterReady, TypeOK
  <2>5. QED
    BY <2>1, <2>2, <2>3, <2>4, EnterGathers
<1>4. CASE EnterDone(r)
  <2>1. PICK s \in Outcomes, failed \in WriteFailures(r) :
            link' = Sent(link, r, Done(r, s), failed) /\ DropWriters(r, failed)
    BY <1>4 DEF EnterDone
  <2>2. Done(r, s) \in Frames /\ PosOf(Done(r, s)) = 2 * job[r] + 1
    <3>1. job[r] \in Active
      BY <1>1, <1>4 DEF EnterDone, Running, TypeOK
    <3>2. QED
      BY <1>1, <3>1, SentFrames DEF Statuses
  <2>3. /\ reach' = [reach EXCEPT ![r] = PosOf(Done(r, s))] /\ reach[r] < PosOf(Done(r, s))
        /\ past' = past /\ heard' = [heard EXCEPT ![r] = {r}]
    BY <1>1, <1>4, <2>2, EnterDoneMoves
  <2>4. (\A q \in Runners \ {r} : pc'[q] = pc[q]) /\ UNCHANGED <<up, readers>>
    BY <1>1, <1>4 DEF EnterDone, TypeOK
  <2>5. QED
    BY <2>1, <2>2, <2>3, <2>4, EnterGathers
<1>5. CASE Finish(r)
  <2>1. \A q \in Runners : up'[q] = "running" => up[q] = "running"
    BY <1>1, <1>5 DEF Finish, TypeOK
  <2>2. reach' = reach /\ past' = past /\ heard' = heard /\ link' = link /\ pc' = pc
    BY <1>5 DEF Finish, reach, past, heard, InBarrier, Heard
  <2>3. \A q, p \in Runners : Connected(q, p)' =>
                Connected(q, p) /\ link'[q][p] = link[q][p]
    BY <1>5, <2>1, <2>2 DEF Connected, Finish
  <2>4. QED
    BY <2>2, <2>3, RestGathers
<1>6. QED
  BY <1>2, <1>3, <1>4, <1>5 DEF Loop

LEMMA GatheredPoll ==
    ASSUME ReportInv, Gathered, LockstepInv', NEW r \in Runners, NEW n \in Arrivals(r),
           NEW again \in BOOLEAN, Leave(r, n) \/ KeepWaiting(r, n, again)
    PROVE  Gathered'
<1>1. TypeOK /\ LockstepInv
  BY DEF ReportInv, LockstepInv
<1>2. ASSUME NEW kind \in {"ready", "done"}, pc[r] = kind
      PROVE  /\ InBarrier(r) /\ job[r] \in Active /\ past[r] = reach[r] - 1
             /\ kind = "ready" => reach[r] = 2 * job[r] /\ heard[r] = seen[r]
             /\ kind = "done" =>
                    /\ reach[r] = 2 * job[r] + 1
                    /\ heard[r] = {p \in Runners : results[r][p] # NoOutcome}
  BY <1>1, <1>2, ControlType DEF InBarrier
<1>3. CASE LeaveReady(r, n)
  <2>1. pc[r] = "ready" /\ (\A q \in Runners \ {r} : pc'[q] = pc[q]) /\ ~InBarrier(r)'
    BY <1>1, <1>3 DEF LeaveReady, Running, TypeOK, InBarrier
  <2>2. PICK failed : link' = Sent(Drained(r, n), r, Ready(r), failed) /\ DropWriters(r, failed)
    BY <1>3 DEF LeaveReady
  <2>3. Ready(r) \in Frames /\ PosOf(Ready(r)) = reach[r] /\ past[r] = reach[r] - 1
    BY <1>1, <1>2, <2>1, SentFrames DEF Statuses
  <2>4. /\ reach' = reach /\ past' = [past EXCEPT ![r] = reach[r]]
        /\ heard' = [heard EXCEPT ![r] = {}]
    BY <1>1, <1>3, LeaveReadyMoves
  <2>5. UNCHANGED <<up, readers>>
    BY <1>3 DEF LeaveReady
  <2>6. QED
    BY <2>1, <2>2, <2>3, <2>4, <2>5, LeaveGathers
<1>4. CASE LeaveDone(r, n)
  <2> DEFINE f == Done(r, outcome[r][job[r]])
  <2>1. pc[r] = "done" /\ (\A q \in Runners \ {r} : pc'[q] = pc[q]) /\ ~InBarrier(r)'
    BY <1>1, <1>4 DEF LeaveDone, Running, TypeOK, InBarrier
  <2>2. PICK failed : link' = Sent(Drained(r, n), r, f, failed) /\ DropWriters(r, failed)
    BY <1>4 DEF LeaveDone
  <2>3. f \in Frames /\ PosOf(f) = reach[r] /\ past[r] = reach[r] - 1
    BY <1>1, <1>2, <2>1, OwnDone
  <2>4. /\ reach' = reach /\ past' = [past EXCEPT ![r] = reach[r]]
        /\ heard' = [heard EXCEPT ![r] = {}]
    BY <1>1, <1>4, LeaveDoneMoves
  <2>5. UNCHANGED <<up, readers>>
    BY <1>4 DEF LeaveDone
  <2> HIDE DEF f
  <2>6. QED
    BY <2>1, <2>2, <2>3, <2>4, <2>5, LeaveGathers
<1>5. CASE KeepWaitingReady(r, n, again)
  <2>1. pc[r] = "ready" /\ UNCHANGED <<pc, up, readers>>
    BY <1>5 DEF KeepWaitingReady, Running
  <2>2. Ready(r) \in Frames
    BY <1>1, <1>2, <2>1, SentFrames DEF Statuses
  <2>3. PollLinks(r, n, Ready(r))
    BY <1>5 DEF KeepWaitingReady, PollLinks
  <2>4. /\ reach' = reach /\ past' = past
        /\ heard' = [heard EXCEPT ![r] = Seen(r, n)]
    BY <1>1, <1>5, KeepWaitingReadyMoves
  <2>5. Seen(r, n) \in SUBSET Runners /\ heard[r] \subseteq Seen(r, n) /\ InBarrier(r)
    BY <1>1, <1>2, <2>1 DEF Seen, TypeOK
  <2>6. \A q \in Runners : \A i \in 1..n[q] :
            PosOf(link[q][r][i]) = reach[r] => q \in Seen(r, n)
    BY <2>1, TakenIsCounted
  <2>7. QED
    BY <2>1, <2>2, <2>3, <2>4, <2>5, <2>6, WaitGathers
<1>6. CASE KeepWaitingDone(r, n, again)
  <2> DEFINE f == Done(r, outcome[r][job[r]])
  <2>1. pc[r] = "done" /\ UNCHANGED <<pc, up, readers>>
    BY <1>6 DEF KeepWaitingDone, Running
  <2>2. f \in Frames
    BY <1>1, <2>1, OwnDone
  <2>3. PollLinks(r, n, f)
    BY <1>6 DEF KeepWaitingDone, PollLinks
  <2>4. /\ reach' = reach /\ past' = past
        /\ heard' = [heard EXCEPT ![r] = CountedDone(r, n)]
    BY <1>1, <1>6, KeepWaitingDoneMoves
  <2>5. heard[r] \subseteq CountedDone(r, n)
    <3> SUFFICES ASSUME NEW p \in Runners, results[r][p] # NoOutcome
                 PROVE  Results(r, n)[p] # NoOutcome
      BY <1>2, <2>1 DEF CountedDone
    <3> DEFINE A == AcceptedAt(r, "Done", n, p)
    <3>1. CASE A = {}
      BY <3>1 DEF Results
    <3>2. CASE A # {}
      <4>1. PICK i \in A : TRUE
        BY <3>2
      <4>2. i \in 1..n[p] /\ PosOf(link[p][r][i]) = reach[r]
        <5>1. i \in 1..n[p] /\ i \in 1..Len(link[p][r]) /\ Accepts(r, "Done", link[p][r][i])
          BY <1>1, <4>1, AcceptedRange
        <5>2. InBarrier(r) /\ KindAt(r) = "Done"
          BY <2>1 DEF InBarrier, KindAt
        <5>3. QED
          BY <1>1, <5>1, <5>2, AcceptedIsCurrent
      <4>3. p \in CountedDone(r, n)
        BY <2>1, <4>2, TakenIsCounted
      <4>4. QED
        BY <4>3 DEF CountedDone
    <3>3. QED
      BY <3>1, <3>2
  <2>6. CountedDone(r, n) \in SUBSET Runners /\ InBarrier(r)
    BY <1>2, <2>1 DEF CountedDone
  <2>7. \A q \in Runners : \A i \in 1..n[q] :
            PosOf(link[q][r][i]) = reach[r] => q \in CountedDone(r, n)
    BY <2>1, TakenIsCounted
  <2> HIDE DEF f
  <2>8. QED
    BY <2>1, <2>2, <2>3, <2>4, <2>5, <2>6, <2>7, WaitGathers
<1>7. QED
  BY <1>3, <1>4, <1>5, <1>6 DEF Leave, KeepWaiting

LEMMA GatheredNext == ReportInv /\ Gathered /\ LockstepInv' /\ [Next]_vars => Gathered'
<1> SUFFICES ASSUME ReportInv, Gathered, LockstepInv', [Next]_vars PROVE Gathered'
  OBVIOUS
<1>1. TypeOK
  BY DEF ReportInv, LockstepInv
<1>2. ASSUME UNCHANGED <<job, pc, seen, results, outcome, summary, link, writers, readers>>,
             \A q \in Runners : up'[q] = "running" => up[q] = "running"
      PROVE  Gathered'
  <2>1. reach' = reach /\ past' = past /\ heard' = heard
    BY <1>2 DEF reach, past, heard, InBarrier, Heard
  <2>2. \A q, p \in Runners : Connected(q, p)' =>
                Connected(q, p) /\ link'[q][p] = link[q][p]
    BY <1>2 DEF Connected
  <2>3. QED
    BY <1>2, <2>1, <2>2, RestGathers
<1>3. ASSUME NEW r \in Runners, Loop(r) PROVE Gathered'
  BY <1>3, GatheredLoop
<1>4. ASSUME NEW r \in Runners, Poll(r) PROVE Gathered'
  <2>1. PICK n \in Arrivals(r) :
            \/ Leave(r, n)
            \/ \E again \in BOOLEAN : KeepWaiting(r, n, again)
            \/ BarrierTimesOut(r, n)
    BY <1>4 DEF Poll
  <2>2. CASE \E again \in BOOLEAN : Leave(r, n) \/ KeepWaiting(r, n, again)
    BY <2>2, GatheredPoll
  <2>3. CASE BarrierTimesOut(r, n)
    BY <1>1, <1>2, <2>3 DEF BarrierTimesOut, TypeOK
  <2>4. QED
    BY <2>1, <2>2, <2>3
<1>5. ASSUME NEW r \in Runners, SpawnError(r) \/ Crash(r) PROVE Gathered'
  BY <1>1, <1>2, <1>5 DEF SpawnError, Crash, TypeOK
<1>6. ASSUME NEW a \in Runners, NEW b \in Runners, ConnectionBreaks(a, b) PROVE Gathered'
  <2>1. reach' = reach /\ past' = past /\ heard' = heard /\ pc' = pc
    BY <1>6 DEF ConnectionBreaks, reach, past, heard, InBarrier, Heard
  <2>2. PICK k : link' = [link EXCEPT ![a][b] = SubSeq(@, 1, k)]
    BY <1>6 DEF ConnectionBreaks
  <2>3. readers' = [readers EXCEPT ![b] = @ \ {a}] /\ UNCHANGED <<up, writers>>
    BY <1>6 DEF ConnectionBreaks
  <2>4. ASSUME NEW r \in Runners, NEW p \in Runners, Connected(r, p)'
        PROVE  Connected(r, p) /\ link'[r][p] = link[r][p]
    <3>1. Connected(r, p) /\ ~(r = a /\ p = b)
      BY <1>1, <2>3, <2>4 DEF Connected, TypeOK
    <3>2. QED
      BY <1>1, <2>2, <3>1 DEF TypeOK
  <2>5. QED
    BY <2>1, <2>4, RestGathers
<1>7. CASE UNCHANGED vars
  BY <1>2, <1>7 DEF vars
<1>8. QED
  BY <1>3, <1>4, <1>5, <1>6, <1>7 DEF Next

LEMMA ReportNext == ReportInv /\ [Next]_vars => Told'
<1> SUFFICES ASSUME ReportInv, [Next]_vars PROVE Told'
  OBVIOUS
<1>1. TypeOK /\ Told
  BY DEF ReportInv, LockstepInv
<1>2. ASSUME NEW r \in Runners, Loop(r) PROVE Told'
  <2>1. CASE SkipJob(r)
    BY <2>1, SkipJobTold
  <2>2. CASE EnterReady(r)
    BY <2>2, EnterReadyTold
  <2>3. CASE EnterDone(r)
    BY <2>3, EnterDoneTold
  <2>4. CASE Finish(r)
    <3>1. /\ up'[r] = IF AnyFailure(r) THEN "exit1" ELSE "exit0"
          /\ \A q \in Runners \ {r} : up'[q] = up[q]
      BY <1>1, <2>4 DEF Finish, TypeOK
    <3>2. QED
      BY <2>4, <3>1, EndTold DEF Finish
  <2>5. QED
    BY <1>2, <2>1, <2>2, <2>3, <2>4 DEF Loop
<1>3. ASSUME NEW r \in Runners, Poll(r) PROVE Told'
  <2>1. PICK n \in Arrivals(r) :
            \/ Leave(r, n)
            \/ \E again \in BOOLEAN : KeepWaiting(r, n, again)
            \/ BarrierTimesOut(r, n)
    BY <1>3 DEF Poll
  <2>2. CASE Leave(r, n)
    BY <2>2, PollReadyTold, LeaveDoneTold DEF Leave
  <2>3. CASE \E again \in BOOLEAN : KeepWaiting(r, n, again)
    BY <2>3, PollReadyTold, KeepWaitingDoneTold DEF KeepWaiting
  <2>4. CASE BarrierTimesOut(r, n)
    <3>1. up'[r] = "exit75" /\ \A q \in Runners \ {r} : up'[q] = up[q]
      BY <1>1, <2>4 DEF BarrierTimesOut, TypeOK
    <3>2. QED
      BY <2>4, <3>1, EndTold DEF BarrierTimesOut
  <2>5. QED
    BY <2>1, <2>2, <2>3, <2>4
<1>4. ASSUME NEW r \in Runners, SpawnError(r) PROVE Told'
  <2>1. up'[r] = "exit1" /\ \A q \in Runners \ {r} : up'[q] = up[q]
    BY <1>1, <1>4 DEF SpawnError, TypeOK
  <2>2. job[r] # NumJobs + 1
    <3>1. job[r] \in Active
      BY <1>1, <1>4 DEF SpawnError, Running, TypeOK
    <3>2. QED
      BY <3>1, JobsAssumption DEF Active, Jobs
  <2>3. QED
    BY <1>4, <2>1, <2>2, EndTold DEF SpawnError
<1>5. ASSUME NEW r \in Runners, Crash(r) PROVE Told'
  <2>1. up'[r] = "crashed" /\ \A q \in Runners \ {r} : up'[q] = up[q]
    BY <1>1, <1>5 DEF Crash, TypeOK
  <2>2. QED
    BY <1>5, <2>1, EndTold DEF Crash
<1>6. ASSUME NEW p \in Runners, NEW r \in Runners, ConnectionBreaks(p, r) PROVE Told'
  BY <1>6, ConnectionBreaksTold
<1>7. CASE UNCHANGED vars
  BY <1>1, <1>7 DEF vars, Told, Judged, ResultsTell, RowsTold, RowsOfSkipped, StatusTold, AnyFailure
<1>8. QED
  BY <1>2, <1>3, <1>4, <1>5, <1>6, <1>7 DEF Next

-----------------------------------------------------------------------------
(* Theorems.                                                               *)

(* Every Done frame in flight, everything a done barrier has counted and
   every row of a summary is the outcome of the child it names, in every
   reachable state. *)
THEOREM ReportInvariant == Spec => []ReportInv
<1>1. Init => ReportInv
  BY InvInit, ReportInit DEF ReportInv
<1>2. ReportInv /\ [Next]_vars => ReportInv'
  BY InvNext, ReportNext DEF ReportInv
<1>3. QED
  BY <1>1, <1>2, PTL DEF Spec

(* The summary table of main.rs says of every runner's child what that child
   did, though the rows of the others came over connections that lose frames
   and name jobs by a name two of them may share. *)
THEOREM SummariesAreTruthful == Spec => []SummaryTruthful
<1>1. ReportInv => SummaryTruthful
  BY DEF ReportInv, Told, RowsTold, SummaryTruthful
<1>2. QED
  BY <1>1, ReportInvariant, PTL

(* Any two runners that get through the whole list exit with one verdict. *)
THEOREM OneVerdict == Spec => []VerdictsAgree
<1>1. ReportInv => VerdictsAgree
  <2> SUFFICES ASSUME ReportInv, NEW r \in Runners, NEW p \in Runners,
                      job[r] = NumJobs + 1, job[p] = NumJobs + 1,
                      up[r] \in {"exit0", "exit1"}, up[p] \in {"exit0", "exit1"}
               PROVE  up[r] = up[p]
    BY DEF VerdictsAgree
  <2> DEFINE Bad == \E j \in Active, q \in Runners :
                        outcome[q][j] \notin {"success", Skipped, NoOutcome}
  <2>1. Jobs = Active \union Skip
    BY JobsAssumption DEF Active
  <2>2. \A j \in Active : j < NumJobs + 1
    BY JobsAssumption DEF Active, Jobs
  <2>3. ASSUME NEW a \in Runners, job[a] = NumJobs + 1 PROVE AnyFailure(a) <=> Bad
    <3>1. \A j \in Active, q \in Runners : summary[a][j][q] = outcome[q][j]
      BY <2>2, <2>3 DEF ReportInv, Told, RowsTold
    <3>2. \A j \in Skip, q \in Runners : summary[a][j][q] \in {Skipped, NoOutcome}
      BY DEF ReportInv, Told, RowsOfSkipped
    <3>3. QED
      BY <2>1, <3>1, <3>2 DEF AnyFailure
  <2>4. \A a \in {r, p} : up[a] = "exit1" <=> Bad
    BY <2>3 DEF ReportInv, Told, StatusTold
  <2> HIDE DEF Bad
  <2>5. QED
    BY <2>4
<1>2. QED
  BY <1>1, ReportInvariant, PTL

(* A runner that leaves a barrier has told everyone still in it, or no longer
   has a connection to them: the final broadcast of ready_barrier_tcp and
   done_barrier_tcp does its work in every reachable state. *)
THEOREM NobodyIsStranded == Spec => []LeaverIsHeard
<1>1. Spec => [](ReportInv /\ Gathered)
  <2>1. Init => ReportInv /\ Gathered
    BY InvInit, ReportInit, GatheredInit DEF ReportInv
  <2>2. ReportInv /\ Gathered /\ [Next]_vars => ReportInv' /\ Gathered'
    BY InvNext, ReportNext, GatheredNext DEF ReportInv
  <2>3. QED
    BY <2>1, <2>2, PTL DEF Spec
<1>2. ReportInv /\ Gathered => LeaverIsHeard
  <2> SUFFICES ASSUME ReportInv, Gathered, NEW r \in Runners, NEW p \in Runners,
                      p # r, Connected(r, p), InBarrier(p), Left(r, job[p], KindAt(p))
               PROVE  \/ r \in Heard(p)
                      \/ \E i \in 1..Len(link[r][p]) : Accepts(p, KindAt(p), link[r][p][i])
    BY DEF LeaverIsHeard, Connected
  <2>1. TypeOK
    BY DEF ReportInv, LockstepInv
  <2>2. reach[p] = Pos(job[p], KindAt(p)) /\ KindAt(p) \in Kinds /\ job[p] \in Active
    BY <2>1, ControlType
  <2>3. reach[p] <= past[r]
    BY <2>1, <2>2, BarrierPlaces
  <2>4. Reaches(r, p)
    BY <2>3 DEF Gathered
  <2>5. r \in heard[p] => r \in Heard(p)
    BY DEF heard
  <2>6. QED
    BY <2>1, <2>4, <2>5, CurrentIsAccepted DEF Reaches
<1>3. QED
  BY <1>1, <1>2, PTL
=============================================================================
