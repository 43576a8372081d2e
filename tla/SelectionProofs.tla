--------------------------- MODULE SelectionProofs ---------------------------
(***************************************************************************)
(* What a filter leaves of a sequence, for every sequence: its members and *)
(* their order (OnlySelects, OnlyMembers), all or nothing of it (OnlyAll,  *)
(* OnlyNone), a filter of a join (OnlyJoin) and of what a filter has left  *)
(* (OnlyTwice).  A filter is described by the list of the places it takes, *)
(* from the least to the greatest, of which there is just one.             *)
(***************************************************************************)
EXTENDS Selection, FiniteSetTheorems, WellFoundedInduction, SequenceTheorems, TLAPS

\* A set of numbers has a least one.
LEMMA LeastPlaceExists ==
    ASSUME NEW T \in SUBSET Nat, T # {}
    PROVE  \E x \in T : \A y \in T : x <= y
<1>1. PICK x \in T : \A y \in T : ~(<<y, x>> \in OpToRel(<, Nat))
  BY NatLessThanWellFounded, WFMin
<1>2. \A y \in T : y < x => <<y, x>> \in OpToRel(<, Nat)
  BY DEF OpToRel
<1>3. \A y \in T : ~(y < x)
  BY <1>1, <1>2
<1>4. QED
  BY <1>3

\* e lists the numbers in P from the least to the greatest.
Lists(e, n, P) ==
    /\ e \in [1..n -> P]
    /\ \A a, b \in 1..n : a < b => e[a] < e[b]
    /\ \A i \in P : \E k \in 1..n : e[k] = i

LEMMA ListRanks ==
    ASSUME NEW P \in SUBSET Nat, NEW n \in Nat, NEW e, Lists(e, n, P)
    PROVE  /\ Cardinality(P) = n
           /\ \A k \in 1..n : Cardinality({j \in P : j <= e[k]}) = k
<1>1. ASSUME NEW k \in 0..n, NEW Q, Q = {e[a] : a \in 1..k} PROVE Cardinality(Q) = k
  <2> DEFINE f == [a \in 1..k |-> e[a]]
  <2>a. \A a \in 1..n : e[a] \in Nat
    BY DEF Lists
  <2>b. 1..k \subseteq 1..n
    OBVIOUS
  <2>0. \A a \in 1..k : a \in 1..n /\ e[a] \in Nat /\ f[a] = e[a]
    BY <2>a, <2>b
  <2>1. f \in [1..k -> Q] /\ \A t \in Q : \E a \in 1..k : f[a] = t
    BY <1>1, <2>0
  <2>2. \A a, b \in 1..k : f[a] = f[b] => a = b
    <3> SUFFICES ASSUME NEW a \in 1..k, NEW b \in 1..k, e[a] = e[b], a # b PROVE FALSE
      BY <2>0
    <3>1. a \in 1..n /\ b \in 1..n /\ e[a] \in Nat /\ e[b] \in Nat
      BY <2>0
    <3>2. e[a] < e[b] \/ e[b] < e[a]
      BY <3>1 DEF Lists
    <3> QED BY <3>1, <3>2
  <2>3. ExistsBijection(1..k, Q)
    <3> HIDE DEF f
    <3>1. f \in Bijection(1..k, Q)
      BY <2>1, <2>2 DEF Bijection, Injection, IsInjective, Surjection
    <3> QED BY <3>1 DEF ExistsBijection
  <2> QED BY <2>3, FS_CountingElements
<1>2. P = {e[a] : a \in 1..n}
  BY DEF Lists
<1>3. ASSUME NEW k \in 1..n PROVE {j \in P : j <= e[k]} = {e[a] : a \in 1..k}
  <2>1. \A a \in 1..n : e[a] \in Nat /\ (e[a] <= e[k] <=> a <= k)
    <3> SUFFICES ASSUME NEW a \in 1..n PROVE e[a] \in Nat /\ (e[a] <= e[k] <=> a <= k)
      OBVIOUS
    <3>1. e[a] \in Nat /\ e[k] \in Nat
      BY DEF Lists
    <3>2. /\ a < k => e[a] < e[k]
          /\ k < a => e[k] < e[a]
      BY DEF Lists
    <3>3. a < k \/ a = k \/ k < a
      OBVIOUS
    <3> QED BY <3>1, <3>2, <3>3
  <2> QED BY <1>2, <2>1
<1> QED BY <1>1, <1>2, <1>3

LEMMA AtPlacesIs ==
    ASSUME NEW P \in SUBSET Nat, NEW n \in Nat, NEW e, Lists(e, n, P), NEW s
    PROVE  AtPlaces(s, P) = [k \in 1..n |-> s[e[k]]]
<1> DEFINE UpTo(i) == Cardinality({j \in P : j <= i})
<1>1. Cardinality(P) = n /\ \A k \in 1..n : UpTo(e[k]) = k
  BY ListRanks
<1>2. \A i \in P : \E k \in 1..n : i = e[k]
  BY DEF Lists
<1>3. \A k \in 1..n : e[k] \in P
  BY DEF Lists
<1>4. AtPlaces(s, P) = [k \in 1..Cardinality(P) |-> s[CHOOSE i \in P : UpTo(i) = k]]
  BY DEF AtPlaces
<1> HIDE DEF UpTo
<1>5. \A k \in 1..n : (CHOOSE i \in P : UpTo(i) = k) = e[k]
  <2> SUFFICES ASSUME NEW k \in 1..n PROVE (CHOOSE i \in P : UpTo(i) = k) = e[k]
    OBVIOUS
  <2>1. e[k] \in P /\ UpTo(e[k]) = k
    BY <1>1, <1>3
  <2>2. \A i \in P : UpTo(i) = k => i = e[k]
    BY <1>1, <1>2
  <2> QED BY <2>1, <2>2
<1> QED BY <1>1, <1>4, <1>5

LEMMA ListExists ==
    ASSUME NEW m \in Nat, NEW P \in SUBSET (1..m)
    PROVE  \E n \in Nat : \E e : Lists(e, n, P)
<1> DEFINE Listed(k) == \A Q \in SUBSET (1..k) : \E n \in Nat : \E e : Lists(e, n, Q)
           Bad == {k \in Nat : ~Listed(k)}
<1>1. Listed(0)
  <2>1. Lists(<<>>, 0, {})
    BY DEF Lists
  <2>2. \A Q \in SUBSET (1..0) : Q = {}
    OBVIOUS
  <2>3. 0 \in Nat
    OBVIOUS
  <2> QED BY <2>1, <2>2, <2>3
<1>2. ASSUME NEW k \in Nat, Listed(k) PROVE Listed(k + 1)
  <2> SUFFICES ASSUME NEW Q \in SUBSET (1..k + 1) PROVE \E n \in Nat : \E e : Lists(e, n, Q)
    OBVIOUS
  <2>1. Q \ {k + 1} \in SUBSET (1..k)
    OBVIOUS
  <2>e. PICK n \in Nat : \E e : Lists(e, n, Q \ {k + 1})
    BY <1>2, <2>1
  <2>2. PICK e : Lists(e, n, Q \ {k + 1})
    BY <2>e
  <2>3. CASE k + 1 \in Q
    <3> DEFINE g == [a \in 1..n + 1 |-> IF a = n + 1 THEN k + 1 ELSE e[a]]
    <3>0. \A a \in 1..n : e[a] \in Q \ {k + 1} /\ a # n + 1 /\ a \in 1..n + 1
      BY <2>2 DEF Lists
    <3>z. \A i \in Q \ {k + 1} : i \in Nat /\ i < k + 1
      BY <2>1
    <3>1. \A a \in 1..n : g[a] = e[a] /\ e[a] \in Q /\ e[a] < k + 1 /\ e[a] \in Nat
      BY <3>0, <3>z
    <3>2. g[n + 1] = k + 1
      OBVIOUS
    <3>3. \A a \in 1..n + 1 : a \in 1..n \/ a = n + 1
      OBVIOUS
    <3>4. g \in [1..n + 1 -> Q]
      BY <2>3, <3>1, <3>3
    <3>5. \A i \in Q : \E a \in 1..n + 1 : g[a] = i
      <4> SUFFICES ASSUME NEW i \in Q PROVE \E a \in 1..n + 1 : g[a] = i
        OBVIOUS
      <4>1. CASE i = k + 1
        BY <3>2, <4>1
      <4>2. CASE i # k + 1
        <5>1. PICK a \in 1..n : e[a] = i
          BY <2>2, <4>2 DEF Lists
        <5>2. a \in 1..n + 1
          OBVIOUS
        <5> QED BY <3>1, <5>1, <5>2
      <4> QED BY <4>1, <4>2
    <3> HIDE DEF g
    <3>6. \A a, b \in 1..n + 1 : a < b => g[a] < g[b]
      <4> SUFFICES ASSUME NEW a \in 1..n + 1, NEW b \in 1..n + 1, a < b PROVE g[a] < g[b]
        OBVIOUS
      <4>1. a \in 1..n
        OBVIOUS
      <4>2. CASE b = n + 1
        BY <3>1, <3>2, <4>1, <4>2
      <4>3. CASE b \in 1..n
        <5>1. e[a] < e[b]
          BY <2>2, <4>1, <4>3 DEF Lists
        <5> QED BY <3>1, <4>1, <4>3, <5>1
      <4> QED BY <3>3, <4>2, <4>3
    <3> QED BY <3>4, <3>5, <3>6 DEF Lists
  <2>4. CASE k + 1 \notin Q
    <3>1. Q \ {k + 1} = Q
      BY <2>4
    <3> QED BY <2>2, <3>1
  <2> QED BY <2>3, <2>4
<1> HIDE DEF Listed
<1>3. Bad = {}
  <2> SUFFICES ASSUME Bad # {} PROVE FALSE
    OBVIOUS
  <2>1. PICK k \in Bad : \A j \in Bad : k <= j
    BY LeastPlaceExists
  <2>2. k # 0 /\ k \in Nat
    BY <1>1
  <2>3. k - 1 \in Nat /\ k - 1 \notin Bad /\ k - 1 + 1 = k
    BY <2>1, <2>2
  <2> QED BY <1>2, <2>1, <2>3
<1>4. Listed(m)
  BY <1>3
<1> QED BY <1>4 DEF Listed

\* The places of s at which something of S is.
PlacesIn(s, S) == {i \in DOMAIN s : s[i] \in S}

\* t is what a filter leaves of s: the places of t are those of e.
Selects(e, t, s, S) ==
    /\ Lists(e, Len(t), PlacesIn(s, S))
    /\ \A k \in 1..Len(t) : t[k] = s[e[k]]

LEMMA OnlySelects ==
    ASSUME NEW T, NEW s \in Seq(T), NEW S
    PROVE  Only(s, S) \in Seq(T) /\ \E e : Selects(e, Only(s, S), s, S)
<1>1. PlacesIn(s, S) \in SUBSET (1..Len(s)) /\ Len(s) \in Nat /\ PlacesIn(s, S) \in SUBSET Nat
  BY DEF PlacesIn
<1>e. PICK n \in Nat : \E e : Lists(e, n, PlacesIn(s, S))
  BY <1>1, ListExists
<1>2. PICK e : Lists(e, n, PlacesIn(s, S))
  BY <1>e
<1>o. Only(s, S) = AtPlaces(s, PlacesIn(s, S))
  BY DEF Only, PlacesIn
<1> DEFINE P == PlacesIn(s, S)
<1>q. P \in SUBSET Nat /\ Lists(e, n, P)
  BY <1>1, <1>2
<1> HIDE DEF P
<1>r. AtPlaces(s, P) = [k \in 1..n |-> s[e[k]]]
  BY <1>1, <1>q, AtPlacesIs
<1>3. Only(s, S) = [k \in 1..n |-> s[e[k]]]
  BY <1>o, <1>r DEF P
<1>4. \A k \in 1..n : e[k] \in PlacesIn(s, S)
  BY <1>2 DEF Lists
<1>5. \A k \in 1..n : s[e[k]] \in T
  BY <1>1, <1>4
<1>6. Only(s, S) \in Seq(T) /\ Len(Only(s, S)) = n /\ \A k \in 1..n : Only(s, S)[k] = s[e[k]]
  BY <1>3, <1>5
<1> QED BY <1>2, <1>6 DEF Selects

LEMMA SelectsOnly ==
    ASSUME NEW T, NEW s \in Seq(T), NEW S, NEW t \in Seq(T), NEW e, Selects(e, t, s, S)
    PROVE  t = Only(s, S)
<1>1. PlacesIn(s, S) \in SUBSET (1..Len(s)) /\ PlacesIn(s, S) \in SUBSET Nat /\ Len(t) \in Nat
  BY DEF PlacesIn
<1>2. Lists(e, Len(t), PlacesIn(s, S))
  BY DEF Selects
<1>o. Only(s, S) = AtPlaces(s, PlacesIn(s, S))
  BY DEF Only, PlacesIn
<1> DEFINE P == PlacesIn(s, S)
<1>q. P \in SUBSET Nat /\ Lists(e, Len(t), P)
  BY <1>1, <1>2
<1> HIDE DEF P
<1>r. AtPlaces(s, P) = [k \in 1..Len(t) |-> s[e[k]]]
  BY <1>1, <1>q, AtPlacesIs
<1>3. Only(s, S) = [k \in 1..Len(t) |-> s[e[k]]]
  BY <1>o, <1>r DEF P
<1>4. \A k \in 1..Len(t) : s[e[k]] = t[k]
  BY DEF Selects
<1>5. Only(s, S) = [k \in 1..Len(t) |-> t[k]]
  BY <1>3, <1>4
<1>6. t = [k \in 1..Len(t) |-> t[k]]
  OBVIOUS
<1> QED BY <1>5, <1>6

\* The members of what is left.
LEMMA OnlyMembers ==
    ASSUME NEW T, NEW s \in Seq(T), NEW S
    PROVE  /\ Only(s, S) \in Seq(T)
           /\ \A k \in 1..Len(Only(s, S)) : Only(s, S)[k] \in S
           /\ \A i \in 1..Len(s) : s[i] \in S => \E k \in 1..Len(Only(s, S)) : Only(s, S)[k] = s[i]
<1>1. PICK e : Selects(e, Only(s, S), s, S)
  BY OnlySelects
<1>2. Only(s, S) \in Seq(T)
  BY OnlySelects
<1>3. /\ \A k \in 1..Len(Only(s, S)) : e[k] \in PlacesIn(s, S) /\ Only(s, S)[k] = s[e[k]]
      /\ \A i \in PlacesIn(s, S) : \E k \in 1..Len(Only(s, S)) : e[k] = i
  BY <1>1 DEF Selects, Lists
<1>4. \A i \in 1..Len(s) : s[i] \in S => i \in PlacesIn(s, S)
  BY DEF PlacesIn
<1>5. \A i \in PlacesIn(s, S) : s[i] \in S
  BY DEF PlacesIn
<1>6. \A k \in 1..Len(Only(s, S)) : Only(s, S)[k] \in S
  BY <1>3, <1>5
<1>7. \A i \in 1..Len(s) : s[i] \in S => \E k \in 1..Len(Only(s, S)) : Only(s, S)[k] = s[i]
  <2> SUFFICES ASSUME NEW i \in 1..Len(s), s[i] \in S
               PROVE  \E k \in 1..Len(Only(s, S)) : Only(s, S)[k] = s[i]
    OBVIOUS
  <2>1. PICK k \in 1..Len(Only(s, S)) : e[k] = i
    BY <1>3, <1>4
  <2> QED BY <1>3, <2>1
<1> QED BY <1>2, <1>6, <1>7

LEMMA OnlyAll ==
    ASSUME NEW T, NEW s \in Seq(T), NEW S, \A i \in 1..Len(s) : s[i] \in S
    PROVE  Only(s, S) = s
<1> DEFINE e == [k \in 1..Len(s) |-> k]
<1>1. PlacesIn(s, S) = 1..Len(s)
  BY DEF PlacesIn
<1>2. Lists(e, Len(s), 1..Len(s))
  BY DEF Lists
<1>3. Selects(e, s, s, S)
  BY <1>1, <1>2 DEF Selects
<1> QED BY <1>3, SelectsOnly

LEMMA OnlyNone ==
    ASSUME NEW T, NEW s \in Seq(T), NEW S, \A i \in 1..Len(s) : s[i] \notin S
    PROVE  Only(s, S) = <<>>
<1>1. PlacesIn(s, S) = {}
  BY DEF PlacesIn
<1>2. Lists(<<>>, 0, {})
  BY DEF Lists
<1>3. <<>> \in Seq(T) /\ Len(<<>>) = 0
  OBVIOUS
<1>4. Selects(<<>>, <<>>, s, S)
  BY <1>1, <1>2, <1>3 DEF Selects
<1> QED BY <1>3, <1>4, SelectsOnly

LEMMA OnlyJoin ==
    ASSUME NEW T, NEW s \in Seq(T), NEW t \in Seq(T), NEW S
    PROVE  Only(s \o t, S) = Only(s, S) \o Only(t, S)
<1> DEFINE a == Only(s, S)
           b == Only(t, S)
           n == Len(a)
           m == Len(b)
           w == s \o t
<1>1. a \in Seq(T) /\ b \in Seq(T) /\ (\E e : Selects(e, a, s, S)) /\ \E e : Selects(e, b, t, S)
  BY OnlySelects
<1> HIDE DEF a, b, w
<1>2. PICK e : Selects(e, a, s, S)
  BY <1>1
<1>3. PICK f : Selects(f, b, t, S)
  BY <1>1
<1> DEFINE g == [k \in 1..n + m |-> IF k <= n THEN e[k] ELSE Len(s) + f[k - n]]
<1>4. /\ w \in Seq(T) /\ Len(w) = Len(s) + Len(t) /\ Len(s) \in Nat /\ Len(t) \in Nat
      /\ \A i \in 1..Len(s) + Len(t) : w[i] = IF i <= Len(s) THEN s[i] ELSE t[i - Len(s)]
  BY ConcatProperties DEF w
<1>5. /\ a \o b \in Seq(T) /\ Len(a \o b) = n + m /\ n \in Nat /\ m \in Nat
      /\ \A k \in 1..n + m : (a \o b)[k] = IF k <= n THEN a[k] ELSE b[k - n]
  BY <1>1, ConcatProperties
<1>6. /\ \A k \in 1..n : e[k] \in 1..Len(s) /\ s[e[k]] \in S /\ a[k] = s[e[k]]
      /\ \A k, l \in 1..n : k < l => e[k] < e[l]
      /\ \A i \in 1..Len(s) : s[i] \in S => \E k \in 1..n : e[k] = i
  BY <1>2 DEF Selects, Lists, PlacesIn
<1>7. /\ \A k \in 1..m : f[k] \in 1..Len(t) /\ t[f[k]] \in S /\ b[k] = t[f[k]]
      /\ \A k, l \in 1..m : k < l => f[k] < f[l]
      /\ \A i \in 1..Len(t) : t[i] \in S => \E k \in 1..m : f[k] = i
  BY <1>3 DEF Selects, Lists, PlacesIn
<1> HIDE DEF n, m
<1>8. \A k \in 1..n + m : (k \in 1..n /\ g[k] = e[k]) \/ (k - n \in 1..m /\ ~(k <= n) /\ g[k] = Len(s) + f[k - n])
  BY <1>5
<1> HIDE DEF g
<1>9. ASSUME NEW k \in 1..n + m
      PROVE  g[k] \in 1..Len(s) + Len(t) /\ w[g[k]] \in S /\ (a \o b)[k] = w[g[k]]
  <2>1. CASE k \in 1..n /\ g[k] = e[k]
    <3>1. e[k] \in 1..Len(s) + Len(t) /\ e[k] <= Len(s) /\ k <= n
      BY <1>4, <1>5, <1>6, <2>1
    <3> QED BY <1>4, <1>5, <1>6, <2>1, <3>1
  <2>2. CASE k - n \in 1..m /\ ~(k <= n) /\ g[k] = Len(s) + f[k - n]
    <3>1. f[k - n] \in 1..Len(t)
      BY <1>7, <2>2
    <3>2. g[k] \in 1..Len(s) + Len(t) /\ ~(g[k] <= Len(s)) /\ g[k] - Len(s) = f[k - n]
      BY <1>4, <2>2, <3>1
    <3>3. w[g[k]] = t[f[k - n]]
      BY <1>4, <3>2
    <3> QED BY <1>5, <1>7, <2>2, <3>2, <3>3
  <2> QED BY <1>8, <2>1, <2>2
<1>10. \A k, l \in 1..n + m : k < l => g[k] < g[l]
  <2> SUFFICES ASSUME NEW k \in 1..n + m, NEW l \in 1..n + m, k < l PROVE g[k] < g[l]
    OBVIOUS
  <2>1. CASE l \in 1..n /\ g[l] = e[l]
    <3>1. k \in 1..n /\ g[k] = e[k]
      BY <1>5, <1>8, <2>1
    <3> QED BY <1>6, <2>1, <3>1
  <2>2. CASE l - n \in 1..m /\ ~(l <= n) /\ g[l] = Len(s) + f[l - n]
    <3>0. f[l - n] \in 1..Len(t)
      BY <1>7, <2>2
    <3>1. CASE k \in 1..n /\ g[k] = e[k]
      <4>1. e[k] \in 1..Len(s)
        BY <1>6, <3>1
      <4> QED BY <1>4, <2>2, <3>0, <3>1, <4>1
    <3>2. CASE k - n \in 1..m /\ ~(k <= n) /\ g[k] = Len(s) + f[k - n]
      <4>1. f[k - n] \in 1..Len(t) /\ k - n < l - n
        BY <1>5, <1>7, <3>2
      <4>2. f[k - n] < f[l - n]
        BY <1>7, <2>2, <3>2, <4>1
      <4> QED BY <1>4, <2>2, <3>0, <3>2, <4>1, <4>2
    <3> QED BY <1>8, <3>1, <3>2
  <2> QED BY <1>8, <2>1, <2>2
<1>11. ASSUME NEW i \in 1..Len(s) + Len(t), w[i] \in S PROVE \E k \in 1..n + m : g[k] = i
  <2>1. CASE i <= Len(s)
    <3>1. i \in 1..Len(s) /\ s[i] \in S
      BY <1>4, <1>11, <2>1
    <3>2. PICK k \in 1..n : e[k] = i
      BY <1>6, <3>1
    <3>3. k \in 1..n + m /\ ~(k - n \in 1..m)
      BY <1>5
    <3> QED BY <1>8, <3>2, <3>3
  <2>2. CASE ~(i <= Len(s))
    <3>1. i - Len(s) \in 1..Len(t) /\ t[i - Len(s)] \in S
      BY <1>4, <1>11, <2>2
    <3>2. PICK k \in 1..m : f[k] = i - Len(s)
      BY <1>7, <3>1
    <3> DEFINE l == n + k
    <3>3. l \in 1..n + m /\ ~(l \in 1..n) /\ l - n = k
      BY <1>5
    <3> HIDE DEF l
    <3>4. g[l] = Len(s) + f[k]
      BY <1>8, <3>3
    <3>5. Len(s) + (i - Len(s)) = i
      BY <1>4
    <3> QED BY <3>2, <3>3, <3>4, <3>5
  <2> QED BY <2>1, <2>2
<1>12. PlacesIn(w, S) = {i \in 1..Len(s) + Len(t) : w[i] \in S}
  BY <1>4 DEF PlacesIn
<1>13. g \in [1..n + m -> PlacesIn(w, S)]
  <2>1. \A k \in 1..n + m : g[k] \in PlacesIn(w, S)
    BY <1>9, <1>12
  <2> QED BY <2>1 DEF g
<1>14. Lists(g, n + m, PlacesIn(w, S))
  BY <1>10, <1>11, <1>12, <1>13 DEF Lists
<1>15. Selects(g, a \o b, w, S)
  BY <1>5, <1>9, <1>14 DEF Selects
<1>16. a \o b = Only(w, S)
  BY <1>4, <1>5, <1>15, SelectsOnly
<1> QED BY <1>16 DEF a, b, w

\* A filter after another one.
LEMMA OnlyTwice ==
    ASSUME NEW T, NEW s \in Seq(T), NEW S, NEW R \in SUBSET S
    PROVE  Only(Only(s, S), R) = Only(s, R)
<1> DEFINE a == Only(s, S)
           b == Only(a, R)
<1>1. a \in Seq(T) /\ (\E e : Selects(e, a, s, S))
  BY OnlySelects
<1>2. b \in Seq(T) /\ (\E e : Selects(e, b, a, R))
  BY <1>1, OnlySelects
<1> HIDE DEF a, b
<1>3. PICK e : Selects(e, a, s, S)
  BY <1>1
<1>4. PICK f : Selects(f, b, a, R)
  BY <1>2
<1>5. /\ \A k \in 1..Len(a) : e[k] \in 1..Len(s) /\ a[k] = s[e[k]]
      /\ \A k, l \in 1..Len(a) : k < l => e[k] < e[l]
      /\ \A i \in 1..Len(s) : s[i] \in S => \E k \in 1..Len(a) : e[k] = i
  BY <1>3 DEF Selects, Lists, PlacesIn
<1>p. PlacesIn(a, R) = {i \in 1..Len(a) : a[i] \in R}
  BY <1>1 DEF PlacesIn
<1>6. /\ \A k \in 1..Len(b) : f[k] \in 1..Len(a) /\ a[f[k]] \in R /\ b[k] = a[f[k]]
      /\ \A k, l \in 1..Len(b) : k < l => f[k] < f[l]
      /\ \A i \in 1..Len(a) : a[i] \in R => \E k \in 1..Len(b) : f[k] = i
  BY <1>4, <1>p DEF Selects, Lists
<1> DEFINE g == [k \in 1..Len(b) |-> e[f[k]]]
<1>7. \A k \in 1..Len(b) : g[k] = e[f[k]] /\ g[k] \in 1..Len(s) /\ s[g[k]] \in R /\ b[k] = s[g[k]]
  BY <1>5, <1>6
<1>8. g \in [1..Len(b) -> PlacesIn(s, R)]
  <2>1. \A k \in 1..Len(b) : g[k] \in PlacesIn(s, R)
    BY <1>7 DEF PlacesIn
  <2> QED BY <2>1
<1>9. \A k, l \in 1..Len(b) : k < l => g[k] < g[l]
  BY <1>5, <1>6
<1>10. \A i \in PlacesIn(s, R) : \E k \in 1..Len(b) : g[k] = i
  <2> SUFFICES ASSUME NEW i \in 1..Len(s), s[i] \in R PROVE \E k \in 1..Len(b) : g[k] = i
    BY DEF PlacesIn
  <2>1. PICK l \in 1..Len(a) : e[l] = i
    BY <1>5
  <2>2. PICK k \in 1..Len(b) : f[k] = l
    BY <1>5, <1>6, <2>1
  <2> QED BY <2>1, <2>2
<1> HIDE DEF g
<1>11. Selects(g, b, s, R)
  BY <1>7, <1>8, <1>9, <1>10 DEF Selects, Lists
<1>12. b = Only(s, R)
  BY <1>2, <1>11, SelectsOnly
<1> QED BY <1>12 DEF a, b
=============================================================================
