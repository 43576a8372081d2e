----------------------------- MODULE Selection -----------------------------
(***************************************************************************)
(* What a filter leaves of a sequence (Vec::retain, Iterator::filter): the *)
(* elements at some of the places, or those in a set, in their order.      *)
(* SelectSeq says the same by recursion, which no prover of TLAPS can use. *)
(***************************************************************************)
EXTENDS Naturals, Sequences, FiniteSets

\* The elements of s at the places in P.
AtPlaces(s, P) ==
    LET UpTo(i) == Cardinality({j \in P : j <= i})
    IN  [k \in 1..Cardinality(P) |-> s[CHOOSE i \in P : UpTo(i) = k]]

\* The elements of s that are in S.
Only(s, S) == AtPlaces(s, {i \in DOMAIN s : s[i] \in S})

\* The numbers of the messages of w in s, a sequence of [from, seq].
SeqsFrom(s, w) ==
    LET ofW == AtPlaces(s, {i \in DOMAIN s : s[i].from = w})
    IN  [k \in DOMAIN ofW |-> ofW[k].seq]
=============================================================================
