------------------------------ MODULE Ordering -------------------------------
(***************************************************************************)
(* Sorting and filtering, for SortSeq and SelectSeq, of which the prover   *)
(* knows nothing: the place of an element is the number of those before it.*)
(***************************************************************************)
EXTENDS Naturals, FiniteSets

\* The elements of S, sorted; before[i] are the elements that come before i.
InOrder(S, before) == [n \in 1 .. Cardinality(S) |-> CHOOSE i \in S : Cardinality(before[i]) = n - 1]

\* The elements of a sequence at some of its places
Picked(s, places) ==
    LET order == InOrder(places, [i \in places |-> {j \in places : j < i}])
    IN  [n \in DOMAIN order |-> s[order[n]]]
=============================================================================
