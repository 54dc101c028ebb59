-------------------------------- MODULE Lists --------------------------------
(***************************************************************************)
(* Array.filter() on sequences.  SelectSeq is the same, but recursive; the *)
(* elements that stay are given by their positions instead, so that there  *)
(* are facts to prove about them.                                          *)
(***************************************************************************)
EXTENDS Integers, Sequences, FiniteSets

(* The number of positions of at up to i. *)
Rank(at, i) == Cardinality({j \in at : j <= i})

(* The elements of s at the positions at, in their order. *)
Picked(s, at) == [n \in 1 .. Cardinality(at) |-> s[CHOOSE i \in at : Rank(at, i) = n]]
=============================================================================
