------------------------------- MODULE Places -------------------------------
(* What is left of a sequence when only some of its places are kept, in    *)
(* the order they are in.                                                  *)
EXTENDS Naturals, Sequences, FiniteSets

(* The n-th of a set of places. *)
Nth(S, n) == CHOOSE i \in S : Cardinality({j \in S : j <= i}) = n

Picked(l, S) == [n \in 1..Cardinality(S) |-> l[Nth(S, n)]]
=============================================================================
