---------------------------- MODULE Enumeration ----------------------------
(***************************************************************************)
(* A finite set of numbers as a sequence: what an iteration over the       *)
(* positions of a list that keeps some of them gives.                      *)
(***************************************************************************)
EXTENDS Naturals, Sequences, FiniteSets

(* The members of P from the smallest to the largest. *)
InOrder(P) ==
    [n \in 1 .. Cardinality(P) |-> CHOOSE i \in P : Cardinality({j \in P : j <= i}) = n]

(* Where a sequence holds what is asked for, and what it holds there. *)
Picked(s, P) == [n \in DOMAIN InOrder(P) |-> s[InOrder(P)[n]]]
=============================================================================
