------------------------------- MODULE Lists -------------------------------
(***************************************************************************)
(* Sequences that are given by a set: what SelectSeq selects, in a form    *)
(* that can be proved about.                                               *)
(***************************************************************************)
EXTENDS Integers, FiniteSets

(* The numbers of a set, ascending. *)
Arranged(S) == [k \in 1 .. Cardinality(S) |-> CHOOSE x \in S : Cardinality({y \in S : y <= x}) = k]

(* The items of a sequence that are at the places of a set. *)
Picked(s, S) == LET place == Arranged(S) IN [k \in DOMAIN place |-> s[place[k]]]
=============================================================================
