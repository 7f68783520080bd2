----------------------------- MODULE Selecting -----------------------------
(***************************************************************************)
(* Taking from a list what stands at given positions: what the code does   *)
(* with retain, position and loops that push into a new vector.            *)
(***************************************************************************)
EXTENDS Naturals, Sequences, FiniteSets

\* The n-th of the positions S.
NthOf(S, n) == CHOOSE i \in S : Cardinality({j \in S : j <= i}) = n

\* The members of s at the positions S, in their order.
PickAt(s, S) == [n \in 1..Cardinality(S) |-> s[NthOf(S, n)]]

\* The first of the positions S of s, or the one behind its end.
FirstAt(s, S) == IF S = {} THEN Len(s) + 1 ELSE CHOOSE i \in S : \A j \in S : i <= j
=============================================================================
