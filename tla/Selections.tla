----------------------------- MODULE Selections -----------------------------
(* The entries of a sequence at some of its positions, in their order.     *)
EXTENDS Naturals, Sequences, FiniteSets

IsSequence(s) == Len(s) \in Nat /\ s = [i \in 1 .. Len(s) |-> s[i]]

Rank(positions, i) == Cardinality({j \in positions : j <= i})
At(positions, n) == CHOOSE i \in positions : Rank(positions, i) = n
Kept(s, positions) == [n \in 1 .. Cardinality(positions) |-> s[At(positions, n)]]
=============================================================================
