------------------------------ MODULE Ordering ------------------------------
(* The elements of a set in the order of a key that tells them apart, as a   *)
(* std::set or std::map with a Compare of its own goes through them.         *)
EXTENDS Integers, FiniteSets

\* The element of M that has i others before it.
Nth(M, key, i) == CHOOSE m \in M : Cardinality({n \in M : key[n] < key[m]}) = i

Ordered(M, key) == [i \in 1 .. Cardinality(M) |-> Nth(M, key, i - 1)]

=============================================================================
