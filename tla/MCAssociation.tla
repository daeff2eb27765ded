---------------------------- MODULE MCAssociation ----------------------------
EXTENDS Association

CONSTANTS a1, a2

\* The first access point has another station, the second has two.
McOtherAids == [ap \in Aps |-> IF ap = a1 THEN {1} ELSE {1, 2}]

=============================================================================
