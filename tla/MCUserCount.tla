---------------------------- MODULE MCUserCount ----------------------------
(* An instance of UserCount for the model checker. *)
EXTENDS UserCount, TLC

CONSTANTS n1, n2, s1, s2, s3

TwoNodes == {n1, n2}
ThreeSessions == {s1, s2, s3}

\* Two sessions are on one node, the third is on the other.
Apart == [s \in Sessions |-> IF s = s3 THEN n2 ELSE n1]

Symmetry == Permutations({s1, s2})
=============================================================================
