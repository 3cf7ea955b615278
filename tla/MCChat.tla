------------------------------- MODULE MCChat -------------------------------
(* Instances of Chat for the model checker. *)
EXTENDS Chat

CONSTANTS n1, n2, s1, s2, s3, r1, r2

TwoNodes == {n1, n2}
TwoSessions == {s1, s2}
OneRoom == {r1}
TwoRooms == {r1, r2}

\* s1 is on the node that owns r1, s2 on the other one.
Apart == [s \in Sessions |-> IF s = s1 THEN n1 ELSE n2]
Owners == [r \in Rooms |-> IF r = r1 THEN n1 ELSE n2]
=============================================================================
