------------------------------ MODULE MCRooms ------------------------------
(* Instances of Rooms for the model checker. *)
EXTENDS Rooms, TLC

CONSTANTS n1, n2, s1, s2, r1, r2, old, new

TwoNodes == {n1, n2}
TwoSessions == {s1, s2}
TwoRooms == {r1, r2}
OneRoom == {r1}
TwoNames == {old, new}

Apart == [s \in Sessions |-> IF s = s1 THEN n1 ELSE n2]
\* r1 is loaded by n1; the other room is still to be created.
Loads == [r \in Rooms |-> IF r = r1 THEN n1 ELSE NoNode]
=============================================================================
