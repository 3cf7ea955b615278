--------------------------- MODULE MCRoomMembers ---------------------------
(* Instances of RoomMembers for the model checker. *)
EXTENDS RoomMembers, TLC

CONSTANTS n1, n2, n3, s1, s2, s3, u1, u2, r1

OneNode == {n1}
ThreeNodes == {n1, n2, n3}
OneSession == {s2}
TwoSessions == {s1, s2}
ThreeSessions == {s1, s2, s3}
TwoUsers == {u1, u2}
OneRoom == {r1}

\* s1 and s3 are sessions of u1, s2 is one of u2.
UserOfSession == [s \in Sessions |-> IF s = s2 THEN u2 ELSE u1]
AllOnOneNode == [s \in Sessions |-> n1]
\* n1 owns the room, the user is on n2, and n3 looks on.
AwayFromOwner == [s \in Sessions |-> n2]
Owners == [r \in Rooms |-> n1]
AllBronze == [x \in UserIds \cup Rooms |-> 0]
\* A gold room, and a gold user.
SomeGold == [x \in UserIds \cup Rooms |-> IF x \in {r1, u2} THEN 2 ELSE 0]
=============================================================================
