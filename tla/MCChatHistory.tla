--------------------------- MODULE MCChatHistory ---------------------------
(* Instances of ChatHistory for the model checker. *)
EXTENDS ChatHistory

CONSTANTS a1, a2, a3, a4, a5, q1, q2, r1, r2

TwoRooms == {r1, r2}
FiveArchives == {a1, a2, a3, a4, a5}
TwoRequests == {q1, q2}

\* Four chats go to r1, one to r2; both requests are about r1.
RoomOfCall == [c \in Calls |-> IF c = a5 THEN r2 ELSE r1]
=============================================================================
