------------------------------ MODULE MCClient ------------------------------
(* An instance of Client for the model checker. *)
EXTENDS Client, TLC

CONSTANTS r1, r2, me, other

TwoRooms == {r1, r2}
TwoUsers == {me, other}

Symmetric == Permutations(Rooms)
=============================================================================
