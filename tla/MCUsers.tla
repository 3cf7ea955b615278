------------------------------ MODULE MCUsers ------------------------------
(* Instances of Users for the model checker. *)
EXTENDS Users

CONSTANTS n1, n2, s1, s2, u1, u2

SomeNodes == {n1, n2}
SomeUsers == {u1, u2}
SomeSessions == {s1, s2}
=============================================================================
