------------------------------- MODULE MCHub -------------------------------
(* Values of the constants of Hub for TLC. *)
EXTENDS Hub, TLC

CONSTANTS c1, c2, u1, u2, k1, r1

TwoUsers == (c1 :> u1) @@ (c2 :> u2)
OneUser  == (c1 :> u1) @@ (c2 :> u1)
OneKey   == [c \in Conn |-> k1]
=============================================================================
