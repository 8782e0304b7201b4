--------------------------- MODULE MCElixirBroker ---------------------------
(* Values of the constants of ElixirBroker for TLC. *)
EXTENDS ElixirBroker
CONSTANTS s1, w1, p1, k1

OneKey == [r \in Req |-> k1]
=============================================================================
