---------------------------- MODULE MCSSEBroker ----------------------------
(* Values of the constants of SSEBroker for TLC. *)
EXTENDS SSEBroker

CONSTANTS s1, m1, m2, m3, a1, ch, k

OneChannel == [s \in Sub |-> ch]
OneKey     == [s \in Sub |-> k]

\* Every message but a1 goes to the channel.
ToChannel == [m \in Msg |-> IF m = a1 THEN Everyone ELSE ch]
============================================================================
