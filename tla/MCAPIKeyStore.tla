--------------------------- MODULE MCAPIKeyStore ---------------------------
(* Values of the constants of APIKeyStore for TLC. *)
EXTENDS APIKeyStore, TLC

CONSTANTS k1, k2, k3, w1, w2

\* Requests, and keys, are alike.
Alike == Permutations(Key) \cup Permutations(Request)
=============================================================================
