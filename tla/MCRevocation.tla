---------------------------- MODULE MCRevocation ----------------------------
(* Values of the constants of Revocation for TLC. *)
EXTENDS Revocation, TLC

CONSTANTS c1, c2, u1, u2, k1, r1

TwoUsers == (c1 :> u1) @@ (c2 :> u2)
OneKey   == [c \in Conn |-> k1]

\* The two connections are alike, each with its user.
Alike    == {p \in Permutations(Conn \cup User) :
               \A c \in Conn : p[c] \in Conn /\ UserID[p[c]] = p[UserID[c]]}
=============================================================================
