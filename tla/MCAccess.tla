------------------------------ MODULE MCAccess ------------------------------
EXTENDS Access, TLC
CONSTANTS c1, c2, r1, k1, k2, u1, u2, u3

Nobody == [x \in {} |-> "read"]

\* Room for one, whoever it is; for two, with the right key; for two users,
\* of whom one may only read.
MCACLs == {[public |-> TRUE,  max |-> 1, keys |-> {},   perms |-> Nobody],
           [public |-> FALSE, max |-> 2, keys |-> {k1}, perms |-> Nobody],
           [public |-> FALSE, max |-> 0, keys |-> {},
            perms |-> (u1 :> "read") @@ (u2 :> "write")]}

\* A token that opens r1, and one whose only permission is not a known name.
MCTokens == {[user |-> u1, channels |-> {r1}, perms |-> Nobody],
             [user |-> u1, channels |-> {}, perms |-> (Star :> "subscribe")]}

MCAPIKey == (c1 :> k1) @@ (c2 :> k2)
MCClientID == (c1 :> u2) @@ (c2 :> u3)
=============================================================================
