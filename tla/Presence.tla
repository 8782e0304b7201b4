------------------------------ MODULE Presence ------------------------------
(***************************************************************************)
(* What GET /stats and GET /channels/{name}/presence promise about users,  *)
(* whatever goroutines keep the books: users come, enter and leave rooms   *)
(* one at a time, and whoever goes is gone from every room at once.        *)
(***************************************************************************)
CONSTANTS User,  \* user ids
          Room   \* room names

VARIABLES online,   \* "online_users" of /stats
          members   \* "members" of /channels/{name}/presence, per room

presence == <<online, members>>

Init ==
    /\ online = {}
    /\ members = [r \in Room |-> {}]

\* A user is online from one moment on; the room of its request may have
\* shown it before.
Arrive(u) ==
    /\ u \notin online
    /\ online' = online \cup {u}
    /\ UNCHANGED members

\* An online user goes and takes all of its memberships along.
Depart(u) ==
    /\ u \in online
    /\ online' = online \ {u}
    /\ members' = [r \in Room |-> members[r] \ {u}]

Enter(u, r) ==
    /\ members' = [members EXCEPT ![r] = @ \cup {u}]
    /\ UNCHANGED online

Exit(u, r) ==
    /\ members' = [members EXCEPT ![r] = @ \ {u}]
    /\ UNCHANGED online

Next ==
    \E u \in User :
        \/ Arrive(u) \/ Depart(u)
        \/ \E r \in Room : Enter(u, r) \/ Exit(u, r)

Spec == Init /\ [][Next]_presence
=============================================================================
