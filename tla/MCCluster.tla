----------------------------- MODULE MCCluster ------------------------------
EXTENDS Cluster, TLC
CONSTANTS n1, n2, c1, c2, u1, u2

MCNodeOf == (c1 :> n1) @@ (c2 :> n2)
MCUserOf == (c1 :> u1) @@ (c2 :> u2)
MCMaxSend == (c1 :> 2) @@ (c2 :> 0) @@ (n1 :> 0) @@ (n2 :> 1)
=============================================================================
