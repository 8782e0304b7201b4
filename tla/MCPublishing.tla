---------------------------- MODULE MCPublishing ----------------------------
EXTENDS Publishing, TLC
CONSTANTS p1, p2, e1, e2, ch1, ch2, w1, s1

MCChannelOf == (w1 :> ch1) @@ (s1 :> ch1)
MCAsk == (p1 :> [event |-> e1, channel |-> ch1]) @@
         (p2 :> [event |-> e2, channel |-> ch1])
MCFilter == {[events |-> {}, channel |-> ch1], [events |-> {e1}, channel |-> AnyChannel],
             [events |-> {Star, e2}, channel |-> ch2]}
=============================================================================
