---------------------------- MODULE RateLimiter ----------------------------
(***************************************************************************)
(* The rate limiters of the Go broker: RateLimiter, per address, and       *)
(* KeyRateLimiter, per API key, which are the same algorithm under two     *)
(* names.  Time is counted in ticks.  A visitor's counter starts again     *)
(* only after a pause longer than the window; every request, an accepted   *)
(* or a refused one, restarts the pause; a background goroutine forgets    *)
(* visitors that have paused.                                              *)
(***************************************************************************)
EXTENDS Integers, FiniteSets

CONSTANTS Visitor,  \* addresses or API keys
          Rate,     \* requests per window
          Window,   \* the length of the window
          Horizon,  \* bound on the time explored
          Burst     \* bound on the requests of one visitor in one tick

ASSUME LimiterConstants ==
    /\ Rate \in Nat \ {0}
    /\ Window \in Nat \ {0}
    /\ Horizon \in Nat
    /\ Burst \in Nat

VARIABLES
    now,       \* time.Now()
    count,     \* visitor.count, 0 for a visitor not in the map
    lastSeen,  \* visitor.lastSeen
    verdict,   \* the answer to each visitor's last request of this tick
    asked,     \* how many requests each visitor made at each time
    granted,   \* and how many of them were allowed
    refusals   \* Metrics.RateLimitHits

vars == <<now, count, lastSeen, verdict, asked, granted, refusals>>

Time == 0..Horizon

\* The type of the state.
TypeOK ==
    /\ now \in Time
    /\ count \in [Visitor -> Nat]
    /\ lastSeen \in [Visitor -> Time]
    /\ verdict \in [Visitor -> {"none", "allowed", "refused"}]
    /\ asked \in [Visitor -> [Time -> 0..Burst]]
    /\ granted \in [Visitor -> [Time -> 0..Burst]]
    /\ refusals \in Nat

Init ==
    /\ now = 0
    /\ count = [v \in Visitor |-> 0]
    /\ lastSeen = [v \in Visitor |-> 0]
    /\ verdict = [v \in Visitor |-> "none"]
    /\ asked = [v \in Visitor |-> [t \in Time |-> 0]]
    /\ granted = asked
    /\ refusals = 0

-----------------------------------------------------------------------------
Exists(v) == count[v] > 0

\* Mutant: a pause of exactly the window is enough.
PausedWithin(v) == now - lastSeen[v] >= Window

\* time.Since(v.lastSeen) > window.
Paused(v) == now - lastSeen[v] > Window

\* Mutant: the counter never starts again.
CountsForEver(v) == count[v] + 1

\* The count that Allow compares with the rate.
Counts(v) == IF ~Exists(v) \/ Paused(v) THEN 1 ELSE count[v] + 1

\* Allow, and what RateLimitMiddleware makes of its answer.
Allow(v) ==
    LET ok == Counts(v) = 1 \/ Counts(v) <= Rate IN
    /\ asked[v][now] < Burst
    /\ count' = [count EXCEPT ![v] = Counts(v)]
    /\ lastSeen' = [lastSeen EXCEPT ![v] = now]
    /\ verdict' = [verdict EXCEPT ![v] = IF ok THEN "allowed" ELSE "refused"]
    /\ asked' = [asked EXCEPT ![v][now] = @ + 1]
    /\ granted' = [granted EXCEPT ![v][now] = IF ok THEN @ + 1 ELSE @]
    /\ refusals' = IF ok THEN refusals ELSE refusals + 1
    /\ UNCHANGED now

\* Mutant: an entry is marked and not deleted.
CleanupMarks ==
    /\ count' = [v \in Visitor |-> IF Paused(v) THEN -1 ELSE count[v]]
    /\ UNCHANGED <<now, lastSeen, verdict, asked, granted, refusals>>

\* cleanup, once a minute: at any time, for all that Allow knows.
Cleanup ==
    /\ count' = [v \in Visitor |-> IF Paused(v) THEN 0 ELSE count[v]]
    /\ UNCHANGED <<now, lastSeen, verdict, asked, granted, refusals>>

\* Time passes.
Tick ==
    /\ now < Horizon
    /\ now' = now + 1
    /\ verdict' = [v \in Visitor |-> "none"]
    /\ UNCHANGED <<count, lastSeen, asked, granted, refusals>>

Next ==
    \/ \E v \in Visitor : Allow(v)
    \/ Cleanup
    \/ Tick

Spec == Init /\ [][Next]_vars

-----------------------------------------------------------------------------
(* Properties.                                                             *)

\* How many of the requests of f were made at the times of S: each is a time
\* and its number at that time.
Requests(f, S) == {r \in (Time \cap S) \X (1..Burst) : r[2] <= f[r[1]]}
During(f, S)   == Cardinality(Requests(f, S))

\* Whatever the bursts, the pauses and the cleanups, no interval as long as
\* the window sees more than Rate allowed requests of one visitor.
LimitKept ==
    \A v \in Visitor, t \in Time : During(granted[v], t..t + Window) <= Rate

\* A refused visitor has made more than Rate requests without a pause longer
\* than the window between them: a pause, remembered or cleaned up, is always
\* forgiven, and nothing else is counted against it.  It is not enough that
\* the requests of the last window are few.
RefusedOnlyUnpaused ==
    \A v \in Visitor : verdict[v] = "refused" =>
        \E t \in 0..now :
            /\ During(asked[v], t..now) > Rate
            /\ \A i \in t..now - 1 : asked[v][i] > 0 =>
                 \E j \in i + 1..i + Window : j <= now /\ asked[v][j] > 0

-----------------------------------------------------------------------------
(* The invariant behind the two, which is inductive.                       *)

\* lastSeen is the time of the last request, and no request is allowed that
\* was not made.
SeenLast(v) ==
    /\ lastSeen[v] <= now
    /\ \A t \in Time : /\ t > lastSeen[v] => asked[v][t] = 0
                       /\ granted[v][t] <= asked[v][t]

\* The requests that the counter of v stands for are those since time s.
\* There were none in the window before s and no pause since, and it has not
\* lost any of them nor allowed more than Rate.
Session(v, s) ==
    /\ During(asked[v], s..lastSeen[v]) >= count[v]
    /\ During(granted[v], s..lastSeen[v]) <= count[v]
    /\ During(granted[v], s..lastSeen[v]) <= Rate
    /\ \A t \in Time : s - Window <= t /\ t < s => asked[v][t] = 0
    /\ \A t \in s..lastSeen[v] - 1 : asked[v][t] > 0 =>
         \E u \in t + 1..t + Window : u <= lastSeen[v] /\ asked[v][u] > 0
    /\ asked[v][lastSeen[v]] > 0

\* A visitor that the map does not have made no request, or has paused.
Forgotten(v) == Paused(v) \/ \A t \in Time : asked[v][t] = 0

\* The last request of a visitor that was refused in this tick is of now.
Refused(v) == verdict[v] = "refused" => lastSeen[v] = now /\ count[v] > Rate

\* What the limiter knows of v is what v has done.
Accounted(v) ==
    /\ SeenLast(v)
    /\ Refused(v)
    /\ IF Exists(v) THEN \E s \in 0..lastSeen[v] : Session(v, s)
                    ELSE Forgotten(v)

Inv ==
    /\ TypeOK
    /\ LimitKept
    /\ \A v \in Visitor : Accounted(v)
=============================================================================
