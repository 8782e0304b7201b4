-------------------------- MODULE RateLimiterProofs -------------------------
(* Proofs about RateLimiter, for any rate, window, time and bursts.        *)
EXTENDS RateLimiter, FiniteSetTheorems, WellFoundedInduction, TLAPS

(***************************************************************************)
(* Counting requests.                                                      *)
(***************************************************************************)

\* Induction on a finite set: if a family of its subsets has the empty one,
\* and with each subset the one with one more element, it has them all.
LEMMA FiniteInduction ==
    ASSUME NEW S, IsFiniteSet(S), NEW G, {} \in G,
           \A U \in G, x \in S : U \cup {x} \in G
    PROVE  S \in G
<1> SUFFICES ASSUME S \notin G PROVE FALSE
  OBVIOUS
<1> DEFINE R == StrictSubsetOrdering(S)
           Bad == {U \in SUBSET S : U \notin G}
<1>1. IsWellFoundedOn(R, SUBSET S)
  BY FS_StrictSubsetOrderingWellFounded, FS_FiniteSubsetsOfFinite
<1>2. S \in Bad /\ Bad \subseteq SUBSET S
  OBVIOUS
<1>3. PICK U \in Bad : \A V \in Bad : ~ (<<V, U>> \in R)
  BY <1>1, <1>2, WFMin
<1>4. PICK x \in U : TRUE
  BY <1>3
<1>5. U \ {x} \in SUBSET S /\ U \ {x} # U /\ <<U \ {x}, U>> \in R
  BY <1>4 DEF StrictSubsetOrdering
<1>6. U \ {x} \in G
  BY <1>3, <1>5
<1>7. (U \ {x}) \cup {x} = U /\ x \in S
  BY <1>4
<1> QED
  BY <1>3, <1>6, <1>7

\* A finite number of times, each with a finite number of requests.
LEMMA FiniteProduct ==
    ASSUME NEW A, IsFiniteSet(A), NEW B, IsFiniteSet(B)
    PROVE  IsFiniteSet(A \X B)
<1> DEFINE G == {U \in SUBSET A : IsFiniteSet(U \X B)}
<1>1. {} \in G
  <2>1. {} \X B = {}
    OBVIOUS
  <2> QED
    BY <2>1, FS_EmptySet
<1>2. ASSUME NEW U \in G, NEW x \in A PROVE U \cup {x} \in G
  <2>1. IsFiniteSet({x} \X B)
    <3> DEFINE f == [b \in B |-> <<x, b>>]
    <3>1. f \in [B -> {x} \X B]
      OBVIOUS
    <3>2. ASSUME NEW q \in {x} \X B PROVE \E b \in B : f[b] = q
      <4>1. PICK b \in B : q = <<x, b>>
        OBVIOUS
      <4> QED
        BY <4>1
    <3>3. f \in Surjection(B, {x} \X B)
      BY <3>1, <3>2 DEF Surjection
    <3> QED
      BY <3>3, FS_Surjection
  <2>2. (U \cup {x}) \X B = (U \X B) \cup ({x} \X B)
    OBVIOUS
  <2>3. U \cup {x} \in SUBSET A /\ IsFiniteSet(U \X B)
    OBVIOUS
  <2>4. IsFiniteSet((U \X B) \cup ({x} \X B))
    BY <2>1, <2>3, FS_Union
  <2> QED
    BY <2>2, <2>3, <2>4
<1> HIDE DEF G
<1>3. A \in G
  BY <1>1, <1>2, FiniteInduction
<1> QED
  BY <1>3 DEF G

\* During counts a finite set.
LEMMA DuringType ==
    ASSUME NEW f, NEW S
    PROVE  IsFiniteSet(Requests(f, S)) /\ During(f, S) \in Nat
<1>1. IsFiniteSet(Time) /\ IsFiniteSet(1..Burst)
  BY FS_Interval, LimiterConstants DEF Time
<1>2. IsFiniteSet(Time \cap S)
  BY <1>1, FS_Subset
<1>3. IsFiniteSet((Time \cap S) \X (1..Burst))
  BY <1>1, <1>2, FiniteProduct
<1>4. Requests(f, S) \in SUBSET ((Time \cap S) \X (1..Burst))
  BY DEF Requests
<1> QED
  BY <1>3, <1>4, FS_Subset, FS_CardinalityType DEF During

\* More times and more requests at each of them count more.
LEMMA DuringMonotone ==
    ASSUME NEW f \in [Time -> 0..Burst], NEW S, NEW g \in [Time -> 0..Burst], NEW T,
           \A t \in Time : t \in S /\ f[t] > 0 => t \in T /\ f[t] <= g[t]
    PROVE  During(f, S) <= During(g, T)
<1>1. Requests(f, S) \subseteq Requests(g, T)
  <2> SUFFICES ASSUME NEW r \in Requests(f, S) PROVE r \in Requests(g, T)
    OBVIOUS
  <2>1. PICK t \in Time \cap S, i \in 1..Burst : r = <<t, i>> /\ i <= f[t]
    BY DEF Requests
  <2>2. f[t] \in 0..Burst /\ g[t] \in 0..Burst
    BY <2>1
  <2>3. t \in T /\ i <= g[t]
    BY <2>1, <2>2, LimiterConstants
  <2> QED
    BY <2>1, <2>3 DEF Requests
<1> QED
  BY <1>1, DuringType, FS_Subset DEF During

\* One more request at one time counts one more.
LEMMA DuringAdd ==
    ASSUME NEW f \in [Time -> 0..Burst], NEW S, NEW t \in Time, t \in S, f[t] < Burst
    PROVE  During([f EXCEPT ![t] = @ + 1], S) = During(f, S) + 1
<1> DEFINE g == [f EXCEPT ![t] = @ + 1]
           r == <<t, f[t] + 1>>
<1>1. g[t] = f[t] + 1 /\ \A u \in Time \ {t} : g[u] = f[u]
  OBVIOUS
<1>2. f[t] \in Nat /\ f[t] + 1 \in 1..Burst /\ \A u \in Time : f[u] \in Nat
  BY LimiterConstants
<1> HIDE DEF g
<1>3. r \in Requests(g, S) /\ r \notin Requests(f, S)
  BY <1>1, <1>2 DEF Requests
<1>4. Requests(f, S) \subseteq Requests(g, S)
  <2> SUFFICES ASSUME NEW q \in Requests(f, S) PROVE q \in Requests(g, S)
    OBVIOUS
  <2>1. PICK u \in Time \cap S, i \in 1..Burst : q = <<u, i>> /\ i <= f[u]
    BY DEF Requests
  <2>2. i <= g[u]
    BY <1>1, <1>2, <2>1
  <2> QED
    BY <2>1, <2>2 DEF Requests
<1>5. Requests(g, S) \subseteq Requests(f, S) \cup {r}
  <2> SUFFICES ASSUME NEW q \in Requests(g, S), q # r PROVE q \in Requests(f, S)
    OBVIOUS
  <2>1. PICK u \in Time \cap S, i \in 1..Burst : q = <<u, i>> /\ i <= g[u]
    BY DEF Requests
  <2>2. i <= f[u]
    BY <1>1, <1>2, <2>1
  <2> QED
    BY <2>1, <2>2 DEF Requests
<1>6. Requests(g, S) = Requests(f, S) \cup {r}
  BY <1>3, <1>4, <1>5
<1> HIDE DEF r
<1> QED
  BY <1>3, <1>6, DuringType, FS_AddElement DEF During, g

\* Times without requests count nothing.
LEMMA DuringNone ==
    ASSUME NEW f \in [Time -> 0..Burst], NEW S, \A t \in Time : t \in S => f[t] = 0
    PROVE  During(f, S) = 0
<1>1. Requests(f, S) = {}
  <2> SUFFICES ASSUME NEW r \in Requests(f, S) PROVE FALSE
    OBVIOUS
  <2>1. PICK t \in Time \cap S, i \in 1..Burst : r = <<t, i>> /\ i <= f[t]
    BY DEF Requests
  <2> QED
    BY <2>1
<1> QED
  BY <1>1, FS_EmptySet DEF During

(***************************************************************************)
(* The steps.                                                              *)
(***************************************************************************)

\* Nothing has been asked for yet.
LEMMA InitInv == Init => Inv
<1> SUFFICES ASSUME Init PROVE Inv
  OBVIOUS
<1> USE LimiterConstants
<1>1. TypeOK
  BY DEF Init, TypeOK, Time
<1>2. \A v \in Visitor, t \in Time : asked[v][t] = 0 /\ granted[v][t] = 0
  BY DEF Init
<1>3. LimitKept
  <2> SUFFICES ASSUME NEW v \in Visitor, NEW t \in Time
               PROVE  During(granted[v], t..t + Window) <= Rate
    BY DEF LimitKept
  <2>1. granted[v] \in [Time -> 0..Burst]
    BY <1>1 DEF TypeOK
  <2>2. During(granted[v], t..t + Window) = 0
    BY <1>2, <2>1, DuringNone
  <2> QED
    BY <2>2
<1>4. ASSUME NEW v \in Visitor PROVE Accounted(v)
  <2>1. SeenLast(v) /\ Refused(v)
    BY <1>2 DEF Init, SeenLast, Refused
  <2>2. ~Exists(v) /\ Forgotten(v)
    BY <1>2 DEF Init, Exists, Forgotten
  <2> QED
    BY <2>1, <2>2 DEF Accounted
<1> QED
  BY <1>1, <1>3, <1>4 DEF Inv

\* A request: it continues the session, or a pause has ended that and this is
\* the first of another.
LEMMA AllowStep ==
    ASSUME Inv, NEW v \in Visitor, Allow(v)
    PROVE  Inv'
<1> USE LimiterConstants
<1> DEFINE a == asked[v]
           b == asked'[v]
           f == granted[v]
           g == granted'[v]
           last == lastSeen[v]
           ok == Counts(v) = 1 \/ Counts(v) <= Rate
<1>1. /\ now \in Time /\ now \in Nat /\ count[v] \in Nat /\ last \in Time /\ last \in Nat
      /\ a \in [Time -> 0..Burst] /\ f \in [Time -> 0..Burst]
      /\ \A t \in Time : t \in Nat /\ a[t] \in Nat /\ f[t] \in Nat
  BY DEF Inv, TypeOK, Time
<1>2. SeenLast(v) /\ Accounted(v)
  BY DEF Inv, Accounted
<1>3. a[now] < Burst /\ f[now] < Burst
  BY <1>1, <1>2 DEF Allow, SeenLast
<1>4. b = [a EXCEPT ![now] = @ + 1] /\ now' = now
  BY DEF Allow, Inv, TypeOK
<1>5. g = IF ok THEN [f EXCEPT ![now] = @ + 1] ELSE f
  BY DEF Allow, Inv, TypeOK
<1>6. /\ count'[v] = Counts(v) /\ lastSeen'[v] = now /\ Counts(v) \in Nat \ {0}
      /\ verdict'[v] = "refused" => ~ok
  BY <1>1 DEF Allow, Inv, TypeOK, Counts
<1>7. ASSUME NEW w \in Visitor, w # v
      PROVE  /\ count'[w] = count[w] /\ lastSeen'[w] = lastSeen[w]
             /\ verdict'[w] = verdict[w] /\ asked'[w] = asked[w]
             /\ granted'[w] = granted[w]
  BY <1>7 DEF Allow, Inv, TypeOK
<1>8. /\ b[now] = a[now] + 1 /\ \A t \in Time \ {now} : b[t] = a[t]
      /\ g[now] = (IF ok THEN f[now] + 1 ELSE f[now])
      /\ \A t \in Time \ {now} : g[t] = f[t]
  BY <1>1, <1>4, <1>5
<1>9. TypeOK'
  <2>1. asked' \in [Visitor -> [Time -> 0..Burst]]
    BY <1>1, <1>3 DEF Allow, Inv, TypeOK
  <2>2. granted' \in [Visitor -> [Time -> 0..Burst]]
    BY <1>1, <1>3 DEF Allow, Inv, TypeOK
  <2>3. count' \in [Visitor -> Nat] /\ lastSeen' \in [Visitor -> Time]
    BY <1>1, <1>6 DEF Allow, Inv, TypeOK
  <2>4. verdict' \in [Visitor -> {"none", "allowed", "refused"}]
    BY DEF Allow, Inv, TypeOK
  <2>5. refusals' \in Nat /\ now' \in Time
    BY DEF Allow, Inv, TypeOK
  <2> QED
    BY <2>1, <2>2, <2>3, <2>4, <2>5 DEF TypeOK
<1>10. b \in [Time -> 0..Burst] /\ g \in [Time -> 0..Burst]
  BY <1>9 DEF TypeOK
<1>11. SeenLast(v)'
  <2>1. \A t \in Time : /\ t > last => a[t] = 0
                        /\ f[t] <= a[t]
    BY <1>2 DEF SeenLast
  <2>2. last <= now
    BY <1>2 DEF SeenLast
  <2> HIDE DEF a, b, f, g, ok, last
  <2>3. \A t \in Time : /\ t > now => b[t] = 0
                        /\ g[t] <= b[t]
    BY <1>1, <1>8, <2>1, <2>2
  <2> QED
    BY <1>1, <1>4, <1>6, <2>3 DEF SeenLast, b, g
<1>12. Refused(v)'
  BY <1>1, <1>4, <1>6 DEF Refused
<1>13. \E s \in 0..now :
         /\ During(b, s..now) >= Counts(v)
         /\ During(g, s..now) <= Counts(v) /\ During(g, s..now) <= Rate
         /\ \A t \in Time : s - Window <= t /\ t < s => b[t] = 0
         /\ \A t \in s..now - 1 : b[t] > 0 =>
              \E u \in t + 1..t + Window : u <= now /\ b[u] > 0
         /\ b[now] > 0
  <2>1. CASE ~Exists(v) \/ Paused(v)
    <3>1. \A t \in Time : t >= now - Window => a[t] = 0
      <4>1. CASE Paused(v)
        <5>1. now - last > Window /\ \A t \in Time : t > last => a[t] = 0
          BY <1>2, <4>1 DEF Paused, SeenLast
        <5> HIDE DEF a, last
        <5>2. \A t \in Time : t >= now - Window => t > last
          BY <1>1, <5>1
        <5> QED
          BY <5>1, <5>2
      <4>2. CASE ~Exists(v) /\ ~Paused(v)
        BY <1>1, <1>2, <4>2 DEF Accounted, Forgotten
      <4> QED
        BY <2>1, <4>1, <4>2
    <3>2. \A t \in Time : t >= now - Window => f[t] = 0
      BY <1>1, <1>2, <3>1 DEF SeenLast
    <3>3. Counts(v) = 1 /\ ok
      BY <2>1 DEF Counts
    <3> HIDE DEF a, b, f, g, ok, last
    <3>4. During(f, now..now) = 0
      BY <1>1, <3>2, DuringNone
    <3>5. During(a, now..now) \in Nat
      BY DuringType
    <3>6. now \in now..now
      BY <1>1
    <3>7. During(b, now..now) = During(a, now..now) + 1
      BY <1>1, <1>3, <1>4, <3>6, DuringAdd
    <3>8. During(g, now..now) = 1
      <4>1. During([f EXCEPT ![now] = @ + 1], now..now) = During(f, now..now) + 1
        BY <1>1, <1>3, <3>6, DuringAdd
      <4> QED
        BY <1>5, <3>3, <3>4, <4>1
    <3>9. \A t \in Time : now - Window <= t /\ t < now => b[t] = 0
      BY <1>1, <1>8, <3>1
    <3>10. now..now - 1 = {} /\ b[now] > 0 /\ now \in 0..now
      BY <1>1, <1>8
    <3>11. /\ During(b, now..now) >= Counts(v)
           /\ During(g, now..now) <= Counts(v) /\ During(g, now..now) <= Rate
      BY <3>3, <3>5, <3>7, <3>8
    <3> QED
      BY <3>9, <3>10, <3>11
  <2>2. CASE Exists(v) /\ ~Paused(v)
    <3>1. PICK s \in 0..last : Session(v, s)
      BY <1>2, <2>2 DEF Accounted
    <3>2. /\ last <= now /\ now <= last + Window /\ count[v] > 0
          /\ Counts(v) = count[v] + 1
      BY <1>1, <1>2, <2>2 DEF SeenLast, Paused, Exists, Counts
    <3>3. \A t \in Time : (t > last => a[t] = 0) /\ f[t] <= a[t]
      BY <1>2 DEF SeenLast
    <3>4. /\ During(a, s..last) >= count[v]
          /\ During(f, s..last) <= count[v] /\ During(f, s..last) <= Rate
          /\ \A t \in Time : s - Window <= t /\ t < s => a[t] = 0
          /\ \A t \in s..last - 1 : a[t] > 0 =>
               \E u \in t + 1..t + Window : u <= last /\ a[u] > 0
      BY <3>1 DEF Session
    <3>5. ok <=> count[v] + 1 <= Rate
      BY <1>1, <3>2
    <3> HIDE DEF a, b, f, g, ok, last
    <3>6. s \in 0..now /\ s \in Nat /\ now \in s..now
      BY <1>1, <3>1, <3>2
    <3>7. /\ During(a, s..now) \in Nat /\ During(a, s..last) \in Nat
          /\ During(f, s..now) \in Nat /\ During(f, s..last) \in Nat
      BY DuringType
    <3>8. During(a, s..last) <= During(a, s..now)
      <4>1. \A t \in Time : t \in s..last /\ a[t] > 0 => t \in s..now /\ a[t] <= a[t]
        BY <1>1, <3>2, <3>6
      <4> QED
        BY <1>1, <4>1, DuringMonotone
    <3>9. During(f, s..now) <= During(f, s..last)
      <4>1. \A t \in Time : t \in s..now /\ f[t] > 0 => t \in s..last /\ f[t] <= f[t]
        BY <1>1, <3>3, <3>6
      <4> QED
        BY <1>1, <4>1, DuringMonotone
    <3>10. During(b, s..now) = During(a, s..now) + 1
      BY <1>1, <1>3, <1>4, <3>6, DuringAdd
    <3>11. During(g, s..now) = IF ok THEN During(f, s..now) + 1 ELSE During(f, s..now)
      BY <1>1, <1>3, <1>5, <3>6, DuringAdd
    <3>12. During(b, s..now) >= Counts(v)
      <4>1. count[v] \in Nat /\ During(a, s..last) >= count[v]
        BY <1>1, <3>4
      <4> QED
        BY <3>2, <3>7, <3>8, <3>10, <4>1
    <3>13. During(g, s..now) <= Counts(v) /\ During(g, s..now) <= Rate
      <4>1. /\ count[v] \in Nat /\ During(f, s..last) <= count[v]
            /\ During(f, s..last) <= Rate
        BY <1>1, <3>4
      <4>2. CASE ok
        BY <3>2, <3>5, <3>7, <3>9, <3>11, <4>1, <4>2
      <4>3. CASE ~ok
        BY <3>2, <3>7, <3>9, <3>11, <4>1, <4>3
      <4> QED
        BY <4>2, <4>3
    <3>14. \A t \in Time : s - Window <= t /\ t < s => b[t] = 0
      BY <1>1, <1>8, <3>4, <3>6
    <3>15. ASSUME NEW t \in s..now - 1, b[t] > 0
           PROVE  \E u \in t + 1..t + Window : u <= now /\ b[u] > 0
      <4>1. t \in Time /\ t # now /\ a[t] > 0 /\ t \in Nat
        BY <1>1, <1>8, <3>6, <3>15 DEF Time
      <4>2. t <= last
        BY <1>1, <3>3, <4>1
      <4>3. CASE t = last
        <5>1. now \in t + 1..t + Window /\ b[now] > 0
          BY <1>1, <1>8, <3>2, <3>15, <4>1, <4>3
        <5> QED
          BY <1>1, <5>1
      <4>4. CASE t < last
        <5>1. t \in s..last - 1
          BY <1>1, <3>6, <3>15, <4>1, <4>4
        <5>2. PICK u \in t + 1..t + Window : u <= last /\ a[u] > 0
          BY <3>4, <4>1, <5>1
        <5>3. u \in Time /\ u <= now
          BY <1>1, <3>2, <4>1, <5>2 DEF Time
        <5>4. b[u] > 0
          BY <1>1, <1>8, <5>2, <5>3
        <5> QED
          BY <5>2, <5>3, <5>4
      <4> QED
        BY <1>1, <4>1, <4>2, <4>3, <4>4
    <3>16. b[now] > 0
      BY <1>1, <1>8
    <3> QED
      BY <3>6, <3>12, <3>13, <3>14, <3>15, <3>16
  <2> QED
    BY <2>1, <2>2
<1>14. Accounted(v)'
  <2>1. PICK s \in 0..now :
         /\ During(b, s..now) >= Counts(v)
         /\ During(g, s..now) <= Counts(v) /\ During(g, s..now) <= Rate
         /\ \A t \in Time : s - Window <= t /\ t < s => b[t] = 0
         /\ \A t \in s..now - 1 : b[t] > 0 =>
              \E u \in t + 1..t + Window : u <= now /\ b[u] > 0
         /\ b[now] > 0
    BY <1>13
  <2>2. Session(v, s)'
    BY <1>6, <2>1 DEF Session
  <2>3. Exists(v)'
    BY <1>6 DEF Exists
  <2> QED
    BY <1>6, <1>11, <1>12, <2>2, <2>3 DEF Accounted
<1>15. ASSUME NEW w \in Visitor, w # v PROVE Accounted(w)'
  <2>1. Accounted(w)
    BY DEF Inv
  <2>2. SeenLast(w)' /\ Refused(w)'
    BY <1>4, <1>7, <1>15, <2>1 DEF Accounted, SeenLast, Refused
  <2>3. Exists(w)' <=> Exists(w)
    BY <1>7, <1>15 DEF Exists
  <2>4. ASSUME NEW s, Session(w, s) PROVE Session(w, s)'
    BY <1>7, <1>15, <2>4 DEF Session
  <2>5. Forgotten(w) => Forgotten(w)'
    BY <1>4, <1>7, <1>15 DEF Forgotten, Paused
  <2> QED
    BY <1>7, <1>15, <2>1, <2>2, <2>3, <2>4, <2>5 DEF Accounted
<1>16. LimitKept'
  <2>1. ASSUME NEW t \in Time PROVE During(g, t..t + Window) <= Rate
    <3>1. During(f, t..t + Window) <= Rate
      BY DEF Inv, LimitKept
    <3>2. \A u \in Time : (u > now => b[u] = 0) /\ g[u] <= b[u]
      BY <1>6, <1>11 DEF SeenLast
    <3> HIDE DEF a, b, f, g, ok, last
    <3>3. \A u \in Time : g[u] \in Nat /\ b[u] \in Nat
      BY <1>10
    <3>4. CASE now \notin t..t + Window
      <4>1. \A u \in Time : u \in t..t + Window /\ g[u] > 0
                              => u \in t..t + Window /\ g[u] <= f[u]
        BY <1>1, <1>8, <3>4
      <4>2. During(g, t..t + Window) <= During(f, t..t + Window)
        BY <1>1, <1>10, <4>1, DuringMonotone
      <4> QED
        BY <3>1, <4>2, DuringType
    <3>5. CASE now \in t..t + Window
      <4>1. PICK s \in 0..now :
              /\ During(g, s..now) <= Rate
              /\ \A u \in Time : s - Window <= u /\ u < s => b[u] = 0
        BY <1>13
      <4>2. \A u \in Time : u \in t..t + Window /\ g[u] > 0
                              => u \in s..now /\ g[u] <= g[u]
        <5> SUFFICES ASSUME NEW u \in Time, u \in t..t + Window, g[u] > 0
                     PROVE  u \in s..now
          BY <3>3
        <5>1. b[u] > 0 /\ u <= now /\ u \in Nat /\ t \in Nat
          BY <1>1, <3>2, <3>3
        <5>2. s - Window <= u
          BY <1>1, <3>5, <5>1
        <5> QED
          BY <1>1, <4>1, <5>1, <5>2
      <4>3. During(g, t..t + Window) <= During(g, s..now)
        BY <1>10, <4>2, DuringMonotone
      <4> QED
        BY <4>1, <4>3, DuringType
    <3> QED
      BY <3>4, <3>5
  <2> QED
    BY <1>7, <2>1 DEF LimitKept, Inv
<1> QED
  BY <1>9, <1>14, <1>15, <1>16 DEF Inv

\* Forgetting a visitor that has paused loses nothing.
LEMMA CleanupStep ==
    ASSUME Inv, Cleanup
    PROVE  Inv'
<1> USE LimiterConstants
<1>1. /\ \A v \in Visitor : count'[v] = IF Paused(v) THEN 0 ELSE count[v]
      /\ UNCHANGED <<now, lastSeen, verdict, asked, granted, refusals>>
  BY DEF Cleanup
<1>2. TypeOK'
  BY <1>1 DEF Inv, TypeOK, Cleanup
<1>3. LimitKept'
  BY <1>1 DEF Inv, LimitKept
<1>4. ASSUME NEW v \in Visitor PROVE Accounted(v)'
  <2>1. /\ Accounted(v) /\ now \in Nat /\ lastSeen[v] \in Nat
    BY DEF Inv, TypeOK, Time
  <2>2. SeenLast(v)'
    BY <1>1, <2>1 DEF Accounted, SeenLast
  <2>3. Paused(v)' <=> Paused(v)
    BY <1>1 DEF Paused
  <2>4. Refused(v)'
    BY <1>1, <2>1 DEF Accounted, Refused, Paused
  <2>5. CASE Paused(v)
    BY <1>1, <2>2, <2>3, <2>4, <2>5 DEF Accounted, Exists, Forgotten
  <2>6. CASE ~Paused(v)
    <3>1. count'[v] = count[v] /\ (Exists(v)' <=> Exists(v))
      BY <1>1, <2>6 DEF Exists
    <3>2. ASSUME NEW s, Session(v, s) PROVE Session(v, s)'
      BY <1>1, <3>1, <3>2 DEF Session
    <3>3. Forgotten(v) => Forgotten(v)'
      BY <1>1, <2>3 DEF Forgotten
    <3> QED
      BY <1>1, <2>1, <2>2, <2>4, <3>1, <3>2, <3>3 DEF Accounted
  <2> QED
    BY <2>5, <2>6
<1> QED
  BY <1>2, <1>3, <1>4 DEF Inv

\* Time passes and no session ends by it.
LEMMA TickStep ==
    ASSUME Inv, Tick
    PROVE  Inv'
<1> USE LimiterConstants
<1>1. /\ now' = now + 1 /\ now < Horizon /\ verdict' = [v \in Visitor |-> "none"]
      /\ UNCHANGED <<count, lastSeen, asked, granted, refusals>>
  BY DEF Tick
<1>2. TypeOK'
  BY <1>1 DEF Inv, TypeOK, Time
<1>3. LimitKept'
  BY <1>1 DEF Inv, LimitKept
<1>4. ASSUME NEW v \in Visitor PROVE Accounted(v)'
  <2>1. /\ Accounted(v) /\ now \in Nat /\ lastSeen[v] \in Nat
    BY DEF Inv, TypeOK, Time
  <2>2. SeenLast(v)' /\ Refused(v)'
    BY <1>1, <2>1 DEF Accounted, SeenLast, Refused
  <2>3. Exists(v)' <=> Exists(v)
    BY <1>1 DEF Exists
  <2>4. ASSUME NEW s, Session(v, s) PROVE Session(v, s)'
    BY <1>1, <2>4 DEF Session
  <2>5. Forgotten(v) => Forgotten(v)'
    BY <1>1, <2>1 DEF Forgotten, Paused
  <2> QED
    BY <1>1, <2>1, <2>2, <2>3, <2>4, <2>5 DEF Accounted
<1> QED
  BY <1>2, <1>3, <1>4 DEF Inv

-----------------------------------------------------------------------------
\* The counter of a visitor stands for the requests since its last pause.
THEOREM Invariance == Spec => []Inv
<1>1. Init => Inv
  BY InitInv
<1>2. Inv /\ [Next]_vars => Inv'
  <2> SUFFICES ASSUME Inv, [Next]_vars PROVE Inv'
    OBVIOUS
  <2>1. CASE UNCHANGED vars
    BY <2>1 DEF vars, Inv, TypeOK, LimitKept, Accounted, SeenLast, Refused,
                Exists, Session, Forgotten, Paused
  <2> QED
    BY <2>1, AllowStep, CleanupStep, TickStep DEF Next
<1> QED
  BY <1>1, <1>2, PTL DEF Spec

\* The state has its type: no counter or time leaves its range.
THEOREM TypeCorrect == Spec => []TypeOK
<1>1. Inv => TypeOK
  BY DEF Inv
<1> QED
  BY <1>1, Invariance, PTL

\* No interval as long as the window sees more than Rate allowed requests.
THEOREM LimitKeptHolds == Spec => []LimitKept
<1>1. Inv => LimitKept
  BY DEF Inv
<1> QED
  BY <1>1, Invariance, PTL

\* Who is refused has made more than Rate requests without a pause.
THEOREM RefusedOnlyUnpausedHolds == Spec => []RefusedOnlyUnpaused
<1>1. Inv => RefusedOnlyUnpaused
  <2> SUFFICES ASSUME Inv, NEW v \in Visitor, verdict[v] = "refused"
               PROVE  \E t \in 0..now :
                        /\ During(asked[v], t..now) > Rate
                        /\ \A i \in t..now - 1 : asked[v][i] > 0 =>
                             \E j \in i + 1..i + Window : j <= now /\ asked[v][j] > 0
    BY DEF RefusedOnlyUnpaused
  <2>1. Accounted(v) /\ count[v] \in Nat /\ Rate \in Nat
    BY LimiterConstants DEF Inv, TypeOK
  <2>2. lastSeen[v] = now /\ count[v] > Rate /\ Exists(v)
    BY <2>1 DEF Accounted, Refused, Exists
  <2>3. PICK s \in 0..now : Session(v, s)
    BY <2>1, <2>2 DEF Accounted
  <2>4. During(asked[v], s..now) >= count[v] /\ During(asked[v], s..now) \in Nat
    BY <2>2, <2>3, DuringType DEF Session
  <2>5. During(asked[v], s..now) > Rate
    BY <2>1, <2>2, <2>4
  <2>6. \A i \in s..now - 1 : asked[v][i] > 0 =>
          \E j \in i + 1..i + Window : j <= now /\ asked[v][j] > 0
    BY <2>2, <2>3 DEF Session
  <2> QED
    BY <2>5, <2>6
<1> QED
  BY <1>1, Invariance, PTL
=============================================================================
