-------------------------- MODULE PublishingProofs --------------------------
(* Proofs about Publishing, for any requests, webhooks, listeners, queues. *)
EXTENDS Publishing, FiniteSetTheorems, WellFoundedInduction, TLAPS

(***************************************************************************)
(* Counting messages.                                                      *)
(***************************************************************************)

\* Induction on a finite set: if a family of its subsets has the empty one,
\* and with each subset the one with one more element, it has them all.
LEMMA FiniteInduction ==
    ASSUME NEW S, IsFiniteSet(S), NEW G, {} \in G,
           \A U \in G, x \in S : U \cup {x} \in G
    PROVE  S \in G
<1> SUFFICES ASSUME S \notin G PROVE FALSE
  OBVIOUS
<1> DEFINE R == StrictSubsetOrdering(S)
           Bad == {U \in SUBSET S : U \notin G}
<1>1. IsWellFoundedOn(R, SUBSET S)
  BY FS_StrictSubsetOrderingWellFounded, FS_FiniteSubsetsOfFinite
<1>2. S \in Bad /\ Bad \subseteq SUBSET S
  OBVIOUS
<1>3. PICK U \in Bad : \A V \in Bad : ~ (<<V, U>> \in R)
  BY <1>1, <1>2, WFMin
<1>4. PICK x \in U : TRUE
  BY <1>3
<1>5. U \ {x} \in SUBSET S /\ U \ {x} # U /\ <<U \ {x}, U>> \in R
  BY <1>4 DEF StrictSubsetOrdering
<1>6. U \ {x} \in G
  BY <1>3, <1>5
<1>7. (U \ {x}) \cup {x} = U /\ x \in S
  BY <1>4
<1> QED
  BY <1>3, <1>6, <1>7

\* Pairs of finite sets.
LEMMA FiniteProduct ==
    ASSUME NEW A, IsFiniteSet(A), NEW B, IsFiniteSet(B)
    PROVE  IsFiniteSet(A \X B)
<1> DEFINE G == {U \in SUBSET A : IsFiniteSet(U \X B)}
<1>1. {} \in G
  <2>1. {} \X B = {}
    OBVIOUS
  <2> QED
    BY <2>1, FS_EmptySet
<1>2. ASSUME NEW U \in G, NEW x \in A PROVE U \cup {x} \in G
  <2>1. IsFiniteSet({x} \X B)
    <3> DEFINE f == [b \in B |-> <<x, b>>]
    <3>1. f \in [B -> {x} \X B]
      OBVIOUS
    <3>2. ASSUME NEW q \in {x} \X B PROVE \E b \in B : f[b] = q
      <4>1. PICK b \in B : q = <<x, b>>
        OBVIOUS
      <4> QED
        BY <4>1
    <3>3. f \in Surjection(B, {x} \X B)
      BY <3>1, <3>2 DEF Surjection
    <3> QED
      BY <3>3, FS_Surjection
  <2>2. (U \cup {x}) \X B = (U \X B) \cup ({x} \X B)
    OBVIOUS
  <2>3. U \cup {x} \in SUBSET A /\ IsFiniteSet(U \X B)
    OBVIOUS
  <2>4. IsFiniteSet((U \X B) \cup ({x} \X B))
    BY <2>1, <2>3, FS_Union
  <2> QED
    BY <2>2, <2>3, <2>4
<1> HIDE DEF G
<1>3. A \in G
  BY <1>1, <1>2, FiniteInduction
<1> QED
  BY <1>3 DEF G

\* As many pairs with one x as there are partners.
LEMMA PairsCount ==
    ASSUME NEW x, NEW B, IsFiniteSet(B)
    PROVE  IsFiniteSet({x} \X B) /\ Cardinality({x} \X B) = Cardinality(B)
<1> DEFINE f == [b \in B |-> <<x, b>>]
<1>1. f \in [B -> {x} \X B]
  OBVIOUS
<1>2. ASSUME NEW q \in {x} \X B PROVE \E b \in B : f[b] = q
  <2>1. PICK b \in B : q = <<x, b>>
    OBVIOUS
  <2> QED
    BY <2>1
<1>3. f \in Surjection(B, {x} \X B)
  BY <1>1, <1>2 DEF Surjection
<1>4. f \in Injection(B, {x} \X B)
  <2>1. \A a, b \in B : f[a] = f[b] => a = b
    OBVIOUS
  <2> QED
    BY <1>1, <2>1, Zenon DEF Injection, IsInjective
<1> QED
  BY <1>3, <1>4, FS_Surjection

\* The cardinality of a union of two sets without a common element.
LEMMA DisjointCount ==
    ASSUME NEW A, IsFiniteSet(A), NEW B, IsFiniteSet(B), A \cap B = {}
    PROVE  /\ IsFiniteSet(A \cup B)
           /\ Cardinality(A \cup B) = Cardinality(A) + Cardinality(B)
<1>1. Cardinality(A) \in Nat /\ Cardinality(B) \in Nat /\ Cardinality(A \cap B) = 0
  BY FS_CardinalityType, FS_EmptySet
<1>2. /\ IsFiniteSet(A \cup B)
      /\ Cardinality(A \cup B) = Cardinality(A) + Cardinality(B) - Cardinality(A \cap B)
  BY FS_Union
<1> QED
  BY <1>1, <1>2

\* Numbering one more message.
LEMMA OneMore == \A n \in Nat : 1..n + 1 = (1..n) \cup {n + 1}
OBVIOUS

\* The messages numbered by listener are finitely many.
LEMMA TallyFinite ==
    ASSUME NEW f \in [Listener -> Nat], NEW S \in SUBSET Listener
    PROVE  IsFiniteSet(Tally(f, S))
<1> DEFINE G == {U \in SUBSET S : IsFiniteSet(Tally(f, U))}
<1>1. {} \in G
  <2>1. Tally(f, {}) = {}
    BY DEF Tally
  <2> QED
    BY <2>1, FS_EmptySet
<1>2. ASSUME NEW U \in G, NEW l \in S PROVE U \cup {l} \in G
  <2>1. f[l] \in Nat
    OBVIOUS
  <2>2. IsFiniteSet(1..f[l])
    BY <2>1, FS_Interval
  <2>3. IsFiniteSet({l} \X (1..f[l]))
    BY <2>2, PairsCount
  <2>4. Tally(f, U \cup {l}) = Tally(f, U) \cup ({l} \X (1..f[l]))
    BY DEF Tally
  <2>5. U \cup {l} \in SUBSET S /\ IsFiniteSet(Tally(f, U))
    OBVIOUS
  <2>6. IsFiniteSet(Tally(f, U) \cup ({l} \X (1..f[l])))
    BY <2>3, <2>5, FS_Union
  <2> QED
    BY <2>4, <2>5, <2>6
<1>3. IsFiniteSet(S)
  BY PublishingConstants, FS_Subset
<1> HIDE DEF G
<1>4. S \in G
  BY <1>1, <1>2, <1>3, FiniteInduction
<1> QED
  BY <1>4 DEF G

\* One more message of listener l, in a tally over S.
LEMMA TallyAdds ==
    ASSUME NEW f \in [Listener -> Nat], NEW l \in Listener, NEW g,
           g[l] = f[l] + 1, \A k \in Listener \ {l} : g[k] = f[k],
           NEW S \in SUBSET Listener
    PROVE  /\ l \in S => Cardinality(Tally(g, S)) = Cardinality(Tally(f, S)) + 1
           /\ l \notin S => Tally(g, S) = Tally(f, S)
<1> DEFINE r == <<l, f[l] + 1>>
<1>1. f[l] \in Nat /\ 1..f[l] + 1 = (1..f[l]) \cup {f[l] + 1}
  <2>1. f[l] \in Nat
    OBVIOUS
  <2> QED
    BY <2>1, OneMore
<1>2. \A k \in S : 1..g[k] = IF k = l THEN (1..f[l]) \cup {f[l] + 1} ELSE 1..f[k]
  BY <1>1
<1>3. f[l] + 1 \notin 1..f[l]
  BY <1>1
<1>4. /\ \A x : x \in Tally(g, S) <=> \E k \in S : \E n \in 1..g[k] : x = <<k, n>>
      /\ \A x : x \in Tally(f, S) <=> \E k \in S : \E n \in 1..f[k] : x = <<k, n>>
  BY DEF Tally
<1>5. ASSUME l \in S PROVE Cardinality(Tally(g, S)) = Cardinality(Tally(f, S)) + 1
  <2>1. r \notin Tally(f, S)
    BY <1>3, <1>4
  <2>2. \A x : x \in Tally(g, S) <=> x \in Tally(f, S) \cup {r}
    <3>1. ASSUME NEW x, x \in Tally(g, S) PROVE x \in Tally(f, S) \cup {r}
      <4>1. PICK k \in S : \E n \in 1..g[k] : x = <<k, n>>
        BY <1>4, <3>1
      <4>2. PICK n \in 1..g[k] : x = <<k, n>>
        BY <4>1
      <4>3. CASE k = l /\ n = f[l] + 1
        BY <4>2, <4>3
      <4>4. CASE n \in 1..f[k]
        BY <1>4, <4>2, <4>4
      <4> QED
        BY <1>2, <4>2, <4>3, <4>4
    <3>2. ASSUME NEW x, x \in Tally(f, S) PROVE x \in Tally(g, S)
      <4>1. PICK k \in S : \E n \in 1..f[k] : x = <<k, n>>
        BY <1>4, <3>2
      <4>2. PICK n \in 1..f[k] : x = <<k, n>>
        BY <4>1
      <4>3. n \in 1..g[k]
        BY <1>2, <4>2
      <4> QED
        BY <1>4, <4>2, <4>3
    <3>3. r \in Tally(g, S)
      <4>1. f[l] + 1 \in 1..g[l]
        BY <1>2, <1>5
      <4> QED
        BY <1>4, <1>5, <4>1
    <3> QED
      BY <3>1, <3>2, <3>3
  <2>3. Tally(g, S) = Tally(f, S) \cup {r}
    BY <2>2
  <2> HIDE DEF r
  <2> QED
    BY <2>1, <2>3, TallyFinite, FS_AddElement
<1>6. ASSUME l \notin S PROVE Tally(g, S) = Tally(f, S)
  BY <1>2, <1>6 DEF Tally
<1> QED
  BY <1>5, <1>6

Limited == {p \in Pub : req[p] = "limited"}

\* Everything that the metrics count is finite.
LEMMA Finite ==
    ASSUME TypeOK
    PROVE  /\ IsFiniteSet(Past) /\ IsFiniteSet(Limited)
           /\ \A S : IsFiniteSet(Jobs(S))
           /\ \A P \in SUBSET Pub, S \in SUBSET Listener : IsFiniteSet(Given(P, S))
           /\ \A S \in SUBSET Listener : IsFiniteSet(Written(S)) /\ IsFiniteSet(Failed(S))
           /\ \A p \in Pub : IsFiniteSet(handed[p])
           /\ \A S \in SUBSET Listener : IsFiniteSet(S)
<1>1. IsFiniteSet(Pub) /\ IsFiniteSet(Id) /\ IsFiniteSet(Listener)
  BY PublishingConstants
<1>2. IsFiniteSet(Past) /\ IsFiniteSet(Limited)
  BY <1>1, FS_Subset DEF Past, Limited
<1>3. IsFiniteSet(Pub \X Id) /\ IsFiniteSet(Pub \X Listener)
  BY <1>1, FiniteProduct
<1>4. \A S : IsFiniteSet(Jobs(S))
  <2>1. \A S : Jobs(S) \in SUBSET (Pub \X Id)
    BY DEF Jobs
  <2> QED
    BY <1>3, <2>1, FS_Subset
<1>5. \A P \in SUBSET Pub, S \in SUBSET Listener : IsFiniteSet(Given(P, S))
  <2>1. \A P \in SUBSET Pub, S \in SUBSET Listener : Given(P, S) \in SUBSET (Pub \X Listener)
    BY DEF Given
  <2> QED
    BY <1>3, <2>1, FS_Subset
<1>6. \A S \in SUBSET Listener : IsFiniteSet(Written(S)) /\ IsFiniteSet(Failed(S))
  BY TallyFinite DEF TypeOK, Written, Failed
<1>7. \A p \in Pub : IsFiniteSet(handed[p])
  BY <1>1, FS_Subset DEF TypeOK
<1>8. \A S \in SUBSET Listener : IsFiniteSet(S)
  BY <1>1, FS_Subset
<1> QED
  BY <1>2, <1>4, <1>5, <1>6, <1>7, <1>8

(***************************************************************************)
(* The steps.                                                              *)
(***************************************************************************)

\* Registering and removing a webhook are SetHook, and the rest of Next is
\* what its actions are, or nothing that requests and webhooks see.
LEMMA NextCases ==
    ASSUME [Next]_vars
    PROVE  \/ \E p \in Pub : \/ Accept(p) \/ DeliverWs(p) \/ PanicWs(p) \/ DeliverSse(p)
                             \/ CountPublished(p) \/ Dispatch(p)
           \/ \E p \in Pub, limited \in BOOLEAN : Refuse(p, limited)
           \/ \E i \in Id, wh \in Webhook \cup {NoHook} :
                (wh # NoHook => wh.id = i) /\ SetHook(i, wh)
           \/ \E p \in Pub, i \in Id : Deliver(p, i)
           \/ \E l \in Member : WritePump(l)
           \/ \E l \in Subscriber : WriteSSE(l)
           \/ UNCHANGED <<req, count, queued, webhooks, jobs, metrics, history>>
<1>1. ASSUME NEW i \in Id, NEW f \in Filter, Register(i, f)
      PROVE  \E wh \in Webhook : wh.id = i /\ SetHook(i, wh)
  <2> DEFINE wh == [id |-> i, events |-> f.events, channel |-> f.channel]
  <2>1. wh \in Webhook /\ wh.id = i
    BY PublishingConstants DEF Webhook
  <2> QED
    BY <1>1, <2>1 DEF Register
<1>2. ASSUME NEW i \in Id, Unregister(i) PROVE SetHook(i, NoHook)
  BY <1>2 DEF Unregister
<1>3. ASSUME \/ Shutdown \/ ShutdownReturns \/ Exit \/ WriterWaits
             \/ \E l \in Member : TakeOver(l)
      PROVE  UNCHANGED <<req, count, queued, webhooks, jobs, metrics, history>>
  BY <1>3 DEF Shutdown, ShutdownReturns, Exit, WriterWaits, TakeOver
<1>4. ASSUME UNCHANGED vars
      PROVE  UNCHANGED <<req, count, queued, webhooks, jobs, metrics, history>>
  BY <1>4 DEF vars
<1>5. CASE \E p \in Pub : Request(p) \/ Serve(p)
  BY <1>5 DEF Request, Serve
<1>6. CASE \E i \in Id : Unregister(i) \/ \E f \in Filter : Register(i, f)
  BY <1>1, <1>2, <1>6
<1> QED
  BY <1>3, <1>4, <1>5, <1>6 DEF Next

\* The part of TypeOK about connections, the lock, the process and the bound.
ConnOK ==
    /\ up \in BOOLEAN /\ drain \in {"no", "waiting", "over"}
    /\ closed \subseteq Member /\ pumping \subseteq Member
    /\ lock \in {"free", "leaked", "stuck"}
    /\ changes \in 0..MaxChanges

\* Every step keeps that part.
LEMMA ConnStep ==
    ASSUME TypeOK, [Next]_vars
    PROVE  ConnOK'
<1>1. /\ up \in BOOLEAN /\ drain \in {"no", "waiting", "over"}
      /\ closed \subseteq Member /\ pumping \subseteq Member
      /\ lock \in {"free", "leaked", "stuck"} /\ changes \in 0..MaxChanges
  BY DEF TypeOK
<1>2. ASSUME Change PROVE changes' \in 0..MaxChanges
  BY <1>1, <1>2, PublishingConstants DEF Change
<1>3. ASSUME UNCHANGED <<up, drain>>, UNCHANGED changes \/ Change,
             closed' \subseteq Member, pumping' \subseteq Member,
             lock' \in {"free", "leaked", "stuck"}
      PROVE  ConnOK'
  <2>1. changes' \in 0..MaxChanges
    BY <1>1, <1>2, <1>3
  <2>2. up' \in BOOLEAN
    BY <1>1, <1>3
  <2> QED
    BY <1>1, <1>3, <2>1, <2>2 DEF ConnOK
<1>4. ASSUME UNCHANGED <<procVars, connVars>>, UNCHANGED changes \/ Change PROVE ConnOK'
  BY <1>1, <1>3, <1>4 DEF procVars, connVars
<1>5. CASE \E p \in Pub : Request(p) \/ Serve(p)
  <2>1. ASSUME NEW p \in Pub, PanicWs(p) PROVE ConnOK'
    BY <1>1, <1>3, <2>1 DEF PanicWs, procVars
  <2>2. ASSUME NEW p \in Pub, \/ Request(p) \/ DeliverWs(p) \/ DeliverSse(p)
                              \/ CountPublished(p) \/ Dispatch(p)
        PROVE  ConnOK'
    BY <1>4, <2>2 DEF Request, Accept, Refuse, DeliverWs, DeliverSse, CountPublished, Dispatch
  <2> QED
    BY <1>5, <2>1, <2>2 DEF Serve
<1>6. CASE \E i \in Id : Unregister(i) \/ \E f \in Filter : Register(i, f)
  BY <1>4, <1>6 DEF Unregister, Register, SetHook
<1>7. CASE \E p \in Pub, i \in Id : Deliver(p, i)
  BY <1>4, <1>7 DEF Deliver, DeliverStart, DeliverOk, DeliverFails, DeliverStep
<1>8. ASSUME NEW l \in Member, WritePump(l) PROVE ConnOK'
  BY <1>1, <1>3, <1>8 DEF WritePump, procVars
<1>9. ASSUME NEW l \in Member, TakeOver(l) PROVE ConnOK'
  BY <1>1, <1>3, <1>9 DEF TakeOver, procVars
<1>10. ASSUME NEW l \in Subscriber, WriteSSE(l) PROVE ConnOK'
  BY <1>1, <1>3, <1>10 DEF WriteSSE, procVars
<1>11. CASE WriterWaits
  BY <1>1, <1>3, <1>11 DEF WriterWaits, procVars
<1>12. CASE Shutdown \/ ShutdownReturns
  BY <1>1, <1>12 DEF ConnOK, Shutdown, ShutdownReturns, connVars
<1>13. CASE Exit
  <2>1. up' \in BOOLEAN /\ UNCHANGED <<drain, closed, pumping, lock, changes>>
    BY <1>13 DEF Exit, connVars
  <2> QED
    BY <1>1, <2>1 DEF ConnOK
<1>14. CASE UNCHANGED vars
  BY <1>4, <1>14 DEF vars
<1> QED
  BY <1>5, <1>6, <1>7, <1>8, <1>9, <1>10, <1>11, <1>12, <1>13, <1>14 DEF Next

\* Listeners that a request has not sent to yet, each with a place in its
\* queue, are handed the message and counted once.
LEMMA GiveEffect ==
    ASSUME TypeOK, Progress, NEW p \in Pub, NEW F \in SUBSET Listener,
           F \cap handed[p] = {}, \A l \in F : queued[l] < Cap, Give(p, F)
    PROVE  /\ queued' \in [Listener -> 0..Cap]
           /\ handed' \in [Pub -> SUBSET Listener]
           /\ IsFiniteSet(F)
           /\ count' = [count EXCEPT ![p] = @ + Cardinality(F)]
           /\ handed'[p] = handed[p] \cup F
           /\ Cardinality(handed'[p]) = count[p] + Cardinality(F)
           /\ \A q \in Pub \ {p} : handed'[q] = handed[q] /\ count'[q] = count[q]
<1>1. /\ count' = [count EXCEPT ![p] = @ + Cardinality(F)]
      /\ queued' = [l \in Listener |-> queued[l] + (IF l \in F THEN 1 ELSE 0)]
      /\ handed' = [handed EXCEPT ![p] = @ \cup F]
  BY DEF Give
<1>2. IsFiniteSet(F) /\ IsFiniteSet(handed[p])
  BY Finite
<1>3. queued' \in [Listener -> 0..Cap]
  BY <1>1, PublishingConstants DEF TypeOK
<1>4. handed' \in [Pub -> SUBSET Listener] /\ handed'[p] = handed[p] \cup F
  BY <1>1 DEF TypeOK
<1>5. Cardinality(handed'[p]) = count[p] + Cardinality(F)
  <2>1. Cardinality(handed[p] \cup F) = Cardinality(handed[p]) + Cardinality(F)
    BY <1>2, DisjointCount
  <2> QED
    BY <1>4, <2>1 DEF Progress
<1>6. \A q \in Pub \ {p} : handed'[q] = handed[q] /\ count'[q] = count[q]
  BY <1>1 DEF TypeOK
<1> QED
  BY <1>1, <1>2, <1>3, <1>4, <1>5, <1>6

\* What /publish does with the members of a room, in both ways it can end.
LEMMA WsCases ==
    ASSUME NEW p \in Pub, TypeOK, Progress, DeliverWs(p) \/ PanicWs(p)
    PROVE  \E F \in SUBSET Member, to \in {"ws", "panicked"} :
             /\ req[p] = "accepted" /\ req' = [req EXCEPT ![p] = to]
             /\ \A l \in F : queued[l] < Cap
             /\ Give(p, F) /\ Add("out", Cardinality(F))
             /\ UNCHANGED <<webhooks, jobs, wrote, failed, kept, had>>
<1>1. CASE DeliverWs(p)
  <2> DEFINE F == Free(p, Member)
  <2>1. F \in SUBSET Member /\ \A l \in F : queued[l] < Cap
    BY DEF Free, Of
  <2> HIDE DEF F
  <2>2. /\ req[p] = "accepted" /\ req' = [req EXCEPT ![p] = "ws"] /\ Give(p, F)
        /\ Add("out", count'[p]) /\ UNCHANGED <<webhooks, jobs, wrote, failed, kept, had>>
    BY <1>1 DEF DeliverWs, Hand, F
  <2>3. count[p] = 0
    BY <2>2, FS_EmptySet DEF Progress
  <2>4. count'[p] = Cardinality(F)
    <3>1. IsFiniteSet(F)
      BY <2>1, Finite DEF Listener
    <3> QED
      BY <2>2, <2>3, <3>1, FS_CardinalityType DEF Give, TypeOK
  <2> QED
    BY <2>1, <2>2, <2>4
<1>2. CASE PanicWs(p)
  <2>1. PICK F \in SUBSET Free(p, Member \ closed) : Give(p, F) /\ Add("out", Cardinality(F))
    BY <1>2 DEF PanicWs
  <2>2. F \in SUBSET Member /\ \A l \in F : queued[l] < Cap
    BY DEF Free, Of
  <2>3. /\ req[p] = "accepted" /\ req' = [req EXCEPT ![p] = "panicked"]
        /\ UNCHANGED <<webhooks, jobs, wrote, failed, kept, had>>
    BY <1>2 DEF PanicWs
  <2> QED
    BY <2>1, <2>2, <2>3
<1> QED
  BY <1>1, <1>2

\* The listeners of a set are never more than all of them.
LEMMA HandedCount ==
    ASSUME NEW S \in SUBSET Listener
    PROVE  Cardinality(S) \in 0..Cardinality(Listener)
<1>1. IsFiniteSet(Listener) /\ IsFiniteSet(S) /\ Cardinality(S) <= Cardinality(Listener)
  BY PublishingConstants, FS_Subset
<1> QED
  BY <1>1, FS_CardinalityType

\* A request makes a step and has handed its message to more, or nothing more.
LEMMA ServeProgress ==
    ASSUME TypeOK, Progress, NEW p \in Pub,
           \/ Accept(p) \/ DeliverWs(p) \/ PanicWs(p) \/ DeliverSse(p)
           \/ CountPublished(p) \/ \E limited \in BOOLEAN : Refuse(p, limited)
    PROVE  /\ Progress'
           /\ handed' \in [Pub -> SUBSET Listener]
           /\ queued' \in [Listener -> 0..Cap]
           /\ count' \in [Pub -> 0..Cardinality(Listener)]
           /\ req' \in [Pub -> {"idle"} \cup Serving \cup Ended]
<1> USE DEF Serving, Ended
<1>1. UNCHANGED jobs
  BY DEF Accept, DeliverWs, PanicWs, DeliverSse, CountPublished, Refuse
<1>2. \A q \in Pub \ {p} : req'[q] = req[q]
  BY DEF Accept, DeliverWs, PanicWs, DeliverSse, CountPublished, Refuse, TypeOK
<1>3. \A q \in Pub : /\ count[q] = Cardinality(handed[q]) /\ count[q] \in Nat
                     /\ handed[q] \in SUBSET Listener
  BY DEF Progress, TypeOK
<1>4. req' \in [Pub -> {"idle"} \cup Serving \cup Ended]
  BY DEF Accept, DeliverWs, PanicWs, DeliverSse, CountPublished, Refuse, TypeOK
<1>5. CASE Accept(p) \/ CountPublished(p) \/ \E limited \in BOOLEAN : Refuse(p, limited)
  <2>1. UNCHANGED <<count, queued, handed>>
    BY <1>5 DEF Accept, CountPublished, Refuse, history
  <2>2. /\ req'[p] # "ws" /\ req'[p] # "answered"
        /\ req'[p] = "counted" \/ handed[p] = {}
    BY <1>5 DEF Accept, CountPublished, Refuse, TypeOK, Progress
  <2>3. \A i \in Id : jobs[p][i] = NoJob
    BY <1>5 DEF Accept, CountPublished, Refuse, Progress
  <2>4. Progress'
    BY <1>1, <1>2, <2>1, <2>2, <2>3 DEF Progress
  <2> QED
    BY <1>4, <2>1, <2>4 DEF TypeOK
<1>6. ASSUME NEW F \in SUBSET Listener, F \cap handed[p] = {},
             \A l \in F : queued[l] < Cap, Give(p, F),
             req[p] # "answered", req'[p] \in {"ws", "sse", "panicked"},
             req'[p] = "ws" => F \subseteq Member /\ handed[p] = {}
      PROVE  /\ Progress' /\ handed' \in [Pub -> SUBSET Listener]
             /\ queued' \in [Listener -> 0..Cap]
             /\ count' \in [Pub -> 0..Cardinality(Listener)]
  <2>1. /\ queued' \in [Listener -> 0..Cap]
        /\ handed' \in [Pub -> SUBSET Listener]
        /\ \A q \in Pub \ {p} : handed'[q] = handed[q] /\ count'[q] = count[q]
    BY <1>6, GiveEffect
  <2>2. /\ count' = [count EXCEPT ![p] = @ + Cardinality(F)]
        /\ handed'[p] = handed[p] \cup F
        /\ Cardinality(handed'[p]) = count[p] + Cardinality(F)
    BY <1>6, GiveEffect
  <2>3. count'[p] = Cardinality(handed'[p])
    BY <2>2 DEF TypeOK
  <2>4. \A q \in Pub : count'[q] = Cardinality(handed'[q])
    BY <1>3, <2>1, <2>3
  <2>5. \A q \in Pub : count'[q] \in 0..Cardinality(Listener)
    BY <2>1, <2>4, HandedCount
  <2>6. count' \in [Pub -> 0..Cardinality(Listener)]
    BY <2>2, <2>5 DEF TypeOK
  <2>7. req'[p] = "ws" => handed'[p] \subseteq Member
    BY <1>6, <2>2
  <2>8. \A i \in Id : jobs[p][i] = NoJob
    BY <1>6 DEF Progress
  <2>9. Progress'
    BY <1>1, <1>2, <1>6, <2>1, <2>4, <2>7, <2>8 DEF Progress
  <2> QED
    BY <2>1, <2>6, <2>9
<1>7. CASE DeliverWs(p) \/ PanicWs(p)
  <2>1. PICK F \in SUBSET Member, to \in {"ws", "panicked"} :
          /\ req[p] = "accepted" /\ req' = [req EXCEPT ![p] = to]
          /\ \A l \in F : queued[l] < Cap
          /\ Give(p, F)
    BY <1>7, WsCases
  <2>2. handed[p] = {}
    BY <2>1 DEF Progress
  <2>3. req'[p] = to /\ F \in SUBSET Listener
    BY <2>1 DEF TypeOK, Listener
  <2> QED
    BY <1>4, <1>6, <2>1, <2>2, <2>3
<1>8. CASE DeliverSse(p)
  <2> DEFINE F == Free(p, Subscriber)
  <2>1. F \in SUBSET Subscriber /\ \A l \in F : queued[l] < Cap
    BY DEF Free, Of
  <2>2. req[p] = "ws" /\ req'[p] = "sse" /\ Give(p, F)
    BY <1>8 DEF DeliverSse, Hand, TypeOK
  <2> HIDE DEF F
  <2>3. F \cap handed[p] = {} /\ F \in SUBSET Listener
    BY <2>1, <2>2, PublishingConstants DEF Progress, Listener
  <2> QED
    BY <1>4, <1>6, <2>1, <2>2, <2>3
<1> QED
  BY <1>5, <1>7, <1>8

\* Every step keeps the types and the stages of the requests.
LEMMA TypeStep ==
    ASSUME TypeOK, Progress, HooksKept, [Next]_vars
    PROVE  TypeOK' /\ Progress'
<1> DEFINE Names == metrics \in [published: Nat, delivered: Nat, out: Nat, limited: Nat,
                                 attempts: Nat, failures: Nat]
<1>1. Names /\ \A p \in Pub : count[p] \in Nat
  BY DEF TypeOK
<1>2. Registered \in SUBSET Webhook
  BY DEF Registered, TypeOK
<1>c. ConnOK'
  BY ConnStep
<1>3. ASSUME NEW p \in Pub, \/ Accept(p) \/ DeliverWs(p) \/ PanicWs(p) \/ DeliverSse(p)
                            \/ CountPublished(p) \/ \E limited \in BOOLEAN : Refuse(p, limited)
      PROVE  TypeOK' /\ Progress'
  <2>1. /\ Progress'
        /\ handed' \in [Pub -> SUBSET Listener]
        /\ queued' \in [Listener -> 0..Cap]
        /\ count' \in [Pub -> 0..Cardinality(Listener)]
        /\ req' \in [Pub -> {"idle"} \cup Serving \cup Ended]
    BY <1>3, ServeProgress
  <2>2. UNCHANGED <<webhooks, jobs, wrote, failed>>
    BY <1>3 DEF Accept, DeliverWs, PanicWs, DeliverSse, CountPublished, Refuse, history
  <2>3. /\ kept' \in [Pub -> SUBSET Webhook] /\ had' \in [Pub -> SUBSET Webhook]
        /\ \A q \in Pub : kept'[q] \subseteq had'[q]
    <3>1. CASE Accept(p)
      BY <1>2, <3>1 DEF Accept, TypeOK
    <3>2. CASE UNCHANGED <<kept, had>>
      BY <3>2 DEF TypeOK
    <3> QED
      BY <1>3, <3>1, <3>2 DEF DeliverWs, PanicWs, DeliverSse, CountPublished, Refuse, history
  <2>4. Names'
    <3>1. CASE Accept(p) \/ DeliverSse(p)
      BY <1>1, <3>1 DEF Accept, DeliverSse
    <3>2. CASE DeliverWs(p) \/ PanicWs(p)
      <4>1. PICK F \in SUBSET Member : Add("out", Cardinality(F))
        BY <3>2, WsCases
      <4>2. Cardinality(F) \in Nat
        BY Finite, FS_CardinalityType DEF Listener
      <4> QED
        BY <1>1, <4>1, <4>2 DEF Add
    <3>3. CASE CountPublished(p)
      <4>1. metrics' = [metrics EXCEPT !.published = @ + 1, !.delivered = @ + count[p]]
        BY <3>3 DEF CountPublished
      <4>2. metrics.published + 1 \in Nat /\ metrics.delivered + count[p] \in Nat
        BY <1>1
      <4> QED
        BY <1>1, <4>1, <4>2
    <3>4. ASSUME NEW limited \in BOOLEAN, Refuse(p, limited) PROVE Names'
      <4>1. PICK n \in Nat : metrics' = [metrics EXCEPT !["limited"] = @ + n]
        BY <3>4 DEF Refuse, Add
      <4> QED
        BY <1>1, <4>1
    <3> QED
      BY <1>3, <3>1, <3>2, <3>3, <3>4
  <2> QED
    BY <1>c, <2>1, <2>2, <2>3, <2>4 DEF TypeOK, ConnOK
<1>4. ASSUME NEW p \in Pub, Dispatch(p) PROVE TypeOK' /\ Progress'
  <2> DEFINE hit(wh) == /\ wh # NoHook
                        /\ MatchesEvent(wh, Ask[p].event)
                        /\ wh.channel \in {AnyChannel, Ask[p].channel}
             new == [i \in Id |-> IF hit(webhooks[i])
                                  THEN [wh |-> webhooks[i], at |-> "spawned"]
                                  ELSE NoJob]
  <2>1. /\ req[p] = "counted" /\ req' = [req EXCEPT ![p] = "answered"]
        /\ jobs' = [jobs EXCEPT ![p] = new]
        /\ UNCHANGED <<count, queued, webhooks, metrics, handed, wrote, failed, kept, had>>
    BY <1>4 DEF Dispatch, history
  <2>2. new \in [Id -> Job \cup {NoJob}] /\ \A i \in Id : new[i] # NoJob => new[i].wh.id = i
    <3> HIDE DEF hit
    <3>1. \A i \in Id : hit(webhooks[i]) => webhooks[i] # NoHook
      BY DEF hit
    <3>2. \A i \in Id : hit(webhooks[i]) => /\ [wh |-> webhooks[i], at |-> "spawned"] \in Job
                                            /\ webhooks[i].id = i
      BY <3>1 DEF TypeOK, Job, HooksKept
    <3> QED
      BY <3>2
  <2> HIDE DEF new
  <2>3. jobs' \in [Pub -> [Id -> Job \cup {NoJob}]]
    BY <2>1, <2>2 DEF TypeOK
  <2>4. \A q \in Pub, i \in Id : jobs'[q][i] # NoJob => jobs'[q][i].wh.id = i
    BY <2>1, <2>2 DEF TypeOK
  <2>5. req' \in [Pub -> {"idle"} \cup Serving \cup Ended]
    BY <2>1 DEF TypeOK, Ended
  <2>6. Progress'
    BY <2>1 DEF Progress, TypeOK
  <2> QED
    BY <1>c, <2>1, <2>3, <2>4, <2>5, <2>6 DEF TypeOK, ConnOK
<1>5. ASSUME NEW i \in Id, NEW wh \in Webhook \cup {NoHook}, SetHook(i, wh)
      PROVE  TypeOK' /\ Progress'
  <2>1. /\ webhooks' = [webhooks EXCEPT ![i] = wh]
        /\ kept' = [p \in Pub |-> {w \in kept[p] : w.id # i}]
        /\ had' = [p \in Pub |-> IF req[p] \in Serving /\ wh # NoHook
                                 THEN had[p] \cup {wh} ELSE had[p]]
        /\ UNCHANGED <<req, count, queued, jobs, metrics, handed, wrote, failed>>
    BY <1>5 DEF SetHook
  <2>2. webhooks' \in [Id -> Webhook \cup {NoHook}]
    BY <2>1 DEF TypeOK
  <2>3. kept' \in [Pub -> SUBSET Webhook] /\ had' \in [Pub -> SUBSET Webhook]
    BY <2>1 DEF TypeOK
  <2>4. \A p \in Pub : kept'[p] \subseteq had'[p]
    BY <2>1 DEF TypeOK
  <2>5. Progress'
    BY <2>1 DEF Progress
  <2> QED
    BY <1>c, <2>1, <2>2, <2>3, <2>4, <2>5 DEF TypeOK, ConnOK
<1>6. ASSUME NEW p \in Pub, NEW i \in Id, Deliver(p, i) PROVE TypeOK' /\ Progress'
  <2>1. PICK from, to \in {"spawned", "sending", "ok", "failed"},
             counts \in {<<0, 0>>, <<0, 1>>, <<1, 0>>} :
             DeliverStep(p, i, from, to, counts)
    BY <1>6 DEF Deliver, DeliverStart, DeliverOk, DeliverFails
  <2>2. /\ jobs[p][i] # NoJob /\ jobs' = [jobs EXCEPT ![p][i].at = to]
        /\ metrics' = [metrics EXCEPT !.attempts = @ + counts[1],
                                      !.failures = @ + counts[2]]
        /\ UNCHANGED <<req, count, queued, webhooks, handed, wrote, failed, kept, had>>
    BY <2>1 DEF DeliverStep, history
  <2>3. jobs[p][i] \in Job
    BY <2>2 DEF TypeOK
  <2>4. [jobs[p][i] EXCEPT !.at = to] \in Job /\ [jobs[p][i] EXCEPT !.at = to].wh = jobs[p][i].wh
    BY <2>1, <2>3 DEF Job
  <2>5. jobs' \in [Pub -> [Id -> Job \cup {NoJob}]]
    BY <2>2, <2>4 DEF TypeOK
  <2>6. \A q \in Pub, j \in Id :
          jobs'[q][j] = IF q = p /\ j = i THEN [jobs[p][i] EXCEPT !.at = to] ELSE jobs[q][j]
    BY <2>2 DEF TypeOK
  <2>7. \A q \in Pub, j \in Id : jobs'[q][j] # NoJob => jobs'[q][j].wh.id = j
    BY <2>2, <2>4, <2>6 DEF TypeOK
  <2>8. Names'
    <3>1. counts[1] \in Nat /\ counts[2] \in Nat
      BY <2>1
    <3>2. metrics.attempts + counts[1] \in Nat /\ metrics.failures + counts[2] \in Nat
      BY <1>1, <3>1
    <3> QED
      BY <1>1, <2>2, <3>2
  <2>9. Progress'
    <3>1. req[p] = "answered"
      BY <2>2 DEF Progress
    <3> QED
      BY <2>2, <2>6, <3>1 DEF Progress
  <2> QED
    BY <1>c, <2>2, <2>5, <2>7, <2>8, <2>9 DEF TypeOK, ConnOK
<1>7. ASSUME NEW l \in Listener, queued[l] > 0, queued' = [queued EXCEPT ![l] = @ - 1],
             wrote' \in {wrote, [wrote EXCEPT ![l] = @ + 1]},
             failed' \in {failed, [failed EXCEPT ![l] = @ + 1]}, Names',
             UNCHANGED <<req, count, webhooks, jobs, handed, kept, had>>
      PROVE  TypeOK' /\ Progress'
  <2>1. queued' \in [Listener -> 0..Cap]
    BY <1>7, PublishingConstants DEF TypeOK
  <2>2. wrote' \in [Listener -> Nat] /\ failed' \in [Listener -> Nat]
    <3>1. \A f \in [Listener -> Nat] : [f EXCEPT ![l] = @ + 1] \in [Listener -> Nat]
      OBVIOUS
    <3>2. wrote \in [Listener -> Nat] /\ failed \in [Listener -> Nat]
      BY DEF TypeOK
    <3> QED
      BY <1>7, <3>1, <3>2
  <2>3. Progress'
    BY <1>7 DEF Progress
  <2> QED
    BY <1>c, <1>7, <2>1, <2>2, <2>3 DEF TypeOK, ConnOK
<1>8. ASSUME NEW l \in Member, WritePump(l) PROVE TypeOK' /\ Progress'
  <2>1. Names'
    BY <1>1, <1>8 DEF WritePump, Add
  <2>2. /\ l \in Listener /\ queued[l] > 0 /\ queued' = [queued EXCEPT ![l] = @ - 1]
        /\ wrote' \in {wrote, [wrote EXCEPT ![l] = @ + 1]}
        /\ UNCHANGED <<req, count, webhooks, jobs, handed, failed, kept, had>>
    BY <1>8 DEF WritePump, Listener
  <2> HIDE DEF Names
  <2> QED
    BY <1>7, <2>1, <2>2
<1>9. ASSUME NEW l \in Subscriber, WriteSSE(l) PROVE TypeOK' /\ Progress'
  <2>1. Names'
    BY <1>1, <1>9 DEF WriteSSE, Add
  <2>2. /\ l \in Listener /\ queued[l] > 0 /\ queued' = [queued EXCEPT ![l] = @ - 1]
        /\ wrote' \in {wrote, [wrote EXCEPT ![l] = @ + 1]}
        /\ failed' \in {failed, [failed EXCEPT ![l] = @ + 1]}
        /\ UNCHANGED <<req, count, webhooks, jobs, handed, kept, had>>
    BY <1>9 DEF WriteSSE, Listener
  <2> HIDE DEF Names
  <2> QED
    BY <1>7, <2>1, <2>2
<1>10. ASSUME UNCHANGED <<req, count, queued, webhooks, jobs, metrics, history>>
       PROVE  TypeOK' /\ Progress'
  <2>1. UNCHANGED <<req, count, queued, webhooks, jobs, metrics, handed, wrote, failed,
                    kept, had>>
    BY <1>10 DEF history
  <2>2. Progress'
    BY <2>1 DEF Progress
  <2> QED
    BY <1>c, <2>1, <2>2 DEF TypeOK, ConnOK
<1> QED
  BY <1>3, <1>4, <1>5, <1>6, <1>8, <1>9, <1>10, NextCases

\* matchesEvent and the channel are what Wants says.
LEMMA HitWants ==
    ASSUME NEW wh, NEW p \in Pub
    PROVE  /\ MatchesEvent(wh, Ask[p].event)
           /\ wh.channel \in {AnyChannel, Ask[p].channel}
           <=> Wants(wh, p)
BY DEF MatchesEvent, Wants

\* A step that leaves the webhooks and the deliveries alone, and with which
\* no request begins or is answered.
LEMMA HooksFrame ==
    ASSUME HooksKept, DispatchedRight, UNCHANGED <<webhooks, jobs, kept, had>>,
           \A p \in Pub : /\ req'[p] \in Serving => req[p] \in Serving
                          /\ req'[p] = "answered" => req[p] = "answered"
    PROVE  HooksKept' /\ DispatchedRight'
<1>1. Registered' = Registered
  BY DEF Registered
<1> QED
  BY <1>1 DEF HooksKept, DispatchedRight, Wants

\* Every step keeps the webhooks of the requests and their deliveries right.
LEMMA HooksStep ==
    ASSUME TypeOK, Progress, HooksKept, DispatchedRight, [Next]_vars
    PROVE  HooksKept' /\ DispatchedRight'
<1>1. ASSUME NEW p \in Pub, Accept(p) PROVE HooksKept' /\ DispatchedRight'
  <2>1. /\ req' = [req EXCEPT ![p] = "accepted"] /\ req[p] = "idle"
        /\ kept' = [kept EXCEPT ![p] = Registered]
        /\ had' = [had EXCEPT ![p] = Registered]
        /\ UNCHANGED <<webhooks, jobs>>
    BY <1>1 DEF Accept
  <2>2. Registered' = Registered
    BY <2>1 DEF Registered
  <2>3. \A q \in Pub : IF q = p THEN /\ req'[q] = "accepted"
                                     /\ kept'[q] = Registered /\ had'[q] = Registered
                                ELSE req'[q] = req[q] /\ kept'[q] = kept[q] /\ had'[q] = had[q]
    BY <2>1 DEF TypeOK
  <2>4. \A i \in Id : jobs[p][i] = NoJob
    BY <2>1 DEF Progress
  <2>5. HooksKept'
    BY <2>1, <2>2, <2>3 DEF HooksKept
  <2>6. DispatchedRight'
    BY <2>1, <2>3, <2>4 DEF DispatchedRight, Wants
  <2> QED
    BY <2>5, <2>6
<1>2. ASSUME NEW p \in Pub, \/ DeliverWs(p) \/ PanicWs(p) \/ DeliverSse(p) \/ CountPublished(p)
                            \/ \E limited \in BOOLEAN : Refuse(p, limited)
      PROVE  HooksKept' /\ DispatchedRight'
  <2>1. UNCHANGED <<webhooks, jobs, kept, had>>
    BY <1>2 DEF DeliverWs, PanicWs, DeliverSse, CountPublished, Refuse, history
  <2>2. \A q \in Pub : /\ req'[q] \in Serving => req[q] \in Serving
                       /\ req'[q] = "answered" => req[q] = "answered"
    BY <1>2 DEF DeliverWs, PanicWs, DeliverSse, CountPublished, Refuse, TypeOK, Serving
  <2> QED
    BY <2>1, <2>2, HooksFrame
<1>3. ASSUME NEW p \in Pub, Dispatch(p) PROVE HooksKept' /\ DispatchedRight'
  <2> DEFINE hit(wh) == /\ wh # NoHook
                        /\ MatchesEvent(wh, Ask[p].event)
                        /\ wh.channel \in {AnyChannel, Ask[p].channel}
             new == [i \in Id |-> IF hit(webhooks[i])
                                  THEN [wh |-> webhooks[i], at |-> "spawned"]
                                  ELSE NoJob]
  <2>1. /\ req[p] = "counted" /\ req' = [req EXCEPT ![p] = "answered"]
        /\ jobs' = [jobs EXCEPT ![p] = new]
        /\ UNCHANGED <<webhooks, kept, had>>
    BY <1>3 DEF Dispatch, history
  <2>2. ASSUME NEW i \in Id
        PROVE  IF webhooks[i] # NoHook /\ Wants(webhooks[i], p)
               THEN new[i] # NoJob /\ new[i].wh = webhooks[i] ELSE new[i] = NoJob
    <3>1. hit(webhooks[i]) <=> webhooks[i] # NoHook /\ Wants(webhooks[i], p)
      BY HitWants
    <3> HIDE DEF hit
    <3>2. webhooks[i] # NoHook => [wh |-> webhooks[i], at |-> "spawned"] \in Job
      BY DEF TypeOK, Job
    <3> QED
      BY <3>1, <3>2, PublishingConstants
  <2> HIDE DEF new
  <2>3. \A q \in Pub : IF q = p THEN req'[q] = "answered" /\ jobs'[q] = new
                                ELSE req'[q] = req[q] /\ jobs'[q] = jobs[q]
    BY <2>1 DEF TypeOK
  <2>4. kept[p] \subseteq Registered /\ Registered \subseteq had[p]
    BY <2>1 DEF HooksKept, Serving
  <2>5. ASSUME NEW i \in Id
        PROVE  /\ \A wh \in kept[p] : wh.id = i /\ Wants(wh, p) =>
                    new[i] # NoJob /\ new[i].wh = wh
               /\ new[i] # NoJob => new[i].wh \in had[p] /\ Wants(new[i].wh, p)
    <3>1. ASSUME NEW wh \in kept[p], wh.id = i PROVE webhooks[i] = wh /\ wh # NoHook
      <4>1. PICK j \in Id : wh = webhooks[j] /\ wh # NoHook
        BY <2>4 DEF Registered
      <4>2. wh.id = j
        BY <4>1 DEF HooksKept
      <4> QED
        BY <3>1, <4>1, <4>2
    <3>2. webhooks[i] # NoHook => webhooks[i] \in had[p]
      BY <2>4 DEF Registered
    <3> QED
      BY <2>2, <3>1, <3>2
  <2>6. HooksKept'
    <3>1. Registered' = Registered
      BY <2>1 DEF Registered
    <3> QED
      BY <2>1, <2>3, <3>1 DEF HooksKept, Serving
  <2>7. DispatchedRight'
    <3> SUFFICES ASSUME NEW q \in Pub, NEW i \in Id
                 PROVE  /\ req'[q] = "answered" =>
                             \A wh \in kept[q] : wh.id = i /\ Wants(wh, q) =>
                                 jobs'[q][i] # NoJob /\ jobs'[q][i].wh = wh
                        /\ jobs'[q][i] # NoJob => /\ jobs'[q][i].wh \in had[q]
                                                  /\ Wants(jobs'[q][i].wh, q)
      BY <2>1 DEF DispatchedRight, Wants
    <3>1. CASE q = p
      BY <2>3, <2>5, <3>1
    <3>2. CASE q # p
      BY <2>3, <3>2 DEF DispatchedRight
    <3> QED
      BY <3>1, <3>2
  <2> QED
    BY <2>6, <2>7
<1>4. ASSUME NEW i \in Id, NEW wh \in Webhook \cup {NoHook}, wh # NoHook => wh.id = i,
             SetHook(i, wh)
      PROVE  HooksKept' /\ DispatchedRight'
  <2>1. /\ webhooks' = [webhooks EXCEPT ![i] = wh]
        /\ kept' = [p \in Pub |-> {w \in kept[p] : w.id # i}]
        /\ had' = [p \in Pub |-> IF req[p] \in Serving /\ wh # NoHook
                                 THEN had[p] \cup {wh} ELSE had[p]]
        /\ UNCHANGED <<req, jobs>>
    BY <1>4 DEF SetHook
  <2>2. \A j \in Id : webhooks'[j] = IF j = i THEN wh ELSE webhooks[j]
    BY <2>1 DEF TypeOK
  <2>3. \A p \in Pub : /\ kept'[p] \subseteq kept[p] /\ \A w \in kept'[p] : w.id # i
                       /\ had[p] \subseteq had'[p]
                       /\ req[p] \in Serving /\ wh # NoHook => wh \in had'[p]
    BY <2>1
  <2>4. \A j \in Id : webhooks'[j] # NoHook => webhooks'[j].id = j
    BY <1>4, <2>2 DEF HooksKept
  <2>5. ASSUME NEW p \in Pub, req[p] \in Serving
        PROVE  kept'[p] \subseteq Registered' /\ Registered' \subseteq had'[p]
    <3>1. kept[p] \subseteq Registered /\ Registered \subseteq had[p]
      BY <2>5 DEF HooksKept
    <3>2. ASSUME NEW w \in kept'[p] PROVE w \in Registered'
      <4>1. PICK j \in Id : w = webhooks[j] /\ w # NoHook
        BY <2>3, <3>1 DEF Registered
      <4>2. w.id = j /\ w.id # i
        BY <2>3, <4>1 DEF HooksKept
      <4>3. webhooks'[j] = w
        BY <2>2, <4>1, <4>2
      <4> QED
        BY <4>1, <4>3 DEF Registered
    <3>3. ASSUME NEW w \in Registered' PROVE w \in had'[p]
      <4>1. PICK j \in Id : w = webhooks'[j] /\ w # NoHook
        BY DEF Registered
      <4>2. CASE j = i
        BY <2>2, <2>3, <2>5, <4>1, <4>2
      <4>3. CASE j # i
        BY <2>2, <2>3, <3>1, <4>1, <4>3 DEF Registered
      <4> QED
        BY <4>2, <4>3
    <3> QED
      BY <3>2, <3>3
  <2>6. HooksKept'
    BY <2>1, <2>4, <2>5 DEF HooksKept
  <2>7. DispatchedRight'
    BY <2>1, <2>3 DEF DispatchedRight, Wants
  <2> QED
    BY <2>6, <2>7
<1>5. ASSUME NEW p \in Pub, NEW i \in Id, Deliver(p, i) PROVE HooksKept' /\ DispatchedRight'
  <2>1. PICK to \in {"sending", "ok", "failed"} :
          /\ jobs[p][i] # NoJob /\ jobs' = [jobs EXCEPT ![p][i].at = to]
          /\ UNCHANGED <<req, webhooks, kept, had>>
    BY <1>5 DEF Deliver, DeliverStart, DeliverOk, DeliverFails, DeliverStep, history
  <2>2. jobs[p][i] \in Job
    BY <2>1 DEF TypeOK
  <2>3. [jobs[p][i] EXCEPT !.at = to] \in Job /\ [jobs[p][i] EXCEPT !.at = to].wh = jobs[p][i].wh
    BY <2>1, <2>2 DEF Job
  <2>4. \A q \in Pub, j \in Id :
          jobs'[q][j] = IF q = p /\ j = i THEN [jobs[p][i] EXCEPT !.at = to] ELSE jobs[q][j]
    BY <2>1 DEF TypeOK
  <2>5. \A q \in Pub, j \in Id : /\ jobs'[q][j] = NoJob <=> jobs[q][j] = NoJob
                                 /\ jobs[q][j] # NoJob => jobs'[q][j].wh = jobs[q][j].wh
    BY <2>1, <2>3, <2>4, PublishingConstants
  <2>6. HooksKept'
    <3>1. Registered' = Registered
      BY <2>1 DEF Registered
    <3> QED
      BY <2>1, <3>1 DEF HooksKept
  <2>7. DispatchedRight'
    BY <2>1, <2>5 DEF DispatchedRight, Wants
  <2> QED
    BY <2>6, <2>7
<1>6. ASSUME NEW l, WritePump(l) \/ WriteSSE(l) PROVE HooksKept' /\ DispatchedRight'
  <2>1. UNCHANGED <<req, webhooks, jobs, kept, had>>
    BY <1>6 DEF WritePump, WriteSSE
  <2> QED
    BY <2>1, HooksFrame
<1>7. ASSUME UNCHANGED <<req, count, queued, webhooks, jobs, metrics, history>>
      PROVE  HooksKept' /\ DispatchedRight'
  <2>1. UNCHANGED <<req, webhooks, jobs, kept, had>>
    BY <1>7 DEF history
  <2> QED
    BY <2>1, HooksFrame
<1> QED
  BY <1>1, <1>2, <1>3, <1>4, <1>5, <1>6, <1>7, NextCases

(***************************************************************************)
(* The metrics.                                                            *)
(***************************************************************************)

\* CountersExact with names for the sets.
LEMMA Counters ==
    CountersExact <=>
    /\ metrics.published = Cardinality(Past)
    /\ metrics.limited = Cardinality(Limited)
    /\ metrics.attempts = Cardinality(Jobs({"sending", "ok", "failed"}))
    /\ metrics.failures = Cardinality(Jobs({"failed"}))
    /\ metrics.out = Cardinality(Written(Member)) + Cardinality(Given(Pub, Member))
    /\ metrics.delivered = Cardinality(Written(Subscriber))
                           + Cardinality(Failed(Subscriber))
                           + Cardinality(Given(Past, Listener))
BY DEF CountersExact, Limited

\* A request gives its message to the listeners of F, and to no other.
LEMMA GivenAdds ==
    ASSUME NEW P, NEW S, NEW p \in P, NEW F \in SUBSET S,
           handed[p] \cap F = {}, handed'[p] = handed[p] \cup F, IsFiniteSet(F),
           \A q \in P \ {p} : handed'[q] = handed[q], IsFiniteSet(Given(P, S))
    PROVE  Cardinality(Given(P, S)') = Cardinality(Given(P, S)) + Cardinality(F)
<1>1. Given(P, S)' = {pl \in P \X S : pl[2] \in handed'[pl[1]]}
  BY DEF Given
<1>2. {pl \in P \X S : pl[2] \in handed'[pl[1]]} = Given(P, S) \cup ({p} \X F)
  <2>1. ASSUME NEW q \in P, NEW l \in S
        PROVE  l \in handed'[q] <=> l \in handed[q] \/ (q = p /\ l \in F)
    OBVIOUS
  <2> QED
    BY <2>1 DEF Given
<1>3. Given(P, S) \cap ({p} \X F) = {}
  BY DEF Given
<1>4. IsFiniteSet({p} \X F) /\ Cardinality({p} \X F) = Cardinality(F)
  BY PairsCount
<1> QED
  BY <1>1, <1>2, <1>3, <1>4, DisjointCount

\* Every step keeps the counters exact.
LEMMA CountersStep ==
    ASSUME TypeOK, Progress, CountersExact, [Next]_vars
    PROVE  CountersExact'
<1> USE DEF Serving, Ended
<1>1. /\ metrics \in [published: Nat, delivered: Nat, out: Nat, limited: Nat,
                      attempts: Nat, failures: Nat]
      /\ metrics.published = Cardinality(Past)
      /\ metrics.limited = Cardinality(Limited)
      /\ metrics.attempts = Cardinality(Jobs({"sending", "ok", "failed"}))
      /\ metrics.failures = Cardinality(Jobs({"failed"}))
      /\ metrics.out = Cardinality(Written(Member)) + Cardinality(Given(Pub, Member))
      /\ metrics.delivered = Cardinality(Written(Subscriber))
                             + Cardinality(Failed(Subscriber))
                             + Cardinality(Given(Past, Listener))
  BY Counters DEF TypeOK
<1>2. /\ Member \in SUBSET Listener /\ Subscriber \in SUBSET Listener
      /\ Past \in SUBSET Pub /\ Pub \in SUBSET Pub /\ Listener \in SUBSET Listener
  BY DEF Listener, Past
<1>3. /\ IsFiniteSet(Past) /\ IsFiniteSet(Limited) /\ \A S : IsFiniteSet(Jobs(S))
      /\ IsFiniteSet(Given(Pub, Member)) /\ IsFiniteSet(Given(Past, Listener))
      /\ IsFiniteSet(Written(Member)) /\ IsFiniteSet(Written(Subscriber))
      /\ IsFiniteSet(Failed(Subscriber)) /\ \A p \in Pub : IsFiniteSet(handed[p])
  BY <1>2, Finite
<1>4. /\ Cardinality(Past) \in Nat /\ Cardinality(Limited) \in Nat
      /\ \A S : Cardinality(Jobs(S)) \in Nat
      /\ Cardinality(Given(Pub, Member)) \in Nat
      /\ Cardinality(Given(Past, Listener)) \in Nat
      /\ Cardinality(Written(Member)) \in Nat /\ Cardinality(Written(Subscriber)) \in Nat
      /\ Cardinality(Failed(Subscriber)) \in Nat
  BY <1>3, FS_CardinalityType
<1> DEFINE Goal == /\ metrics'.published = Cardinality(Past')
                   /\ metrics'.limited = Cardinality(Limited')
                   /\ metrics'.attempts = Cardinality(Jobs({"sending", "ok", "failed"})')
                   /\ metrics'.failures = Cardinality(Jobs({"failed"})')
                   /\ metrics'.out = Cardinality(Written(Member)')
                                     + Cardinality(Given(Pub, Member)')
                   /\ metrics'.delivered = Cardinality(Written(Subscriber)')
                                           + Cardinality(Failed(Subscriber)')
                                           + Cardinality(Given(Past, Listener)')
<1>5. SUFFICES Goal
  BY DEF CountersExact, Limited
<1>6. ASSUME UNCHANGED <<metrics, jobs, handed, wrote, failed>>, Past' = Past, Limited' = Limited
      PROVE  Goal
  <2>1. /\ \A S : Jobs(S)' = Jobs(S)
        /\ \A S : Written(S)' = Written(S) /\ Failed(S)' = Failed(S)
        /\ Given(Pub, Member)' = Given(Pub, Member)
        /\ Given(Past, Listener)' = Given(Past, Listener)
    BY <1>6 DEF Jobs, Written, Failed, Tally, Given
  <2> QED
    BY <1>1, <1>6, <2>1
<1>7. ASSUME NEW p \in Pub, Accept(p) PROVE Goal
  <2>1. UNCHANGED <<metrics, jobs, handed, wrote, failed>>
    BY <1>7 DEF Accept
  <2>2. Past' = Past /\ Limited' = Limited
    BY <1>7 DEF Accept, TypeOK, Past, Limited
  <2> QED
    BY <1>6, <2>1, <2>2
<1>8. ASSUME NEW p \in Pub, Dispatch(p) PROVE Goal
  <2>1. UNCHANGED <<metrics, handed, wrote, failed>>
    BY <1>8 DEF Dispatch, history
  <2>2. Past' = Past /\ Limited' = Limited
    BY <1>8 DEF Dispatch, TypeOK, Past, Limited
  <2>3. \A i \in Id : jobs[p][i] = NoJob
    BY <1>8 DEF Dispatch, Progress
  <2>4. \A i \in Id : jobs'[p][i] # NoJob => jobs'[p][i].at = "spawned"
    BY <1>8 DEF Dispatch, TypeOK
  <2>5. \A q \in Pub \ {p} : jobs'[q] = jobs[q]
    BY <1>8 DEF Dispatch, TypeOK
  <2>6. \A S : "spawned" \notin S => Jobs(S)' = Jobs(S)
    BY <2>3, <2>4, <2>5 DEF Jobs
  <2>7. /\ Jobs({"sending", "ok", "failed"})' = Jobs({"sending", "ok", "failed"})
        /\ Jobs({"failed"})' = Jobs({"failed"})
    BY <2>6
  <2>8. /\ \A S : Written(S)' = Written(S) /\ Failed(S)' = Failed(S)
        /\ Given(Pub, Member)' = Given(Pub, Member)
        /\ Given(Past, Listener)' = Given(Past, Listener)
    BY <2>1, <2>2 DEF Written, Failed, Tally, Given
  <2> QED
    BY <1>1, <2>1, <2>2, <2>7, <2>8
<1>9. ASSUME NEW i, NEW wh, SetHook(i, wh) PROVE Goal
  <2>1. UNCHANGED <<metrics, jobs, handed, wrote, failed, req>>
    BY <1>9 DEF SetHook
  <2>2. Past' = Past /\ Limited' = Limited
    BY <2>1 DEF Past, Limited
  <2> QED
    BY <1>6, <2>1, <2>2
<1>10. ASSUME UNCHANGED <<req, count, queued, webhooks, jobs, metrics, history>>
       PROVE  Goal
  <2>1. UNCHANGED <<metrics, jobs, handed, wrote, failed, req>>
    BY <1>10 DEF history
  <2>2. Past' = Past /\ Limited' = Limited
    BY <2>1 DEF Past, Limited
  <2> QED
    BY <1>6, <2>1, <2>2
<1>11. ASSUME NEW p \in Pub, NEW limited \in BOOLEAN, Refuse(p, limited) PROVE Goal
  <2>1. /\ req[p] = "idle" /\ UNCHANGED <<jobs, handed, wrote, failed>>
        /\ req' = [req EXCEPT ![p] = IF limited THEN "limited" ELSE "refused"]
        /\ metrics' = [metrics EXCEPT !["limited"] = @ + (IF limited THEN 1 ELSE 0)]
    BY <1>11 DEF Refuse, history, Add
  <2>2. Past' = Past
    BY <2>1 DEF TypeOK, Past
  <2>3. /\ \A S : Jobs(S)' = Jobs(S)
        /\ \A S : Written(S)' = Written(S) /\ Failed(S)' = Failed(S)
        /\ Given(Pub, Member)' = Given(Pub, Member)
        /\ Given(Past, Listener)' = Given(Past, Listener)
    BY <2>1, <2>2 DEF Jobs, Written, Failed, Tally, Given
  <2>4. CASE limited
    <3>1. Limited' = Limited \cup {p} /\ p \notin Limited
      BY <2>1, <2>4 DEF TypeOK, Limited
    <3>2. Cardinality(Limited') = Cardinality(Limited) + 1
      BY <1>3, <3>1, FS_AddElement
    <3>3. metrics' = [metrics EXCEPT !["limited"] = @ + 1]
      BY <2>1, <2>4
    <3> QED
      BY <1>1, <2>2, <2>3, <3>2, <3>3
  <2>5. CASE ~limited
    <3>1. Limited' = Limited
      BY <2>1, <2>5 DEF TypeOK, Limited
    <3>2. metrics' = [metrics EXCEPT !["limited"] = @ + 0]
      BY <2>1, <2>5
    <3> QED
      BY <1>1, <1>4, <2>2, <2>3, <3>1, <3>2
  <2> QED
    BY <2>4, <2>5
<1>12. ASSUME NEW p \in Pub, DeliverWs(p) \/ PanicWs(p) PROVE Goal
  <2>1. PICK F \in SUBSET Member, to \in {"ws", "panicked"} :
          /\ req[p] = "accepted" /\ req' = [req EXCEPT ![p] = to]
          /\ \A l \in F : queued[l] < Cap
          /\ Give(p, F) /\ Add("out", Cardinality(F))
          /\ UNCHANGED <<webhooks, jobs, wrote, failed, kept, had>>
    BY <1>12, WsCases
  <2>2. handed[p] = {} /\ F \in SUBSET Listener
    BY <1>2, <2>1 DEF Progress
  <2>3. /\ IsFiniteSet(F) /\ handed'[p] = handed[p] \cup F
        /\ \A q \in Pub \ {p} : handed'[q] = handed[q]
    BY <2>1, <2>2, GiveEffect
  <2>4. Cardinality(F) \in Nat
    BY <2>3, FS_CardinalityType
  <2>5. metrics' = [metrics EXCEPT !["out"] = @ + Cardinality(F)]
    BY <2>1 DEF Add
  <2>6. Cardinality(Given(Pub, Member)') = Cardinality(Given(Pub, Member)) + Cardinality(F)
    BY <1>3, <2>2, <2>3, GivenAdds
  <2>7. Past' = Past /\ Limited' = Limited /\ p \notin Past
    BY <2>1 DEF TypeOK, Past, Limited
  <2>8. Given(Past, Listener)' = Given(Past, Listener)
    BY <1>2, <2>3, <2>7 DEF Given
  <2>9. \A S : Jobs(S)' = Jobs(S) /\ Written(S)' = Written(S) /\ Failed(S)' = Failed(S)
    BY <2>1 DEF Jobs, Written, Failed, Tally
  <2> QED
    BY <1>1, <1>4, <2>4, <2>5, <2>6, <2>7, <2>8, <2>9
<1>13. ASSUME NEW p \in Pub, DeliverSse(p) PROVE Goal
  <2> DEFINE F == Free(p, Subscriber)
  <2>1. /\ req[p] = "ws" /\ req' = [req EXCEPT ![p] = "sse"] /\ Give(p, F)
        /\ UNCHANGED <<jobs, wrote, failed, metrics>>
    BY <1>13 DEF DeliverSse, Hand
  <2>2. F \in SUBSET Subscriber /\ \A l \in F : queued[l] < Cap
    BY DEF Free, Of
  <2> HIDE DEF F
  <2>3. F \cap handed[p] = {} /\ F \in SUBSET Listener
    BY <2>1, <2>2, PublishingConstants DEF Progress, Listener
  <2>4. handed'[p] = handed[p] \cup F /\ \A q \in Pub \ {p} : handed'[q] = handed[q]
    BY <2>1, <2>2, <2>3, GiveEffect
  <2>5. Past' = Past /\ Limited' = Limited /\ p \notin Past
    BY <2>1 DEF TypeOK, Past, Limited
  <2>6. Given(Past, Listener)' = Given(Past, Listener)
    BY <1>2, <2>4, <2>5 DEF Given
  <2>7. Given(Pub, Member)' = Given(Pub, Member)
    <3>1. \A q \in Pub, l \in Member : l \in handed'[q] <=> l \in handed[q]
      BY <2>2, <2>4, PublishingConstants
    <3> QED
      BY <3>1 DEF Given
  <2>8. \A S : Jobs(S)' = Jobs(S) /\ Written(S)' = Written(S) /\ Failed(S)' = Failed(S)
    BY <2>1 DEF Jobs, Written, Failed, Tally
  <2> QED
    BY <1>1, <2>1, <2>5, <2>6, <2>7, <2>8
<1>14. ASSUME NEW p \in Pub, CountPublished(p) PROVE Goal
  <2>1. /\ req[p] = "sse" /\ req' = [req EXCEPT ![p] = "counted"]
        /\ metrics' = [metrics EXCEPT !.published = @ + 1, !.delivered = @ + count[p]]
        /\ UNCHANGED <<jobs, handed, wrote, failed>>
    BY <1>14 DEF CountPublished, history
  <2>2. Past' = Past \cup {p} /\ p \notin Past /\ Limited' = Limited
    BY <2>1 DEF TypeOK, Past, Limited
  <2>3. Cardinality(Past') = Cardinality(Past) + 1
    BY <1>3, <2>2, FS_AddElement
  <2>4. Given(Past, Listener)' = Given(Past, Listener) \cup ({p} \X handed[p])
    <3>1. handed[p] \subseteq Listener
      BY DEF TypeOK
    <3>2. Given(Past, Listener)' = {pl \in (Past \cup {p}) \X Listener : pl[2] \in handed[pl[1]]}
      BY <2>1, <2>2 DEF Given
    <3> QED
      BY <3>1, <3>2 DEF Given
  <2>5. Given(Past, Listener) \cap ({p} \X handed[p]) = {}
    BY <2>2 DEF Given
  <2>6. /\ IsFiniteSet({p} \X handed[p])
        /\ Cardinality({p} \X handed[p]) = Cardinality(handed[p])
    BY <1>3, PairsCount
  <2>7. Cardinality(Given(Past, Listener)') = Cardinality(Given(Past, Listener)) + count[p]
    <3>1. Cardinality(Given(Past, Listener) \cup ({p} \X handed[p]))
            = Cardinality(Given(Past, Listener)) + Cardinality({p} \X handed[p])
      BY <1>3, <2>5, <2>6, DisjointCount
    <3> QED
      BY <2>4, <2>6, <3>1 DEF Progress
  <2>8. /\ Given(Pub, Member)' = Given(Pub, Member)
        /\ \A S : Jobs(S)' = Jobs(S) /\ Written(S)' = Written(S) /\ Failed(S)' = Failed(S)
    BY <2>1 DEF Given, Jobs, Written, Failed, Tally
  <2>9. count[p] \in Nat
    BY DEF TypeOK
  <2>10. /\ metrics'.published = metrics.published + 1
         /\ metrics'.delivered = metrics.delivered + count[p]
         /\ metrics'.limited = metrics.limited /\ metrics'.attempts = metrics.attempts
         /\ metrics'.failures = metrics.failures /\ metrics'.out = metrics.out
    BY <1>1, <2>1
  <2> QED
    BY <1>1, <1>4, <2>2, <2>3, <2>7, <2>8, <2>9, <2>10
<1>15. ASSUME NEW p \in Pub, NEW i \in Id, Deliver(p, i) PROVE Goal
  <2> DEFINE J == Jobs({"sending", "ok", "failed"})
             K == Jobs({"failed"})
             pi == <<p, i>>
  <2>1. PICK from, to \in {"spawned", "sending", "ok", "failed"},
             counts \in {<<0, 0>>, <<0, 1>>, <<1, 0>>} :
             /\ DeliverStep(p, i, from, to, counts)
             /\ \/ from = "spawned" /\ to = "sending" /\ counts = <<1, 0>>
                \/ from = "sending" /\ to = "ok" /\ counts = <<0, 0>>
                \/ from = "sending" /\ to = "failed" /\ counts = <<0, 1>>
    BY <1>15 DEF Deliver, DeliverStart, DeliverOk, DeliverFails
  <2>2. /\ jobs[p][i] # NoJob /\ jobs[p][i].at = from
        /\ jobs' = [jobs EXCEPT ![p][i].at = to]
        /\ metrics' = [metrics EXCEPT !.attempts = @ + counts[1],
                                      !.failures = @ + counts[2]]
        /\ UNCHANGED <<req, handed, wrote, failed>>
    BY <2>1 DEF DeliverStep, history
  <2>3. jobs[p][i] \in Job
    BY <2>2 DEF TypeOK
  <2>4. [jobs[p][i] EXCEPT !.at = to] \in Job /\ [jobs[p][i] EXCEPT !.at = to].at = to
    BY <2>1, <2>3 DEF Job
  <2>5. \A q \in Pub, j \in Id :
          jobs'[q][j] = IF q = p /\ j = i THEN [jobs[p][i] EXCEPT !.at = to] ELSE jobs[q][j]
    BY <2>2 DEF TypeOK
  <2>6. jobs'[p][i] # NoJob /\ jobs'[p][i].at = to
    BY <2>4, <2>5, PublishingConstants
  <2>7. ASSUME NEW S
        PROVE  Jobs(S)' = (Jobs(S) \ {pi}) \cup (IF to \in S THEN {pi} ELSE {})
    BY <2>5, <2>6 DEF Jobs
  <2>8. \A S : pi \in Jobs(S) <=> from \in S
    BY <2>2 DEF Jobs
  <2> HIDE DEF pi
  <2>9. /\ Cardinality(J') = Cardinality(J) + counts[1]
        /\ Cardinality(K') = Cardinality(K) + counts[2]
    <3>1. CASE from = "spawned" /\ to = "sending" /\ counts = <<1, 0>>
      <4>1. J' = J \cup {pi} /\ pi \notin J /\ K' = K
        BY <2>7, <2>8, <3>1
      <4>2. Cardinality(J') = Cardinality(J) + 1
        BY <1>3, <4>1, FS_AddElement
      <4> QED
        BY <1>4, <3>1, <4>1, <4>2
    <3>2. CASE from = "sending" /\ to = "ok" /\ counts = <<0, 0>>
      <4>1. J' = J /\ K' = K
        BY <2>7, <2>8, <3>2
      <4> QED
        BY <1>4, <3>2, <4>1
    <3>3. CASE from = "sending" /\ to = "failed" /\ counts = <<0, 1>>
      <4>1. J' = J /\ K' = K \cup {pi} /\ pi \notin K
        BY <2>7, <2>8, <3>3
      <4>2. Cardinality(K') = Cardinality(K) + 1
        BY <1>3, <4>1, FS_AddElement
      <4> QED
        BY <1>4, <3>3, <4>1, <4>2
    <3> QED
      BY <2>1, <3>1, <3>2, <3>3
  <2>10. Past' = Past /\ Limited' = Limited
    BY <2>2 DEF Past, Limited
  <2>11. /\ \A S : Written(S)' = Written(S) /\ Failed(S)' = Failed(S)
        /\ Given(Pub, Member)' = Given(Pub, Member)
         /\ Given(Past, Listener)' = Given(Past, Listener)
    BY <2>2, <2>10 DEF Written, Failed, Tally, Given
  <2>12. counts[1] \in Nat /\ counts[2] \in Nat
    BY <2>1
  <2>13. /\ metrics'.attempts = metrics.attempts + counts[1]
         /\ metrics'.failures = metrics.failures + counts[2]
         /\ metrics'.published = metrics.published /\ metrics'.out = metrics.out
         /\ metrics'.limited = metrics.limited /\ metrics'.delivered = metrics.delivered
    BY <1>1, <2>2
  <2> QED
    BY <1>1, <2>9, <2>10, <2>11, <2>13
<1>16. ASSUME UNCHANGED <<req, jobs, handed>>
       PROVE  /\ Past' = Past /\ Limited' = Limited /\ \A S : Jobs(S)' = Jobs(S)
              /\ Given(Pub, Member)' = Given(Pub, Member)
              /\ Given(Past, Listener)' = Given(Past, Listener)
  <2>1. Past' = Past /\ Limited' = Limited
    BY <1>16 DEF Past, Limited
  <2> QED
    BY <1>16, <2>1 DEF Jobs, Given
<1>17. /\ wrote \in [Listener -> Nat] /\ failed \in [Listener -> Nat]
       /\ \A S : Written(S)' = Tally(wrote', S) /\ Failed(S)' = Tally(failed', S)
       /\ \A S : Written(S) = Tally(wrote, S) /\ Failed(S) = Tally(failed, S)
  BY DEF TypeOK, Written, Failed, Tally
<1>18. ASSUME NEW l \in Member, WritePump(l) PROVE Goal
  <2>1. l \in Listener /\ l \notin Subscriber /\ UNCHANGED <<req, jobs, handed, failed>>
    BY <1>2, <1>18, PublishingConstants DEF WritePump
  <2>2. Failed(Subscriber)' = Failed(Subscriber)
    BY <1>17, <2>1
  <2>3. CASE wrote' = [wrote EXCEPT ![l] = @ + 1] /\ metrics' = [metrics EXCEPT !["out"] = @ + 1]
    <3>a. ASSUME NEW S \in SUBSET Listener
          PROVE  /\ l \in S => Cardinality(Tally(wrote', S)) = Cardinality(Tally(wrote, S)) + 1
                 /\ l \notin S => Tally(wrote', S) = Tally(wrote, S)
      <4>1. wrote \in [Listener -> Nat] /\ l \in Listener
        BY <1>17, <2>1
      <4>2. wrote'[l] = wrote[l] + 1 /\ \A k \in Listener \ {l} : wrote'[k] = wrote[k]
        BY <4>1, <2>3
      <4> QED
        BY <4>1, <4>2, TallyAdds
    <3>1. /\ Cardinality(Written(Member)') = Cardinality(Written(Member)) + 1
          /\ Written(Subscriber)' = Written(Subscriber)
      BY <1>2, <1>17, <2>1, <3>a
    <3> QED
      BY <1>1, <1>4, <1>16, <2>1, <2>2, <2>3, <3>1
  <2>4. CASE UNCHANGED <<wrote, metrics>>
    <3>1. \A S : Written(S)' = Written(S)
      BY <1>17, <2>4
    <3> QED
      BY <1>1, <1>16, <2>1, <2>2, <2>4, <3>1
  <2> QED
    BY <1>18, <2>3, <2>4 DEF WritePump, Add
<1>19. ASSUME NEW l \in Subscriber, WriteSSE(l) PROVE Goal
  <2>1. /\ l \in Listener /\ l \notin Member /\ UNCHANGED <<req, jobs, handed>>
        /\ metrics' = [metrics EXCEPT !["delivered"] = @ + 1]
    BY <1>2, <1>19, PublishingConstants DEF WriteSSE, Add
  <2>2. CASE wrote' = [wrote EXCEPT ![l] = @ + 1] /\ UNCHANGED failed
    <3>a. ASSUME NEW S \in SUBSET Listener
          PROVE  /\ l \in S => Cardinality(Tally(wrote', S)) = Cardinality(Tally(wrote, S)) + 1
                 /\ l \notin S => Tally(wrote', S) = Tally(wrote, S)
      <4>1. wrote \in [Listener -> Nat] /\ l \in Listener
        BY <1>17, <2>1
      <4>2. wrote'[l] = wrote[l] + 1 /\ \A k \in Listener \ {l} : wrote'[k] = wrote[k]
        BY <4>1, <2>2
      <4> QED
        BY <4>1, <4>2, TallyAdds
    <3>1. /\ Cardinality(Written(Subscriber)') = Cardinality(Written(Subscriber)) + 1
          /\ Written(Member)' = Written(Member)
      BY <1>2, <1>17, <2>1, <3>a
    <3>2. Failed(Subscriber)' = Failed(Subscriber)
      BY <1>17, <2>2
    <3> QED
      BY <1>1, <1>4, <1>16, <2>1, <3>1, <3>2
  <2>3. CASE failed' = [failed EXCEPT ![l] = @ + 1] /\ UNCHANGED wrote
    <3>a. ASSUME NEW S \in SUBSET Listener
          PROVE  /\ l \in S => Cardinality(Tally(failed', S)) = Cardinality(Tally(failed, S)) + 1
                 /\ l \notin S => Tally(failed', S) = Tally(failed, S)
      <4>1. failed \in [Listener -> Nat] /\ l \in Listener
        BY <1>17, <2>1
      <4>2. failed'[l] = failed[l] + 1 /\ \A k \in Listener \ {l} : failed'[k] = failed[k]
        BY <4>1, <2>3
      <4> QED
        BY <4>1, <4>2, TallyAdds
    <3>1. Cardinality(Failed(Subscriber)') = Cardinality(Failed(Subscriber)) + 1
      BY <1>2, <1>17, <2>1, <3>a
    <3>2. \A S : Written(S)' = Written(S)
      BY <1>17, <2>3
    <3> QED
      BY <1>1, <1>4, <1>16, <2>1, <3>1, <3>2
  <2> QED
    BY <1>19, <2>2, <2>3 DEF WriteSSE
<1> HIDE DEF Goal
<1> QED
  BY <1>7, <1>8, <1>9, <1>10, <1>11, <1>12, <1>13, <1>14, <1>15,
     <1>18, <1>19, NextCases

-----------------------------------------------------------------------------
\* Nothing has been asked for, counted or registered.
LEMMA InitInv == Init => Inv
<1> SUFFICES ASSUME Init PROVE Inv
  OBVIOUS
<1>1. Cardinality({}) = 0
  BY FS_EmptySet
<1>2. TypeOK
  <2>1. Cardinality(Listener) \in Nat /\ Cap \in Nat /\ MaxChanges \in Nat
    BY PublishingConstants, FS_CardinalityType
  <2>2. req \in [Pub -> {"idle"} \cup Serving \cup Ended]
    BY DEF Init
  <2>3. /\ count \in [Pub -> 0..Cardinality(Listener)] /\ queued \in [Listener -> 0..Cap]
        /\ changes \in 0..MaxChanges
        /\ wrote \in [Listener -> Nat] /\ failed \in [Listener -> Nat]
    BY <2>1 DEF Init
  <2>4. /\ webhooks \in [Id -> Webhook \cup {NoHook}]
        /\ jobs \in [Pub -> [Id -> Job \cup {NoJob}]]
        /\ \A p \in Pub, i \in Id : jobs[p][i] = NoJob
    BY DEF Init
  <2>5. /\ handed \in [Pub -> SUBSET Listener] /\ kept \in [Pub -> SUBSET Webhook]
        /\ had \in [Pub -> SUBSET Webhook] /\ \A p \in Pub : kept[p] \subseteq had[p]
    BY DEF Init
  <2>6. metrics \in [published: Nat, delivered: Nat, out: Nat, limited: Nat,
                     attempts: Nat, failures: Nat]
    BY DEF Init
  <2>7. up \in BOOLEAN /\ drain \in {"no", "waiting", "over"}
    BY DEF Init
  <2>8. closed \subseteq Member /\ pumping \subseteq Member /\ lock \in {"free", "leaked", "stuck"}
    BY DEF Init
  <2> QED
    BY <2>2, <2>3, <2>4, <2>5, <2>6, <2>7, <2>8 DEF TypeOK
<1>3. HooksKept /\ DispatchedRight
  BY DEF Init, HooksKept, DispatchedRight, Serving
<1>4. Progress
  BY <1>1 DEF Init, Progress
<1>5. /\ Past = {} /\ Limited = {} /\ \A S : Jobs(S) = {}
      /\ \A P \in SUBSET Pub, S \in SUBSET Listener : Given(P, S) = {}
  BY DEF Init, Past, Limited, Jobs, Given
<1>6. \A S \in SUBSET Listener : Written(S) = {} /\ Failed(S) = {}
  <2>1. \A l \in Listener : 1..wrote[l] = {} /\ 1..failed[l] = {}
    BY DEF Init
  <2> QED
    BY <2>1 DEF Written, Failed, Tally
<1>7. CountersExact
  <2>1. Member \in SUBSET Listener /\ Subscriber \in SUBSET Listener
    BY DEF Listener
  <2>2. /\ Given(Pub, Member) = {} /\ Given(Past, Listener) = {}
        /\ Written(Member) = {} /\ Written(Subscriber) = {} /\ Failed(Subscriber) = {}
    BY <1>5, <1>6, <2>1
  <2>3. /\ metrics.published = 0 /\ metrics.limited = 0 /\ metrics.attempts = 0
        /\ metrics.failures = 0 /\ metrics.out = 0 /\ metrics.delivered = 0
    BY DEF Init
  <2>4. /\ Cardinality(Past) = 0 /\ Cardinality(Limited) = 0
        /\ \A S : Cardinality(Jobs(S)) = 0
        /\ Cardinality(Given(Pub, Member)) = 0 /\ Cardinality(Given(Past, Listener)) = 0
        /\ Cardinality(Written(Member)) = 0 /\ Cardinality(Written(Subscriber)) = 0
        /\ Cardinality(Failed(Subscriber)) = 0
    BY <1>1, <1>5, <2>2
  <2> QED
    BY <2>3, <2>4, Counters
<1> QED
  BY <1>2, <1>3, <1>4, <1>7 DEF Inv

\* Webhooks, requests, deliveries and metrics keep step.
THEOREM Invariance == Spec => []Inv
<1>1. Init => Inv
  BY InitInv
<1>2. Inv /\ [Next]_vars => Inv'
  BY TypeStep, HooksStep, CountersStep DEF Inv
<1> QED
  BY <1>1, <1>2, PTL DEF Spec

\* No queue is ever overfilled, and every delivery is of a webhook of its id.
THEOREM TypeCorrect == Spec => []TypeOK
<1>1. Inv => TypeOK
  BY DEF Inv
<1> QED
  BY <1>1, Invariance, PTL

\* However webhooks are registered, replaced and removed meanwhile, a request
\* is dispatched to those it should be, as they were then.
THEOREM DispatchedRightHolds == Spec => []DispatchedRight
<1>1. Inv => DispatchedRight
  BY DEF Inv
<1> QED
  BY <1>1, Invariance, PTL

\* The counters of /metrics differ from what has happened by exactly what is
\* counted twice or counted although its write has failed, with failing writes
\* and panics of handlers anywhere.
THEOREM CountersExactHolds == Spec => []CountersExact
<1>1. Inv => CountersExact
  BY DEF Inv
<1> QED
  BY <1>1, Invariance, PTL
=============================================================================
