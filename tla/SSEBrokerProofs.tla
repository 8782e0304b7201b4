-------------------------- MODULE SSEBrokerProofs --------------------------
(* Proofs about SSEBroker, for any subscribers, messages, channels, limits. *)
EXTENDS SSEBroker, FiniteSetTheorems, TLAPS

(***************************************************************************)
(* Sequences.                                                              *)
(***************************************************************************)

\* Taking the head of a queue and putting a message at its end.
LEMMA QueueFacts ==
    ASSUME NEW T, NEW q \in Seq(T), NEW m \in T
    PROVE  /\ Append(q, m) \in Seq(T) /\ Len(Append(q, m)) = Len(q) + 1
           /\ ToSet(Append(q, m)) = ToSet(q) \cup {m}
           /\ q # <<>> => /\ Head(q) \in T /\ Tail(q) \in Seq(T)
                          /\ Len(Tail(q)) = Len(q) - 1
                          /\ ToSet(q) = {Head(q)} \cup ToSet(Tail(q))
<1>1. Append(q, m) \in Seq(T) /\ Len(Append(q, m)) = Len(q) + 1
  OBVIOUS
<1>2. ToSet(Append(q, m)) = ToSet(q) \cup {m}
  <2>1. ToSet(Append(q, m)) \subseteq ToSet(q) \cup {m}
    BY DEF ToSet
  <2>2. ToSet(q) \subseteq ToSet(Append(q, m))
    BY DEF ToSet
  <2>3. Append(q, m)[Len(q) + 1] = m /\ Len(q) + 1 \in DOMAIN Append(q, m)
    OBVIOUS
  <2> QED
    BY <2>1, <2>2, <2>3 DEF ToSet
<1>3. ASSUME q # <<>>
      PROVE  /\ Head(q) \in T /\ Tail(q) \in Seq(T)
             /\ Len(Tail(q)) = Len(q) - 1
  BY <1>3
<1>4. ASSUME q # <<>> PROVE ToSet(q) = {Head(q)} \cup ToSet(Tail(q))
  <2>1. \A i \in DOMAIN q : i # 1 => i - 1 \in DOMAIN Tail(q) /\ Tail(q)[i - 1] = q[i]
    BY <1>4
  <2>2. \A i \in DOMAIN Tail(q) : i + 1 \in DOMAIN q /\ Tail(q)[i] = q[i + 1]
    BY <1>4
  <2>3. Head(q) = q[1] /\ 1 \in DOMAIN q
    BY <1>4
  <2>4. ToSet(q) \subseteq {Head(q)} \cup ToSet(Tail(q))
    BY <2>1, <2>3 DEF ToSet
  <2>5. {Head(q)} \cup ToSet(Tail(q)) \subseteq ToSet(q)
    BY <2>2, <2>3 DEF ToSet
  <2> QED
    BY <2>4, <2>5
<1> QED
  BY <1>1, <1>2, <1>3, <1>4

USE DEF PubStates, ServeStates, Streaming, Writing

(***************************************************************************)
(* Typing.                                                                 *)
(***************************************************************************)

\* The empty broker satisfies the invariant.
LEMMA InitInv == Init => Inv
BY SSEConstants
DEF Init, Inv, TypeOK, NoGap, Replayed, BufferKeeps, ClientsOpen,
    RevokedOnlyLate

\* A non-blocking send keeps the queues within their capacity.
LEMMA OfferTypes ==
    ASSUME TypeOK, NEW m \in Msg, NEW S \in SUBSET Sub, Offer(m, S)
    PROVE  /\ events' \in [Sub -> Seq(Msg)]
           /\ \A s \in Sub : Len(events'[s]) <= QueueCap
           /\ excused' \in [Sub -> SUBSET Msg]
<1>1. \A s \in Sub : events[s] \in Seq(Msg) /\ Len(events[s]) <= QueueCap
  BY DEF TypeOK
<1>2. \A s \in Sub : Append(events[s], m) \in Seq(Msg)
                      /\ Len(Append(events[s], m)) = Len(events[s]) + 1
  BY <1>1, QueueFacts
<1>3. \A s \in Sub : Len(events[s]) \in Nat
  BY <1>1
<1> QED
  BY <1>1, <1>2, <1>3, SSEConstants DEF Offer, TypeOK

\* Every step of a publisher, a handler or a revocation keeps the types.
LEMMA NextTypeOK == TypeOK /\ [Next]_vars => TypeOK'
<1> SUFFICES ASSUME TypeOK, [Next]_vars PROVE TypeOK'
  OBVIOUS
<1> USE SSEConstants DEF TypeOK, pubVars, keyVars, peerVars
<1>1. ASSUME NEW m \in Msg, Number(m) PROVE TypeOK'
  BY <1>1 DEF Number
<1>2. ASSUME NEW m \in Msg, Store(m) PROVE TypeOK'
  <2> DEFINE buf == replayBuf[Target[m]]
  <2>1. Target[m] \in Channel /\ buf \in Seq(Msg) /\ Len(buf) <= ReplayLimit
    BY <1>2 DEF Store
  <2>2. Trimmed(buf) \in Seq(Msg) /\ Len(Trimmed(buf)) < ReplayLimit
    <3>1. CASE Len(buf) >= ReplayLimit
      <4>1. buf # <<>>
        BY <2>1, <3>1
      <4> QED
        BY <2>1, <3>1, <4>1, QueueFacts DEF Trimmed
    <3>2. CASE ~(Len(buf) >= ReplayLimit)
      BY <2>1, <3>2 DEF Trimmed
    <3> QED
      BY <3>1, <3>2
  <2>3. /\ Append(Trimmed(buf), m) \in Seq(Msg)
        /\ Len(Append(Trimmed(buf), m)) <= ReplayLimit
    BY <2>2, QueueFacts
  <2>4. /\ replayBuf' \in [Channel -> Seq(Msg)]
        /\ \A ch \in Channel : Len(replayBuf'[ch]) <= ReplayLimit
    <3> HIDE DEF buf
    <3>1. replayBuf' = [replayBuf EXCEPT ![Target[m]] = Append(Trimmed(buf), m)]
      BY <1>2 DEF Store, buf
    <3> QED
      BY <2>1, <2>3, <3>1
  <2> QED
    BY <1>2, <2>4 DEF Store
<1>3. ASSUME NEW m \in Msg, Deliver(m) \/ PublishAll(m) PROVE TypeOK'
  <2>1. PICK S \in SUBSET Sub : Offer(m, S)
    BY <1>3 DEF Deliver, PublishAll
  <2>2. /\ events' \in [Sub -> Seq(Msg)]
        /\ \A s \in Sub : Len(events'[s]) <= QueueCap
        /\ excused' \in [Sub -> SUBSET Msg]
    BY <2>1, OfferTypes
  <2> QED
    BY <2>1, <2>2 DEF Offer
<1>4. ASSUME NEW s \in Sub, Validate(s) PROVE TypeOK'
  BY <1>4 DEF Validate
<1>5. ASSUME NEW s \in Sub, Subscribe(s) PROVE TypeOK'
  BY <1>5 DEF Subscribe
<1>6. ASSUME NEW s \in Sub, NEW S \in SUBSET Msg, NEW last \in Nat,
             Send(s, S, last)
      PROVE  /\ got' \in [Sub -> SUBSET Msg]
             /\ lastSeen' \in [Sub -> Nat]
             /\ first' \in [Sub -> Nat]
  <2>1. got \in [Sub -> SUBSET Msg] /\ lastSeen \in [Sub -> Nat] /\ first \in [Sub -> Nat]
    OBVIOUS
  <2> HIDE DEF TypeOK
  <2>2. CASE s \in up
    <3>1. got' \in [Sub -> SUBSET Msg]
      BY <1>6, <2>1, <2>2 DEF Send
    <3>2. lastSeen' \in [Sub -> Nat] /\ first' \in [Sub -> Nat]
      BY <1>6, <2>1, <2>2 DEF Send
    <3> QED
      BY <3>1, <3>2
  <2>3. CASE s \notin up
    BY <1>6, <2>1, <2>3 DEF Send
  <2> QED
    BY <2>2, <2>3
<1>7. ASSUME NEW s \in Sub, Replay(s) PROVE TypeOK'
  <2> DEFINE buf == replayBuf[ChannelOf[s]]
  <2>1. buf \in Seq(Msg) /\ GetReplaySince(s) \subseteq DOMAIN buf
    BY DEF GetReplaySince
  <2>2. \A i \in GetReplaySince(s) : buf[i] \in Msg /\ id[buf[i]] \in Nat
    BY <2>1
  <2>3. /\ got' \in [Sub -> SUBSET Msg]
        /\ lastSeen' \in [Sub -> Nat]
        /\ first' \in [Sub -> Nat]
    <3>1. CASE UNCHANGED <<got, lastSeen, first>>
      BY <3>1
    <3>2. CASE \E i \in GetReplaySince(s) :
                 Send(s, {buf[j] : j \in GetReplaySince(s)}, id[buf[i]])
      <4>1. {buf[j] : j \in GetReplaySince(s)} \subseteq Msg
        BY <2>2
      <4> QED
        BY <1>6, <2>2, <3>2, <4>1
    <3> QED
      BY <1>7, <3>1, <3>2 DEF Replay
  <2>4. excused' \in [Sub -> SUBSET Msg]
    BY <1>7 DEF Replay, Overwritten
  <2> QED
    BY <1>7, <2>3, <2>4 DEF Replay
<1>8. ASSUME NEW s \in Sub, Connected(s) PROVE TypeOK'
  BY <1>6, <1>8 DEF Connected
<1>9. ASSUME NEW s \in Sub, Take(s) PROVE TypeOK'
  <2>1. events[s] \in Seq(Msg) /\ events[s] # <<>>
    BY <1>9 DEF Take
  <2>2. /\ Head(events[s]) \in Msg /\ Tail(events[s]) \in Seq(Msg)
        /\ Len(Tail(events[s])) <= QueueCap
    BY <2>1
  <2> QED
    BY <1>9, <2>2 DEF Take
<1>10. ASSUME NEW s \in Sub, Write(s) PROVE TypeOK'
  <2>1. {held[s]} \subseteq Msg
    BY <1>10 DEF Write
  <2>2. /\ got' \in [Sub -> SUBSET Msg]
        /\ lastSeen' \in [Sub -> Nat]
        /\ first' \in [Sub -> Nat]
    BY <1>6, <1>10, <2>1 DEF Write
  <2> QED
    BY <1>10, <2>2 DEF Write
<1>11. ASSUME NEW s \in Sub, Leave(s) PROVE TypeOK'
  BY <1>11 DEF Leave
<1>12. ASSUME NEW s \in Sub, Unsubscribe(s) PROVE TypeOK'
  BY <1>12 DEF Unsubscribe
<1>13. ASSUME NEW k \in Key, Revoke(k) PROVE TypeOK'
  BY <1>13 DEF Revoke
<1>14. ASSUME NEW k \in Key, DisconnectKey(k) PROVE TypeOK'
  BY <1>14 DEF DisconnectKey
<1>17. ASSUME NEW k \in Key, NEW isActive \in BOOLEAN, UpdateKey(k, isActive)
       PROVE  TypeOK'
  BY <1>17 DEF UpdateKey
<1>15. ASSUME NEW s \in Sub, Drop(s) PROVE TypeOK'
  BY <1>15 DEF Drop
<1>16. CASE UNCHANGED vars
  BY <1>16 DEF vars
<1>18. ASSUME NEW s \in Sub, Tick(s) \/ KeepAlive(s) PROVE TypeOK'
  BY <1>18 DEF Tick, KeepAlive
<1>19. ASSUME NEW s \in Sub, Stall(s) \/ Resume(s) PROVE TypeOK'
  BY <1>19 DEF Stall, Resume
<1> QED
  <2> HIDE DEF TypeOK
  <2> QED
    BY <1>1, <1>2, <1>3, <1>4, <1>5, <1>7, <1>8, <1>9, <1>10, <1>11, <1>12,
       <1>13, <1>14, <1>15, <1>16, <1>17, <1>18, <1>19
    DEF Next, Publish, ServeSSE, Peer

\* The queues, buffers and handlers always have the types of the code.
THEOREM TypeCorrect == Spec => []TypeOK
BY InitInv, NextTypeOK, PTL DEF Spec, Inv

(***************************************************************************)
(* No gap.  A message that Publish is done with has passed the buffer      *)
(* before it met the subscribers; so a subscriber that was in the map got  *)
(* it in its queue, and one that was not finds it when it replays.         *)
(***************************************************************************)

\* Publish removes a message from a replay buffer only when that is full.
LEMMA NextBufferKeeps ==
    ASSUME TypeOK, BufferKeeps, Next
    PROVE  BufferKeeps'
<1> USE SSEConstants DEF BufferKeeps, pubVars
<1>t. pub \in [Msg -> PubStates] /\ replayBuf \in [Channel -> Seq(Msg)]
  BY DEF TypeOK
<1>1. ASSUME UNCHANGED <<pub, replayBuf>> PROVE BufferKeeps'
  BY <1>1
<1>2. ASSUME NEW n \in Msg, Number(n) PROVE BufferKeeps'
  BY <1>t, <1>2 DEF Number
<1>3. ASSUME NEW n \in Msg, NEW S, Offer(n, S),
             pub[n] = "stored" \/ Target[n] = Everyone
      PROVE  BufferKeeps'
  BY <1>t, <1>3 DEF Offer
<1>4. ASSUME NEW n \in Msg, Store(n) PROVE BufferKeeps'
  <2> DEFINE buf == replayBuf[Target[n]]
             new == Append(Trimmed(buf), n)
  <2>1. Target[n] \in Channel /\ buf \in Seq(Msg) /\ Len(buf) <= ReplayLimit
    BY <1>4 DEF Store, TypeOK
  <2>2. replayBuf' = [replayBuf EXCEPT ![Target[n]] = new]
    BY <1>4 DEF Store
  <2>3. CASE Len(buf) >= ReplayLimit
    <3>1. Tail(buf) \in Seq(Msg) /\ Len(Tail(buf)) = Len(buf) - 1
      BY <2>1, <2>3
    <3>2. Len(new) = ReplayLimit
      BY <2>1, <2>3, <3>1 DEF Trimmed
    <3> QED
      BY <1>t, <1>4, <2>1, <2>2, <3>2 DEF Store
  <2>4. CASE ~(Len(buf) >= ReplayLimit)
    <3>1. new = Append(buf, n)
      BY <2>4 DEF Trimmed
    <3>2. new \in Seq(Msg) /\ Len(new) = Len(buf) + 1
      BY <2>1, <3>1
    <3>3. new[Len(buf) + 1] = n /\ \A i \in 1..Len(buf) : new[i] = buf[i]
      BY <2>1, <3>1
    <3>4. Contains(new, n) /\ \A m \in Msg : Contains(buf, m) => Contains(new, m)
      BY <2>1, <3>2, <3>3 DEF Contains
    <3>5. Len(buf) # ReplayLimit
      BY <2>1, <2>4
    <3> HIDE DEF buf, new
    <3>6. \A m \in Msg : Target[m] = Target[n] =>
              (replayBuf[Target[m]] = buf /\ replayBuf'[Target[m]] = new)
      BY <1>t, <2>1, <2>2 DEF buf
    <3>7. \A m \in Msg : Target[m] \in Channel /\ Target[m] # Target[n] =>
              replayBuf'[Target[m]] = replayBuf[Target[m]]
      BY <1>t, <2>2
    <3>8. \A m \in Msg : m # n => pub'[m] = pub[m]
      BY <1>t, <1>4 DEF Store
    <3> QED
      BY <3>4, <3>5, <3>6, <3>7, <3>8
  <2> QED
    BY <2>3, <2>4
<1> QED
  BY <1>1, <1>2, <1>3, <1>4
  DEF Next, Publish, Deliver, PublishAll, ServeSSE, Validate, Subscribe, Replay,
      Connected, Take, Write, Tick, KeepAlive, Leave, Unsubscribe, Peer, Drop,
      Stall, Resume, Revoke, DisconnectKey, UpdateKey

\* What subscriber s has been sent, will be sent, or has lost to a limit.
Covered(s) == got[s] \cup ToSet(events[s]) \cup {held[s]} \cup excused[s]

\* No step opens a gap.
LEMMA NextNoGap ==
    ASSUME TypeOK, TypeOK', NoGap, BufferKeeps, Next
    PROVE  NoGap'
<1> SUFFICES ASSUME NEW s \in Sub, NEW m \in Msg, Replayed(s)', since'[s] > 0,
                    Target[m] = ChannelOf[s], pub'[m] = "done",
                    id'[m] > since'[s]
             PROVE  m \in Covered(s)'
  BY DEF NoGap, Covered
<1> USE SSEConstants DEF pubVars, keyVars, peerVars
<1>1. ASSUME NEW n \in Msg, Number(n) \/ Store(n) PROVE m \in Covered(s)'
  <2>1. pub[m] = "done" /\ m # n
    BY <1>1 DEF Number, Store, TypeOK
  <2>2. UNCHANGED <<got, events, held, excused, since, up, clients, serve>>
    BY <1>1 DEF Number, Store
  <2>3. id'[m] = id[m]
    BY <1>1, <2>1 DEF Number, Store, TypeOK
  <2> QED
    BY <2>1, <2>2, <2>3 DEF NoGap, Covered, Replayed
<1>2. ASSUME NEW n \in Msg, NEW S \in SUBSET Sub, Offer(n, S), n = m => s \in S
      PROVE  m \in Covered(s)'
  <2>1. UNCHANGED <<got, held, id, since, up, clients, serve>>
    BY <1>2 DEF Offer
  <2>2. ToSet(events[s]) \subseteq ToSet(events'[s]) /\ excused[s] \subseteq excused'[s]
    BY <1>2, QueueFacts DEF Offer, TypeOK
  <2>3. CASE n = m
    <3>1. CASE Len(events[s]) >= QueueCap
      BY <1>2, <2>3, <3>1 DEF Offer, Covered
    <3>2. CASE ~(Len(events[s]) >= QueueCap)
      <4>1. events'[s] = Append(events[s], m)
        BY <1>2, <2>3, <3>2 DEF Offer
      <4>2. events[s] \in Seq(Msg)
        BY DEF TypeOK
      <4>3. m \in ToSet(events'[s])
        BY <4>1, <4>2, QueueFacts
      <4> QED
        BY <4>3 DEF Covered
    <3> QED
      BY <3>1, <3>2
  <2>4. CASE n # m
    <3>1. pub[m] = "done"
      BY <1>2, <2>4 DEF Offer, TypeOK
    <3> QED
      BY <2>1, <2>2, <3>1 DEF NoGap, Covered, Replayed
  <2> QED
    BY <2>3, <2>4
<1>3. ASSUME NEW n \in Msg, Deliver(n) PROVE m \in Covered(s)'
  <2>1. s \in clients
    BY <1>3 DEF Deliver, Offer, Replayed
  <2> QED
    BY <1>2, <1>3, <2>1 DEF Deliver, TypeOK
<1>4. ASSUME NEW n \in Msg, PublishAll(n) PROVE m \in Covered(s)'
  <2>1. s \in clients
    BY <1>4 DEF PublishAll, Offer, Replayed
  <2> QED
    BY <1>2, <1>4, <2>1 DEF PublishAll, TypeOK
<1>t. /\ serve \in [Sub -> ServeStates] /\ since \in [Sub -> Nat]
      /\ events \in [Sub -> Seq(Msg)] /\ excused \in [Sub -> SUBSET Msg]
      /\ got \in [Sub -> SUBSET Msg]
  BY DEF TypeOK
<1>5. ASSUME NEW t \in Sub,
             \/ Validate(t) \/ Subscribe(t) \/ Leave(t) \/ Unsubscribe(t) \/ Drop(t)
      PROVE  m \in Covered(s)'
  <2> DEFINE Kept == /\ UNCHANGED <<pub, id, got, held>>
                     /\ events'[s] = events[s] /\ excused'[s] = excused[s]
                     /\ since'[s] = since[s] /\ serve'[s] = serve[s]
                     /\ s \in up \cap clients
  <2>1. CASE Validate(t)
    <3>1. t # s
      BY <1>t, <2>1 DEF Validate, Replayed
    <3>2. Kept
      BY <1>t, <2>1, <3>1 DEF Validate, Replayed
    <3> QED
      BY <3>2 DEF NoGap, Covered, Replayed
  <2>2. CASE Subscribe(t)
    <3>1. t # s
      BY <1>t, <2>2 DEF Subscribe, Replayed
    <3>2. Kept
      BY <1>t, <2>2, <3>1 DEF Subscribe, Replayed
    <3> QED
      BY <3>2 DEF NoGap, Covered, Replayed
  <2>3. CASE Leave(t)
    <3>1. t # s
      BY <1>t, <2>3 DEF Leave, Replayed
    <3>2. Kept
      BY <1>t, <2>3, <3>1 DEF Leave, Replayed
    <3> QED
      BY <3>2 DEF NoGap, Covered, Replayed
  <2>4. CASE Unsubscribe(t)
    <3>1. t # s
      BY <1>t, <2>4 DEF Unsubscribe, Replayed
    <3>2. Kept
      BY <1>t, <2>4, <3>1 DEF Unsubscribe, Replayed
    <3> QED
      BY <3>2 DEF NoGap, Covered, Replayed
  <2>5. CASE Drop(t)
    <3>1. Kept
      BY <1>t, <2>5 DEF Drop, Replayed
    <3> QED
      BY <3>1 DEF NoGap, Covered, Replayed
  <2> QED
    BY <1>5, <2>1, <2>2, <2>3, <2>4, <2>5
<1>6. ASSUME NEW t \in Sub, NEW S, NEW last, Send(t, S, last)
      PROVE  \A u \in Sub : got[u] \subseteq got'[u]
  <2>1. CASE t \in up
    <3>1. got' = [got EXCEPT ![t] = got[t] \cup S]
      BY <1>6, <2>1 DEF Send
    <3> SUFFICES ASSUME NEW u \in Sub PROVE got[u] \subseteq got'[u]
      OBVIOUS
    <3>2. u = t => got'[u] = got[t] \cup S
      BY <1>t, <3>1
    <3>3. u # t => got'[u] = got[u]
      BY <1>t, <3>1
    <3> QED
      BY <3>2, <3>3
  <2>2. CASE t \notin up
    BY <1>6, <2>2 DEF Send
  <2> QED
    BY <2>1, <2>2
<1>7. ASSUME NEW t \in Sub, Replay(t) PROVE m \in Covered(s)'
  <2>1. UNCHANGED <<pub, id, since, up, clients, events, held, replayBuf>>
    BY <1>7 DEF Replay
  <2>2. \A u \in Sub : got[u] \subseteq got'[u] /\ excused[u] \subseteq excused'[u]
    <3>1. \A u \in Sub : got[u] \subseteq got'[u]
      <4>1. CASE UNCHANGED got
        BY <4>1
      <4>2. CASE \E S, last : Send(t, S, last)
        BY <1>6, <4>2
      <4> QED
        BY <1>7, <4>1, <4>2 DEF Replay
    <3>2. \A u \in Sub : excused[u] \subseteq excused'[u]
      BY <1>t, <1>7 DEF Replay
    <3> QED
      BY <3>1, <3>2
  <2>3. CASE t # s
    <3>1. serve'[s] = serve[s]
      BY <1>7, <2>3 DEF Replay, TypeOK
    <3> QED
      BY <2>1, <2>2, <3>1 DEF NoGap, Covered, Replayed
  <2>4. CASE t = s
    <3> DEFINE buf == replayBuf[ChannelOf[s]]
    <3>1. buf \in Seq(Msg) /\ s \in up /\ since[s] > 0 /\ id[m] > since[s]
      BY <2>1 DEF TypeOK, Replayed
    <3>2. CASE Contains(buf, m)
      <4>1. PICK i \in DOMAIN buf : buf[i] = m
        BY <3>1, <3>2 DEF Contains
      <4>2. i \in GetReplaySince(s)
        BY <3>1, <4>1 DEF GetReplaySince
      <4>3. m \in {buf[j] : j \in GetReplaySince(s)}
        BY <4>1, <4>2
      <4>4. PICK last : Send(s, {buf[j] : j \in GetReplaySince(s)}, last)
        BY <1>7, <2>4, <3>1, <4>2 DEF Replay
      <4>5. m \in got'[s]
        BY <3>1, <4>3, <4>4 DEF Send, TypeOK
      <4> QED
        BY <4>5 DEF Covered
    <3>3. CASE ~Contains(buf, m)
      <4>1. m \in Overwritten(s)
        BY <2>1, <3>1, <3>3 DEF Overwritten, BufferKeeps
      <4>2. m \in excused'[s]
        BY <1>7, <2>4, <4>1 DEF Replay, TypeOK
      <4> QED
        BY <4>2 DEF Covered
    <3> QED
      BY <3>2, <3>3
  <2> QED
    BY <2>3, <2>4
<1>8. ASSUME NEW t \in Sub, Connected(t) PROVE m \in Covered(s)'
  <2>1. UNCHANGED <<pub, id, since, up, clients, events, held, excused>>
    BY <1>8 DEF Connected
  <2>2. \A u \in Sub : got[u] \subseteq got'[u]
    BY <1>6, <1>8 DEF Connected
  <2>3. Replayed(s)
    BY <1>8, <2>1 DEF Connected, Replayed, TypeOK
  <2> QED
    BY <2>1, <2>2, <2>3 DEF NoGap, Covered
<1>9. ASSUME NEW t \in Sub, Take(t) PROVE m \in Covered(s)'
  <2>1. UNCHANGED <<pub, id, since, up, clients, got, excused>>
    BY <1>9 DEF Take
  <2>2. Replayed(s)
    BY <1>9, <2>1 DEF Take, Replayed, TypeOK
  <2>3. m \in Covered(s)
    BY <2>1, <2>2 DEF NoGap, Covered
  <2>4. CASE t # s
    <3>1. events'[s] = events[s] /\ held'[s] = held[s]
      BY <1>9, <2>4 DEF Take, TypeOK
    <3> QED
      BY <2>1, <2>3, <3>1 DEF Covered
  <2>5. CASE t = s
    <3>1. events'[s] = Tail(events[s]) /\ held'[s] = Head(events[s])
      BY <1>9, <2>5 DEF Take, TypeOK
    <3>2. ToSet(events[s]) = {held'[s]} \cup ToSet(events'[s])
      BY <1>9, <2>5, <3>1, QueueFacts DEF Take, TypeOK
    <3>3. held[s] \notin Msg
      BY <1>9, <2>5 DEF Take, TypeOK
    <3> QED
      BY <2>1, <2>3, <3>2, <3>3 DEF Covered
  <2> QED
    BY <2>4, <2>5
<1>10. ASSUME NEW t \in Sub, Write(t) PROVE m \in Covered(s)'
  <2>1. UNCHANGED <<pub, id, since, up, clients, events, excused>>
    BY <1>10 DEF Write
  <2>2. \A u \in Sub : got[u] \subseteq got'[u]
    BY <1>6, <1>10 DEF Write
  <2>3. Replayed(s)
    BY <1>10, <2>1 DEF Write, Replayed, TypeOK
  <2>4. m \in Covered(s)
    BY <2>1, <2>3 DEF NoGap, Covered
  <2>5. held'[s] = held[s] \/ held[s] \in got'[s]
    BY <1>10, <2>3 DEF Write, Send, Replayed, TypeOK
  <2> QED
    BY <2>1, <2>2, <2>4, <2>5 DEF Covered
<1>11. ASSUME NEW k \in Key, NEW isActive \in BOOLEAN,
              Revoke(k) \/ DisconnectKey(k) \/ UpdateKey(k, isActive)
       PROVE  m \in Covered(s)'
  <2>1. UNCHANGED <<pub, id, got, held, events, excused, since, serve, up>>
    BY <1>11 DEF Revoke, DisconnectKey, UpdateKey
  <2>2. s \in clients
    BY <1>11 DEF Revoke, DisconnectKey, UpdateKey, Replayed
  <2> QED
    BY <2>1, <2>2 DEF NoGap, Covered, Replayed
<1>12. ASSUME NEW t \in Sub, Tick(t) \/ KeepAlive(t) \/ Stall(t) \/ Resume(t)
       PROVE  m \in Covered(s)'
  <2>1. UNCHANGED <<pub, id, got, held, events, excused, since, up, clients>>
    BY <1>12 DEF Tick, KeepAlive, Stall, Resume
  <2>2. Replayed(s)
    BY <1>t, <1>12, <2>1 DEF Tick, KeepAlive, Stall, Resume, Replayed
  <2> QED
    BY <2>1, <2>2 DEF NoGap, Covered, Replayed
<1> QED
  BY <1>1, <1>3, <1>4, <1>5, <1>7, <1>8, <1>9, <1>10, <1>11, <1>12
  DEF Next, Publish, ServeSSE, Peer

(***************************************************************************)
(* Revocation, and the theorems.                                           *)
(***************************************************************************)

\* The conjuncts of Inv about the map of clients and the keys.
Structure ==
    /\ ClientsOpen
    /\ RevokedOnlyLate
    /\ \A s \in doneClosed : serve[s] \notin {"idle", "validated"}
    /\ \A k \in active : revoke[k] # "dropped"
    /\ \A s \in Sub : serve[s] = "validated" /\ revoke[KeyOf[s]] = "dropped"
                        => s \in late

\* Every step keeps the map of clients and the keys in order.
LEMMA NextStructure ==
    ASSUME Inv, Next
    PROVE  Structure'
<1>t. /\ serve \in [Sub -> ServeStates] /\ clients \subseteq Sub
      /\ doneClosed \subseteq Sub /\ active \subseteq Key /\ late \subseteq Sub
      /\ revoke \in [Key -> {"idle", "dropping", "dropped"}]
      /\ KeyOf \in [Sub -> Key]
  BY SSEConstants DEF Inv, TypeOK
<1>i. Structure
  BY DEF Inv, Structure
<1> USE <1>t, <1>i
    DEF Structure, ClientsOpen, RevokedOnlyLate, pubVars, keyVars, peerVars
<1>1. ASSUME UNCHANGED <<clients, doneClosed, serve, active, revoke, late>>
      PROVE  Structure'
  BY <1>1
<1>2. ASSUME NEW s \in Sub, Validate(s) PROVE Structure'
  BY <1>2 DEF Validate
<1>3. ASSUME NEW s \in Sub, Subscribe(s) PROVE Structure'
  BY <1>3 DEF Subscribe
<1>4. ASSUME NEW s \in Sub, Replay(s) \/ Connected(s) PROVE Structure'
  BY <1>4 DEF Replay, Connected
<1>5. ASSUME NEW s \in Sub, Take(s) \/ Write(s) \/ Tick(s) \/ KeepAlive(s) \/ Leave(s)
      PROVE  Structure'
  BY <1>5 DEF Take, Write, Tick, KeepAlive, Leave
<1>6. ASSUME NEW s \in Sub, Unsubscribe(s) PROVE Structure'
  BY <1>6 DEF Unsubscribe
<1>7. ASSUME NEW k \in Key, Revoke(k) PROVE Structure'
  BY <1>7 DEF Revoke
<1>8. ASSUME NEW k \in Key, DisconnectKey(k) PROVE Structure'
  BY <1>8 DEF DisconnectKey
<1>9. ASSUME NEW k \in Key, NEW isActive \in BOOLEAN, UpdateKey(k, isActive)
      PROVE  Structure'
  BY <1>9 DEF UpdateKey
<1> QED
  BY <1>1, <1>2, <1>3, <1>4, <1>5, <1>6, <1>7, <1>8, <1>9
  DEF Next, Publish, ServeSSE, Number, Store, Deliver, PublishAll, Offer, Peer, Drop,
      Stall, Resume

\* The invariant behind the safety properties holds in every state.
THEOREM Invariance == Spec => []Inv
<1>1. Inv /\ [Next]_vars => Inv'
  <2> SUFFICES ASSUME Inv, [Next]_vars PROVE Inv'
    OBVIOUS
  <2>1. TypeOK'
    BY NextTypeOK DEF Inv
  <2>2. CASE Next
    BY <2>1, <2>2, NextNoGap, NextBufferKeeps, NextStructure DEF Inv, Structure
  <2>3. CASE UNCHANGED vars
    BY <2>1, <2>3
    DEF Inv, vars, pubVars, keyVars, peerVars, NoGap, Replayed, BufferKeeps,
        ClientsOpen, RevokedOnlyLate
  <2> QED
    BY <2>2, <2>3
<1> QED
  BY <1>1, InitInv, PTL DEF Spec

\* For any number of publishers and subscribers and any limits, a reconnected
\* subscriber has no gap between what it is replayed and what it is streamed.
THEOREM NoGapHolds == Spec => []NoGap
BY Invariance, PTL DEF Inv

\* For any subscribers and keys, a revocation misses only the requests that
\* are between Validate and Subscribe.
THEOREM RevokedOnlyLateHolds == Spec => []RevokedOnlyLate
BY Invariance, PTL DEF Inv

\* For any subscribers and keys, every client in the map has a handler that
\* runs and a Done channel that DisconnectKey can still close.
THEOREM ClientsOpenHolds == Spec => []ClientsOpen
BY Invariance, PTL DEF Inv

(***************************************************************************)
(* The gauge.                                                              *)
(***************************************************************************)

\* The subscribers that Metrics.SseConnections counts.
Counted == {s \in Sub : serve[s] \notin {"idle", "validated"}}

\* Every step changes the gauge by what it adds to, or takes from, Counted.
LEMMA GaugeStep ==
    ASSUME TypeOK, GaugeExact, Next
    PROVE  GaugeExact'
<1>0. GaugeExact = (gauge = Cardinality(Counted))
  BY DEF GaugeExact, Counted
<1>0p. GaugeExact' = (gauge' = Cardinality(Counted'))
  BY DEF GaugeExact, Counted
<1>f. IsFiniteSet(Counted)
  BY SSEConstants, FS_Subset DEF Counted
<1>t. serve \in [Sub -> ServeStates]
  BY DEF TypeOK
<1>1. ASSUME UNCHANGED gauge, Counted' = Counted PROVE GaugeExact'
  BY <1>0, <1>0p, <1>1
<1>2. ASSUME UNCHANGED <<gauge, serve>> PROVE GaugeExact'
  BY <1>1, <1>2 DEF Counted
<1>3. ASSUME NEW s \in Sub, Subscribe(s) PROVE GaugeExact'
  <2>1. s \notin Counted /\ Counted' = Counted \cup {s}
    BY <1>t, <1>3 DEF Subscribe, Counted
  <2> QED
    BY <1>0, <1>0p, <1>f, <1>3, <2>1, FS_AddElement, FS_CardinalityType
    DEF Subscribe
<1>4. ASSUME NEW s \in Sub, Unsubscribe(s) PROVE GaugeExact'
  <2>1. s \in Counted /\ Counted' = Counted \ {s}
    BY <1>t, <1>4 DEF Unsubscribe, Counted
  <2> QED
    BY <1>0, <1>0p, <1>f, <1>4, <2>1, FS_RemoveElement, FS_CardinalityType
    DEF Unsubscribe
<1>5. ASSUME NEW s \in Sub, \/ Validate(s) \/ Replay(s) \/ Connected(s)
                            \/ Take(s) \/ Write(s) \/ Leave(s)
                            \/ Tick(s) \/ KeepAlive(s)
      PROVE  GaugeExact'
  <2>1. Counted' = Counted
    BY <1>t, <1>5
    DEF Validate, Replay, Connected, Take, Write, Leave, Tick, KeepAlive, Counted
  <2> QED
    BY <1>1, <1>5, <2>1 DEF Validate, Replay, Connected, Take, Write, Leave, Tick,
       KeepAlive
<1> QED
  BY <1>2, <1>3, <1>4, <1>5
  DEF Next, Publish, Number, Store, Deliver, PublishAll, Offer, ServeSSE, Peer, Drop,
      Stall, Resume, Revoke, DisconnectKey, UpdateKey

\* Metrics.SseConnections never drifts, for any subscribers, although the
\* second close of a Done channel makes handlers end in a panic.
THEOREM GaugeExactHolds == Spec => []GaugeExact
<1>1. Init => GaugeExact
  <2> SUFFICES ASSUME Init PROVE GaugeExact
    OBVIOUS
  <2>1. Counted = {}
    BY DEF Init, Counted
  <2> QED
    BY <2>1, FS_EmptySet DEF Init, GaugeExact, Counted
<1>2. TypeOK /\ GaugeExact /\ [Next]_vars => GaugeExact'
  <2>1. ASSUME UNCHANGED vars, GaugeExact PROVE GaugeExact'
    BY <2>1 DEF vars, GaugeExact
  <2> QED
    BY <2>1, GaugeStep
<1> QED
  BY <1>1, <1>2, TypeCorrect, PTL DEF Spec
=============================================================================
