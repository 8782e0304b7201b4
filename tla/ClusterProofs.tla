--------------------------- MODULE ClusterProofs ----------------------------
(* Proofs about Cluster, for any nodes, clients, users, queues and faults. *)
EXTENDS Cluster, TLAPS

(***************************************************************************)
(* Queues.                                                                 *)
(***************************************************************************)

\* One more message at the end of a queue.
LEMMA QueueAppend ==
    ASSUME NEW q \in Seq(Message), NEW m \in Message
    PROVE  /\ Append(q, m) \in Seq(Message) /\ Len(Append(q, m)) = Len(q) + 1
           /\ Append(q, m) # <<>> /\ Append(q, m) # q
           /\ Elems(Append(q, m)) = Elems(q) \cup {m}
           /\ Sorted(q) /\ (\A x \in Elems(q) : Before(x, m)) => Sorted(Append(q, m))
<1> DEFINE qq == Append(q, m)
<1>1. /\ qq \in Seq(Message) /\ Len(qq) = Len(q) + 1
      /\ DOMAIN q = 1..Len(q) /\ Len(q) \in Nat
      /\ DOMAIN qq = 1..Len(q) + 1
      /\ \A i \in 1..Len(q) : qq[i] = q[i]
      /\ qq[Len(q) + 1] = m
  OBVIOUS
<1> HIDE DEF qq
<1>2. qq # <<>> /\ qq # q
  <2>1. Len(<<>>) = 0
    OBVIOUS
  <2> QED
    BY <1>1, <2>1
<1>3. Elems(qq) = Elems(q) \cup {m}
  <2>1. Elems(qq) \subseteq Elems(q) \cup {m}
    BY <1>1 DEF Elems
  <2>2. Elems(q) \subseteq Elems(qq)
    BY <1>1 DEF Elems
  <2>3. m \in Elems(qq)
    BY <1>1 DEF Elems
  <2> QED
    BY <2>1, <2>2, <2>3
<1>4. ASSUME Sorted(q), \A x \in Elems(q) : Before(x, m) PROVE Sorted(qq)
  <2> SUFFICES ASSUME NEW i \in DOMAIN qq, NEW j \in DOMAIN qq, i < j
               PROVE  Before(qq[i], qq[j])
    BY DEF Sorted
  <2>1. i \in 1..Len(q) /\ qq[i] = q[i]
    BY <1>1
  <2>2. q[i] \in Elems(q)
    BY <1>1, <2>1 DEF Elems
  <2>3. CASE j \in 1..Len(q)
    BY <1>1, <1>4, <2>1, <2>3 DEF Sorted
  <2>4. CASE j = Len(q) + 1
    BY <1>1, <1>4, <2>1, <2>2, <2>4
  <2> QED
    BY <1>1, <2>3, <2>4
<1> QED
  BY <1>1, <1>2, <1>3, <1>4 DEF qq

\* The head of a queue is taken.
LEMMA QueueTail ==
    ASSUME NEW q \in Seq(Message), q # <<>>
    PROVE  /\ Head(q) \in Message /\ Head(q) \in Elems(q)
           /\ Tail(q) \in Seq(Message) /\ Len(Tail(q)) = Len(q) - 1
           /\ Elems(Tail(q)) \subseteq Elems(q)
           /\ Sorted(q) => /\ Sorted(Tail(q))
                           /\ \A x \in Elems(Tail(q)) : Before(Head(q), x)
<1> DEFINE qq == Tail(q)
<1>1. /\ qq \in Seq(Message) /\ Len(qq) = Len(q) - 1
      /\ DOMAIN q = 1..Len(q) /\ Len(q) \in Nat \ {0}
      /\ DOMAIN qq = 1..Len(q) - 1
      /\ \A i \in 1..Len(q) - 1 : qq[i] = q[i + 1]
      /\ Head(q) = q[1] /\ Head(q) \in Message
  OBVIOUS
<1> HIDE DEF qq
<1>2. Elems(qq) \subseteq Elems(q) /\ Head(q) \in Elems(q)
  <2>1. ASSUME NEW x \in Elems(qq) PROVE x \in Elems(q)
    <3>1. PICK i \in 1..Len(q) - 1 : x = q[i + 1]
      BY <1>1 DEF Elems
    <3>2. i + 1 \in DOMAIN q
      BY <1>1
    <3> QED
      BY <3>1, <3>2 DEF Elems
  <2>2. 1 \in DOMAIN q
    BY <1>1
  <2> QED
    BY <1>1, <2>1, <2>2 DEF Elems
<1>3. ASSUME Sorted(q) PROVE Sorted(qq)
  <2> SUFFICES ASSUME NEW i \in DOMAIN qq, NEW j \in DOMAIN qq, i < j
               PROVE  Before(qq[i], qq[j])
    BY DEF Sorted
  <2>1. /\ qq[i] = q[i + 1] /\ qq[j] = q[j + 1]
        /\ i + 1 \in DOMAIN q /\ j + 1 \in DOMAIN q /\ i + 1 < j + 1
    BY <1>1
  <2> QED
    BY <1>3, <2>1 DEF Sorted
<1>4. ASSUME Sorted(q), NEW x \in Elems(qq) PROVE Before(Head(q), x)
  <2>1. PICK i \in 1..Len(q) - 1 : x = q[i + 1]
    BY <1>1 DEF Elems
  <2>2. 1 \in DOMAIN q /\ i + 1 \in DOMAIN q /\ 1 < i + 1
    BY <1>1
  <2>3. Before(q[1], q[i + 1])
    BY <1>4, <2>2 DEF Sorted
  <2> QED
    BY <1>1, <2>1, <2>3
<1> QED
  BY <1>1, <1>2, <1>3, <1>4 DEF qq

\* An empty queue has no messages.
LEMMA QueueEmpty == Elems(<<>>) = {} /\ Sorted(<<>>)
<1>1. DOMAIN <<>> = {}
  OBVIOUS
<1> QED
  BY <1>1 DEF Elems, Sorted

\* The messages of typed queues are messages.
LEMMA ElemsType ==
    ASSUME NEW q \in Seq(Message), NEW x \in Elems(q)
    PROVE  x \in Message /\ x.from \in Sender /\ x.n \in Nat
<1>1. x \in Message
  BY DEF Elems
<1> QED
  BY <1>1 DEF Message

(***************************************************************************)
(* Sending to local clients.                                               *)
(***************************************************************************)

\* A non-blocking send leaves a Send channel alone or appends the message,
\* and never overfills it.
LEMMA PushEffect ==
    ASSUME TypeOK, NEW m \in Message, NEW S \in SUBSET Client, Push(m, S)
    PROVE  /\ queue' \in [Client -> Seq(Message)]
           /\ \A c \in Client :
                /\ Len(queue'[c]) <= SendCap
                /\ \/ queue'[c] = queue[c]
                   \/ c \in S /\ queue'[c] = Append(queue[c], m)
           /\ trouble' \in BOOLEAN
<1>1. \A c \in Client : /\ queue[c] \in Seq(Message) /\ Len(queue[c]) <= SendCap
                        /\ Append(queue[c], m) \in Seq(Message)
                        /\ Len(queue[c]) \in Nat
                        /\ Len(Append(queue[c], m)) = Len(queue[c]) + 1
  BY QueueAppend DEF TypeOK
<1>2. SendCap \in Nat
  BY ClusterConstantsOK
<1>3. trouble' \in BOOLEAN
  BY DEF Push
<1> DEFINE full == {c \in S : Len(queue[c]) = SendCap}
<1>4. queue' = [c \in Client |-> IF c \in S \ full THEN Append(queue[c], m)
                                                   ELSE queue[c]]
  BY DEF Push
<1>5. \A c \in Client :
         IF c \in S /\ Len(queue[c]) # SendCap THEN queue'[c] = Append(queue[c], m)
                                               ELSE queue'[c] = queue[c]
  BY <1>4
<1>6. \A c \in Client : Len(queue'[c]) <= SendCap
  BY <1>1, <1>2, <1>5
<1> QED
  BY <1>1, <1>3, <1>4, <1>5, <1>6

\* If the message is later than all that has come to the addressees, the
\* order at every client stays.
LEMMA PushOrder ==
    ASSUME TypeOK, InOrder, NEW m \in Message, NEW S \in SUBSET Client, Push(m, S),
           \A c \in S : \A x \in Reached(c) : Before(x, m),
           UNCHANGED got
    PROVE  \A c \in Client :
             /\ Sorted(queue'[c])
             /\ \A x \in Elems(got'[c]), y \in Elems(queue'[c]) : Before(x, y)
             /\ Reached(c)' \subseteq Reached(c) \cup {m}
             /\ c \notin S => Reached(c)' = Reached(c)
<1> SUFFICES ASSUME NEW c \in Client
             PROVE  /\ Sorted(queue'[c])
                    /\ \A x \in Elems(got'[c]), y \in Elems(queue'[c]) : Before(x, y)
                    /\ Reached(c)' \subseteq Reached(c) \cup {m}
                    /\ c \notin S => Reached(c)' = Reached(c)
  OBVIOUS
<1>1. /\ Sorted(queue[c]) /\ queue[c] \in Seq(Message)
      /\ \A x \in Elems(got[c]), y \in Elems(queue[c]) : Before(x, y)
  BY DEF InOrder, TypeOK
<1>2. Reached(c)' = Elems(got[c]) \cup Elems(queue'[c])
  BY DEF Reached, Elems
<1>3. CASE queue'[c] = queue[c]
  BY <1>1, <1>2, <1>3 DEF Reached
<1>4. CASE c \in S /\ queue'[c] = Append(queue[c], m)
  <2>1. /\ Elems(queue'[c]) = Elems(queue[c]) \cup {m}
        /\ (\A x \in Elems(queue[c]) : Before(x, m)) => Sorted(queue'[c])
    BY <1>1, <1>4, QueueAppend
  <2>2. \A x \in Elems(got[c]) \cup Elems(queue[c]) : Before(x, m)
    BY <1>4 DEF Reached
  <2> QED
    BY <1>1, <1>2, <1>4, <2>1, <2>2 DEF Reached
<1> QED
  BY <1>3, <1>4, PushEffect

(***************************************************************************)
(* The invariant, step by step.                                            *)
(***************************************************************************)

\* TypeOK without the books of the hubs.
DataOK ==
    /\ sent \in [Sender -> Nat]
    /\ cur \in [Sender -> Message \cup {NoMsg}]
    /\ queue \in [Client -> Seq(Message)] /\ got \in [Client -> Seq(Message)]
    /\ \A c \in Client : Len(queue[c]) <= SendCap
    /\ sub \in [Node -> SUBSET Kind]
    /\ wire \in [Node -> [Kind -> Seq(Message)]]
    /\ \A n \in Node, k \in Kind : wire[n][k] # <<>> => k \in sub[n]
    /\ faults \in 0..MaxFaults
    /\ trouble \in BOOLEAN

DataInv == DataOK /\ Genuine /\ InOrder /\ Pending

\* Where a sender is, and where its messages count as foreign.
LEMMA HomeType ==
    /\ \A s \in Sender : Home(s) \in Node
    /\ \A c \in Client : Home(c) = NodeOf[c]
    /\ \A n \in Node : Home(n) = n
BY ClusterConstantsOK DEF Home, Sender

\* A new message, offered to clients of the sender's own node.
LEMMA SendStep ==
    ASSUME TypeOK, DataInv, NEW s \in Sender, NEW kind \in Kind,
           NEW to \in User \cup {NoUser}, kind # "direct" => to = NoUser,
           NEW S \in SUBSET Client,
           \A d \in S : NodeOf[d] = Home(s) /\ to \in {NoUser, UserOf[d]},
           NEW publishes \in BOOLEAN, cur[s] = NoMsg,
           SendHere(s, Msg(s, kind, to), S, publishes)
    PROVE  DataInv'
<1> DEFINE m == Msg(s, kind, to)
<1>1. /\ m \in Message /\ m.from = s /\ m.n = sent[s] + 1 /\ m.kind = kind
      /\ m.to = to /\ sent[s] \in Nat
  BY DEF Msg, Message, TypeOK
<1>2. /\ sent' = [sent EXCEPT ![s] = @ + 1]
      /\ cur' = [cur EXCEPT ![s] = IF publishes THEN m ELSE NoMsg]
      /\ Push(m, S)
      /\ UNCHANGED <<got, sub, wire, faults>>
  BY DEF SendHere, bridge
<1> HIDE DEF m
<1>3. \A c \in Client : \A x \in Reached(c) :
         x \in Message /\ x.from \in Sender /\ x.n \in Nat
  <2>1. \A c \in Client : queue[c] \in Seq(Message) /\ got[c] \in Seq(Message)
    BY DEF TypeOK
  <2> QED
    BY <2>1, ElemsType DEF Reached
<1>4. \A n \in Node, k \in Kind : \A x \in Elems(wire[n][k]) :
         x \in Message /\ x.from \in Sender /\ x.n \in Nat
  <2>1. \A n \in Node, k \in Kind : wire[n][k] \in Seq(Message)
    BY DEF TypeOK
  <2> QED
    BY <2>1, ElemsType
<1>5. \A c \in Client : \A x \in Reached(c) : Before(x, m)
  BY <1>1, <1>3 DEF DataInv, Genuine, Before
<1>6. \A c \in Client :
        /\ Sorted(queue'[c])
        /\ \A x \in Elems(got'[c]), y \in Elems(queue'[c]) : Before(x, y)
        /\ Reached(c)' \subseteq Reached(c) \cup {m}
        /\ c \notin S => Reached(c)' = Reached(c)
  BY <1>1, <1>2, <1>5, PushOrder DEF DataInv
<1>7. \A r \in Sender : sent'[r] \in Nat /\ sent'[r] >= sent[r]
                        /\ (r # s => sent'[r] = sent[r])
  BY <1>2 DEF TypeOK
<1>8. sent'[s] = sent[s] + 1
  BY <1>2 DEF TypeOK
<1>9. DataOK'
  <2>1. sent' \in [Sender -> Nat]
    BY <1>1, <1>2 DEF TypeOK
  <2>2. cur' \in [Sender -> Message \cup {NoMsg}]
    BY <1>1, <1>2 DEF TypeOK
  <2>3. /\ queue' \in [Client -> Seq(Message)] /\ trouble' \in BOOLEAN
        /\ \A c \in Client : Len(queue'[c]) <= SendCap
    BY <1>1, <1>2, PushEffect
  <2> QED
    BY <1>2, <2>1, <2>2, <2>3 DEF DataOK, DataInv
<1>10. Genuine'
  <2>1. ASSUME NEW c \in Client, NEW x \in Reached(c)'
        PROVE  x.n \in 1..sent'[x.from] /\ x.to \in {NoUser, UserOf[c]}
    <3>1. CASE x \in Reached(c)
      BY <1>3, <1>7, <3>1 DEF DataInv, Genuine, TypeOK
    <3>2. CASE x = m /\ c \in S
      BY <1>1, <1>8, <3>2
    <3> QED
      BY <1>6, <3>1, <3>2
  <2>2. ASSUME NEW n \in Node, NEW k \in Kind, NEW x \in Elems(wire'[n][k])
        PROVE  /\ x.n \in 1..sent'[x.from] /\ x.kind = k
               /\ k # "direct" => x.to = NoUser
    BY <1>2, <1>4, <1>7 DEF DataInv, Genuine, TypeOK
  <2>3. ASSUME NEW r \in Sender, cur'[r] # NoMsg
        PROVE  /\ cur'[r].from = r /\ cur'[r].n = sent'[r] /\ sent'[r] > 0
               /\ cur'[r].kind # "direct" => cur'[r].to = NoUser
    <3>1. CASE r = s
      <4>1. cur'[r] = m
        BY <1>2, <2>3, <3>1 DEF TypeOK
      <4> QED
        BY <1>1, <1>8, <3>1, <4>1
    <3>2. CASE r # s
      <4>1. cur'[r] = cur[r] /\ sent'[r] = sent[r]
        BY <1>2, <1>7, <3>2 DEF TypeOK
      <4> QED
        BY <2>3, <4>1 DEF DataInv, Genuine
    <3> QED
      BY <3>1, <3>2
  <2> QED
    BY <2>1, <2>2, <2>3 DEF Genuine
<1>11. InOrder'
  <2>1. ASSUME NEW c \in Client, NEW k \in Kind, NEW x \in Reached(c)',
               NEW y \in Elems(wire'[NodeOf[c]][k]), Home(x.from) # NodeOf[c]
        PROVE  Before(x, y)
    <3>1. x \in Reached(c)
      BY <1>1, <1>6, <2>1
    <3> QED
      BY <1>2, <2>1, <3>1 DEF DataInv, InOrder
  <2>2. \A n \in Node, k \in Kind : Sorted(wire'[n][k])
    BY <1>2 DEF DataInv, InOrder
  <2> QED
    BY <1>6, <2>1, <2>2 DEF InOrder
<1>12. Pending'
  <2> SUFFICES ASSUME NEW r \in Sender, cur'[r] # NoMsg
               PROVE  /\ \A n \in Node, k \in Kind : \A x \in Elems(wire'[n][k]) :
                           x.from = r => x.n < sent'[r]
                      /\ \A c \in Client : \A x \in Reached(c)' :
                           x.from = r /\ Home(r) # NodeOf[c] => x.n < sent'[r]
    BY DEF Pending
  <2>1. CASE r = s
    <3>1. \A n \in Node, k \in Kind : \A x \in Elems(wire'[n][k]) :
            x.from = r => x.n < sent'[r]
      BY <1>1, <1>2, <1>4, <1>8, <2>1 DEF DataInv, Genuine
    <3>2. ASSUME NEW c \in Client, NEW x \in Reached(c)', x.from = r,
                 Home(r) # NodeOf[c]
          PROVE  x.n < sent'[r]
      <4>1. x \in Reached(c)
        BY <1>6, <2>1, <3>2
      <4> QED
        BY <1>1, <1>3, <1>8, <2>1, <3>2, <4>1 DEF DataInv, Genuine
    <3> QED
      BY <3>1, <3>2
  <2>2. CASE r # s
    <3>1. cur[r] # NoMsg /\ sent'[r] = sent[r]
      BY <1>2, <1>7, <2>2 DEF TypeOK
    <3>2. ASSUME NEW c \in Client, NEW x \in Reached(c)', x.from = r,
                 Home(r) # NodeOf[c]
          PROVE  x.n < sent'[r]
      <4>1. x \in Reached(c)
        BY <1>1, <1>6, <2>2, <3>2
      <4> QED
        BY <3>1, <3>2, <4>1 DEF DataInv, Pending
    <3> QED
      BY <1>2, <3>1, <3>2 DEF DataInv, Pending
  <2> QED
    BY <2>1, <2>2
<1> QED
  BY <1>9, <1>10, <1>11, <1>12 DEF DataInv

\* Messages on their way have a sender and a number.
LEMMA OnTheWay ==
    ASSUME DataOK
    PROVE  /\ \A c \in Client : \A x \in Reached(c) :
                x \in Message /\ x.from \in Sender /\ x.n \in Nat
           /\ \A n \in Node, k \in Kind : \A x \in Elems(wire[n][k]) :
                x \in Message /\ x.from \in Sender /\ x.n \in Nat
<1>1. \A c \in Client : queue[c] \in Seq(Message) /\ got[c] \in Seq(Message)
  BY DEF DataOK
<1>2. \A n \in Node, k \in Kind : wire[n][k] \in Seq(Message)
  BY DEF DataOK
<1> QED
  BY <1>1, <1>2, ElemsType DEF Reached

\* A message goes to Valkey: it is the last of its sender everywhere.
LEMMA PublishStep ==
    ASSUME DataInv, NEW s \in Sender, Publish(s)
    PROVE  DataInv'
<1> DEFINE m == cur[s]
           k == cur[s].kind
<1>1. /\ cur[s] # NoMsg /\ cur' = [cur EXCEPT ![s] = NoMsg]
      /\ wire' = [n \in Node |->
                    IF k \in sub[n] THEN [wire[n] EXCEPT ![k] = Append(@, m)]
                                    ELSE wire[n]]
      /\ UNCHANGED <<sent, queue, got, sub, faults, trouble>>
  BY DEF Publish, Settle
<1>2. /\ m \in Message /\ m.from = s /\ m.n = sent[s] /\ sent[s] > 0
      /\ k \in Kind /\ m.kind = k /\ (k # "direct" => m.to = NoUser)
      /\ sent[s] \in Nat
  BY <1>1 DEF DataInv, DataOK, Genuine, Message
<1> HIDE DEF m, k
<1>3. ASSUME NEW n \in Node, NEW j \in Kind
      PROVE  \/ wire'[n][j] = wire[n][j]
             \/ j = k /\ k \in sub[n] /\ wire'[n][j] = Append(wire[n][j], m)
  BY <1>1, <1>2 DEF DataInv, DataOK
<1>4. \A n \in Node, j \in Kind : wire[n][j] \in Seq(Message) /\ Sorted(wire[n][j])
  BY DEF DataInv, DataOK, InOrder
<1>5. \A n \in Node, j \in Kind : \A x \in Elems(wire[n][j]) : Before(x, m)
  BY <1>1, <1>2 DEF DataInv, Pending, Before
<1>6. ASSUME NEW n \in Node, NEW j \in Kind
      PROVE  /\ wire'[n][j] \in Seq(Message) /\ Sorted(wire'[n][j])
             /\ wire'[n][j] # <<>> => j \in sub[n]
             /\ Elems(wire'[n][j]) \subseteq Elems(wire[n][j]) \cup {m}
             /\ m \in Elems(wire'[n][j]) \ Elems(wire[n][j]) => j = k
  <2>1. CASE wire'[n][j] = wire[n][j]
    BY <1>4, <2>1 DEF DataInv, DataOK
  <2>2. CASE j = k /\ k \in sub[n] /\ wire'[n][j] = Append(wire[n][j], m)
    BY <1>2, <1>4, <1>5, <2>2, QueueAppend
  <2> QED
    BY <1>3, <2>1, <2>2
<1>7. wire' \in [Node -> [Kind -> Seq(Message)]]
  <2>1. \A n \in Node : wire'[n] \in [Kind -> Seq(Message)]
    <3> SUFFICES ASSUME NEW n \in Node PROVE wire'[n] \in [Kind -> Seq(Message)]
      OBVIOUS
    <3>1. wire[n] \in [Kind -> Seq(Message)] /\ Append(wire[n][k], m) \in Seq(Message)
      BY <1>2, QueueAppend DEF DataInv, DataOK
    <3> QED
      BY <1>1, <3>1
  <2> QED
    BY <1>1, <2>1
<1>8. DataOK'
  <2>1. cur' \in [Sender -> Message \cup {NoMsg}]
    BY <1>1 DEF DataInv, DataOK
  <2> QED
    BY <1>1, <1>6, <1>7, <2>1 DEF DataInv, DataOK
<1>9. \A c \in Client : Reached(c)' = Reached(c)
  BY <1>1 DEF Reached
<1>10. \A r \in Sender : cur'[r] # NoMsg => cur'[r] = cur[r] /\ r # s
  BY <1>1 DEF DataInv, DataOK
<1>11. Genuine'
  <2>1. \A n \in Node, j \in Kind : \A x \in Elems(wire'[n][j]) :
          /\ x.n \in 1..sent'[x.from] /\ x.kind = j
          /\ j # "direct" => x.to = NoUser
    <3> SUFFICES ASSUME NEW n \in Node, NEW j \in Kind, NEW x \in Elems(wire'[n][j])
                 PROVE  /\ x.n \in 1..sent[x.from] /\ x.kind = j
                        /\ j # "direct" => x.to = NoUser
      BY <1>1
    <3>1. CASE x \in Elems(wire[n][j])
      BY <3>1 DEF DataInv, Genuine
    <3>2. CASE x = m /\ x \notin Elems(wire[n][j])
      <4>1. j = k
        BY <1>6, <3>2
      <4> QED
        BY <1>2, <3>2, <4>1
    <3> QED
      BY <1>6, <3>1, <3>2
  <2> QED
    BY <1>1, <1>9, <1>10, <2>1 DEF DataInv, Genuine
<1>12. InOrder'
  <2>1. ASSUME NEW c \in Client, NEW j \in Kind, NEW x \in Reached(c),
               NEW y \in Elems(wire'[NodeOf[c]][j]), Home(x.from) # NodeOf[c]
        PROVE  Before(x, y)
    <3>1. NodeOf[c] \in Node
      BY ClusterConstantsOK
    <3>2. CASE y \in Elems(wire[NodeOf[c]][j])
      BY <2>1, <3>2 DEF DataInv, InOrder
    <3>3. CASE y = m
      BY <1>1, <1>2, <2>1, <3>3 DEF DataInv, Pending, Before
    <3> QED
      BY <1>6, <3>1, <3>2, <3>3
  <2>2. \A c \in Client :
          /\ Sorted(queue'[c])
          /\ \A x \in Elems(got'[c]), y \in Elems(queue'[c]) : Before(x, y)
    BY <1>1 DEF DataInv, InOrder
  <2> QED
    BY <1>6, <1>9, <2>1, <2>2 DEF InOrder
<1>13. Pending'
  <2>1. \A r \in Sender \ {s} : \A n \in Node, j \in Kind :
          \A x \in Elems(wire'[n][j]) : x.from = r => x \in Elems(wire[n][j])
    BY <1>2, <1>6
  <2> QED
    BY <1>1, <1>9, <1>10, <2>1 DEF DataInv, Pending
<1> QED
  BY <1>8, <1>11, <1>12, <1>13 DEF DataInv

\* The subscriber of a node takes a message and offers it to its clients: it
\* is later than what they have, and earlier than what is still to come.
LEMMA IncomingStep ==
    ASSUME TypeOK, DataInv, NEW n \in Node, NEW k \in Kind, HandleIncomingMessage(n, k)
    PROVE  DataInv'
<1> DEFINE q == wire[n][k]
           m == Head(q)
<1>1. /\ q # <<>> /\ wire' = [wire EXCEPT ![n][k] = Tail(q)]
      /\ UNCHANGED <<sent, cur, got, sub, faults>>
  BY DEF HandleIncomingMessage, sending
<1>2. q \in Seq(Message) /\ Sorted(q)
  BY DEF DataInv, DataOK, InOrder
<1>3. /\ m \in Message /\ m \in Elems(q) /\ Tail(q) \in Seq(Message)
      /\ Elems(Tail(q)) \subseteq Elems(q) /\ Sorted(Tail(q))
      /\ \A x \in Elems(Tail(q)) : Before(m, x)
  BY <1>1, <1>2, QueueTail
<1>4. /\ m.n \in 1..sent[m.from] /\ m.kind = k /\ m.from \in Sender
      /\ k # "direct" => m.to = NoUser
  BY <1>3 DEF DataInv, Genuine, Message
<1>5. \A i \in Node, j \in Kind :
        /\ wire'[i][j] = IF i = n /\ j = k THEN Tail(q) ELSE wire[i][j]
        /\ wire'[i][j] \in Seq(Message)
        /\ Elems(wire'[i][j]) \subseteq Elems(wire[i][j])
        /\ Sorted(wire'[i][j])
  <2>1. \A i \in Node, j \in Kind :
          wire'[i][j] = IF i = n /\ j = k THEN Tail(q) ELSE wire[i][j]
    BY <1>1 DEF DataInv, DataOK
  <2>2. \A i \in Node, j \in Kind : wire[i][j] \in Seq(Message) /\ Sorted(wire[i][j])
    BY DEF DataInv, DataOK, InOrder
  <2> HIDE DEF m
  <2> QED
    BY <1>3, <2>1, <2>2
<1> DEFINE S == IF Home(m.from) = n THEN {} ELSE Addressees(n, m)
<1>6. /\ S \in SUBSET Client
      /\ \A c \in S : /\ NodeOf[c] = n /\ Home(m.from) # n
                      /\ m.to \in {NoUser, UserOf[c]}
  BY <1>4 DEF Addressees, ClientsOn, MembersOn, TypeOK, Kind
<1>7. \A c \in S : \A x \in Reached(c) : Before(x, m)
  <2> SUFFICES ASSUME NEW c \in S, NEW x \in Reached(c) PROVE Before(x, m)
    OBVIOUS
  <2> HIDE DEF m, S
  <2>1. c \in Client /\ NodeOf[c] = n /\ Home(m.from) # NodeOf[c]
        /\ m \in Elems(wire[NodeOf[c]][k])
    BY <1>3, <1>6
  <2>2. CASE Home(x.from) # NodeOf[c]
    BY <2>1, <2>2 DEF DataInv, InOrder
  <2>3. CASE Home(x.from) = NodeOf[c]
    BY <2>1, <2>3 DEF Before
  <2> QED
    BY <2>2, <2>3
<1>8. /\ queue' \in [Client -> Seq(Message)] /\ trouble' \in BOOLEAN
      /\ \A c \in Client : Len(queue'[c]) <= SendCap
      /\ \A c \in Client :
          /\ Sorted(queue'[c])
          /\ \A x \in Elems(got'[c]), y \in Elems(queue'[c]) : Before(x, y)
          /\ Reached(c)' \subseteq Reached(c) \cup {m}
          /\ c \notin S => Reached(c)' = Reached(c)
  <2>1. CASE Home(m.from) = n
    <3>1. UNCHANGED <<queue, trouble, got>>
      BY <1>1, <2>1 DEF HandleIncomingMessage
    <3>2. \A c \in Client : Reached(c)' = Reached(c)
      BY <3>1 DEF Reached
    <3> HIDE DEF m, S
    <3> QED
      BY <3>1, <3>2 DEF DataInv, DataOK, InOrder
  <2>2. CASE Home(m.from) # n
    <3>1. Push(m, S) /\ UNCHANGED got
      BY <1>1, <2>2 DEF HandleIncomingMessage
    <3> HIDE DEF m, S
    <3> QED
      BY <1>3, <1>6, <1>7, <3>1, PushEffect, PushOrder DEF DataInv
  <2> QED
    BY <2>1, <2>2
<1> HIDE DEF m, S
<1>9. DataOK'
  <2>1. wire' \in [Node -> [Kind -> Seq(Message)]]
    BY <1>1, <1>3 DEF DataInv, DataOK
  <2>2. \A i \in Node, j \in Kind : wire'[i][j] # <<>> => j \in sub[i]
    BY <1>1, <1>5 DEF DataInv, DataOK
  <2> QED
    BY <1>1, <1>8, <2>1, <2>2 DEF DataInv, DataOK
<1>10. Genuine'
  <2>1. ASSUME NEW c \in Client, NEW x \in Reached(c)'
        PROVE  x.n \in 1..sent[x.from] /\ x.to \in {NoUser, UserOf[c]}
    <3>1. CASE x \in Reached(c)
      BY <3>1 DEF DataInv, Genuine
    <3>2. CASE x = m /\ c \in S
      BY <1>4, <1>6, <3>2
    <3> QED
      BY <1>8, <3>1, <3>2
  <2>2. \A i \in Node, j \in Kind : \A x \in Elems(wire'[i][j]) :
          /\ x.n \in 1..sent[x.from] /\ x.kind = j
          /\ j # "direct" => x.to = NoUser
    BY <1>5 DEF DataInv, Genuine
  <2> QED
    BY <1>1, <2>1, <2>2 DEF DataInv, Genuine
<1>11. InOrder'
  <2>1. ASSUME NEW c \in Client, NEW j \in Kind, NEW x \in Reached(c)',
               NEW y \in Elems(wire'[NodeOf[c]][j]), Home(x.from) # NodeOf[c]
        PROVE  Before(x, y)
    <3>1. NodeOf[c] \in Node
      BY ClusterConstantsOK
    <3>2. CASE x \in Reached(c)
      BY <1>5, <2>1, <3>1, <3>2 DEF DataInv, InOrder
    <3>3. CASE x = m /\ c \in S
      <4>1. NodeOf[c] = n
        BY <1>6, <3>3
      <4>2. CASE j = k
        BY <1>3, <1>5, <2>1, <3>3, <4>1, <4>2
      <4>3. CASE j # k
        <5>1. y \in Elems(wire[n][j])
          BY <1>5, <2>1, <4>1
        <5>2. y.kind = j
          BY <5>1 DEF DataInv, Genuine
        <5> QED
          BY <1>4, <3>3, <4>3, <5>2 DEF Before
      <4> QED
        BY <4>2, <4>3
    <3> QED
      BY <1>8, <3>2, <3>3
  <2> QED
    BY <1>5, <1>8, <2>1 DEF InOrder
<1>12. Pending'
  <2> SUFFICES ASSUME NEW r \in Sender, cur[r] # NoMsg
               PROVE  /\ \A i \in Node, j \in Kind : \A x \in Elems(wire'[i][j]) :
                           x.from = r => x.n < sent[r]
                      /\ \A c \in Client : \A x \in Reached(c)' :
                           x.from = r /\ Home(r) # NodeOf[c] => x.n < sent[r]
    BY <1>1 DEF Pending
  <2>1. \A i \in Node, j \in Kind : \A x \in Elems(wire'[i][j]) :
          x.from = r => x.n < sent[r]
    BY <1>5 DEF DataInv, Pending
  <2>2. m.from = r => m.n < sent[r]
    BY <1>3 DEF DataInv, Pending
  <2>3. \A c \in Client : \A x \in Reached(c)' :
          x.from = r /\ Home(r) # NodeOf[c] => x.n < sent[r]
    BY <1>8, <2>2 DEF DataInv, Pending
  <2> QED
    BY <2>1, <2>3
<1> QED
  BY <1>9, <1>10, <1>11, <1>12 DEF DataInv

\* Valkey fails, or a node's connection to it: messages on the wire are lost.
LEMMA LossStep ==
    ASSUME DataInv,
           \/ \E s \in Sender : PublishFails(s)
           \/ \E n \in Node : LinkLost(n)
    PROVE  DataInv'
<1>1. ASSUME NEW s \in Sender, PublishFails(s) PROVE DataInv'
  <2>1. /\ cur' = [cur EXCEPT ![s] = NoMsg] /\ trouble' = TRUE
        /\ faults' = faults + 1 /\ faults < MaxFaults
        /\ UNCHANGED <<sent, queue, got, sub, wire>>
    BY <1>1 DEF PublishFails, Settle
  <2>2. \A c \in Client : Reached(c)' = Reached(c)
    BY <2>1 DEF Reached
  <2>3. \A r \in Sender : cur'[r] # NoMsg => cur'[r] = cur[r]
    BY <2>1 DEF DataInv, DataOK
  <2>4. DataOK'
    BY <2>1, ClusterConstantsOK DEF DataInv, DataOK
  <2> QED
    BY <2>1, <2>2, <2>3, <2>4 DEF DataInv, Genuine, InOrder, Pending
<1>2. ASSUME NEW n \in Node, LinkLost(n) PROVE DataInv'
  <2>1. /\ sub' = [sub EXCEPT ![n] = {}] /\ trouble' = TRUE
        /\ wire' = [wire EXCEPT ![n] = [k \in Kind |-> <<>>]]
        /\ faults' = faults + 1 /\ faults < MaxFaults
        /\ UNCHANGED <<sent, cur, queue, got>>
    BY <1>2 DEF LinkLost, sending
  <2>2. \A c \in Client : Reached(c)' = Reached(c)
    BY <2>1 DEF Reached
  <2>3. \A i \in Node, k \in Kind :
          wire'[i][k] = IF i = n THEN <<>> ELSE wire[i][k]
    BY <2>1 DEF DataInv, DataOK
  <2>4. \A i \in Node, k \in Kind :
          Elems(wire'[i][k]) \subseteq Elems(wire[i][k]) /\ Sorted(wire'[i][k])
    BY <2>3, QueueEmpty DEF DataInv, InOrder
  <2>5. DataOK'
    <3>1. wire' \in [Node -> [Kind -> Seq(Message)]] /\ sub' \in [Node -> SUBSET Kind]
      BY <2>1 DEF DataInv, DataOK
    <3>2. \A i \in Node, k \in Kind : wire'[i][k] # <<>> => k \in sub'[i]
      BY <2>1, <2>3 DEF DataInv, DataOK
    <3> QED
      BY <2>1, <3>1, <3>2, ClusterConstantsOK DEF DataInv, DataOK
  <2>6. Genuine'
    BY <2>1, <2>2, <2>4 DEF DataInv, Genuine
  <2>7. InOrder'
    <3>1. \A c \in Client : NodeOf[c] \in Node
      BY ClusterConstantsOK
    <3> QED
      BY <2>1, <2>2, <2>4, <3>1 DEF DataInv, InOrder
  <2>8. Pending'
    <3> SUFFICES ASSUME NEW r \in Sender, cur[r] # NoMsg
                 PROVE  /\ \A i \in Node, k \in Kind : \A x \in Elems(wire'[i][k]) :
                             x.from = r => x.n < sent[r]
                        /\ \A c \in Client : \A x \in Reached(c)' :
                             x.from = r /\ Home(r) # NodeOf[c] => x.n < sent[r]
      BY <2>1 DEF Pending
    <3>1. \A i \in Node, k \in Kind : \A x \in Elems(wire'[i][k]) :
            x.from = r => x.n < sent[r]
      BY <2>4 DEF DataInv, Pending
    <3>2. \A c \in Client : \A x \in Reached(c)' :
            x.from = r /\ Home(r) # NodeOf[c] => x.n < sent[r]
      BY <2>2 DEF DataInv, Pending
    <3> QED
      BY <3>1, <3>2
  <2> QED
    BY <2>5, <2>6, <2>7, <2>8 DEF DataInv
<1> QED
  BY <1>1, <1>2

\* A subscription comes back, with nothing waiting for it.
LEMMA ResubscribeStep ==
    ASSUME DataInv, NEW n \in Node, NEW k \in Kind, Resubscribe(n, k)
    PROVE  DataInv'
<1>1. /\ sub' = [sub EXCEPT ![n] = @ \cup {k}]
      /\ UNCHANGED <<sent, cur, queue, got, wire, faults, trouble>>
  BY DEF Resubscribe, sending
<1>2. DataOK'
  BY <1>1 DEF DataInv, DataOK
<1>3. \A c \in Client : Reached(c)' = Reached(c)
  BY <1>1 DEF Reached
<1> QED
  BY <1>1, <1>2, <1>3 DEF DataInv, Genuine, InOrder, Pending

\* The head of a Send channel goes to the socket: the abstract step Hear.
LEMMA WriteStep ==
    ASSUME DataInv, NEW c \in Client, Write(c)
    PROVE  DataInv' /\ Promise!Hear(c)
<1> DEFINE q == queue[c]
           m == Head(q)
<1>1. /\ q # <<>> /\ got' = [got EXCEPT ![c] = Append(got[c], m)]
      /\ queue' = [queue EXCEPT ![c] = Tail(q)]
      /\ UNCHANGED <<sent, cur, sub, wire, faults, trouble>>
  BY DEF Write, sending, bridge
<1>2. q \in Seq(Message) /\ Sorted(q) /\ got[c] \in Seq(Message)
  BY DEF DataInv, DataOK, InOrder
<1>3. /\ m \in Message /\ m \in Elems(q) /\ Tail(q) \in Seq(Message)
      /\ Len(Tail(q)) = Len(q) - 1
      /\ Elems(Tail(q)) \subseteq Elems(q) /\ Sorted(Tail(q))
      /\ \A x \in Elems(Tail(q)) : Before(m, x)
  BY <1>1, <1>2, QueueTail
<1> HIDE DEF m
<1>4. /\ got'[c] = Append(got[c], m) /\ queue'[c] = Tail(q)
      /\ \A d \in Client \ {c} : got'[d] = got[d] /\ queue'[d] = queue[d]
  BY <1>1 DEF DataInv, DataOK
<1>5. /\ got'[c] \in Seq(Message) /\ Elems(got'[c]) = Elems(got[c]) \cup {m}
      /\ Len(got'[c]) = Len(got[c]) + 1 /\ got'[c] # got[c]
  BY <1>2, <1>3, <1>4, QueueAppend
<1>6. \A x \in Elems(got[c]) : Before(x, m)
  BY <1>3 DEF DataInv, InOrder
<1>7. \A d \in Client : Reached(d)' \subseteq Reached(d)
  <2>1. Reached(c)' \subseteq Reached(c)
    BY <1>3, <1>4, <1>5 DEF Reached
  <2>2. \A d \in Client \ {c} : Reached(d)' = Reached(d)
    BY <1>4 DEF Reached
  <2> QED
    BY <2>1, <2>2
<1>8. DataOK'
  <2>1. got' \in [Client -> Seq(Message)] /\ queue' \in [Client -> Seq(Message)]
    BY <1>1, <1>3, <1>4, <1>5 DEF DataInv, DataOK
  <2>2. \A d \in Client : Len(queue'[d]) <= SendCap
    <3>1. Len(q) \in Nat /\ Len(q) <= SendCap /\ SendCap \in Nat
      BY <1>2, ClusterConstantsOK DEF DataInv, DataOK
    <3>2. Len(queue'[c]) <= SendCap
      BY <1>3, <1>4, <3>1
    <3> QED
      BY <1>4, <3>2 DEF DataInv, DataOK
  <2> QED
    BY <1>1, <2>1, <2>2 DEF DataInv, DataOK
<1>9. Genuine'
  BY <1>1, <1>7 DEF DataInv, Genuine
<1>10. InOrder'
  <2>1. Sorted(queue'[c]) /\ \A x \in Elems(got'[c]), y \in Elems(queue'[c]) : Before(x, y)
    BY <1>3, <1>4, <1>5 DEF DataInv, InOrder
  <2>2. \A d \in Client \ {c} :
          Sorted(queue'[d]) /\ \A x \in Elems(got'[d]), y \in Elems(queue'[d]) : Before(x, y)
    BY <1>4 DEF DataInv, InOrder
  <2>3. \A d \in Client, k \in Kind :
         \A x \in Reached(d)', y \in Elems(wire'[NodeOf[d]][k]) :
            Home(x.from) # NodeOf[d] => Before(x, y)
    BY <1>1, <1>7 DEF DataInv, InOrder
  <2>4. \A n \in Node, k \in Kind : Sorted(wire'[n][k])
    BY <1>1 DEF DataInv, InOrder
  <2> QED
    BY <2>1, <2>2, <2>3, <2>4 DEF InOrder
<1>11. Pending'
  BY <1>1, <1>7 DEF DataInv, Pending
<1>12. Promise!Hear(c)
  <2>1. got'[c][Len(got'[c])] = m
    BY <1>2, <1>3, <1>4, <1>5
  <2>2. m.n \in 1..sent[m.from] /\ m.to \in {NoUser, UserOf[c]}
    BY <1>3 DEF DataInv, Genuine, Reached
  <2>3. \A i \in DOMAIN got[c] :
          got[c][i].from = m.from /\ got[c][i].kind = m.kind => got[c][i].n < m.n
    BY <1>6 DEF Elems, Before
  <2>4. got' = [got EXCEPT ![c] = Append(@, m)] /\ got'[c] # got[c] /\ UNCHANGED sent
    BY <1>1, <1>5
  <2> QED
    BY <2>1, <2>2, <2>3, <2>4 DEF Promise!Hear
<1> QED
  BY <1>8, <1>9, <1>10, <1>11, <1>12 DEF DataInv

(***************************************************************************)
(* The clients' goroutines and the hubs.                                   *)
(***************************************************************************)

\* The books of the hubs.
BooksOK == on \in SUBSET Client /\ members \in SUBSET on

\* TypeOK is its two parts.
LEMMA TypeSplit == (TypeOK <=> BooksOK /\ DataOK) /\ (Inv <=> BooksOK /\ DataInv)
BY DEF TypeOK, BooksOK, DataOK, Inv, DataInv

\* Nothing but the books changes.
LEMMA QuietStep ==
    ASSUME DataInv, UNCHANGED <<sending, queue, got, bridge, trouble>>
    PROVE  DataInv'
<1>1. UNCHANGED <<sent, cur, queue, got, sub, wire, faults, trouble>>
  BY DEF sending, bridge
<1>2. \A c \in Client : Reached(c)' = Reached(c)
  BY <1>1 DEF Reached
<1> QED
  BY <1>1, <1>2 DEF DataInv, DataOK, Genuine, InOrder, Pending

\* What the goroutine of a connection does is one abstract Send, or nothing.
LEMMA ReadPumpStep ==
    ASSUME Inv, NEW c \in Client, ReadPump(c)
    PROVE  Inv' /\ (Promise!Send(c) \/ UNCHANGED <<sent, got>>)
<1>1. TypeOK /\ DataInv /\ BooksOK
  BY TypeSplit DEF Inv
<1>2. c \in Sender /\ Home(c) = NodeOf[c]
  BY HomeType DEF Sender
<1> DEFINE Here == {d \in Client : NodeOf[d] = NodeOf[c]}
<1>3. /\ ClientsOn(NodeOf[c]) \in SUBSET Here
      /\ MembersOn(NodeOf[c]) \in SUBSET Here
  BY <1>1 DEF BooksOK, ClientsOn, MembersOn
<1>4. ASSUME NEW kind \in Kind, NEW to \in User \cup {NoUser},
             kind # "direct" => to = NoUser, NEW S \in SUBSET Here,
             \A d \in S : to \in {NoUser, UserOf[d]},
             NEW publishes \in BOOLEAN, Ready(c),
             SendHere(c, Msg(c, kind, to), S, publishes)
      PROVE  DataInv' /\ Promise!Send(c)
  <2>1. S \in SUBSET Client /\ \A d \in S : NodeOf[d] = Home(c) /\ to \in {NoUser, UserOf[d]}
    BY <1>2, <1>4
  <2>2. cur[c] = NoMsg
    BY <1>4 DEF Ready
  <2>3. DataInv'
    BY <1>1, <1>2, <1>4, <2>1, <2>2, SendStep
  <2> QED
    BY <1>4, <2>3 DEF SendHere, Promise!Send
<1> HIDE DEF Here
<1>5. "broadcast" \in Kind /\ "room" \in Kind /\ "direct" \in Kind
  BY DEF Kind
<1>6. CASE BroadcastMessage(c)
  <2>1. DataInv' /\ Promise!Send(c)
    BY <1>3, <1>4, <1>5, <1>6 DEF BroadcastMessage
  <2>2. BooksOK'
    BY <1>1, <1>6 DEF BroadcastMessage, BooksOK
  <2> QED
    BY <2>1, <2>2, TypeSplit, PTL
<1>7. CASE RoomMessage(c)
  <2>1. DataInv' /\ Promise!Send(c)
    BY <1>3, <1>4, <1>5, <1>7 DEF RoomMessage
  <2>2. BooksOK'
    BY <1>1, <1>7 DEF RoomMessage, BooksOK
  <2> QED
    BY <2>1, <2>2, TypeSplit, PTL
<1>8. CASE JoinRoom(c)
  <2> DEFINE S == {d \in MembersOn(NodeOf[c]) : UserOf[d] # UserOf[c]}
  <2>1. S \in SUBSET Here
    BY <1>3
  <2>2. SendHere(c, Msg(c, "room", NoUser), S, TRUE) /\ Ready(c)
    BY <1>8 DEF JoinRoom
  <2> HIDE DEF S
  <2>3. DataInv' /\ Promise!Send(c)
    BY <1>4, <1>5, <2>1, <2>2
  <2>4. BooksOK'
    BY <1>1, <1>8 DEF JoinRoom, BooksOK
  <2> QED
    BY <2>3, <2>4, TypeSplit, PTL
<1>9. CASE LeaveRoom(c)
  <2> DEFINE rest == MembersOn(NodeOf[c]) \ {c}
             S == {d \in rest : UserOf[d] # UserOf[c]}
  <2>1. S \in SUBSET Here
    BY <1>3
  <2>2. BooksOK'
    BY <1>1, <1>9 DEF LeaveRoom, BooksOK
  <2>3. CASE rest # {}
    <3>1. SendHere(c, Msg(c, "room", NoUser), S, TRUE) /\ Ready(c)
      BY <1>9, <2>3 DEF LeaveRoom
    <3> HIDE DEF S
    <3>2. DataInv' /\ Promise!Send(c)
      BY <1>4, <1>5, <2>1, <3>1
    <3> QED
      BY <2>2, <3>2, TypeSplit, PTL
  <2>4. CASE rest = {}
    <3>1. UNCHANGED <<sending, queue, got, bridge, trouble>>
      BY <1>9, <2>4 DEF LeaveRoom
    <3>2. DataInv' /\ UNCHANGED <<sent, got>>
      BY <1>1, <3>1, QuietStep DEF sending
    <3> QED
      BY <2>2, <3>2, TypeSplit, PTL
  <2> QED
    BY <2>3, <2>4
<1>10. ASSUME NEW u \in User, SendToUser(c, u)
       PROVE  Inv' /\ Promise!Send(c)
  <2> DEFINE local == {d \in ClientsOn(NodeOf[c]) : UserOf[d] = u}
             publishes == local = {}
  <2>1. local \in SUBSET Here /\ \A d \in local : u \in {NoUser, UserOf[d]}
    BY <1>3
  <2>2. SendHere(c, Msg(c, "direct", u), local, publishes) /\ Ready(c)
    BY <1>10 DEF SendToUser
  <2>3. publishes \in BOOLEAN /\ u \in User \cup {NoUser}
    OBVIOUS
  <2> HIDE DEF local, publishes
  <2>4. DataInv' /\ Promise!Send(c)
    BY <1>4, <1>5, <2>1, <2>2, <2>3
  <2>5. BooksOK'
    BY <1>1, <1>10 DEF SendToUser, BooksOK
  <2> QED
    BY <2>4, <2>5, TypeSplit, PTL
<1> QED
  BY <1>6, <1>7, <1>8, <1>9, <1>10 DEF ReadPump

\* So is what Hub.Run does when a connection ends.
LEMMA UnregisterStep ==
    ASSUME Inv, NEW c \in Client, Unregister(c)
    PROVE  Inv' /\ Promise!Send(NodeOf[c])
<1> DEFINE n == NodeOf[c]
           m == Msg(n, "broadcast", NoUser)
           S == ClientsOn(n) \ {c}
<1>1. TypeOK /\ DataInv /\ BooksOK
  BY TypeSplit DEF Inv
<1>2. n \in Sender /\ n \in Node /\ Home(n) = n
  BY HomeType, ClusterConstantsOK DEF Sender
<1>3. cur[n] = NoMsg
  BY DEF Unregister, Ready
<1>4. SendHere(n, m, S, TRUE)
  BY DEF Unregister, SendHere
<1>5. S \in SUBSET Client /\ \A d \in S : NodeOf[d] = Home(n)
  BY <1>1, <1>2 DEF ClientsOn, BooksOK
<1> HIDE DEF n, S
<1>6. DataInv'
  BY <1>1, <1>2, <1>3, <1>4, <1>5, SendStep DEF Kind
<1>7. BooksOK'
  BY <1>1 DEF Unregister, BooksOK
<1>8. Promise!Send(n)
  BY <1>4 DEF SendHere, Promise!Send
<1> QED
  BY <1>6, <1>7, <1>8, TypeSplit, PTL DEF n

-----------------------------------------------------------------------------
\* At the start nothing is on its way.
LEMMA InitInv == Init => Inv /\ Promise!Init
<1> SUFFICES ASSUME Init PROVE Inv /\ Promise!Init
  OBVIOUS
<1>1. /\ \A c \in Client : queue[c] = <<>> /\ got[c] = <<>>
      /\ \A n \in Node, k \in Kind : wire[n][k] = <<>>
      /\ \A s \in Sender : cur[s] = NoMsg
  BY DEF Init
<1>2. TypeOK
  <2>1. <<>> \in Seq(Message) /\ Len(<<>>) = 0
    OBVIOUS
  <2>2. SendCap \in Nat /\ MaxFaults \in Nat
    BY ClusterConstantsOK
  <2>3. \A c \in Client : Len(queue[c]) <= SendCap
    BY <1>1, <2>1, <2>2
  <2>4. sent \in [Sender -> Nat] /\ cur \in [Sender -> Message \cup {NoMsg}]
    BY DEF Init
  <2>5. queue \in [Client -> Seq(Message)] /\ got \in [Client -> Seq(Message)]
    BY <2>1 DEF Init
  <2>6. sub \in [Node -> SUBSET Kind] /\ wire \in [Node -> [Kind -> Seq(Message)]]
    BY <2>1 DEF Init
  <2>7. trouble \in BOOLEAN
    BY DEF Init
  <2>8. faults \in 0..MaxFaults /\ on \in SUBSET Client /\ members \in SUBSET on
    BY <2>2 DEF Init
  <2> QED
    BY <1>1, <2>3, <2>4, <2>5, <2>6, <2>7, <2>8 DEF TypeOK
<1>3. /\ \A c \in Client : Elems(queue[c]) = {} /\ Elems(got[c]) = {} /\ Reached(c) = {}
      /\ \A n \in Node, k \in Kind : Elems(wire[n][k]) = {}
      /\ \A c \in Client : Sorted(queue[c])
      /\ \A n \in Node, k \in Kind : Sorted(wire[n][k])
  BY <1>1, QueueEmpty DEF Reached
<1>4. Genuine /\ InOrder /\ Pending
  BY <1>1, <1>3 DEF Genuine, InOrder, Pending
<1>5. Promise!Init
  BY DEF Init, Promise!Init
<1> QED
  BY <1>2, <1>4, <1>5 DEF Inv

\* Every step keeps the invariant and is a step of Feed, or none.
LEMMA StepInv ==
    ASSUME Inv, [Next]_vars
    PROVE  Inv' /\ [Promise!Next]_<<sent, got>>
<1>1. TypeOK /\ DataInv /\ BooksOK
  BY TypeSplit DEF Inv
<1>2. ASSUME NEW c \in Client, ReadPump(c) PROVE Inv' /\ [Promise!Next]_<<sent, got>>
  BY <1>2, ReadPumpStep DEF Promise!Next, Sender
<1>3. ASSUME NEW c \in Client, Unregister(c) PROVE Inv' /\ [Promise!Next]_<<sent, got>>
  <2>1. NodeOf[c] \in Sender
    BY ClusterConstantsOK DEF Sender
  <2> QED
    BY <1>3, <2>1, UnregisterStep DEF Promise!Next
<1>4. ASSUME NEW s \in Sender, Publish(s) \/ PublishFails(s)
      PROVE  Inv' /\ [Promise!Next]_<<sent, got>>
  <2>1. DataInv'
    BY <1>1, <1>4, PublishStep, LossStep
  <2>2. UNCHANGED <<on, members, sent, got>>
    BY <1>4 DEF Publish, PublishFails, Settle
  <2>3. BooksOK'
    BY <1>1, <2>2 DEF BooksOK
  <2>4. Inv'
    BY <2>1, <2>3, TypeSplit, PTL
  <2> QED
    BY <2>2, <2>4
<1>5. ASSUME NEW n \in Node, Valkey(n)
      PROVE  Inv' /\ [Promise!Next]_<<sent, got>>
  <2>1. DataInv'
    BY <1>1, <1>5, LossStep, IncomingStep, ResubscribeStep DEF Valkey
  <2>2. UNCHANGED <<on, members, sent, got>>
    BY <1>5 DEF Valkey, LinkLost, HandleIncomingMessage, Resubscribe, sending
  <2>3. BooksOK'
    BY <1>1, <2>2 DEF BooksOK
  <2>4. Inv'
    BY <2>1, <2>3, TypeSplit, PTL
  <2> QED
    BY <2>2, <2>4
<1>6. ASSUME NEW c \in Client, Write(c) PROVE Inv' /\ [Promise!Next]_<<sent, got>>
  <2>1. DataInv' /\ Promise!Hear(c)
    BY <1>1, <1>6, WriteStep
  <2>2. BooksOK'
    BY <1>1, <1>6 DEF BooksOK, Write
  <2>3. Inv'
    BY <2>1, <2>2, TypeSplit, PTL
  <2> QED
    BY <2>1, <2>3 DEF Promise!Next
<1>7. CASE UNCHANGED vars
  <2>1. DataInv'
    BY <1>1, <1>7, QuietStep DEF vars
  <2>2. BooksOK'
    BY <1>1, <1>7 DEF BooksOK, vars
  <2>3. UNCHANGED <<sent, got>>
    BY <1>7 DEF vars, sending
  <2>4. Inv'
    BY <2>1, <2>2, TypeSplit, PTL
  <2> QED
    BY <2>3, <2>4
<1> QED
  BY <1>2, <1>3, <1>4, <1>5, <1>6, <1>7 DEF Next

-----------------------------------------------------------------------------
\* Wherever a message is on its way, it is genuine, for whom it lies, and
\* behind everything of its sender and channel that has gone before it.
THEOREM Invariance == Spec => []Inv
<1>1. Init => Inv
  BY InitInv
<1>2. Inv /\ [Next]_vars => Inv'
  BY StepInv
<1> QED
  BY <1>1, <1>2, PTL DEF Spec

\* No Send channel is ever overfilled, and Valkey keeps nothing for a
\* subscription that is down.
THEOREM TypeCorrect == Spec => []TypeOK
<1>1. Inv => TypeOK
  BY DEF Inv
<1> QED
  BY <1>1, Invariance, PTL

\* The nodes and Valkey together implement Feed: no client hears a message
\* twice, out of the order of its sender and channel, or one for another user.
THEOREM FeedKeptHolds == Spec => FeedKept
<1>1. Init => Promise!Init
  BY InitInv
<1>2. Inv /\ [Next]_vars => [Promise!Next]_<<sent, got>>
  BY StepInv
<1> QED
  BY <1>1, <1>2, Invariance, PTL DEF Spec, FeedKept, Promise!Spec
=============================================================================
