------------------------- MODULE ElixirBrokerProofs -------------------------
(* Proofs about ElixirBroker, for any requests, keys and bounds. *)
EXTENDS ElixirBroker, FiniteSetTheorems, TLAPS

\* Nothing has happened at the start.
LEMMA InitInv == Init => Inv
<1> SUFFICES ASSUME Init PROVE Inv
  OBVIOUS
<1> USE ElixirConstants
<1>1. {r \in Req : pc[r] # "idle"} = {} /\ {r \in Req : pc[r] = "counted"} = {}
  BY DEF Init
<1>2. Cardinality(Req) \in Nat /\ Cardinality({}) = 0
  BY FS_CardinalityType, FS_EmptySet
<1>3. TypeOK
  <2>1. races \in 0..Cardinality(Req) /\ recent \in Nat
    BY <1>2 DEF Init
  <2>2. mail \in [Conn -> Seq(Event \cup Revoked)]
        /\ \A c \in Conn : mail[c] # <<>> => pc[c] \in Alive
    BY DEF Init
  <2>3. keys \in [Key -> Status] /\ file \in [Key -> Status]
        /\ pc \in [Req -> {"idle"}]
    BY DEF Init, Status
  <2> QED
    <3>1. unsaved \in BOOLEAN
      BY DEF Init
    <3>2. faults \in 0..MaxFaults
      BY DEF Init
    <3> QED
      BY <2>1, <2>2, <2>3, <3>1, <3>2 DEF Init, TypeOK
<1>4. BooksKept /\ SubscribersKnown /\ NothingAfterRevocation
  BY DEF Init, BooksKept, SubscribersKnown, NothingAfterRevocation, Open, Conn, Req
<1>5. Warned /\ SavedKept
  <2>1. \A c \in Conn : mail[c] = <<>> /\ DOMAIN mail[c] = {}
    BY DEF Init
  <2> QED
    BY <2>1 DEF Init, Warned, SavedKept, Conn, Req, Open
<1>6. RacesCounted /\ OverLimitOnlyRaced
  <2>1. races = 0 /\ recent = 0
    BY DEF Init
  <2> QED
    <3>1. Cardinality({r \in Req : pc[r] # "idle"}) = 0
      BY <1>1, <1>2
    <3>2. Cardinality({r \in Req : pc[r] = "counted"}) = 0
      BY <1>1, <1>2
    <3>3. RacesCounted
      BY <2>1, <3>1 DEF RacesCounted
    <3>4. OverLimitOnlyRaced
      BY <2>1, <3>2 DEF OverLimitOnlyRaced
    <3> QED
      BY <3>3, <3>4
<1> QED
  BY <1>3, <1>4, <1>5, <1>6 DEF Inv

(***************************************************************************)
(* Mailboxes.                                                              *)
(***************************************************************************)

\* An event is a message.
LEMMA AnEventType == ASSUME NEW c PROVE AnEvent(c) \in Event
BY DEF AnEvent, Event

\* Telling a set of processes something gives every mailbox its old contents
\* or one message more.
LEMMA TellType ==
    ASSUME TypeOK, NEW S \in SUBSET Conn, Tell(S),
           \A c \in S : pc'[c] \in Alive,
           \A c \in Conn : pc[c] \in Alive => pc'[c] \in Alive
    PROVE  /\ mail' \in [Conn -> Seq(Event \cup Revoked)]
           /\ \A c \in Conn : mail'[c] # <<>> => pc'[c] \in Alive
<1>1. \A c \in Conn : Append(mail[c], AnEvent(c)) \in Seq(Event \cup Revoked)
  BY AnEventType DEF TypeOK
<1> QED
  BY <1>1 DEF Tell, TypeOK

(***************************************************************************)
(* Types and books, action by action.                                      *)
(***************************************************************************)

\* The part of TypeOK that says where processes and their mail may be.
ConnsOK ==
    /\ pc \in [Req -> {"idle", "counted", "admitted", "validated", "subscribed",
                       "ended"} \cup Open]
    /\ subs \subseteq Sse /\ gone \subseteq Sse /\ deaf \subseteq Sse
    /\ topic \subseteq Ws
    /\ watch \subseteq {c \in Conn : pc[c] \in Open}
    /\ late \cup leaked \subseteq Conn
    /\ mail \in [Conn -> Seq(Event \cup Revoked)]
    /\ \A c \in Conn : mail[c] # <<>> => pc[c] \in Alive

\* An ending process leaves the topics, and SSEBroker is told.
LEMMA EndConns ==
    ASSUME ConnsOK, BooksKept, SubscribersKnown, NEW c \in Conn,
           pc[c] \in Open \cup {"validated", "subscribed"}, End(c), UNCHANGED subs
    PROVE  ConnsOK' /\ BooksKept' /\ SubscribersKnown'
<1>1. \A d \in Conn : Append(mail[d], AnEvent(d)) \in Seq(Event \cup Revoked)
  BY AnEventType DEF ConnsOK
<1>2. c \in Req
  BY DEF Conn, Req
<1>3. ConnsOK'
  <2>1. mail' \in [Conn -> Seq(Event \cup Revoked)]
    BY <1>1 DEF ConnsOK, End, Vanish
  <2>2. \A d \in Conn : mail'[d] # <<>> => pc'[d] \in Alive
    BY <1>2 DEF ConnsOK, BooksKept, End, Vanish, Conn
  <2> QED
    BY <1>2, <2>1, <2>2 DEF ConnsOK, End, Vanish
<1>4. BooksKept'
  BY <1>2, ElixirConstants DEF ConnsOK, BooksKept, End, Vanish, Conn, Req, Open,
     Alive
<1>5. SubscribersKnown'
  BY <1>2, ElixirConstants DEF ConnsOK, SubscribersKnown, End, Vanish, Conn, Req,
     Open
<1> QED
  BY <1>3, <1>4, <1>5

\* Whatever the books say of a process fits its stage, at every step.
LEMMA NextConns ==
    ASSUME Inv, [Next]_vars
    PROVE  ConnsOK' /\ BooksKept' /\ SubscribersKnown'
<1> DEFINE Goal == ConnsOK' /\ BooksKept' /\ SubscribersKnown'
<1>0. ConnsOK /\ BooksKept /\ SubscribersKnown /\ TypeOK
  BY DEF Inv, TypeOK, ConnsOK
<1> USE ElixirConstants
<1>1. ASSUME UNCHANGED <<pc, conns>> PROVE Goal
  BY <1>0, <1>1 DEF conns, ConnsOK, BooksKept, SubscribersKnown
<1>2. ASSUME NEW r \in Req, NEW to \in {"counted", "admitted", "validated", "ended"},
             pc[r] \in {"idle", "counted", "admitted"},
             pc' = [pc EXCEPT ![r] = to], UNCHANGED conns
      PROVE  Goal
  <2>1. ConnsOK'
    BY <1>0, <1>2 DEF conns, ConnsOK, Open, Alive
  <2>2. BooksKept'
    BY <1>0, <1>2 DEF conns, ConnsOK, BooksKept, Open, Alive, Conn, Req
  <2>3. SubscribersKnown'
    BY <1>0, <1>2 DEF conns, ConnsOK, BooksKept, SubscribersKnown, Open, Alive,
       Conn, Req
  <2> QED
    BY <2>1, <2>2, <2>3
<1>3. ASSUME NEW c \in Conn, Subscribe(c) PROVE Goal
  <2>1. c \in Req /\ (c \in Sse <=> c \notin Ws) /\ pc[c] = "validated"
    BY <1>3 DEF Conn, Req, Subscribe, Goto
  <2>2. ConnsOK'
    BY <1>0, <1>3, <2>1 DEF Subscribe, Goto, ConnsOK, Open, Alive
  <2>3. BooksKept'
    BY <1>0, <1>3, <2>1 DEF Subscribe, Goto, ConnsOK, BooksKept, Open, Alive, Conn,
       Req
  <2>4. SubscribersKnown'
    BY <1>0, <1>3, <2>1 DEF Subscribe, Goto, ConnsOK, SubscribersKnown, Open, Conn,
       Req
  <2> QED
    BY <2>2, <2>3, <2>4
<1>4. ASSUME NEW c \in Conn, Watch(c) PROVE Goal
  <2>1. c \in Req
    BY DEF Conn, Req
  <2>2. ConnsOK'
    BY <1>0, <1>4, <2>1 DEF Watch, Goto, ConnsOK, Open, Alive
  <2>3. BooksKept'
    BY <1>0, <1>4, <2>1 DEF Watch, Goto, ConnsOK, BooksKept, Open, Alive, Conn, Req
  <2>4. SubscribersKnown'
    BY <1>0, <1>4, <2>1
    DEF Watch, Goto, ConnsOK, BooksKept, SubscribersKnown, Open, Conn, Req
  <2> QED
    BY <2>2, <2>3, <2>4
<1>5. ASSUME NEW S \in SUBSET Conn, Tell(S), \A c \in S : pc'[c] \in Alive,
             UNCHANGED <<subs, gone, topic, watch, late, leaked, deaf>>,
             NEW r \in Req,
             \/ UNCHANGED pc
             \/ r \in Pub /\ \E to \in {"subscribed", "ended"} : pc' = [pc EXCEPT ![r] = to]
             \/ pc[r] = "watching" /\ pc' = [pc EXCEPT ![r] = "open"]
      PROVE  Goal
  <2>1. \A c \in Conn : /\ pc'[c] = pc[c] \/ (pc[c] = "watching" /\ pc'[c] = "open")
                        /\ c \in Req
    BY <1>0, <1>5 DEF ConnsOK, Conn, Req
  <2>2. /\ mail' \in [Conn -> Seq(Event \cup Revoked)]
        /\ \A c \in Conn : mail'[c] # <<>> => pc'[c] \in Alive
    BY <1>0, <1>5, <2>1, TellType DEF Alive, Open
  <2>3. pc' \in [Req -> {"idle", "counted", "admitted", "validated", "subscribed",
                         "ended"} \cup Open]
    BY <1>0, <1>5 DEF ConnsOK, Open
  <2>4. ConnsOK'
    BY <1>0, <1>5, <2>1, <2>2, <2>3 DEF ConnsOK, Open
  <2>5. BooksKept'
    BY <1>0, <1>5, <2>1 DEF ConnsOK, BooksKept, Open, Alive, Conn
  <2>6. SubscribersKnown'
    BY <1>0, <1>5, <2>1 DEF ConnsOK, SubscribersKnown, Open, Conn
  <2> QED
    BY <2>4, <2>5, <2>6
<1>6. ASSUME NEW c \in Conn, Start(c) PROVE Goal
  <2>1. c \in Req /\ topic \in SUBSET Conn /\ {} \in SUBSET Conn
    BY <1>0 DEF Conn, Req, ConnsOK
  <2>2. \A d \in topic : pc'[d] \in Alive
    BY <1>0, <1>6, <2>1 DEF Start, Goto, BooksKept, ConnsOK, Alive, Open, Conn, Req
  <2> DEFINE S == IF c \in Ws THEN topic ELSE {}
  <2>3. S \in SUBSET Conn /\ Tell(S) /\ \A d \in S : pc'[d] \in Alive
    BY <1>6, <2>1, <2>2 DEF Start
  <2> HIDE DEF S
  <2> QED
    BY <1>5, <1>6, <2>1, <2>3 DEF Start, Goto
<1>7. ASSUME NEW c \in Ws, HandleIn(c) PROVE Goal
  <2>1. topic \in SUBSET Conn /\ \A d \in topic : pc'[d] \in Alive
    BY <1>0, <1>7 DEF HandleIn, Conn, ConnsOK, BooksKept
  <2> QED
    BY <1>5, <1>7, <2>1 DEF HandleIn, Req
<1>8. ASSUME NEW p \in Pub, PublishWs(p) PROVE Goal
  <2>1. topic \in SUBSET Conn /\ \A d \in topic : pc'[d] \in Alive /\ p \in Req
    BY <1>0, <1>8 DEF PublishWs, Goto, Conn, Req, ConnsOK, BooksKept
  <2> QED
    BY <1>5, <1>8, <2>1 DEF PublishWs, Goto, Req
<1>9. ASSUME NEW p \in Pub, PublishSse(p) PROVE Goal
  <2> DEFINE S == {c \in subs : pc[c] # "ended"}
  <2>1. S \in SUBSET Conn /\ \A d \in S : pc'[d] \in Alive
    BY <1>0, <1>9 DEF PublishSse, Goto, Conn, Req, ConnsOK, BooksKept, Alive
  <2>2. Tell(S)
    BY <1>9 DEF PublishSse
  <2> HIDE DEF S
  <2> QED
    BY <1>5, <1>9, <2>1, <2>2 DEF PublishSse, Goto, Req
<1>10. ASSUME NEW c \in Conn, Receive(c) PROVE Goal
  <2>1. CASE End(c)
    BY <1>0, <1>10, <2>1, EndConns DEF Receive, Open
  <2>2. CASE Write(c, Head(mail[c]))
    <3>1. Tail(mail[c]) \in Seq(Event \cup Revoked)
      BY <1>0, <1>10 DEF ConnsOK, Receive
    <3>2. ConnsOK'
      BY <1>0, <1>10, <2>2, <3>1 DEF ConnsOK, Receive, Write, Open, Alive
    <3>3. BooksKept' /\ SubscribersKnown'
      BY <1>0, <1>10, <2>2 DEF BooksKept, SubscribersKnown, Receive, Write
    <3> QED
      BY <3>2, <3>3
  <2> QED
    BY <1>10, <2>1, <2>2 DEF Receive
<1>11. ASSUME NEW c \in Conn, Drop(c) PROVE Goal
  <2>1. pc[c] \in Open \cup {"validated", "subscribed"} /\ End(c) /\ UNCHANGED subs
    BY <1>11 DEF Drop
  <2> QED
    BY <1>0, <2>1, EndConns
<1>12. ASSUME NEW c \in Sse, Cleanup(c) PROVE Goal
  BY <1>0, <1>12 DEF Cleanup, ConnsOK, BooksKept, SubscribersKnown, Open, Alive
<1>13. ASSUME BrokerRestart PROVE Goal
  BY <1>0, <1>13 DEF BrokerRestart, ConnsOK, BooksKept, SubscribersKnown
<1>14. ASSUME NEW k \in Key, Revoke(k) PROVE Goal
  <2>1. [key |-> k, after |-> FALSE] \in Event \cup Revoked
    BY DEF Revoked
  <2>2. \A c \in Conn : Append(mail[c], [key |-> k, after |-> FALSE]) \in Seq(Event \cup Revoked)
    BY <1>0, <2>1 DEF ConnsOK
  <2>3. ConnsOK'
    BY <1>0, <1>14, <2>2 DEF Revoke, BroadcastRevoke, ConnsOK, Alive
  <2>4. BooksKept' /\ SubscribersKnown'
    BY <1>0, <1>14 DEF Revoke, BroadcastRevoke, BooksKept, SubscribersKnown
  <2> QED
    BY <2>3, <2>4
<1>15. ASSUME NEW r \in Req, Plug(r) PROVE Goal
  <2>1. CASE Count(r)
    BY <1>2, <2>1 DEF Count, Counted, Goto
  <2>2. CASE Insert(r)
    BY <1>2, <2>2 DEF Insert, Goto
  <2>3. CASE Validate(r)
    BY <1>2, <2>3 DEF Validate, Goto
  <2> QED
    BY <1>15, <2>1, <2>2, <2>3 DEF Plug
<1>16. ASSUME Expire \/ StoreRestart \/ \E k \in Key : Create(k) PROVE Goal
  BY <1>1, <1>16 DEF Expire, StoreRestart, Create
<1>17. ASSUME UNCHANGED vars PROVE Goal
  BY <1>1, <1>17 DEF vars
<1> QED
  BY <1>3, <1>4, <1>6, <1>7, <1>8, <1>9, <1>10, <1>11, <1>12, <1>13, <1>14, <1>15,
     <1>16, <1>17 DEF Next, Connection

(***************************************************************************)
(* The store and the plug.                                                 *)
(***************************************************************************)

\* The keys keep their types, and a revoked key stays inactive in memory and,
\* unless the last write has failed, in the file.
LEMMA NextStore ==
    ASSUME Inv, [Next]_vars
    PROVE  /\ keys' \in [Key -> Status] /\ file' \in [Key -> Status]
           /\ faults' \in 0..MaxFaults
           /\ unsaved' \in BOOLEAN
           /\ revoked' \subseteq {k \in Key : keys'[k] # "active"}
           /\ SavedKept'
<1> DEFINE Goal == /\ keys' \in [Key -> Status] /\ file' \in [Key -> Status]
                   /\ faults' \in 0..MaxFaults
                   /\ unsaved' \in BOOLEAN
                   /\ revoked' \subseteq {k \in Key : keys'[k] # "active"}
                   /\ SavedKept'
<1>0. TypeOK /\ SavedKept
  BY DEF Inv
<1> USE ElixirConstants
<1>1. ASSUME UNCHANGED <<store, faults>> PROVE Goal
  BY <1>0, <1>1 DEF store, TypeOK, SavedKept
<1>2. ASSUME keys' \in [Key -> Status], Save,
             revoked' \subseteq {k \in Key : keys'[k] # "active"}
      PROVE  /\ file' \in [Key -> Status]
             /\ faults' \in 0..MaxFaults
             /\ unsaved' \in BOOLEAN
             /\ SavedKept'
  <2>1. CASE file' = keys' /\ unsaved' = FALSE /\ UNCHANGED faults
    BY <1>0, <1>2, <2>1 DEF TypeOK, SavedKept
  <2>2. CASE /\ faults < MaxFaults /\ faults' = faults + 1
             /\ \/ file' = file /\ unsaved' = TRUE
                \/ file' = NoKeys /\ unsaved' = FALSE
    <3>1. faults' \in 0..MaxFaults
      BY <1>0, <2>2 DEF TypeOK
    <3>2. unsaved' \in BOOLEAN
      BY <2>2
    <3>3. file' \in [Key -> Status]
      BY <1>0, <2>2 DEF TypeOK, Status, NoKeys
    <3>4. SavedKept'
      BY <1>2, <2>2 DEF SavedKept, NoKeys
    <3> QED
      BY <3>1, <3>2, <3>3, <3>4
  <2> QED
    BY <1>2, <2>1, <2>2 DEF Save
<1>3. ASSUME NEW k \in Key, Create(k) PROVE Goal
  <2>1. keys' \in [Key -> Status]
    BY <1>0, <1>3 DEF Create, TypeOK, Status
  <2>2. revoked' \subseteq {j \in Key : keys'[j] # "active"}
    BY <1>0, <1>3 DEF Create, TypeOK
  <2> QED
    BY <1>2, <1>3, <2>1, <2>2 DEF Create
<1>4. ASSUME NEW k \in Key, Revoke(k) PROVE Goal
  <2>1. keys' \in [Key -> Status]
    BY <1>0, <1>4 DEF Revoke, Deactivated, TypeOK, Status
  <2>2. revoked' \subseteq {j \in Key : keys'[j] # "active"}
    BY <1>0, <1>4 DEF Revoke, Deactivated, BroadcastRevoke, TypeOK
  <2> QED
    BY <1>2, <1>4, <2>1, <2>2 DEF Revoke
<1>5. ASSUME StoreRestart PROVE Goal
  <2>1. faults' \in 0..MaxFaults
    BY <1>0, <1>5 DEF StoreRestart, TypeOK
  <2>2. keys' \in [Key -> Status] /\ file' = file /\ unsaved' = unsaved
    BY <1>0, <1>5 DEF StoreRestart, TypeOK, NoKeys, Status
  <2>3. /\ revoked' \subseteq revoked
        /\ revoked' \subseteq {j \in Key : keys'[j] # "active"}
    BY <1>0, <1>5 DEF StoreRestart, TypeOK
  <2> QED
    BY <1>0, <2>1, <2>2, <2>3 DEF TypeOK, SavedKept
<1>6. ASSUME BrokerRestart PROVE Goal
  <2>1. faults' \in 0..MaxFaults
    BY <1>0, <1>6 DEF BrokerRestart, TypeOK
  <2> QED
    BY <1>0, <1>6, <2>1 DEF BrokerRestart, store, TypeOK, SavedKept
<1>7. ASSUME Expire \/ \E r \in Req : Plug(r) PROVE Goal
  BY <1>1, <1>7 DEF Expire, Plug, Count, Counted, Insert, Validate
<1>8. ASSUME NEW c \in Conn, Connection(c) PROVE Goal
  BY <1>1, <1>8 DEF Connection, Subscribe, Watch, Start, Receive, Drop
<1>9. ASSUME \/ \E c \in Ws : HandleIn(c)
             \/ \E p \in Pub : PublishWs(p) \/ PublishSse(p)
             \/ \E c \in Sse : Cleanup(c)
      PROVE  Goal
  BY <1>1, <1>9 DEF HandleIn, PublishWs, PublishSse, Cleanup
<1>10. ASSUME UNCHANGED vars PROVE Goal
  BY <1>1, <1>10 DEF vars
<1> QED
  BY <1>3, <1>4, <1>5, <1>6, <1>7, <1>8, <1>9, <1>10 DEF Next

\* Requests that the plug has counted and whose row is not inserted yet, and
\* requests that have come.
Counting == {r \in Req : pc[r] = "counted"}
Begun    == {r \in Req : pc[r] # "idle"}

\* Only the plug changes who is counting and who has come.
LEMMA PlugOnly ==
    ASSUME Inv, [Next]_vars
    PROVE  \/ UNCHANGED <<Counting, Begun, limit>>
           \/ \E r \in Req : Count(r) \/ Insert(r)
           \/ Expire
<1>0. pc \in [Req -> {"idle", "counted", "admitted", "validated", "subscribed",
                      "ended"} \cup Open]
  BY DEF Inv, TypeOK
<1>1. ASSUME NEW r \in Req, pc[r] \notin {"idle", "counted"},
             NEW to, to \notin {"idle", "counted"}, pc' = [pc EXCEPT ![r] = to]
      PROVE  UNCHANGED <<Counting, Begun>>
  BY <1>0, <1>1 DEF Counting, Begun
<1>2. ASSUME UNCHANGED pc PROVE UNCHANGED <<Counting, Begun>>
  BY <1>2 DEF Counting, Begun
<1>3. ASSUME NEW r \in Req, Validate(r) PROVE UNCHANGED <<Counting, Begun, limit>>
  BY <1>1, <1>3 DEF Validate, Goto
<1>4. ASSUME NEW c \in Conn, Connection(c)
      PROVE  UNCHANGED <<Counting, Begun, limit>>
  <2>1. c \in Req
    BY DEF Conn, Req
  <2>2. CASE Subscribe(c) \/ Watch(c) \/ Start(c)
    BY <1>1, <2>1, <2>2 DEF Subscribe, Watch, Start, Goto
  <2>3. CASE Receive(c)
    BY <1>1, <1>2, <2>1, <2>3 DEF Receive, End, Vanish, Write
  <2>4. CASE Drop(c)
    BY <1>1, <2>1, <2>4 DEF Drop, End, Vanish, Open
  <2> QED
    BY <1>4, <2>2, <2>3, <2>4 DEF Connection
<1>5. ASSUME NEW p \in Pub, PublishWs(p) \/ PublishSse(p)
      PROVE  UNCHANGED <<Counting, Begun, limit>>
  <2>1. p \in Req
    BY DEF Req
  <2> QED
    BY <1>1, <1>5, <2>1 DEF PublishWs, PublishSse, Goto
<1>6. ASSUME \/ StoreRestart \/ BrokerRestart
             \/ \E k \in Key : Create(k) \/ Revoke(k)
             \/ \E c \in Ws : HandleIn(c)
             \/ \E c \in Sse : Cleanup(c)
             \/ UNCHANGED vars
      PROVE  UNCHANGED <<Counting, Begun, limit>>
  BY <1>2, <1>6 DEF StoreRestart, BrokerRestart, Create, Revoke, BroadcastRevoke,
     HandleIn, Cleanup, vars
<1> QED
  BY <1>3, <1>4, <1>5, <1>6 DEF Next, Plug

\* The plug is over its limit by no more than the races it has lost.
LEMMA NextPlug ==
    ASSUME Inv, [Next]_vars
    PROVE  /\ recent' \in Nat /\ races' \in 0..Cardinality(Req)
           /\ RacesCounted' /\ OverLimitOnlyRaced'
<1> DEFINE C == Cardinality(Counting)
           B == Cardinality(Begun)
<1>0. /\ recent \in Nat /\ races \in Nat /\ Limit \in Nat
      /\ races <= B /\ recent + C <= Limit + races
  BY ElixirConstants, FS_CardinalityType
  DEF Inv, TypeOK, RacesCounted, OverLimitOnlyRaced, Counting, Begun
<1>1. IsFiniteSet(Counting) /\ C \in Nat /\ IsFiniteSet(Begun) /\ B \in Nat
  BY ElixirConstants, FS_Subset, FS_CardinalityType DEF Counting, Begun
<1>2. Cardinality(Begun') <= Cardinality(Req) /\ Cardinality(Req) \in Nat
  BY ElixirConstants, FS_Subset, FS_CardinalityType DEF Begun
<1>3. SUFFICES /\ recent' \in Nat /\ races' \in Nat
               /\ races' <= Cardinality(Begun')
               /\ recent' + Cardinality(Counting') <= Limit + races'
  <2>1. Cardinality(Begun') \in Nat
    BY ElixirConstants, FS_Subset, FS_CardinalityType DEF Begun
  <2> QED
    BY <1>2, <1>3, <2>1 DEF RacesCounted, OverLimitOnlyRaced, Counting, Begun
<1>4. CASE UNCHANGED <<Counting, Begun, limit>>
  BY <1>0, <1>1, <1>4 DEF limit
<1>5. CASE Expire
  <2>1. UNCHANGED <<Counting, Begun>>
    BY <1>5 DEF Expire, Counting, Begun
  <2> QED
    BY <1>0, <1>1, <1>5, <2>1 DEF Expire
<1>6. CASE \E r \in Req : Insert(r)
  <2>1. PICK r \in Req : Insert(r)
    BY <1>6
  <2>2. Counting' = Counting \ {r} /\ r \in Counting /\ Begun' = Begun
    BY <2>1 DEF Inv, TypeOK, Insert, Goto, Counting, Begun
  <2>3. Cardinality(Counting') = C - 1
    BY <1>1, <2>2, FS_RemoveElement
  <2> QED
    BY <1>0, <1>1, <2>1, <2>2, <2>3 DEF Insert
<1>7. CASE \E r \in Req : Count(r)
  <2>1. PICK r \in Req : Count(r)
    BY <1>7
  <2>2. r \notin Begun /\ r \notin Counting /\ Begun' = Begun \cup {r}
    BY <2>1 DEF Inv, TypeOK, Count, Counted, Goto, Counting, Begun
  <2>3. Cardinality(Begun') = B + 1
    BY <1>1, <2>2, FS_AddElement
  <2>4. CASE recent >= Limit
    <3>1. Counting' = Counting /\ races' = races /\ recent' = recent
      BY <1>0, <2>1, <2>4 DEF Inv, TypeOK, Count, Counted, Goto, Counting
    <3> QED
      BY <1>0, <1>1, <2>3, <3>1
  <2>5. CASE recent < Limit
    <3>1. Counting' = Counting \cup {r} /\ recent' = recent
      BY <1>0, <2>1, <2>5 DEF Inv, TypeOK, Count, Counted, Goto, Counting
    <3>2. Cardinality(Counting') = C + 1
      BY <1>1, <2>2, <3>1, FS_AddElement
    <3>3. CASE Counting = {}
      <4>1. races' = races /\ C = 0
        BY <1>0, <2>1, <2>5, <3>3, FS_EmptySet DEF Count, Counted, Counting
      <4> QED
        BY <1>0, <1>1, <2>3, <2>5, <3>1, <3>2, <4>1
    <3>4. CASE Counting # {}
      <4>1. races' = races + 1
        BY <1>0, <2>1, <2>5, <3>4 DEF Count, Counted, Counting
      <4> QED
        BY <1>0, <1>1, <2>3, <3>1, <3>2, <4>1
    <3> QED
      BY <3>3, <3>4
  <2> QED
    BY <1>0, <2>4, <2>5
<1> QED
  BY <1>4, <1>5, <1>6, <1>7, PlugOnly

(***************************************************************************)
(* Revocations in mailboxes.                                               *)
(***************************************************************************)

\* The revocation of k is in q, and ahead of all that was sent after it.
Revokes(q, k) == \E j \in DOMAIN q : q[j].key = k
Ahead(q, k)   == \A i \in DOMAIN q : q[i].after =>
                     \E j \in 1..i - 1 : q[j].key = k

\* A message that is not sent after a revocation, or is sent to a mailbox
\* that has it, may join the queue.
LEMMA AppendAhead ==
    ASSUME NEW q \in Seq(Event \cup Revoked), NEW m \in Event \cup Revoked, NEW k,
           Ahead(q, k), m.after => Revokes(q, k)
    PROVE  /\ Ahead(Append(q, m), k)
           /\ Revokes(q, k) \/ m.key = k => Revokes(Append(q, m), k)
<1> DEFINE qq == Append(q, m)
<1>1. /\ DOMAIN q = 1..Len(q) /\ Len(q) \in Nat
      /\ DOMAIN qq = 1..Len(q) + 1
      /\ \A i \in 1..Len(q) : qq[i] = q[i]
      /\ qq[Len(q) + 1] = m
  OBVIOUS
<1> HIDE DEF qq
<1>2. Ahead(qq, k)
  <2> SUFFICES ASSUME NEW i \in 1..Len(q) + 1, qq[i].after
               PROVE  \E j \in 1..i - 1 : qq[j].key = k
    BY <1>1 DEF Ahead
  <2>1. CASE i \in 1..Len(q)
    <3>1. PICK j \in 1..i - 1 : q[j].key = k
      BY <1>1, <2>1 DEF Ahead
    <3> QED
      BY <1>1, <2>1, <3>1
  <2>2. CASE i = Len(q) + 1
    <3>1. PICK j \in DOMAIN q : q[j].key = k
      BY <1>1, <2>2 DEF Revokes
    <3> QED
      BY <1>1, <2>2, <3>1
  <2> QED
    BY <1>1, <2>1, <2>2
<1>3. Revokes(q, k) \/ m.key = k => Revokes(qq, k)
  BY <1>1 DEF Revokes
<1> QED
  BY <1>2, <1>3 DEF qq

\* What is at the head and is not the revocation was sent before it, and may
\* be taken away.
LEMMA TailAhead ==
    ASSUME NEW q \in Seq(Event \cup Revoked), q # <<>>, NEW k, Head(q).key # k,
           Ahead(q, k)
    PROVE  /\ Ahead(Tail(q), k)
           /\ Revokes(q, k) => Revokes(Tail(q), k)
           /\ ~ Head(q).after
<1> DEFINE qq == Tail(q)
<1>1. /\ DOMAIN q = 1..Len(q) /\ Len(q) \in Nat \ {0}
      /\ DOMAIN qq = 1..Len(q) - 1
      /\ \A i \in 1..Len(q) - 1 : qq[i] = q[i + 1]
      /\ Head(q) = q[1]
  OBVIOUS
<1> HIDE DEF qq
<1>2. Ahead(qq, k)
  <2> SUFFICES ASSUME NEW i \in 1..Len(q) - 1, qq[i].after
               PROVE  \E j \in 1..i - 1 : qq[j].key = k
    BY <1>1 DEF Ahead
  <2>1. q[i + 1].after /\ i + 1 \in DOMAIN q
    BY <1>1
  <2>2. PICK j \in 1..i + 1 - 1 : q[j].key = k
    BY <2>1 DEF Ahead
  <2>3. j # 1
    BY <1>1, <2>2
  <2>4. j - 1 \in 1..i - 1 /\ qq[j - 1] = q[j]
    BY <1>1, <2>2, <2>3
  <2> QED
    BY <2>2, <2>4
<1>3. ASSUME Revokes(q, k) PROVE Revokes(qq, k)
  <2>1. PICK j \in DOMAIN q : q[j].key = k
    BY <1>3 DEF Revokes
  <2>2. j - 1 \in DOMAIN qq /\ qq[j - 1] = q[j]
    BY <1>1, <2>1
  <2> QED
    BY <2>1, <2>2 DEF Revokes
<1>4. ~ Head(q).after
  BY <1>1 DEF Ahead
<1> QED
  BY <1>2, <1>3, <1>4 DEF qq

\* Warned, for one connection.
WarnedOf(c) ==
    /\ pc[c] \in {"validated", "subscribed"} => KeyOf[c] \notin revoked
    /\ pc[c] \in Open /\ KeyOf[c] \in revoked => Revokes(mail[c], KeyOf[c])
    /\ Ahead(mail[c], KeyOf[c])

LEMMA WarnedEach == Warned <=> \A c \in Conn \ late : WarnedOf(c)
BY DEF Warned, WarnedOf, Ahead, Revokes

\* An event that is sent to a living process leaves it warned.
LEMMA EventWarned ==
    ASSUME Inv, NEW c \in Conn \ late, pc[c] \in Alive,
           mail'[c] = Append(mail[c], AnEvent(c)), revoked' = revoked,
           pc'[c] = pc[c] \/ (pc'[c] \in Open /\ pc[c] \in Open)
    PROVE  WarnedOf(c)'
<1>1. WarnedOf(c) /\ mail[c] \in Seq(Event \cup Revoked)
  BY WarnedEach DEF Inv, TypeOK
<1>2. AnEvent(c).after => Revokes(mail[c], KeyOf[c])
  BY <1>1 DEF AnEvent, WarnedOf, Alive
<1>3. AnEvent(c) \in Event \cup Revoked
  BY AnEventType
<1>4. /\ Ahead(mail'[c], KeyOf[c])
      /\ Revokes(mail[c], KeyOf[c]) => Revokes(mail'[c], KeyOf[c])
  BY <1>1, <1>2, <1>3, AppendAhead DEF WarnedOf
<1> QED
  BY <1>1, <1>4 DEF WarnedOf, Open, Ahead, Revokes

\* A process whose mailbox is left alone, and whose stage is, stays warned.
LEMMA AloneWarned ==
    ASSUME Inv, NEW c \in Conn \ late, mail'[c] = mail[c], revoked' \subseteq revoked,
           \/ pc'[c] = pc[c]
           \/ pc'[c] \notin Open \cup {"validated", "subscribed"}
           \/ pc'[c] \in Open /\ pc[c] \in Open
           \/ pc[c] \in {"validated", "subscribed"}
    PROVE  WarnedOf(c)'
<1>1. WarnedOf(c)
  BY WarnedEach DEF Inv
<1> QED
  BY <1>1 DEF WarnedOf, Open, Ahead, Revokes

\* No step leaves a connection unwarned that is not late.
LEMMA NextWarned ==
    ASSUME Inv, [Next]_vars
    PROVE  Warned' /\ NothingAfterRevocation'
<1> DEFINE Goal == (\A c \in Conn \ late' : WarnedOf(c)') /\ leaked' \subseteq late'
<1>0. /\ TypeOK /\ BooksKept /\ leaked \subseteq late
      /\ \A c \in Conn \ late : WarnedOf(c)
      /\ \A c \in Conn : c \in Req
      /\ pc' \in [Req -> {"idle", "counted", "admitted", "validated", "subscribed",
                          "ended"} \cup Open]
  BY WarnedEach, NextConns DEF Inv, NothingAfterRevocation, ConnsOK, Conn, Req
<1> USE ElixirConstants
<1>1. SUFFICES Goal
  <2>1. Warned' <=> \A c \in Conn \ late' : WarnedOf(c)'
    BY DEF Warned, WarnedOf, Ahead, Revokes
  <2> QED
    BY <1>1, <2>1 DEF NothingAfterRevocation
<1>2. ASSUME UNCHANGED <<pc, mail, late, leaked>>, revoked' \subseteq revoked PROVE Goal
  BY <1>0, <1>2, AloneWarned
<1>3. ASSUME NEW r \in Req, Plug(r) PROVE Goal
  <2>1. UNCHANGED <<mail, late, leaked, revoked>>
    BY <1>3 DEF Plug, Count, Counted, Insert, Validate, conns, store
  <2>2. ASSUME NEW c \in Conn \ late PROVE WarnedOf(c)'
    <3>1. CASE pc'[c] # "validated" \/ pc'[c] = pc[c]
      <4>1. \/ pc'[c] = pc[c]
            \/ pc'[c] \notin Open \cup {"validated", "subscribed"}
        BY <1>0, <1>3, <3>1 DEF TypeOK, Plug, Count, Counted, Insert, Validate, Goto,
           Open
      <4> QED
        BY <2>1, <4>1, AloneWarned
    <3>2. CASE pc'[c] = "validated" /\ pc'[c] # pc[c]
      <4>1. keys[KeyOf[c]] = "active" /\ KeyOf[c] \in Key
        BY <1>0, <1>3, <3>2 DEF TypeOK, Plug, Count, Counted, Insert, Validate, Goto
      <4>2. KeyOf[c] \notin revoked
        BY <1>0, <4>1 DEF TypeOK
      <4> QED
        BY <1>0, <2>1, <3>2, <4>2 DEF WarnedOf, Open, Ahead
    <3> QED
      BY <3>1, <3>2
  <2> QED
    BY <1>0, <2>1, <2>2
<1>4. ASSUME NEW c \in Conn, Subscribe(c) \/ Watch(c) PROVE Goal
  <2>1. UNCHANGED <<mail, late, leaked, revoked>>
    BY <1>4 DEF Subscribe, Watch, store
  <2>2. \A d \in Conn : pc'[d] = pc[d] \/ pc[d] \in {"validated", "subscribed"}
    BY <1>0, <1>4 DEF TypeOK, Subscribe, Watch, Goto
  <2> QED
    BY <1>0, <2>1, <2>2, AloneWarned
<1>5. ASSUME NEW S, \A c \in S : pc[c] \in Alive, Tell(S),
             UNCHANGED <<late, leaked, revoked>>,
             \A c \in Conn : pc'[c] = pc[c] \/ (pc'[c] \in Open /\ pc[c] \in Open)
      PROVE  Goal
  <2>1. ASSUME NEW c \in Conn \ late PROVE WarnedOf(c)'
    <3>1. CASE c \in S
      <4>1. mail'[c] = Append(mail[c], AnEvent(c))
        BY <1>5, <3>1 DEF Tell
      <4> QED
        BY <1>5, <3>1, <4>1, EventWarned
    <3>2. CASE c \notin S
      <4>1. mail'[c] = mail[c]
        BY <1>5, <3>2 DEF Tell
      <4> QED
        BY <1>5, <4>1, AloneWarned
    <3> QED
      BY <3>1, <3>2
  <2> QED
    BY <1>0, <1>5, <2>1
<1>6. ASSUME NEW c \in Conn, Start(c) PROVE Goal
  <2> DEFINE S == IF c \in Ws THEN topic ELSE {}
  <2>1. Tell(S) /\ \A d \in S : pc[d] \in Alive
    BY <1>0, <1>6 DEF Start, BooksKept
  <2>2. UNCHANGED <<late, leaked, revoked>>
    BY <1>6 DEF Start, store
  <2>3. \A d \in Conn : pc'[d] = pc[d] \/ (pc'[d] \in Open /\ pc[d] \in Open)
    BY <1>0, <1>6 DEF TypeOK, Start, Goto, Open
  <2> HIDE DEF S, Goal
  <2> QED
    BY <1>5, <2>1, <2>2, <2>3
<1>7. ASSUME NEW c \in Ws, HandleIn(c) PROVE Goal
  <2>1. Tell(topic) /\ UNCHANGED <<pc, late, leaked, revoked>>
    BY <1>7 DEF HandleIn, store
  <2>2. \A d \in topic : pc[d] \in Alive
    BY <1>0 DEF BooksKept
  <2> HIDE DEF Goal
  <2> QED
    BY <1>5, <2>1, <2>2
<1>8. ASSUME NEW p \in Pub, PublishWs(p) PROVE Goal
  <2>1. \A d \in Conn : pc'[d] = pc[d]
    BY <1>0, <1>8 DEF TypeOK, PublishWs, Goto
  <2>2. Tell(topic) /\ UNCHANGED <<late, leaked, revoked>>
    BY <1>8 DEF PublishWs, store
  <2>3. \A d \in topic : pc[d] \in Alive
    BY <1>0 DEF BooksKept
  <2> HIDE DEF Goal
  <2> QED
    BY <1>5, <2>1, <2>2, <2>3
<1>9. ASSUME NEW p \in Pub, PublishSse(p) PROVE Goal
  <2> DEFINE S == {c \in subs : pc[c] # "ended"}
  <2>1. Tell(S) /\ \A d \in S : pc[d] \in Alive
    BY <1>0, <1>9 DEF PublishSse, BooksKept
  <2>2. \A d \in Conn : pc'[d] = pc[d]
    BY <1>0, <1>9 DEF TypeOK, PublishSse, Goto
  <2>3. UNCHANGED <<late, leaked, revoked>>
    BY <1>9 DEF PublishSse, store
  <2> HIDE DEF S, Goal
  <2> QED
    BY <1>5, <2>1, <2>2, <2>3
<1>10. ASSUME NEW c \in Conn, End(c), UNCHANGED revoked PROVE Goal
  <2>1. ASSUME NEW d \in Conn \ late' PROVE WarnedOf(d)'
    <3>1. CASE d = c
      <4>1. pc'[d] = "ended" /\ mail'[d] = <<>>
        BY <1>0, <1>10, <3>1 DEF TypeOK, End, Vanish
      <4>2. DOMAIN mail'[d] = {}
        BY <4>1
      <4> QED
        BY <4>1, <4>2 DEF WarnedOf, Ahead, Open
    <3>2. CASE d # c
      <4>1. d \in Conn \ late /\ pc'[d] = pc[d]
        BY <1>0, <1>10, <3>2 DEF TypeOK, End, Vanish
      <4>2. \/ mail'[d] = mail[d]
            \/ d \in topic /\ mail'[d] = Append(mail[d], AnEvent(d))
        BY <1>10, <3>2 DEF End, Vanish
      <4>3. d \in topic => pc[d] \in Alive
        BY <1>0 DEF BooksKept
      <4>4. CASE mail'[d] = mail[d]
        BY <1>10, <4>1, <4>4, AloneWarned
      <4>5. CASE d \in topic /\ mail'[d] = Append(mail[d], AnEvent(d))
        BY <1>10, <4>1, <4>3, <4>5, EventWarned
      <4> QED
        BY <4>2, <4>4, <4>5
    <3> QED
      BY <3>1, <3>2
  <2>2. leaked' \subseteq late'
    BY <1>0, <1>10 DEF End, Vanish
  <2> QED
    BY <2>1, <2>2
<1>11. ASSUME NEW c \in Conn, Receive(c) PROVE Goal
  <2>1. UNCHANGED revoked
    BY <1>11 DEF Receive, store
  <2>2. CASE Head(mail[c]).key = KeyOf[c]
    BY <1>10, <1>11, <2>1, <2>2 DEF Receive
  <2>3. CASE Head(mail[c]).key # KeyOf[c]
    <3>1. Write(c, Head(mail[c])) /\ mail[c] # <<>> /\ mail[c] \in Seq(Event \cup Revoked)
      BY <1>0, <1>11, <2>3 DEF Receive, TypeOK
    <3>2. late' = late /\ pc' = pc
      BY <3>1 DEF Write
    <3>3. ASSUME NEW d \in Conn \ late PROVE WarnedOf(d)'
      <4>1. CASE d # c
        <5>1. mail'[d] = mail[d]
          BY <1>0, <3>1, <4>1 DEF Write, TypeOK
        <5> QED
          BY <2>1, <3>2, <5>1, AloneWarned
      <4>2. CASE d = c
        <5>1. mail'[d] = Tail(mail[d])
          BY <1>0, <3>1, <4>2 DEF Write, TypeOK
        <5>2. WarnedOf(d)
          BY <1>0
        <5>3. /\ Ahead(mail'[d], KeyOf[d])
              /\ Revokes(mail[d], KeyOf[d]) => Revokes(mail'[d], KeyOf[d])
          BY <2>3, <3>1, <4>2, <5>1, <5>2, TailAhead DEF WarnedOf
        <5> QED
          BY <2>1, <3>2, <5>2, <5>3 DEF WarnedOf, Ahead, Revokes
      <4> QED
        BY <4>1, <4>2
    <3>4. Head(mail[c]).after => c \in late
      <4>1. c \notin late => WarnedOf(c)
        BY <1>0
      <4> QED
        BY <2>3, <3>1, <4>1, TailAhead DEF WarnedOf
    <3>5. leaked' \subseteq late'
      BY <1>0, <3>1, <3>2, <3>4 DEF Write
    <3> QED
      BY <3>2, <3>3, <3>5
  <2> QED
    BY <2>2, <2>3
<1>12. ASSUME NEW c \in Conn, Drop(c) PROVE Goal
  BY <1>10, <1>12 DEF Drop, store
<1>13. ASSUME NEW k \in Key, Revoke(k) PROVE Goal
  <2>1. /\ revoked' = revoked \cup {k} /\ pc' = pc /\ leaked' = leaked
        /\ late' = late \cup {c \in Conn : /\ KeyOf[c] = k
                                           /\ pc[c] \in {"validated", "subscribed"}}
    BY <1>13 DEF Revoke, BroadcastRevoke
  <2> DEFINE m == [key |-> k, after |-> FALSE]
  <2>2. m \in Event \cup Revoked /\ ~ m.after /\ m.key = k
    BY DEF Revoked
  <2>3. ASSUME NEW c \in Conn \ late' PROVE WarnedOf(c)'
    <3>1. WarnedOf(c) /\ mail[c] \in Seq(Event \cup Revoked)
      BY <1>0, <2>1, <2>3 DEF TypeOK
    <3>2. CASE c \in watch
      <4>1. mail'[c] = Append(mail[c], m)
        BY <1>13, <3>2 DEF Revoke, BroadcastRevoke
      <4> HIDE DEF m
      <4>2. /\ Ahead(mail'[c], KeyOf[c])
            /\ Revokes(mail[c], KeyOf[c]) \/ KeyOf[c] = k => Revokes(mail'[c], KeyOf[c])
        BY <2>2, <3>1, <4>1, AppendAhead DEF WarnedOf
      <4> QED
        BY <2>1, <2>3, <3>1, <4>2 DEF WarnedOf, Ahead, Revokes
    <3>3. CASE c \notin watch
      <4>1. mail'[c] = mail[c] /\ pc[c] \notin Open
        BY <1>0, <1>13, <3>3 DEF Revoke, BroadcastRevoke, BooksKept
      <4> QED
        BY <2>1, <2>3, <3>1, <4>1 DEF WarnedOf, Ahead
    <3> QED
      BY <3>2, <3>3
  <2> QED
    BY <1>0, <2>1, <2>3
<1>14. ASSUME \/ Expire \/ StoreRestart \/ BrokerRestart
              \/ \E k \in Key : Create(k)
              \/ \E c \in Sse : Cleanup(c)
              \/ UNCHANGED vars
       PROVE  Goal
  BY <1>2, <1>14 DEF Expire, StoreRestart, BrokerRestart, Create, Cleanup, vars,
     conns, store
<1> QED
  BY <1>3, <1>4, <1>6, <1>7, <1>8, <1>9, <1>11, <1>12, <1>13, <1>14 DEF Next,
     Connection

(***************************************************************************)
(* The theorems.                                                           *)
(***************************************************************************)

\* The invariant holds whatever requests, revocations, failed writes and
\* restarts come in which order.
THEOREM Invariance == Spec => []Inv
<1>1. Inv /\ [Next]_vars => Inv'
  <2> SUFFICES ASSUME Inv, [Next]_vars PROVE Inv'
    OBVIOUS
  <2>1. TypeOK'
    BY NextConns, NextStore, NextPlug DEF TypeOK, ConnsOK
  <2> QED
    BY <2>1, NextConns, NextStore, NextPlug, NextWarned DEF Inv
<1> QED
  BY <1>1, InitInv, PTL DEF Spec

\* For any requests and keys, the types hold: mail and topics belong to
\* processes that live, and a revoked key is not active in memory.
THEOREM TypeCorrect == Spec => []TypeOK
BY Invariance, PTL DEF Inv

\* For any limit and any number of concurrent requests, the plug lets through
\* no more than its limit and one for each race between count and insert.
THEOREM OverLimitOnlyRacedHolds == Spec => []OverLimitOnlyRaced
BY Invariance, PTL DEF Inv

\* For any number of streams and WebSockets, nothing that was sent after a
\* revocation is written to a connection with that key, unless the revocation
\* came between its validation and its subscription to "api_keys".
THEOREM NothingAfterRevocationHolds == Spec => []NothingAfterRevocation
BY Invariance, PTL DEF Inv

\* For any number of streams, SSEBroker has an entry for each open one, but
\* for those it lost in a restart, and forgets each that has ended.
THEOREM SubscribersKnownHolds == Spec => []SubscribersKnown
BY Invariance, PTL DEF Inv

\* No step takes a revocation back, not even a restart of ApiKeyStore with a
\* truncated file or with one it cannot read, unless the last write has failed
\* and left the file as it was.
THEOREM RevokedStaysRevokedHolds == Spec => RevokedStaysRevoked
<1>1. Inv /\ [Next]_vars => [revoked \subseteq revoked' \/ unsaved]_vars
  <2> SUFFICES ASSUME Inv, Next PROVE revoked \subseteq revoked' \/ unsaved
    OBVIOUS
  <2>1. CASE StoreRestart
    <3>1. unsaved \/ \A k \in revoked : file[k] # "active"
      BY DEF Inv, SavedKept
    <3>2. revoked \subseteq Key
      BY DEF Inv, TypeOK
    <3> QED
      BY <2>1, <3>1, <3>2 DEF StoreRestart, NoKeys
  <2>2. CASE \E k \in Key : Revoke(k)
    BY <2>2 DEF Revoke, BroadcastRevoke
  <2>3. CASE \/ Expire \/ BrokerRestart
             \/ \E r \in Req : Plug(r)
             \/ \E k \in Key : Create(k)
    BY <2>3 DEF Expire, BrokerRestart, Plug, Count, Counted, Insert, Validate, Create,
       store
  <2>4. CASE \/ \E c \in Conn : Connection(c)
             \/ \E c \in Ws : HandleIn(c)
             \/ \E p \in Pub : PublishWs(p) \/ PublishSse(p)
             \/ \E c \in Sse : Cleanup(c)
    BY <2>4 DEF Connection, Subscribe, Watch, Start, Receive, Drop, HandleIn,
       PublishWs, PublishSse, Cleanup, store
  <2> QED
    BY <2>1, <2>2, <2>3, <2>4 DEF Next
<1> QED
  BY <1>1, Invariance, PTL DEF Spec, RevokedStaysRevoked
=============================================================================
