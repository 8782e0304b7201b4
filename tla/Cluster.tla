------------------------------ MODULE Cluster -------------------------------
(***************************************************************************)
(* Messages on their way: from the goroutine that sends one, through the   *)
(* Send channels of its own node and through Valkey to the other nodes,    *)
(* down to the sockets.                                                    *)
(*                                                                         *)
(* Every broadcast and every room message is first offered to the local    *)
(* clients and then published; a direct message is published only if its   *)
(* user is not registered on the node.  Each node hears its own messages   *)
(* again and skips them.  A node has three subscriptions, one goroutine    *)
(* for each, which share a connection to Valkey.  Replies to a sender      *)
(* itself (acks, errors, the welcome) are left out: SendCap is the number  *)
(* of places they leave.  SSE subscribers are left to module SSEBroker and *)
(* POST /publish, which stays on its node, to module Publishing.           *)
(***************************************************************************)
EXTENDS Integers, Sequences, FiniteSets

CONSTANTS Node,      \* broker processes, each with its Hub.Run
          Client,    \* WebSocket connections, each with its ReadPump
          User,
          NoUser,
          NoMsg,
          NodeOf,    \* the node of each client
          UserOf,    \* Client.UserID
          SendCap,   \* free places in a Send channel
          MaxSend,   \* bound: the messages of each goroutine
          MaxFaults  \* bound: failures of Valkey or of the way to it

Sender == Client \cup Node
Kind   == {"broadcast", "room", "direct"}

ASSUME ClusterConstantsOK ==
    /\ IsFiniteSet(Client)
    /\ NodeOf \in [Client -> Node]
    /\ UserOf \in [Client -> User]
    /\ NoUser \notin User
    /\ SendCap \in Nat \ {0} /\ MaxFaults \in Nat
    /\ MaxSend \in [Sender -> Nat]
    /\ Client \cap Node = {}

Home(s) == IF s \in Node THEN s ELSE NodeOf[s]

Message == [from: Sender, n: Nat, kind: Kind, to: User \cup {NoUser}]

VARIABLES
    on,       \* the registered clients
    members,  \* the clients in the room
    sent,     \* the number of messages of each sender
    cur,      \* the message a sender is about to publish to Valkey
    queue,    \* Client.Send
    got,      \* what has been written to each client's socket
    sub,      \* the subscriptions of each node that Valkey serves
    wire,     \* what Valkey still has to send to each subscription
    faults,   \* the failures of Valkey so far
    trouble   \* history: a message was dropped, or a publish or a link failed

sending == <<sent, cur>>
bridge  == <<sub, wire, faults>>
vars == <<on, members, sending, queue, got, bridge, trouble>>

\* The type of the state: a Send channel holds no more than its capacity, a
\* member of the room is registered, and Valkey has nothing for a subscription
\* it does not serve.
TypeOK ==
    /\ on \in SUBSET Client
    /\ members \in SUBSET on
    /\ sent \in [Sender -> Nat]
    /\ cur \in [Sender -> Message \cup {NoMsg}]
    /\ queue \in [Client -> Seq(Message)] /\ got \in [Client -> Seq(Message)]
    /\ \A c \in Client : Len(queue[c]) <= SendCap
    /\ sub \in [Node -> SUBSET Kind]
    /\ wire \in [Node -> [Kind -> Seq(Message)]]
    /\ \A n \in Node, k \in Kind : wire[n][k] # <<>> => k \in sub[n]
    /\ faults \in 0..MaxFaults
    /\ trouble \in BOOLEAN

\* The clients have connected and joined the room, and what was said of that
\* has been delivered.
Init ==
    /\ on = Client
    /\ members = Client
    /\ sent = [s \in Sender |-> 0]
    /\ cur = [s \in Sender |-> NoMsg]
    /\ queue = [c \in Client |-> <<>>]
    /\ got = [c \in Client |-> <<>>]
    /\ sub = [n \in Node |-> Kind]
    /\ wire = [n \in Node |-> [k \in Kind |-> <<>>]]
    /\ faults = 0
    /\ trouble = FALSE

-----------------------------------------------------------------------------
(* Sending on the sender's own node.                                       *)

\* The registered clients of a node, and the members of the room there.
ClientsOn(n) == {c \in on : NodeOf[c] = n}
MembersOn(n) == {c \in members : NodeOf[c] = n}

\* Mutant: the capacity is not looked at.
PushAlways(m, S) ==
    /\ queue' = [c \in Client |-> IF c \in S THEN Append(queue[c], m) ELSE queue[c]]
    /\ UNCHANGED trouble

\* A non-blocking send to each client of S.
Push(m, S) ==
    LET full == {c \in S : Len(queue[c]) = SendCap} IN
    /\ queue' = [c \in Client |-> IF c \in S \ full THEN Append(queue[c], m)
                                                    ELSE queue[c]]
    /\ trouble' = (trouble \/ full # {})

\* Sender s may begin with another message.
Ready(s) == cur[s] = NoMsg /\ sent[s] < MaxSend[s]

Msg(s, kind, to) == [from |-> s, n |-> sent[s] + 1, kind |-> kind, to |-> to]

\* It pushes it to S here, and then goes on to Valkey, or not.
SendHere(s, m, S, publishes) ==
    /\ sent' = [sent EXCEPT ![s] = @ + 1]
    /\ cur' = [cur EXCEPT ![s] = IF publishes THEN m ELSE NoMsg]
    /\ Push(m, S)
    /\ UNCHANGED <<got, bridge>>

\* Hub.BroadcastMessage, called by handleBroadcast and handleUserInfo.
BroadcastMessage(c) ==
    /\ c \in on /\ Ready(c)
    /\ SendHere(c, Msg(c, "broadcast", NoUser), ClientsOn(NodeOf[c]), TRUE)
    /\ UNCHANGED <<on, members>>

\* handleRoomMessage of a member: its room exists on its node.
RoomMessage(c) ==
    /\ c \in on /\ Ready(c) /\ c \in members
    /\ SendHere(c, Msg(c, "room", NoUser), MembersOn(NodeOf[c]), TRUE)
    /\ UNCHANGED <<on, members>>

\* handleDirect and SendToUser: the local client or, failing that, Valkey.
SendToUser(c, u) ==
    LET local == {d \in ClientsOn(NodeOf[c]) : UserOf[d] = u} IN
    /\ c \in on /\ Ready(c)
    /\ SendHere(c, Msg(c, "direct", u), local, local = {})
    /\ UNCHANGED <<on, members>>

\* handleJoinRoom with its user_joined, which skips the user who joins.
JoinRoom(c) ==
    /\ c \in on /\ Ready(c)
    /\ members' = members \cup {c}
    /\ SendHere(c, Msg(c, "room", NoUser),
                {d \in MembersOn(NodeOf[c]) : UserOf[d] # UserOf[c]}, TRUE)
    /\ UNCHANGED on

\* handleLeaveRoom with its user_left.  The room ceases to exist on a node
\* with its last member there, and BroadcastToRoom then returns at once: the
\* members on other nodes are not told.
LeaveRoom(c) ==
    LET rest == MembersOn(NodeOf[c]) \ {c} IN
    /\ c \in on /\ Ready(c)
    /\ members' = members \ {c}
    /\ IF rest # {}
       THEN SendHere(c, Msg(c, "room", NoUser),
                     {d \in rest : UserOf[d] # UserOf[c]}, TRUE)
       ELSE UNCHANGED <<sending, queue, got, bridge, trouble>>
    /\ UNCHANGED on

\* The connection breaks, and what is left in its Send channel is lost.
\* Hub.Run takes the client from Unregister and announces user_left.
Unregister(c) ==
    LET n == NodeOf[c]
        m == Msg(n, "broadcast", NoUser) IN
    /\ c \in on /\ Ready(n)
    /\ on' = on \ {c}
    /\ members' = members \ {c}
    /\ sent' = [sent EXCEPT ![n] = @ + 1]
    /\ cur' = [cur EXCEPT ![n] = m]
    /\ Push(m, ClientsOn(n) \ {c})
    /\ UNCHANGED <<got, bridge>>

-----------------------------------------------------------------------------
(* Valkey.                                                                 *)

Settle(s) ==
    /\ cur' = [cur EXCEPT ![s] = NoMsg]
    /\ UNCHANGED <<on, members, sent, queue, got, sub>>

\* Bridge.publish: every subscription that is up gets the message, that of
\* the sender's own node too.  A timeout may come after that as well.
Publish(s) ==
    LET k == cur[s].kind IN
    /\ cur[s] # NoMsg
    /\ wire' = [n \in Node |->
                  IF k \in sub[n] THEN [wire[n] EXCEPT ![k] = Append(@, cur[s])]
                                  ELSE wire[n]]
    /\ Settle(s)
    /\ UNCHANGED <<faults, trouble>>

\* Valkey cannot be reached; the error is logged and the sender goes on.
PublishFails(s) ==
    /\ cur[s] # NoMsg
    /\ faults < MaxFaults
    /\ faults' = faults + 1
    /\ trouble' = TRUE
    /\ Settle(s)
    /\ UNCHANGED wire

\* The clients of node n that a message from another node is for.
Addressees(n, m) ==
    CASE m.kind = "broadcast" -> ClientsOn(n)
      [] m.kind = "room"      -> MembersOn(n)
      [] m.kind = "direct"    -> {c \in ClientsOn(n) : UserOf[c] = m.to}

\* Mutant: the node does not recognise its own messages.
HandleIncomingEchoed(n, k) ==
    LET m == Head(wire[n][k]) IN
    /\ wire[n][k] # <<>>
    /\ wire' = [wire EXCEPT ![n][k] = Tail(@)]
    /\ Push(m, Addressees(n, m))
    /\ UNCHANGED <<on, members, sending, got, sub, faults>>

\* Mutant: every message is taken for one of its own.
HandleIncomingDeaf(n, k) ==
    /\ wire[n][k] # <<>>
    /\ wire' = [wire EXCEPT ![n][k] = Tail(@)]
    /\ UNCHANGED <<on, members, sending, queue, got, sub, faults, trouble>>

\* Bridge.handleIncomingMessage, by the goroutine of one subscription.
HandleIncomingMessage(n, k) ==
    LET m == Head(wire[n][k]) IN
    /\ wire[n][k] # <<>>
    /\ wire' = [wire EXCEPT ![n][k] = Tail(@)]
    /\ IF Home(m.from) = n THEN UNCHANGED <<queue, trouble>>
                           ELSE Push(m, Addressees(n, m))
    /\ UNCHANGED <<on, members, sending, got, sub, faults>>

\* The node's connection to Valkey breaks.  What Valkey had for it is lost.
LinkLost(n) ==
    /\ faults < MaxFaults
    /\ faults' = faults + 1
    /\ sub' = [sub EXCEPT ![n] = {}]
    /\ wire' = [wire EXCEPT ![n] = [k \in Kind |-> <<>>]]
    /\ trouble' = TRUE
    /\ UNCHANGED <<on, members, sending, queue, got>>

\* The library subscribes again.  It may be refused: Receive then returns
\* the error, the goroutine logs it and ends, and none takes its place, so
\* this step need never come.
Resubscribe(n, k) ==
    /\ k \notin sub[n]
    /\ sub' = [sub EXCEPT ![n] = @ \cup {k}]
    /\ UNCHANGED <<on, members, sending, queue, got, wire, faults, trouble>>

-----------------------------------------------------------------------------
(* The sockets.                                                            *)

\* WritePump: one frame for each message.
Write(c) ==
    /\ c \in on /\ queue[c] # <<>>
    /\ got' = [got EXCEPT ![c] = Append(@, Head(queue[c]))]
    /\ queue' = [queue EXCEPT ![c] = Tail(@)]
    /\ UNCHANGED <<on, members, sending, bridge, trouble>>

-----------------------------------------------------------------------------
ReadPump(c) ==
    \/ BroadcastMessage(c) \/ RoomMessage(c) \/ JoinRoom(c) \/ LeaveRoom(c)
    \/ \E u \in User : SendToUser(c, u)

Valkey(n) ==
    \/ LinkLost(n)
    \/ \E k \in Kind : HandleIncomingMessage(n, k) \/ Resubscribe(n, k)

Next ==
    \/ \E c \in Client : ReadPump(c) \/ Unregister(c)
    \/ \E s \in Sender : Publish(s) \/ PublishFails(s)
    \/ \E n \in Node : Valkey(n)
    \/ \E c \in Client : Write(c)

\* While some goroutine of a kind can go on, one of them does.  Clients, peers
\* and Valkey's failures owe nothing.
Fairness ==
    /\ WF_vars(\E s \in Sender : Publish(s) \/ PublishFails(s))
    /\ WF_vars(\E n \in Node, k \in Kind : HandleIncomingMessage(n, k))
    /\ WF_vars(\E c \in Client : Write(c))

Spec == Init /\ [][Next]_vars /\ Fairness

-----------------------------------------------------------------------------
(* Properties.                                                             *)

Promise == INSTANCE Feed WITH heard <- got

\* What the nodes and Valkey do together implements Feed: the echo that each
\* node hears of its own messages, the three subscriptions and the local
\* short cut never give a client a message twice, out of the order of its
\* sender and channel, or one that is for another user.
FeedKept == Promise!Spec

\* A broadcast reaches every client that is registered on any node when it
\* is sent and that stays, unless a message has been dropped at a full
\* channel, or Valkey or the way to it has failed.
BroadcastHeard ==
    \A s, c \in Client : \A n \in 1..MaxSend[s] :
        (/\ cur[s] # NoMsg /\ cur[s].n = n /\ cur[s].kind = "broadcast"
         /\ c \in on)
        ~> (\/ \E i \in DOMAIN got[c] : got[c][i].from = s /\ got[c][i].n = n
            \/ c \notin on
            \/ trouble)

-----------------------------------------------------------------------------
(* The invariant behind FeedKept, which is inductive.                      *)

\* The messages in a queue, and those that have come as far as client c.
Elems(q) == {q[i] : i \in DOMAIN q}
Reached(c) == Elems(got[c]) \cup Elems(queue[c])

\* Message y is a later one than x, if they share their sender and channel.
Before(x, y) == x.from = y.from /\ x.kind = y.kind => x.n < y.n
Sorted(q) == \A i, j \in DOMAIN q : i < j => Before(q[i], q[j])

\* Messages are as they were sent, and with a client they are for it.
Genuine ==
    /\ \A c \in Client : \A x \in Reached(c) :
         x.n \in 1..sent[x.from] /\ x.to \in {NoUser, UserOf[c]}
    /\ \A n \in Node, k \in Kind : \A x \in Elems(wire[n][k]) :
         /\ x.n \in 1..sent[x.from] /\ x.kind = k
         /\ k # "direct" => x.to = NoUser
    /\ \A s \in Sender : cur[s] # NoMsg =>
         /\ cur[s].from = s /\ cur[s].n = sent[s] /\ sent[s] > 0
         /\ cur[s].kind # "direct" => cur[s].to = NoUser

\* What has reached a client is before what follows on its way: in its Send
\* channel, and at the subscription of its node if it is from another one.
InOrder ==
    /\ \A c \in Client :
         /\ Sorted(queue[c])
         /\ \A x \in Elems(got[c]), y \in Elems(queue[c]) : Before(x, y)
    /\ \A n \in Node, k \in Kind : Sorted(wire[n][k])
    /\ \A c \in Client, k \in Kind :
         \A x \in Reached(c), y \in Elems(wire[NodeOf[c]][k]) :
            Home(x.from) # NodeOf[c] => Before(x, y)

\* What is still to be published has not come to Valkey or to another node.
Pending ==
    \A s \in Sender : cur[s] # NoMsg =>
        /\ \A n \in Node, k \in Kind : \A x \in Elems(wire[n][k]) :
             x.from = s => x.n < sent[s]
        /\ \A c \in Client : \A x \in Reached(c) :
             x.from = s /\ Home(s) # NodeOf[c] => x.n < sent[s]

Inv ==
    /\ TypeOK
    /\ Genuine
    /\ InOrder
    /\ Pending
=============================================================================
