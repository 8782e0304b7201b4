-------------------------------- MODULE Hub --------------------------------
(***************************************************************************)
(* The WebSocket side of the Go broker: the hub's registry of clients and  *)
(* rooms, the goroutines that share it, and the ways in which they can     *)
(* take the process down.                                                  *)
(*                                                                         *)
(* Goroutines: Hub.Run (one), and per connection the ServeWS handler, the  *)
(* ReadPump and the WritePump; the HTTP handlers /publish, /api/keys/...   *)
(* and the Valkey subscriber also touch the hub.  Every critical section   *)
(* of Hub.Mu is one step: nothing inside one blocks.  Where a goroutine    *)
(* leaves one section and enters another, other goroutines may run.        *)
(*                                                                         *)
(* A member of Conn is a *Client object.  All sends to a Client's Send     *)
(* channel sit in a select with a default case, so they never block and    *)
(* the only thing the rest of the code can notice of them is the panic of  *)
(* a send on a closed channel.  The channel is therefore abstracted to     *)
(* whether it has been closed.                                             *)
(***************************************************************************)
EXTENDS Integers, FiniteSets

CONSTANTS Conn,        \* *Client objects
          User,        \* user ids
          Room,        \* room names
          Key,         \* API keys
          NoConn,      \* the nil *Client
          NoRoom,      \* a member map that is no longer reachable from Rooms
          UserID,      \* Client.UserID
          APIKey       \* Client.APIKey

ASSUME ConstantsOK ==
    /\ IsFiniteSet(Conn)
    /\ NoConn \notin Conn
    /\ NoRoom \notin Room
    /\ UserID \in [Conn -> User]
    /\ APIKey \in [Conn -> Key]

VARIABLES
    clients,   \* Hub.Clients: the connection registered for each user
    rooms,     \* Hub.Rooms: the members of each room, {} for an absent key
    joined,    \* Client.Rooms
    closed,    \* the clients whose Send channel has been closed
    up,        \* the clients whose network connection is open
    serve,     \* progress of each ServeWS handler
    reader,    \* progress of each ReadPump and of the handler it runs
    writer,    \* progress of each WritePump
    roomArg,   \* the room, or member map, a handler is working on
    connArg,   \* the *Client that SendToUser looked up
    hubPC,     \* progress of Hub.Run
    hubConn,   \* the client Hub.Run is about to welcome
    gauge,     \* Metrics.WsConnections
    mu,        \* Hub.Mu: free, read-locked for ever, or that and a writer waits
    fault,     \* the send each ReadPump is panicking from
    panic      \* the send or close that brought the process down

hubVars   == <<clients, rooms, closed, hubPC, hubConn, gauge>>
argVars   == <<roomArg, connArg>>
faultVars == <<mu, fault, panic>>
vars == <<hubVars, argVars, faultVars, joined, up, serve, reader, writer>>

ServeStates  == {"idle", "validated", "register", "done", "stuck"}
Leaving      == {"close", "done"}
ReaderStates == {"off", "read", "reply", "info", "send", "join", "notifyAck",
                 "notify", "notifySend", "roomSend", "stuck", "unregister"}
                \cup Leaving
WriterStates == {"off", "on", "done"}

\* Where a send or a close can panic; "none" is no panic.  The first two
\* sites hold a read lock of Hub.Mu that no deferred call releases.
LockedSites == {"broadcast", "room"}
ReaderSites == LockedSites \cup {"direct", "reply"}
PanicSites  == ReaderSites \cup {"welcome", "register", "unregister", "valkey"}

\* The type of the state.  The last conjuncts say that no handler uses a nil
\* client or a room name that it has not been given.
TypeOK ==
    /\ clients \in [User -> Conn \cup {NoConn}]
    /\ rooms \in [Room -> SUBSET Conn]
    /\ joined \in [Conn -> SUBSET Room]
    /\ closed \in SUBSET Conn
    /\ up \in SUBSET Conn
    /\ serve \in [Conn -> ServeStates]
    /\ reader \in [Conn -> ReaderStates]
    /\ writer \in [Conn -> WriterStates]
    /\ roomArg \in [Conn -> Room \cup {NoRoom}]
    /\ connArg \in [Conn -> Conn \cup {NoConn}]
    /\ hubPC \in {"select", "welcome", "announce", "stuck"}
    /\ hubConn \in Conn \cup {NoConn}
    /\ gauge \in Int
    /\ mu \in {"free", "leaked", "blocked"}
    /\ fault \in [Conn -> ReaderSites \cup {"none"}]
    /\ panic \in PanicSites \cup {"none"}
    /\ hubPC = "welcome" => hubConn \in Conn
    /\ \A c \in Conn :
         /\ reader[c] = "send" => connArg[c] \in Conn
         /\ reader[c] \in {"join", "notifyAck", "notify"} => roomArg[c] \in Room

Init ==
    /\ clients = [u \in User |-> NoConn]
    /\ rooms = [r \in Room |-> {}]
    /\ joined = [c \in Conn |-> {}]
    /\ closed = {}
    /\ up = {}
    /\ serve = [c \in Conn |-> "idle"]
    /\ reader = [c \in Conn |-> "off"]
    /\ writer = [c \in Conn |-> "off"]
    /\ roomArg = [c \in Conn |-> NoRoom]
    /\ connArg = [c \in Conn |-> NoConn]
    /\ hubPC = "select"
    /\ hubConn = NoConn
    /\ gauge = 0
    /\ mu = "free"
    /\ fault = [c \in Conn |-> "none"]
    /\ panic = "none"

-----------------------------------------------------------------------------
(* Sending and locking.                                                    *)

\* Hub.Clients as a set.
Registered == {clients[u] : u \in User} \ {NoConn}

\* A non-blocking send to each client of S by Hub.Run or by the Valkey
\* subscriber: one closed channel and the process is down.
SendTo(S, site) ==
    panic' = IF S \cap closed = {} THEN panic ELSE site

\* The same send by the ReadPump of c.  A panic first runs the deferred
\* function of ReadPump, which unregisters the client; the process goes down
\* when that function returns.  Until then a read lock held by the sender
\* stays taken.
ReaderSend(c, S, site, next) ==
    IF S \cap closed = {}
    THEN /\ reader' = [reader EXCEPT ![c] = next]
         /\ UNCHANGED faultVars
    ELSE /\ reader' = [reader EXCEPT ![c] = "unregister"]
         /\ fault' = [fault EXCEPT ![c] = site]
         /\ mu' = IF site \in LockedSites /\ mu = "free" THEN "leaked" ELSE mu
         /\ UNCHANGED panic

\* Hub.Mu.Lock() and RLock() can return.  A read lock that is never released
\* blocks writers for ever, and readers too once a writer is waiting.
CanLock  == mu = "free"
CanRLock == mu # "blocked"

\* Mutant: the client is not deleted from the member map.
WithoutNobody(c, S) == rooms

\* Mutant: the room goes with the client, emptied or not.
WithoutRoom(c, S) == [r \in Room |-> IF r \in S THEN {} ELSE rooms[r]]

\* The rooms without client c in those of S.
Without(c, S) ==
    [r \in Room |-> IF r \in S THEN rooms[r] \ {c} ELSE rooms[r]]

\* An emptied member map is deleted from Rooms.  A handler that still holds
\* it keeps walking an empty map, even if the room is created again.
Detached(c, S) ==
    [d \in Conn |->
       IF /\ reader[d] \in {"notifySend", "roomSend"}
          /\ roomArg[d] \in S
          /\ rooms[roomArg[d]] \subseteq {c}
       THEN NoRoom ELSE roomArg[d]]

\* The members a held map yields.
HeldMembers(m) == IF m = NoRoom THEN {} ELSE rooms[m]

-----------------------------------------------------------------------------
(* ServeWS.                                                                *)

\* The key, the origin, the token and the channel ACL are accepted.  A
\* refusal ends the request and changes nothing.
Validate(c) ==
    /\ serve[c] = "idle"
    /\ serve' = [serve EXCEPT ![c] = "validated"]
    /\ UNCHANGED <<hubVars, argVars, faultVars, joined, up, reader, writer>>

\* The connection is upgraded, the gauge goes up, the client joins the
\* channel of the request, if it names one, and both pumps start; the
\* handler then waits for the hub to take the client from Register.
Upgrade(c, channel) ==
    /\ serve[c] = "validated"
    /\ channel # {} => CanLock
    /\ up' = up \cup {c}
    /\ gauge' = gauge + 1
    /\ joined' = [joined EXCEPT ![c] = channel]
    /\ rooms' = [r \in Room |-> IF r \in channel THEN rooms[r] \cup {c}
                                                 ELSE rooms[r]]
    /\ serve' = [serve EXCEPT ![c] = "register"]
    /\ reader' = [reader EXCEPT ![c] = "read"]
    /\ writer' = [writer EXCEPT ![c] = "on"]
    /\ UNCHANGED <<clients, closed, hubPC, hubConn, argVars, faultVars>>

\* The handler waits for the lock in JoinRoom, before the pumps exist.
UpgradeBlocks(c, channel) ==
    /\ serve[c] = "validated"
    /\ channel # {} /\ ~CanLock
    /\ mu' = "blocked"
    /\ up' = up \cup {c}
    /\ gauge' = gauge + 1
    /\ joined' = [joined EXCEPT ![c] = channel]
    /\ serve' = [serve EXCEPT ![c] = "stuck"]
    /\ UNCHANGED <<clients, rooms, closed, hubPC, hubConn, argVars,
                   fault, panic, reader, writer>>

\* Mutant: the gauge has gone up before the upgrade fails.
UpgradeErrorCounted(c) ==
    /\ serve[c] = "validated"
    /\ serve' = [serve EXCEPT ![c] = "idle"]
    /\ gauge' = gauge + 1
    /\ UNCHANGED <<clients, rooms, closed, hubPC, hubConn, argVars, faultVars,
                   joined, up, reader, writer>>

\* The upgrade itself fails.
UpgradeError(c) ==
    /\ serve[c] = "validated"
    /\ serve' = [serve EXCEPT ![c] = "idle"]
    /\ UNCHANGED <<hubVars, argVars, faultVars, joined, up, reader, writer>>

-----------------------------------------------------------------------------
(* Hub.Run.                                                                *)

\* case client := <-h.Register, up to the end of the critical section.  A
\* client already registered for the user is told so, its channel is closed
\* and it is replaced; it stays in its rooms.
Register(c) ==
    LET existing == {clients[UserID[c]]} \ {NoConn} IN
    /\ hubPC = "select"
    /\ serve[c] = "register"
    /\ CanLock
    /\ serve' = [serve EXCEPT ![c] = "done"]
    /\ clients' = [clients EXCEPT ![UserID[c]] = c]
    /\ closed' = closed \cup existing
    /\ SendTo(existing, "register")
    /\ hubPC' = "welcome"
    /\ hubConn' = c
    /\ UNCHANGED <<rooms, gauge, argVars, mu, fault, joined, up, reader, writer>>

\* client.SendMessage of the "connected" message.
Welcome ==
    /\ hubPC = "welcome"
    /\ CanRLock
    /\ SendTo({hubConn}, "welcome")
    /\ hubPC' = "announce"
    /\ hubConn' = NoConn
    /\ UNCHANGED <<clients, rooms, closed, gauge, argVars, mu, fault,
                   joined, up, serve, reader, writer>>

\* Mutant: Run announces through its own Broadcast channel and waits for
\* itself.
AnnounceThroughRun ==
    /\ hubPC = "announce"
    /\ CanRLock
    /\ hubPC' = "stuck"
    /\ UNCHANGED <<clients, rooms, closed, hubConn, gauge, argVars, faultVars,
                   joined, up, serve, reader, writer>>

\* BroadcastMessage of user_joined or user_left.
Announce ==
    /\ hubPC = "announce"
    /\ CanRLock
    /\ SendTo(Registered, "broadcast")
    /\ hubPC' = "select"
    /\ UNCHANGED <<clients, rooms, closed, hubConn, gauge, argVars, mu, fault,
                   joined, up, serve, reader, writer>>

\* Mutant: the entry is not deleted.
Listed(u) == clients

\* delete(h.Clients, userID).
Delisted(u) == [clients EXCEPT ![u] = NoConn]

\* case client := <-h.Unregister.  The registry is looked up by user id; if
\* some client is found, that entry is dropped, and it is the unregistering
\* client whose rooms are cleaned and whose channel is closed.
Unregister(c) ==
    /\ hubPC = "select"
    /\ reader[c] = "unregister"
    /\ CanLock
    /\ reader' = [reader EXCEPT ![c] = "close"]
    /\ IF clients[UserID[c]] # NoConn
       THEN /\ clients' = Delisted(UserID[c])
            /\ rooms' = Without(c, joined[c])
            /\ roomArg' = Detached(c, joined[c])
            /\ closed' = closed \cup {c}
            /\ SendTo({c}, "unregister")
       ELSE UNCHANGED <<clients, rooms, roomArg, closed, panic>>
    /\ gauge' = gauge - 1
    /\ hubPC' = "announce"
    /\ UNCHANGED <<hubConn, connArg, mu, fault, joined, up, serve, writer>>

\* The hub takes a client from either channel and then waits for the lock.
RunBlocks(c) ==
    /\ hubPC = "select"
    /\ ~CanLock
    /\ \/ /\ serve[c] = "register"
          /\ serve' = [serve EXCEPT ![c] = "done"]
          /\ UNCHANGED reader
       \/ /\ reader[c] = "unregister"
          /\ reader' = [reader EXCEPT ![c] = "close"]
          /\ UNCHANGED serve
    /\ mu' = "blocked"
    /\ hubPC' = "stuck"
    /\ UNCHANGED <<clients, rooms, closed, hubConn, gauge, argVars, fault,
                   panic, joined, up, writer>>

-----------------------------------------------------------------------------
(* ReadPump: reading and leaving.                                          *)

\* ReadMessage fails: because the connection is gone, or, on one that is
\* still open, for a missed pong, an oversized or a malformed frame.
ReadEnd(c) ==
    /\ reader[c] = "read"
    /\ reader' = [reader EXCEPT ![c] = "unregister"]
    /\ UNCHANGED <<hubVars, argVars, faultVars, joined, up, serve, writer>>

\* Conn.Close() once the hub has taken the client, the end of the deferred
\* function: a panic that it interrupted now ends the process.
CloseConn(c) ==
    /\ reader[c] = "close"
    /\ up' = up \ {c}
    /\ reader' = [reader EXCEPT ![c] = "done"]
    /\ panic' = fault[c]
    /\ UNCHANGED <<hubVars, argVars, mu, fault, joined, serve, writer>>

-----------------------------------------------------------------------------
(* ReadPump: the message handlers.                                         *)

\* A message arrives.
Reads(c) == reader[c] = "read" /\ c \in up

\* A message whose whole effect is one SendMessage to its sender: a ping, an
\* unknown type, malformed JSON, a missing field, a refusal.
HandleReplyOnly(c) ==
    /\ Reads(c)
    /\ ReaderSend(c, {c}, "reply", "read")
    /\ UNCHANGED <<hubVars, argVars, joined, up, serve, writer>>

\* The ack that ends a handler.
Reply(c) ==
    /\ reader[c] = "reply"
    /\ ReaderSend(c, {c}, "reply", "read")
    /\ UNCHANGED <<hubVars, argVars, joined, up, serve, writer>>

\* handleUserInfo: an ack, then the presence message to everyone.
HandleUserInfo(c) ==
    /\ Reads(c)
    /\ ReaderSend(c, {c}, "reply", "info")
    /\ UNCHANGED <<hubVars, argVars, joined, up, serve, writer>>

BroadcastInfo(c) ==
    /\ reader[c] = "info"
    /\ CanRLock
    /\ ReaderSend(c, Registered, "broadcast", "read")
    /\ UNCHANGED <<hubVars, argVars, joined, up, serve, writer>>

\* handleBroadcast.
HandleBroadcast(c) ==
    /\ Reads(c)
    /\ CanRLock
    /\ ReaderSend(c, Registered, "broadcast", "read")
    /\ UNCHANGED <<hubVars, argVars, joined, up, serve, writer>>

\* Mutant: the lookup's second result is ignored.
HandleDirectUnchecked(c, u) ==
    /\ Reads(c)
    /\ CanRLock
    /\ connArg' = [connArg EXCEPT ![c] = clients[u]]
    /\ reader' = [reader EXCEPT ![c] = "send"]
    /\ UNCHANGED <<hubVars, roomArg, faultVars, joined, up, serve, writer>>

\* handleDirect up to the lookup in SendToUser.  main always attaches a
\* Valkey bridge, so a user who is not registered here is handed to it and
\* the sender gets its ack.
HandleDirect(c, u) ==
    /\ Reads(c)
    /\ CanRLock
    /\ connArg' = [connArg EXCEPT ![c] = clients[u]]
    /\ reader' = [reader EXCEPT ![c] =
                    IF clients[u] = NoConn THEN "reply" ELSE "send"]
    /\ UNCHANGED <<hubVars, roomArg, faultVars, joined, up, serve, writer>>

\* client.SendMessage in SendToUser, after the read lock has been released.
SendDirect(c) ==
    /\ reader[c] = "send"
    /\ ReaderSend(c, {connArg[c]}, "direct", "reply")
    /\ connArg' = [connArg EXCEPT ![c] = NoConn]
    /\ UNCHANGED <<hubVars, roomArg, joined, up, serve, writer>>

\* handleJoinRoom up to the last check: the ACL, the count of the members,
\* which takes the read lock, and the token admit the client.
HandleJoinRoom(c, r) ==
    /\ Reads(c)
    /\ CanRLock
    /\ roomArg' = [roomArg EXCEPT ![c] = r]
    /\ reader' = [reader EXCEPT ![c] = "join"]
    /\ UNCHANGED <<hubVars, connArg, faultVars, joined, up, serve, writer>>

\* c.Rooms[room] = true and Hub.JoinRoom.
JoinRoom(c) ==
    /\ reader[c] = "join"
    /\ CanLock
    /\ joined' = [joined EXCEPT ![c] = @ \cup {roomArg[c]}]
    /\ rooms' = [rooms EXCEPT ![roomArg[c]] = @ \cup {c}]
    /\ reader' = [reader EXCEPT ![c] = "notifyAck"]
    /\ UNCHANGED <<clients, closed, hubPC, hubConn, gauge, argVars, faultVars,
                   up, serve, writer>>

\* delete(c.Rooms, room) and Hub.LeaveRoom.
HandleLeaveRoom(c, r) ==
    /\ Reads(c)
    /\ CanLock
    /\ joined' = [joined EXCEPT ![c] = @ \ {r}]
    /\ rooms' = Without(c, {r})
    /\ roomArg' = [Detached(c, {r}) EXCEPT ![c] = r]
    /\ reader' = [reader EXCEPT ![c] = "notifyAck"]
    /\ UNCHANGED <<clients, closed, hubPC, hubConn, gauge, connArg, faultVars,
                   up, serve, writer>>

\* A join or a leave changes c.Rooms and then waits for the lock.
MembershipBlocks(c, r) ==
    /\ ~CanLock
    /\ \/ /\ reader[c] = "join"
          /\ r = roomArg[c]
          /\ joined' = [joined EXCEPT ![c] = @ \cup {r}]
       \/ /\ Reads(c)
          /\ joined' = [joined EXCEPT ![c] = @ \ {r}]
    /\ mu' = "blocked"
    /\ reader' = [reader EXCEPT ![c] = "stuck"]
    /\ UNCHANGED <<hubVars, argVars, fault, panic, up, serve, writer>>

\* The ack of a join or a leave, which the room hears of afterwards.
NotifyAck(c) ==
    /\ reader[c] = "notifyAck"
    /\ ReaderSend(c, {c}, "reply", "notify")
    /\ UNCHANGED <<hubVars, argVars, joined, up, serve, writer>>

\* BroadcastToRoom fetches the member map under a first read lock; there is
\* nobody to tell when the room does not exist.
NotifyRoom(c) ==
    LET exists == rooms[roomArg[c]] # {} IN
    /\ reader[c] = "notify"
    /\ CanRLock
    /\ reader' = [reader EXCEPT ![c] = IF exists THEN "notifySend" ELSE "read"]
    /\ roomArg' = [roomArg EXCEPT ![c] = IF exists THEN @ ELSE NoRoom]
    /\ UNCHANGED <<hubVars, connArg, faultVars, joined, up, serve, writer>>

\* It walks the map under a second one, skipping the user who joined or left.
NotifySend(c) ==
    /\ reader[c] = "notifySend"
    /\ CanRLock
    /\ ReaderSend(c, {d \in HeldMembers(roomArg[c]) : UserID[d] # UserID[c]},
                  "room", "read")
    /\ roomArg' = [roomArg EXCEPT ![c] = NoRoom]
    /\ UNCHANGED <<hubVars, connArg, joined, up, serve, writer>>

\* handleRoomMessage from a member with write permission, up to the first
\* read lock of BroadcastToRoom.
HandleRoomMessage(c, r) ==
    LET exists == rooms[r] # {} IN
    /\ Reads(c)
    /\ r \in joined[c]
    /\ CanRLock
    /\ reader' = [reader EXCEPT ![c] = IF exists THEN "roomSend" ELSE "reply"]
    /\ roomArg' = [roomArg EXCEPT ![c] = IF exists THEN r ELSE @]
    /\ UNCHANGED <<hubVars, connArg, faultVars, joined, up, serve, writer>>

RoomSend(c) ==
    /\ reader[c] = "roomSend"
    /\ CanRLock
    /\ ReaderSend(c, HeldMembers(roomArg[c]), "room", "reply")
    /\ roomArg' = [roomArg EXCEPT ![c] = NoRoom]
    /\ UNCHANGED <<hubVars, connArg, joined, up, serve, writer>>

-----------------------------------------------------------------------------
(* WritePump.                                                              *)

\* The Send channel is closed and drained, a write or a ping fails because
\* the connection is gone, or a write misses its deadline on an open one.
\* In every case the deferred Conn.Close() follows.
WriteEnd(c) ==
    /\ writer[c] = "on"
    /\ writer' = [writer EXCEPT ![c] = "done"]
    /\ up' = up \ {c}
    /\ UNCHANGED <<hubVars, argVars, faultVars, joined, serve, reader>>

-----------------------------------------------------------------------------
(* HTTP handlers and the Valkey subscriber.                                *)

\* The WebSocket half of POST /publish.  net/http recovers a panic of its
\* handlers, but RUnlock is not deferred: the read lock stays behind.
Publish(r) ==
    /\ CanRLock
    /\ mu' = IF rooms[r] \cap closed = {} THEN mu ELSE "leaked"
    /\ UNCHANGED <<hubVars, argVars, fault, panic, joined, up, serve, reader,
                   writer>>

\* Mutant: it also deletes the clients from the registry, as the SSE broker
\* does.
DisconnectKeyDeletes(k) ==
    LET dropped == {c \in Registered : APIKey[c] = k} IN
    /\ CanLock
    /\ up' = up \ dropped
    /\ clients' = [u \in User |-> IF clients[u] \in dropped THEN NoConn
                                                            ELSE clients[u]]
    /\ UNCHANGED <<rooms, closed, hubPC, hubConn, gauge, argVars, faultVars,
                   joined, serve, reader, writer>>

\* Mutant: no connection is closed.
DisconnectKeyCounts(k) == CanLock /\ UNCHANGED vars

\* Hub.DisconnectKey closes the connections of the registered clients of a
\* key; their ReadPumps find out and unregister them.
DisconnectKey(k) ==
    /\ CanLock
    /\ up' = up \ {c \in Registered : APIKey[c] = k}
    /\ UNCHANGED <<hubVars, argVars, faultVars, joined, serve, reader, writer>>

\* The handler of DELETE /api/keys waits for the lock.
DisconnectBlocks ==
    /\ ~CanLock
    /\ mu' = "blocked"
    /\ UNCHANGED <<hubVars, argVars, fault, panic, joined, up, serve, reader,
                   writer>>

\* Bridge.handleIncomingMessage: a broadcast, a room message or a direct
\* message of another node, each under one read lock.
RemoteMessage(S) ==
    /\ CanRLock
    /\ SendTo(S, "valkey")
    /\ UNCHANGED <<hubVars, argVars, mu, fault, joined, up, serve, reader,
                   writer>>

HandleIncomingMessage ==
    \/ RemoteMessage(Registered)
    \/ \E r \in Room : RemoteMessage(rooms[r])
    \/ \E u \in User : RemoteMessage({clients[u]} \ {NoConn})

-----------------------------------------------------------------------------
(* The network, the garbage collector and the specification.               *)

\* The peer goes away.
Drop(c) ==
    /\ c \in up
    /\ up' = up \ {c}
    /\ UNCHANGED <<hubVars, argVars, faultVars, joined, serve, reader, writer>>

\* A client object that no goroutine and no map refers to is free memory,
\* and may become the object of a later connection.
Recycle(c) ==
    /\ serve[c] = "done" /\ reader[c] = "done" /\ writer[c] = "done"
    /\ c \notin Registered
    /\ \A r \in Room : c \notin rooms[r]
    /\ \A d \in Conn : connArg[d] # c
    /\ c # hubConn
    /\ serve' = [serve EXCEPT ![c] = "idle"]
    /\ reader' = [reader EXCEPT ![c] = "off"]
    /\ writer' = [writer EXCEPT ![c] = "off"]
    /\ joined' = [joined EXCEPT ![c] = {}]
    /\ closed' = closed \ {c}
    /\ UNCHANGED <<clients, rooms, hubPC, hubConn, gauge, argVars, faultVars, up>>

Channels == {{}} \cup {{r} : r \in Room}

ServeWS(c) ==
    \/ \E channel \in Channels : Upgrade(c, channel)
    \/ \E channel \in Channels : UpgradeBlocks(c, channel)
    \/ UpgradeError(c)

\* What a ReadPump does when the network lets it: it never waits for a peer.
Continue(c) ==
    \/ CloseConn(c) \/ Reply(c) \/ BroadcastInfo(c) \/ SendDirect(c)
    \/ JoinRoom(c) \/ NotifyAck(c) \/ NotifyRoom(c) \/ NotifySend(c)
    \/ RoomSend(c)
    \/ c \notin up /\ ReadEnd(c)

HandleMessage(c) ==
    \/ HandleReplyOnly(c) \/ HandleUserInfo(c) \/ HandleBroadcast(c)
    \/ \E u \in User : HandleDirect(c, u)
    \/ \E r \in Room : HandleJoinRoom(c, r)
    \/ \E r \in Room : HandleLeaveRoom(c, r)
    \/ \E r \in Room : HandleRoomMessage(c, r)
    \/ \E r \in Room : MembershipBlocks(c, r)

ReadPump(c) == Continue(c) \/ HandleMessage(c) \/ (c \in up /\ ReadEnd(c))

Run ==
    \/ \E c \in Conn : Register(c) \/ Unregister(c) \/ RunBlocks(c)
    \/ Welcome
    \/ Announce

\* The goroutines that reach the hub for other reasons than a connection.
Others ==
    \/ \E r \in Room : Publish(r)
    \/ DisconnectBlocks
    \/ HandleIncomingMessage
    \/ \E c \in Conn : Drop(c) \/ Recycle(c)

\* Everything but the two steps that a revocation restricts.
Broker ==
    \/ Run
    \/ \E c \in Conn : ServeWS(c) \/ ReadPump(c) \/ WriteEnd(c)
    \/ Others

\* A panic outside an HTTP handler ends the process.
Next ==
    /\ panic = "none"
    /\ \/ \E c \in Conn : Validate(c)
       \/ \E k \in Key : DisconnectKey(k)
       \/ Broker

Spec == Init /\ [][Next]_vars

\* The fairness of the Go scheduler: a goroutine that can proceed does so.
\* Hub.Run picks among ready channels at random, so a sender that is ready
\* again and again is received from some day; a socket error surfaces.  No
\* peer and no HTTP client is obliged to do anything.
Fairness ==
    /\ WF_vars(panic = "none" /\ (Welcome \/ Announce))
    /\ \A c \in Conn :
         /\ SF_vars(panic = "none" /\ (Register(c) \/ Unregister(c)))
         /\ WF_vars(panic = "none" /\ Continue(c))
         /\ WF_vars(/\ panic = "none"
                    /\ c \in closed \/ c \notin up
                    /\ WriteEnd(c))

FairSpec == Spec /\ Fairness

-----------------------------------------------------------------------------
(* Properties.                                                             *)

\* No two *Client objects carry the same user id, not even when one of them
\* has ended: its entry may still be there when its registration came late.
UniqueIds == \A c, d \in Conn : UserID[c] = UserID[d] => c = d

\* The broker serves: it has not crashed, and Hub.Mu can be taken.
Serving == panic = "none" /\ mu = "free"

\* A ReadPump still owns its client's membership.
Reading(c) == reader[c] \notin Leaving \cup {"off", "stuck"}

\* Hub.Rooms and the Client.Rooms of all clients, kept by different
\* goroutines under different protection, are two views of one relation for
\* as long as the client's ReadPump lives; and a room never holds a client
\* that does not know of it, so that Unregister finds every room to clean.
\* Only a ReadPump waiting for ever for the lock may be between the two.
RoomsAgree ==
    \A c \in Conn, r \in Room :
        /\ c \in rooms[r] => r \in joined[c] \/ reader[c] = "stuck"
        /\ Reading(c) /\ r \in joined[c] => c \in rooms[r]

\* Metrics.WsConnections, raised by ServeWS and lowered by Hub.Run, counts
\* the upgraded connections whose unregistration the hub has not finished.
GaugeExact ==
    hubPC # "stuck" =>
    gauge = Cardinality({c \in Conn : /\ serve[c] \notin {"idle", "validated"}
                                      /\ reader[c] \notin Leaving})

\* The channel of a registered client is open, so a broadcast under the read
\* lock cannot panic.  The one exception is a client whose ReadPump had
\* unregistered it before Run registered it, and Run stops on that one.
RegisteredOpen ==
    panic = "none" =>
        \A c \in Registered \cap closed : c = hubConn /\ reader[c] \in Leaving

\* With unique user ids a closed channel can be reached only through the
\* pointer that SendToUser keeps after it releases the lock: no other send,
\* and no close, ever panics and the read lock is never left behind.
OnlyDirectPanics ==
    UniqueIds => /\ mu = "free"
                 /\ panic \in {"none", "direct"}
                 /\ \A c \in Conn : fault[c] \in {"none", "direct"}

\* With unique user ids the registry misses nobody: a client that the hub
\* has taken from Register and whose ReadPump runs is registered.
RegistryComplete ==
    UniqueIds => \A c \in Conn : serve[c] = "done" /\ Reading(c)
                                    => clients[UserID[c]] = c

-----------------------------------------------------------------------------
(* The invariant behind these, which is inductive.                         *)

\* A client that ServeWS has not handed over is known to nobody.
Unborn(c) == serve[c] \in {"idle", "validated", "stuck"}

UnbornUnknown ==
    \A c \in Conn :
        /\ Unborn(c) <=> reader[c] = "off"
        /\ Unborn(c) => c \notin closed /\ \A r \in Room : c \notin rooms[r]

\* An entry of the registry is a client of that user that Run has taken.
EntriesTaken ==
    \A u \in User : clients[u] # NoConn =>
        UserID[clients[u]] = u /\ serve[clients[u]] = "done"

\* Only an unregistration closes the channel of a client that is not yet
\* taken from Register, and Run remembers a client only to welcome it.
ClosedTaken ==
    /\ \A c \in closed : serve[c] = "done" \/ reader[c] \in Leaving
    /\ hubPC # "welcome" => hubConn = NoConn
    /\ hubPC = "welcome" => clients[UserID[hubConn]] = hubConn

\* With unique ids a closed client is out of every map and every loop.
ClosedUnreachable ==
    UniqueIds => \A c \in closed :
        /\ serve[c] = "done" /\ reader[c] \in Leaving
        /\ c \notin Registered
        /\ \A r \in Room : c \notin rooms[r]

Inv ==
    /\ TypeOK
    /\ UnbornUnknown
    /\ EntriesTaken
    /\ ClosedTaken
    /\ RoomsAgree
    /\ RegisteredOpen
    /\ ClosedUnreachable
    /\ OnlyDirectPanics
    /\ RegistryComplete

-----------------------------------------------------------------------------
LeavesByItself ==
    \A c \in Conn, r \in Room :
        c \in rooms[r] /\ c \notin rooms'[r] =>
            \/ reader[c] = "read" /\ reader'[c] = "notifyAck"
            \/ reader[c] = "unregister" /\ reader'[c] = "close"

\* A client leaves a room only by its own leave or its own unregistration:
\* the cleanup of Unregister and of LeaveRoom, which delete emptied member
\* maps, never takes another client's membership away.
NoEviction == [][LeavesByItself]_vars

\* A client whose channel has been closed, by a takeover or by its own
\* unregistration, or whose connection has gone away under its ReadPump, is
\* unregistered and disconnected in the end: the pumps notice, and nothing
\* they wait for, Run above all, is withheld.
EndsCleanly ==
    \A c \in Conn :
        c \in closed \/ (Reading(c) /\ c \notin up)
            ~> (c \notin up /\ ~Reading(c)) \/ ~Serving

-----------------------------------------------------------------------------
(* What the hub implements.                                                *)

\* Hub.GetOnlineUsers, whose length is ClientCount.
GetOnlineUsers == {u \in User : clients[u] # NoConn}

\* Hub.GetRoomMembers of each room; GetRooms and RoomCount show the rooms
\* that have some.
GetRoomMembers == [r \in Room |-> {UserID[c] : c \in rooms[r]}]

Shown == INSTANCE Presence WITH online <- GetOnlineUsers,
                                members <- GetRoomMembers

\* With unique user ids, what /stats and /channels/{name}/presence show at
\* any moment follows the rules of Presence, although Run, the pumps and
\* ServeWS keep registry and rooms in many small steps: every user that goes
\* offline leaves all of its rooms in that very step.
PresenceKept == Shown!Spec

-----------------------------------------------------------------------------
\* Run's takeover branch, "connected from another location": a second
\* connection of a user replaces the first, and the broker goes on.
TakeoverHarmless == Serving
=============================================================================
