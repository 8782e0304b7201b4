# SyncHub: a TLA+ model of the broker

SyncHub is a message broker between backend services and browsers. It exists
twice: `ws-go` (Go, feature-complete) and `ws-elixir` (Phoenix). This project
models the Go broker part by part and the Elixir broker as a whole, checks the
models with TLC on small instances, and proves the safety properties of the
core with TLAPS for every instance.

## 1. Inventory

| Component | State | Operations | What is hard | What makes it correct |
|---|---|---|---|---|
| Hub (`internal/hub/hub.go`) | `Clients` by user id, `Rooms` as member maps, `Mu`, channels `Register`, `Unregister` | `Run`, `JoinRoom`, `LeaveRoom`, `BroadcastToRoom`, `BroadcastMessage`, `SendToUser`, `DisconnectKey` | goroutines of every connection share the maps; pointers and member maps are used after a lock is released; channels are closed by one goroutine and sent on by others | no send on and no second close of a closed channel, no lock left behind, registry and rooms agree with the connections that exist |
| Client (`internal/hub/client.go`) | `Send`, `Rooms`, the connection | `ReadPump` and its handlers, `WritePump` | the deferred unregistration runs on every exit, also on a panic | a broken connection is unregistered, a closed channel ends the connection |
| Upgrade (`internal/transport/websocket.go`) | none of its own | `ServeWS` | key checked long before registration; pumps start before registration | the handler returns; no connection is registered after it ended |
| SSE broker (`internal/transport/sse.go`) | `clients`, `replayBuf`, `eventID`, each client's `Events` and `Done` | `Subscribe`, `Unsubscribe`, `Publish`, `PublishAll`, `GetReplaySince`, `DisconnectKey`, `ServeSSE` | three locks, publishers in any order, full queues, `Done` closed twice | no message falls between replay and stream |
| Key revocation (`cmd/server/main.go`, `apikey.go`) | `Active` of each key | revoke, then disconnect in hub and SSE broker; update | requests on their way in | a revoked key has no connections |
| Key store (`internal/security/apikey.go`) | `keys`, `data/api_keys.json` | `GenerateKey`, `Update`, `Revoke`, `Validate`, `save`, `load` | one save without the lock, a file rewritten in place, crashes | what was answered survives a restart |
| Rate limiters (`internal/middleware/middleware.go`) | a counter and a time per visitor | `Allow`, `cleanup` | boundaries of the window | at most `rate` requests per window; refusals are deserved |
| Valkey bridge (`internal/valkey/valkey.go`) | node id, connection | `Publish*`, `handleIncomingMessage` | at-most-once delivery between nodes, echo | a message reaches each node's clients once |
| ACL (`internal/security/acl.go`) | rules per channel | `CanJoin`, `CanWrite`, `CheckMaxMembers`, set, remove | checked, then acted on; rules change meanwhile | who is in a room, and how many, is explained by the rules that were in force |
| JWT (`internal/security/jwt.go`) | secret, issuer | issue, validate, `HasChannelAccess` | expiry | access only as granted |
| Webhooks (`internal/webhook/webhook.go`) | registered hooks | register, unregister, `Dispatch`, `deliver` | one goroutine per delivery, no order, no retry | every matching hook is called once, counters agree |
| Metrics (`internal/metrics/metrics.go`) | atomic counters | read by `/metrics` | incremented in one goroutine and decremented in another | gauges equal what they count |
| HTTP API and shutdown (`cmd/server/main.go`) | none of its own | routes, signal handler | panics recovered by `net/http`; `main` returns while handlers run | what is accepted is answered, also when the process is told to stop |
| Elixir broker (`ws-elixir/lib`) | GenServers for keys and SSE, PubSub topics, an ETS table | the same API | messages between processes, monitors, count-then-insert | as above |
| Client (`client/`) | none | type declarations, a browser test page | | |

Components interact as follows. `ServeWS` creates a client, starts its two
pumps and hands it to `Hub.Run`. A pump that ends hands the client back through
`Unregister`. Message handlers run in `ReadPump` and call the hub, which calls
the SSE broker and the Valkey bridge after its own sends. `/publish` walks the
hub's rooms itself and then calls the SSE broker and the webhooks. Revocation
changes the key store, then asks the hub and the SSE broker to drop clients.

The hazards that follow from this are listed, line by line, in `PROJECT.json`.

## 2. Modules

| Module | Models | Size of a step |
|---|---|---|
| `Hub` | hub, clients, upgrade, the hub's share of `/publish`, of `DELETE /api/keys/revoke` and of the Valkey subscriber | one critical section of `Hub.Mu`, or one send outside it |
| `Presence` | abstract: what `/stats` and `/channels/{name}/presence` show | one user comes, goes, enters or leaves |
| `Revocation` | `Hub` together with the key store's `Active` flags; extends `Hub` | as in `Hub` |
| `Access` | ACLs, tokens and member limits, as `ServeWS` and the handlers ask them | one question to the ACL manager, the token or the hub |
| `Cluster` | the way of a message through `Send` channels and Valkey to the sockets of several nodes | one local delivery, one publish, one incoming message, one frame |
| `Feed` | abstract: what a client may rely on across nodes | one message sent or heard |
| `SSEBroker` | SSE broker, its handlers, the revocation of keys | one critical section of `mu` or `replayMu`, one atomic add or load, one write to a subscriber |
| `Publishing` | `/publish` from its checks to its answer, metrics, webhooks, shutdown | one critical section, one attempt of a delivery |
| `APIKeyStore` | keys in memory and on disk | a critical section, or one system call on the file |
| `RateLimiter` | both limiters | one call of `Allow` or `cleanup`, or one tick |
| `ElixirBroker` | the Elixir broker: plug, controllers, WebSocket handler, the two GenServers, PubSub, supervisor | one call, cast or received message |
| `MC*` | values of the constants for TLC | |
| `*Proofs` | theorems about the module they extend (`HubProofs` about `Hub` and `Revocation`) | |

`Hub`, `Access` and `Cluster` look at the same goroutines from three sides:
`Hub` knows whether a channel is closed and who holds the lock, `Access` who
was allowed in, `Cluster` what the channels carry. `Access` and `Cluster` take
from `Hub` that rooms and registry are consistent (`RoomsAgree`,
`RegisteredOpen`), and `Access` keeps of the hub's faults that an unregistration
may find no entry.

Operators named "Mutant" in a comment are wrong versions of the definition that
follows them. They belong to no specification; with one of them put in the
place of the definition, TLC finds the property it is listed with violated.

### Hub

A member of `Conn` is a `*Client`. `serve`, `reader` and `writer` say how far
its three goroutines are; `hubPC` says it of `Run`. What a handler remembers
between two critical sections is kept in `roomArg` (the room, or the member map
that `BroadcastToRoom` fetched under its first lock) and `connArg` (the client
`SendToUser` looked up). A member map that was deleted from `Rooms` while a
handler holds it becomes `NoRoom`: the handler walks an empty map even if the
room has been created again.

All sends to `Send` are in a `select` with a `default`, so they cannot block.
The model therefore keeps of a channel only whether it is closed (`closed`):
a send to a closed one panics. What a panic does depends on the goroutine:

* in `Run` and in the Valkey subscriber the process ends (`panic`);
* in `ReadPump` the deferred function first unregisters the client and closes
  the connection, and only then the process ends (`fault`); a read lock the
  panicking code holds stays taken meanwhile;
* in `/publish` `net/http` recovers the panic, and the read lock that is not
  released by a deferred call stays behind for ever (`mu`). The next writer
  blocks, and after it every reader, as Go's `RWMutex` prefers writers.

`Upgrade` is one step although it spans several statements: until the pumps
start, nobody else can see the client but through the room it joined, where it
can only be sent to. `Recycle` lets a client object that nothing refers to
stand for a new connection, so that runs of any length fit a finite `Conn`.
`TwoUsers` and `OneUser` in `MCHub` decide whether the connections share a user
id (`client_id` is chosen by the client, so they may).

`Hub` leaves out the `Broadcast` channel of `Run`: nothing in the repository
sends on it. The answers of the ACL and of the token are inputs: a refusal is
`HandleReplyOnly`.

### Presence

`PresenceKept` maps `online` to the user ids in `Hub.Clients` and `members` to
those in `Hub.Rooms`, as the two endpoints compute them: the many locks and
goroutines of the hub show through them as single arrivals, departures, entries
and exits. The theorem assumes that user ids are unique among connections: after
a takeover the old connection of a user removes the entry of the new one
(`UniqueIds` speaks of all client objects, an ended one whose registration came
late included; what shared ids lead to is the subject of the run
`hub_takeover`).

### Revocation

Adds `active` and the progress of each revocation, restricts `Validate` to
active keys and `DisconnectKey` to revocations under way. `late` collects the
connections that were past `Validate` and not registered when `DisconnectKey`
looked. Every step is a step of `Hub` or leaves it unchanged (theorem
`ImplementsHub`), so all of the hub's theorems hold here too.

### Access

A connection's `pc` runs through `ServeWS` (token, `CanJoin`, upgrade with
auto-join) and then through the handlers of its `ReadPump` (`CanJoin`, count,
limit with the token, join; `CanWrite`, broadcast), with the ACL free to change
between any two of them. An ACL is `[public, max, keys, perms]`, a token
`[user, channels, perms]`. Permissions the code does not know have level 0.
`max` is any integer, as `/acl` accepts it: 0 is no limit, and a negative one
admits nobody who asks.
`stale`, `uncounted` and `raced` are history: they name those whom an old rule
let in, whom no limit was applied to, and whose last answer is out of date.

### Cluster and Feed

A sender is a `ReadPump` or the `Run` of a node (it broadcasts `user_left`).
It offers the message to its node's clients and then publishes it (`cur`); a
direct message is published only if the user is not on the node. Valkey keeps
one queue per node and subscription (`wire`), is lossy when a link breaks
(`LinkLost`), and subscribes again at its pleasure or never. `FeedKept` states
that what is written to the sockets implements `Feed`: no duplicates, no
foreign messages, order per sender and channel, losses allowed.

### Publishing

A request is accepted or refused, walks the members of the room, publishes to
the SSE broker, counts, dispatches to the webhooks and answers. Each delivery
is a goroutine of its own (`jobs`), made with the webhook as it was when
`Dispatch` looked. `Shutdown` closes the listener and waits; `main` may return
at any time from then on, as `ListenAndServe` has returned.

Of what goes wrong in the hub there is what a request meets. `TakeOver` closes
the `Send` channel of a member that stays in its room. A request that comes to
such a member panics (`PanicWs`) after it has given the message to some of the
others, whom the map's order has put first; nobody is answered, and the read
lock stays taken (`lock = "leaked"`). The next writer waits for it
(`WriterWaits`), and from then on so does every request (`lock = "stuck"`).
Writes fail: a `WritePump` then returns without counting and leaves its queue
to fill up, and `ServeSSE` does not look at the error and counts the message.
`MaxChanges` bounds webhook changes, takeovers and failing writes together.

### ElixirBroker

Each request is a process with a mailbox. `Loaded` is what the key file holds
at the start. `save_keys` ignores what `File.write` returns: the file may be
left as it was (`unsaved`) or truncated. Both GenServers may crash and be
restarted with what `init` gives them, for the key store the contents of the
file or, if it cannot be read or parsed, an empty store. A message carries only
whether it was sent after its receiver's key was revoked; what the process of a
connection writes by itself, the first frame included, is no message.

### SSEBroker

A member of `Msg` is one call of `Publish` (`Number`, `Store`, `Deliver`) or of
`PublishAll`. A member of `Sub` is an `EventSource` with its successive
requests: it keeps the id of the last event it was sent (`lastSeen`) and
reconnects with it. `got` and `first` record what it was sent, `excused` the
messages a full queue or a full buffer took. `Write` uses the counter's value
at the time of the write, as `ServeSSE` does. `Unsubscribe` is the deferred
part: the gauge goes down first, and the second `close(client.Done)` after a
`DisconnectKey` panics without further effect, since `net/http` recovers it
and the map has been cleaned before.

The server has no `WriteTimeout`, so a peer that stays connected and does not
read (`stalled`) holds the handler in the write it is at, for as long as it
likes: `Replay`, `Connected`, `Write` and `KeepAlive` wait. A peer that is gone
holds up nothing.

### APIKeyStore

`save` is `Marshal` (only in `GenerateKey` is it a step of its own, as only
there it runs without the lock), `Open`, which truncates, and `Write`. The file
is abstracted to what it parses to and its length: a writer overwrites from
offset 0, so a shorter text written over a longer one leaves bytes that do not
parse (`NoMap`). The length of an entry depends on `"active": true` or `false`,
which is why `Size` counts. `Crash` may come at any time; the runtime's fatal
error on concurrent map access is one of its causes. A save may fail before or
after the truncation, with a part of the text written (`SaveError`), and a start
may find a file that it cannot read (`RestartBlind`): then the store is empty
and the file intact until the first save replaces it (`unread`). `unsaved` has
the keys with a change that its own save did not write, or that was made while
another request had its bytes ready and went on without the lock.

### RateLimiter

Time is in ticks and bounded by `Horizon`; `Burst` bounds the requests per
tick. `asked` and `granted` record the history that the properties are about.
A visitor is what the code makes one: an entry of `X-Forwarded-For`, or
`RemoteAddr` with its port (`middleware.go:150`), so one client may be several
visitors, and what is shown about a visitor is not about a client.

## 3. Runs

| Run | Instance | Checks | Distinct states |
|---|---|---|---|
| `hub_unique` | 2 connections of 2 users, 1 room, 1 key with its revocations | `TypeOK`, `OnlyDirectPanics`, `RegistryComplete`, `RevokedOnlyLate`, `PresenceKept` | 902,301 |
| `hub_shared` | 2 connections of 1 user, 1 room | `RoomsAgree`, `GaugeExact`, `RegisteredOpen`, `NoEviction`, `EndsCleanly` | 473,990 |
| `access` | 2 connections, 1 room, 3 ACLs, 2 tokens | `TypeOK`, `OverfullOnlyRaced`, `MembersAdmitted` | 236,408 |
| `cluster` | 2 nodes with a client each, 2 messages of a client and 1 of `Run`, channels with 1 free place, 1 failure | `TypeOK`, `FeedKept`, `BroadcastHeard` | 269,029 |
| `sse` | 1 subscriber, 2 messages and 1 to everyone, a buffer of 1, a queue of 2, revocations | `TypeOK`, `NoGap`, `GaugeExact`, `ClientsOpen`, `RevokedOnlyLate`, `DisconnectedEnds` | 626,959 |
| `publishing` | 2 requests, 1 webhook id with 3 filters, 1 member, 1 subscriber, 2 changes, takeovers or failing writes | `TypeOK`, `DispatchedRight`, `CountersExact`, `RequestsEnd` | 496,440 |
| `keys_safe` | 3 keys, 2 requests, failing saves and reads | `TypeOK`, `DiskFollows`, `DiskBehind`, `RevokedStays` | 387,381 |
| `rate_kept` | rate 2, window 2, 7 ticks, up to 3 requests a tick | `TypeOK`, `LimitKept`, `RefusedOnlyUnpaused` | 88,739 |
| `elixir` | 1 stream, 1 WebSocket, 1 publisher, 1 key, limit 1, mailboxes of 2, 2 faults | `TypeOK`, `OverLimitOnlyRaced`, `NothingAfterRevocation`, `SubscribersKnown`, `RevokedStaysRevoked`, `RevokedEnds` | 620,088 |

Why the bounds are enough. Every hazard of the hub is between one connection
and another, or between one connection and `Run`; two connections with one room
already reach takeover, double close, leaked lock, blocked writer, emptied and
recreated room. One branch needs a third connection of another user beside a
takeover: `NotifySend` meeting a closed channel; the theorems cover any number.
Three messages overflow the SSE buffer and the queue and let publishers overtake
each other. In `access` the first ACL is full with one member, so two joins race
for it, and the others tell apart keys and users; one of the two tokens carries
a permission the code does not know. In `cluster` one free place is what makes
drops happen, and three messages of two senders on different subscriptions what
makes overtaking happen. In `publishing` one webhook id is enough for a
replacement during a delivery, and two changes for a takeover and a failing
write. In `elixir` a limit of one makes every overlap of two requests a race,
and with mailboxes of two a revocation meets an event that is ahead of it and is
followed by one; two faults are a write that fails and the restart that undoes a
revocation because of it. All have one key there, and no webhook in `publishing`
is for every event by its `*` and for the right channel: that the revocation of
another key is passed over, and that `*` matches, is in the theorems. Symmetry is
used where the elements are interchangeable and no liveness is checked: keys and
requests in the key store, connections with their users in `hub_unique`.

Deadlock is checked for the key store, the limiter and access. In the other runs
the process may have ended, everybody may wait for the leaked lock, or every
message of the bounded number may have been sent and nobody is obliged to
connect.

Fairness, all of it from the schedulers. A goroutine that can go on goes on
(weak fairness of `Run` after it has taken a client, of a `ReadPump` inside a
handler or on a broken connection, of a `WritePump` whose channel is closed or
whose connection is broken, and of a started `Publish`). A `select` chooses at
random among ready cases, so a sender that is ready again and again is served
(strong fairness of `Register` and `Unregister` per client, and of `Leave`). A
write of `ServeSSE` returns if its peer reads again and again (strong fairness
of the handler), and nothing says that it does: `DisconnectedEnds` excepts a
handler whose peer has stopped reading for good. In `Cluster` the goroutines that have something to
publish, the subscribers that have a message and the `WritePump`s go on; in
`Publishing` handlers and deliveries do, since a delivery ends with its HTTP
timeout; a handler that waits for the lost lock is not enabled, and
`RequestsEnd` excepts it and the one that panicked. In `ElixirBroker` the process
of a connection takes what is in its mailbox. Peers, HTTP clients, Valkey's
reconnection and the supervisor's restarts owe nothing. The liveness properties
of the hub say "or the broker no longer serves", as a panic or a
leaked lock ends every obligation; with unique ids a leaked lock is excluded
(`OnlyDirectPanics`).

### Disagreements between the code and what it says

| Run | Property | What TLC finds |
|---|---|---|
| `hub_takeover` | `TakeoverHarmless` | a second connection of a user closes the first one's channel; the first is still in its rooms and still unregisters itself: a send on, or a second close of, a closed channel |
| `sse_missed` | `MissedReplayed` | an event carries the newest id and not its own, so the subscriber's `Last-Event-ID` skips messages it never received |
| `drain` | `Drained` | `main` returns as soon as the listener is closed and does not wait for `server.Shutdown`: a request that is being served is cut off, against the README's "10-second drain period" |

More are visible as the exceptions in properties that hold:

* Connections that are being set up survive a revocation, against the README's
  "forcefully and immediately terminated" (`late` in both `RevokedOnlyLate`; in
  `ElixirBroker` `late` in `RevokedEnds`). So does a stream whose peer stays
  connected and does not read: its handler hangs in a write and does not see
  `Done` (`stalled` in `DisconnectedEnds`).
* A request to `/publish` that meets the closed channel of a taken-over member
  is never answered, and after it neither are those that wait for the lock it
  has lost (`panicked` and `stuck` in `RequestsEnd`).
* `ServeWS` joins a room without counting, and two handlers count before either
  joins, so a room exceeds its `max_members` (README, "403 if room is full";
  `uncounted` in `OverfullOnlyRaced`).
* A connection that breaks before `Run` takes it from `Register` may be
  unregistered first and registered afterwards; nobody removes it then
  (`RegisteredOpen` holds for such an entry too: its channel is never closed).
* `GenerateKey` saves without the lock and may write an older snapshot over a
  revocation (`unsaved` in `RevokedStays`). A process that stops between
  truncating and writing `api_keys.json` leaves a file that `load` takes for an
  empty store (`NoMap` in `DiskFollows` and `DiskBehind`), and so does one that
  cannot read it, whose first save then replaces the file (`unread`).
* A visitor below the rate in every window is refused if it never pauses for a
  whole window (`RefusedOnlyUnpaused` speaks of pauses).
* A message of `/publish` is counted when it is queued and again when it is
  written, by `ServeSSE` also when the write fails (`CountersExact` has the exact
  excess for both metrics).
* In the Elixir broker a restarted `SSEBroker` forgets its subscribers, whose
  streams stay open (`deaf` in `SubscribersKnown`), and a `File.write` that
  fails and leaves the file as it was lets a restart undo a revocation (`unsaved`
  in `RevokedStaysRevoked`).

Seen while reading, and not the subject of a property: `HttpRequests` and
`HttpErrors` are never incremented; webhooks fire for `/publish` only, not for
"message, join, leave" (README, feature 9); `/publish` does not go through
Valkey; the `user_left` of the last local member of a room stays on its node
(`hub.go:181`); `SendToUser` acknowledges a message to a user no node knows
(`hub.go:140`); the README names the permissions publish, subscribe and admin,
where `PermissionLevel` knows read, write and admin; the README enables
clustering with `VALKEY_ADDR` in one place and `VALKEY_URL` in another; direct
messages of the Elixir broker go to a topic nobody subscribes to.

## 4. Proofs

The theorems hold for all values of the constants that satisfy the named
assumptions `ConstantsOK` (`Hub`), `SSEConstants` (`SSEBroker`),
`StoreConstants` (`APIKeyStore`), `AccessConstantsOK` (`Access`),
`ClusterConstantsOK` (`Cluster`), `PublishingConstants` (`Publishing`),
`LimiterConstants` (`RateLimiter`) and `ElixirConstants` (`ElixirBroker`):
finiteness of the counted sets, distinctness of the null values, types of the
given functions, positive limits. TLC evaluates them in every run. The bounds
of the models (`Horizon`, `Burst`, `MaxSend`, `MaxFaults`, `MaxChanges`) are
constants too, so the theorems hold however large they are.

Every module that is proved about states its inductive invariant `Inv` in its
properties section or after it (for `Revocation` it is `RevInv` in
`HubProofs`). TLC has checked each `Inv` on the instance of its run.

**`HubProofs`**: `TypeCorrect`, `Invariance`, and from it `RoomsAgreeHolds`,
`RegisteredOpenHolds`, `OnlyDirectPanicsHolds`, `RegistryCompleteHolds`; then
`GaugeExactHolds`, `NoEvictionHolds` and `PresenceKeptHolds`.
The properties are not inductive by themselves. That a broadcast cannot panic
needs that registered clients have open channels; that needs to know who closes
channels and when: a client nobody has taken yet is in no map and not closed
(`UnbornUnknown`), an entry of the registry is a client of that user that `Run`
has taken (`EntriesTaken`), a closed client was taken or has unregistered
(`ClosedTaken`), and with unique ids a closed client is in no map at all
(`ClosedUnreachable`), for which `RoomsAgree` is needed: `Unregister` cleans
the rooms that `Client.Rooms` names. Most actions disturb none of this; they
are treated together (`QuietStructure`, `QuietOrLoud`), the rest one by one.
`GaugeExact` compares a counter with a cardinality and is proved by following
how each action changes the counted set. `PresenceKeptHolds` shows, for unique
ids, that the initial state maps to one of `Presence` and that every step maps
to a step or a stutter; the interesting case is the unregistration, which takes
a user out of the registry and out of all rooms at once only because `Rooms`
and `Client.Rooms` agree.

In the same module, about `Revocation`: `ImplementsHub` (`RevSpec => Spec`),
which brings all of the above along, and `RevokedOnlyLateHolds`. The latter needs that a
connection that is open, with its revocation done, and past registration
without being `late`, has been dropped or is leaving; `HubMoves` lists the
ways a connection changes its stage.

**`SSEBrokerProofs`**: `TypeCorrect`, `Invariance`, `NoGapHolds`,
`RevokedOnlyLateHolds`, `ClientsOpenHolds`, `GaugeExactHolds`. `NoGap` needs
`BufferKeeps` (a stored message leaves a buffer only when it is full). The
argument has two cases: a message delivered before the replay was stored before
it and is replayed or was overwritten; one delivered after it met a subscriber
already in the map and was queued or was dropped.

**`APIKeyStoreProofs`**: `TypeCorrect`, `Invariance`, `DiskFollowsHolds`, `DiskBehindHolds`,
`RevokedStaysHolds`. The strengthening speaks of each key by itself, so that a
failed or overtaken save of one excuses nothing of another: what is about to be
written has of a key what memory has, unless a change has overtaken it, and no
key that memory has not (`SnapsBehind`); so has the file, until a request about
the key is through, and in no file that parses is an answered revocation undone
(`FileBehind`, which is what a restart needs); and requests end with the process
(`Engaged`).

**`AccessProofs`**: `TypeCorrect`, `InvHolds`, and from it `LimitHolds` and
`AdmissionHolds`. Neither property is inductive: a member was let in by checks
made several steps before it joined. `JoinsChecked` says what each of these
answers is still worth while the join is under way (the room has not more
members than were counted, the limit allows the count, the ACL and the token
admit the user, unless the history names an excuse), and `MembersConnected`
that a connection enters with no room left over from before. The limit then
follows from the cardinality of a set that grows by one element.

**`ClusterProofs`**: `TypeCorrect`, `Invariance` and `FeedKeptHolds`, the
refinement of `Feed`. A write to a socket is `Hear`, whatever sends a message
is `Send`, and all other steps stutter. That `Hear` is allowed needs an order
on everything that may still come to a client. `InOrder` says that the queue of
a client and each queue of Valkey is sorted by sender and channel, that what a
client has got is before what is in its `Send` channel, and that what has
reached it from another node is before what its node's subscriptions still
have; messages from its own node are excepted there, which is where the echo
must be recognised. `Pending` says that a message that is not yet published is
the newest of its sender, and in no queue of Valkey nor with a client of another node: so a
published one goes behind all others everywhere. `Genuine` is what makes
number, sender and addressee of a message mean the same at every stage. The
lemmas about queues (`QueueAppend`, `QueueTail`) and the one about all the
ways to send (`SendStep`) carry most of it.

**`PublishingProofs`**: `TypeCorrect`, `Invariance`, `DispatchedRightHolds` and
`CountersExactHolds`. `HooksKept` relates the webhooks a request has seen to
those that are registered while it is served; at `Dispatch` this becomes what
`DispatchedRight` says, which later changes cannot disturb. `CountersExact`
compares each counter with the cardinality of a set (requests, deliveries, pairs
of a request and a listener, messages written, messages whose write failed), and
each step adds to a counter what it adds to its set (`TallyAdds`, `GivenAdds`);
both ends of the walk over the members, with and without a panic, are one case
(`WsCases`). `Progress` says what a request has handed out
by each of its stages, so that nothing is added twice.

**`RateLimiterProofs`**: `TypeCorrect`, `Invariance`, `LimitKeptHolds` and
`RefusedOnlyUnpausedHolds`. The counter forgets when its session began, so the
invariant says that there is such a time (`Session`): no requests in the window
before it, no pause since, at least as many requests since as the counter
shows and at most as many allowed ones. A window that meets the current session
reaches back to the silence before it and no further, so what it holds of
allowed requests are those of the session. `Forgotten` says why a visitor
that `cleanup` has removed may start afresh.

These two modules count elements of products of finite sets. The library has
no theorem for those, and its induction takes an operator; `FiniteInduction` is
induction over a finite set with a family of sets in the operator's place,
derived from the well-foundedness of the subset ordering, and `FiniteProduct`
and the finiteness of a `Tally` follow from it.

**`ElixirBrokerProofs`**: `TypeCorrect`, `Invariance`,
`OverLimitOnlyRacedHolds`, `NothingAfterRevocationHolds`,
`SubscribersKnownHolds` and `RevokedStaysRevokedHolds`. `Warned` follows a
revocation through a mailbox: a connection that listens in time has the
revocation of its key ahead of everything sent after it. `BooksKept` says who
may be in the tables of `PubSub` and of `SSEBroker` by the stage of its
process, `SavedKept` that a revocation is in the file unless the last write
failed and left it as it was (the file need not be what memory has: a store that
could not read it is empty), `RacesCounted` that a request is counted as a race once.

With this every safety property that a passing run checks is a theorem, the
type invariants, the two refinements and the action properties included. Only
model-checked are the liveness properties (`BroadcastHeard`, `RequestsEnd`,
`RevokedEnds` and those of `Hub` and `SSEBroker`), for fairness and `ENABLED`
are outside the prover's reach, and of course the properties that do not hold.

## 5. Not modelled, and the plan

Not modelled, and why:

* signatures and the encoding of tokens and keys: cryptography of libraries;
* the matching of origins with domain patterns, in both brokers: a pure string
  function, whose answer is an input of `Validate`;
* CORS, logging, routing, error texts, the text of `/metrics`, `/health`:
  formatting and reads that change nothing;
* `WsMessagesIn` and `KeyRevocations`: single additions that nothing relates to;
* the `Broadcast` channel of `Run`: nothing in the repository sends on it;
* the contents of messages;
* `client/`: types and a manual test page. The reconnecting `EventSource` is in
  `SSEBroker`, from what the server sends it.

What is left to do is proof about how the modules fit together: that what
`Access` and `Cluster` take from `Hub` (section 2) follows from its theorems,
and results about `Revocation` for user ids that are not unique.
