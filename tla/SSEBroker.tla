----------------------------- MODULE SSEBroker -----------------------------
(***************************************************************************)
(* Server-sent events of the Go broker: SSEBroker with its replay buffers, *)
(* the ServeSSE handler of each subscriber, and the revocation of keys.    *)
(*                                                                         *)
(* A publisher takes an event id, stores the message in the replay buffer  *)
(* and hands it to the subscribers in three separate steps; a handler      *)
(* subscribes, replays, reports the current id and then streams.  Only the *)
(* order of these steps protects a subscriber from losing a message.       *)
(*                                                                         *)
(* A member of Sub is an EventSource with its successive requests.  It     *)
(* remembers the last id it was sent and reconnects with it as             *)
(* Last-Event-ID.  A member of Msg is one call of Publish or PublishAll.   *)
(***************************************************************************)
EXTENDS Integers, FiniteSets, Sequences, SequencesExt

CONSTANTS Sub, Msg, Channel, Key,
          NoMsg,        \* no message
          Everyone,     \* the target of PublishAll
          ChannelOf,    \* SSEClient.Channel
          KeyOf,        \* SSEClient.APIKey
          Target,       \* the channel of each message, or Everyone
          ReplayLimit,  \* SSEBroker.replayLimit
          QueueCap      \* the capacity of SSEClient.Events

ASSUME SSEConstants ==
    /\ IsFiniteSet(Sub)
    /\ NoMsg \notin Msg
    /\ Everyone \notin Channel
    /\ ChannelOf \in [Sub -> Channel]
    /\ KeyOf \in [Sub -> Key]
    /\ Target \in [Msg -> Channel \cup {Everyone}]
    /\ ReplayLimit \in Nat \ {0}
    /\ QueueCap \in Nat \ {0}

VARIABLES
    eventID,    \* SSEBroker.eventID
    id,         \* the event id of each message, 0 before it has one
    pub,        \* progress of each Publish
    replayBuf,  \* SSEBroker.replayBuf
    clients,    \* SSEBroker.clients
    events,     \* SSEClient.Events
    doneClosed, \* the clients whose Done channel is closed
    serve,      \* progress of each ServeSSE handler
    held,       \* the message a handler has taken from Events
    since,      \* the Last-Event-ID of the current request
    up,         \* the subscribers whose request is connected
    stalled,    \* those of them that do not read, so that a write blocks
    gauge,      \* Metrics.SseConnections
    active,     \* the keys APIKeyStore.Validate accepts
    revoke,     \* a revocation of each key: none, under way, or in force
    lastSeen,   \* the last id each EventSource was sent
    first,      \* the first id above 0 it was sent
    got,        \* the messages each EventSource was sent
    excused,    \* those a full queue or an overwritten buffer took from it
    late        \* requests between validation and subscription at a revocation

pubVars  == <<eventID, id, pub, replayBuf>>
keyVars  == <<active, revoke, late>>
peerVars == <<lastSeen, first, got, excused>>
vars == <<pubVars, keyVars, peerVars, clients, events, doneClosed, serve, held,
          since, up, stalled, gauge>>

PubStates   == {"idle", "numbered", "stored", "done"}
Streaming   == {"loop", "writing", "ticking"}
Writing     == {"subscribed", "replayed", "writing", "ticking"}
ServeStates == {"idle", "validated", "subscribed", "replayed", "ending"}
               \cup Streaming

\* The type of the state, with the limits of the buffers and the queues; a
\* message that is stored has a channel, and a handler holds a message
\* exactly while it writes an event.
TypeOK ==
    /\ eventID \in Nat
    /\ id \in [Msg -> Nat]
    /\ pub \in [Msg -> PubStates]
    /\ \A m \in Msg : pub[m] \in {"numbered", "stored"} => Target[m] \in Channel
    /\ replayBuf \in [Channel -> Seq(Msg)]
    /\ \A ch \in Channel : Len(replayBuf[ch]) <= ReplayLimit
    /\ clients \in SUBSET Sub
    /\ events \in [Sub -> Seq(Msg)]
    /\ \A s \in Sub : Len(events[s]) <= QueueCap
    /\ doneClosed \in SUBSET Sub
    /\ serve \in [Sub -> ServeStates]
    /\ held \in [Sub -> Msg \cup {NoMsg}]
    /\ \A s \in Sub : serve[s] = "writing" <=> held[s] \in Msg
    /\ since \in [Sub -> Nat]
    /\ up \in SUBSET Sub /\ stalled \in SUBSET up
    /\ gauge \in Int
    /\ active \in SUBSET Key
    /\ revoke \in [Key -> {"idle", "dropping", "dropped"}]
    /\ lastSeen \in [Sub -> Nat]
    /\ first \in [Sub -> Nat]
    /\ got \in [Sub -> SUBSET Msg]
    /\ excused \in [Sub -> SUBSET Msg]
    /\ late \in SUBSET Sub

Init ==
    /\ eventID = 0
    /\ id = [m \in Msg |-> 0]
    /\ pub = [m \in Msg |-> "idle"]
    /\ replayBuf = [ch \in Channel |-> <<>>]
    /\ clients = {}
    /\ events = [s \in Sub |-> <<>>]
    /\ doneClosed = {}
    /\ serve = [s \in Sub |-> "idle"]
    /\ held = [s \in Sub |-> NoMsg]
    /\ since = [s \in Sub |-> 0]
    /\ up = {} /\ stalled = {}
    /\ gauge = 0
    /\ active = Key
    /\ revoke = [k \in Key |-> "idle"]
    /\ lastSeen = [s \in Sub |-> 0]
    /\ first = [s \in Sub |-> 0]
    /\ got = [s \in Sub |-> {}]
    /\ excused = [s \in Sub |-> {}]
    /\ late = {}

-----------------------------------------------------------------------------
(* Publishers: BroadcastToRoom and /publish call Publish, and              *)
(* BroadcastMessage calls PublishAll.                                      *)

\* eventID.Add(1).
Number(m) ==
    /\ pub[m] = "idle" /\ Target[m] # Everyone
    /\ eventID' = eventID + 1
    /\ id' = [id EXCEPT ![m] = eventID + 1]
    /\ pub' = [pub EXCEPT ![m] = "numbered"]
    /\ UNCHANGED <<replayBuf, keyVars, peerVars, clients, events, doneClosed,
                   serve, held, since, up, stalled, gauge>>

\* Mutant: the buffer grows past its limit by one.
TrimsLate(buf) == IF Len(buf) > ReplayLimit THEN Tail(buf) ELSE buf

\* The replay buffer, under replayMu; the oldest entry gives way.
Trimmed(buf) == IF Len(buf) >= ReplayLimit THEN Tail(buf) ELSE buf

Store(m) ==
    /\ pub[m] = "numbered"
    /\ replayBuf' = [replayBuf EXCEPT ![Target[m]] = Append(Trimmed(@), m)]
    /\ pub' = [pub EXCEPT ![m] = "stored"]
    /\ UNCHANGED <<eventID, id, keyVars, peerVars, clients, events, doneClosed,
                   serve, held, since, up, stalled, gauge>>

\* A non-blocking send to each of the given subscribers, under mu.
Offer(m, S) ==
    LET full == {s \in S : Len(events[s]) >= QueueCap} IN
    /\ events' = [s \in Sub |-> IF s \in S \ full THEN Append(events[s], m)
                                                 ELSE events[s]]
    /\ excused' = [s \in Sub |-> IF s \in full THEN excused[s] \cup {m}
                                               ELSE excused[s]]
    /\ pub' = [pub EXCEPT ![m] = "done"]
    /\ UNCHANGED <<eventID, id, replayBuf, keyVars, lastSeen, first, got, clients,
                   doneClosed, serve, held, since, up, stalled, gauge>>

Deliver(m) ==
    /\ pub[m] = "stored"
    /\ Offer(m, {s \in clients : ChannelOf[s] = Target[m]})

PublishAll(m) ==
    /\ pub[m] = "idle" /\ Target[m] = Everyone
    /\ Offer(m, clients)

-----------------------------------------------------------------------------
(* ServeSSE.                                                               *)

\* Mutant: a revoked key is accepted.
ValidateAnyKey(s) ==
    /\ serve[s] = "idle"
    /\ serve' = [serve EXCEPT ![s] = "validated"]
    /\ since' = [since EXCEPT ![s] = lastSeen[s]]
    /\ up' = up \cup {s}
    /\ UNCHANGED <<pubVars, keyVars, peerVars, clients, events, doneClosed,
                   held, stalled, gauge>>

\* A request arrives with the id its EventSource saw last, and its key is
\* accepted.
Validate(s) ==
    /\ serve[s] = "idle"
    /\ KeyOf[s] \in active
    /\ serve' = [serve EXCEPT ![s] = "validated"]
    /\ since' = [since EXCEPT ![s] = lastSeen[s]]
    /\ up' = up \cup {s}
    /\ UNCHANGED <<pubVars, keyVars, peerVars, clients, events, doneClosed,
                   held, stalled, gauge>>

\* Subscribe makes a new SSEClient; the gauge goes up.
Subscribe(s) ==
    /\ serve[s] = "validated"
    /\ clients' = clients \cup {s}
    /\ gauge' = gauge + 1
    /\ serve' = [serve EXCEPT ![s] = "subscribed"]
    /\ UNCHANGED <<pubVars, keyVars, peerVars, events, doneClosed, held, since,
                   up, stalled>>

\* What an EventSource is sent while it is connected: messages, and an id.
Send(s, S, last) ==
    IF s \in up
    THEN /\ got' = [got EXCEPT ![s] = @ \cup S]
         /\ lastSeen' = [lastSeen EXCEPT ![s] = last]
         /\ first' = [first EXCEPT ![s] = IF @ = 0 THEN last ELSE @]
    ELSE UNCHANGED <<got, lastSeen, first>>

\* Mutant: the first missed entry is skipped.
ReplaySkipsOne(s) ==
    {i \in DOMAIN replayBuf[ChannelOf[s]] :
        id[replayBuf[ChannelOf[s]][i]] > since[s] + 1}

\* The positions of the entries that GetReplaySince returns.
GetReplaySince(s) ==
    {i \in DOMAIN replayBuf[ChannelOf[s]] :
        id[replayBuf[ChannelOf[s]][i]] > since[s]}

\* What a full buffer has lost of what GetReplaySince should return.
Overwritten(s) ==
    {m \in Msg : /\ Target[m] = ChannelOf[s]
                 /\ pub[m] \in {"stored", "done"}
                 /\ id[m] > since[s]
                 /\ ~Contains(replayBuf[ChannelOf[s]], m)
                 /\ Len(replayBuf[ChannelOf[s]]) = ReplayLimit}

\* The entries are sent in the order of the buffer, the last one last.  Like
\* every write, it returns once there is room for it, or the peer is gone: the
\* server has no WriteTimeout.
Replay(s) ==
    LET buf == replayBuf[ChannelOf[s]]
        entries == GetReplaySince(s)
    IN
    /\ serve[s] = "subscribed"
    /\ since[s] > 0 => s \notin stalled
    /\ IF since[s] > 0 /\ entries # {}
       THEN \E i \in entries :
               /\ \A j \in entries : j <= i
               /\ Send(s, {buf[j] : j \in entries}, id[buf[i]])
       ELSE UNCHANGED <<got, lastSeen, first>>
    /\ excused' = [excused EXCEPT ![s] = @ \cup Overwritten(s)]
    /\ serve' = [serve EXCEPT ![s] = "replayed"]
    /\ UNCHANGED <<pubVars, keyVars, clients, events, doneClosed, held, since,
                   up, stalled, gauge>>

\* The "connected" event carries GetCurrentEventID.
Connected(s) ==
    /\ serve[s] = "replayed" /\ s \notin stalled
    /\ Send(s, {}, eventID)
    /\ serve' = [serve EXCEPT ![s] = "loop"]
    /\ UNCHANGED <<pubVars, keyVars, excused, clients, events, doneClosed, held,
                   since, up, stalled, gauge>>

\* case data := <-client.Events.
Take(s) ==
    /\ serve[s] = "loop"
    /\ events[s] # <<>>
    /\ held' = [held EXCEPT ![s] = Head(events[s])]
    /\ events' = [events EXCEPT ![s] = Tail(@)]
    /\ serve' = [serve EXCEPT ![s] = "writing"]
    /\ UNCHANGED <<pubVars, keyVars, peerVars, clients, doneClosed, since, up,
                   stalled, gauge>>

\* The event is written with the value the counter has by now.
Write(s) ==
    /\ serve[s] = "writing" /\ s \notin stalled
    /\ Send(s, {held[s]}, eventID)
    /\ held' = [held EXCEPT ![s] = NoMsg]
    /\ serve' = [serve EXCEPT ![s] = "loop"]
    /\ UNCHANGED <<pubVars, keyVars, excused, clients, events, doneClosed,
                   since, up, stalled, gauge>>

\* case <-ticker.C, and the keepalive, which is no event.
Tick(s) ==
    /\ serve[s] = "loop"
    /\ serve' = [serve EXCEPT ![s] = "ticking"]
    /\ UNCHANGED <<pubVars, keyVars, peerVars, clients, events, doneClosed, held,
                   since, up, stalled, gauge>>

KeepAlive(s) ==
    /\ serve[s] = "ticking" /\ s \notin stalled
    /\ serve' = [serve EXCEPT ![s] = "loop"]
    /\ UNCHANGED <<pubVars, keyVars, peerVars, clients, events, doneClosed, held,
                   since, up, stalled, gauge>>

\* Mutant: the loop has no case for Done.
LeaveOnContextOnly(s) ==
    /\ serve[s] = "loop"
    /\ s \notin up
    /\ serve' = [serve EXCEPT ![s] = "ending"]
    /\ UNCHANGED <<pubVars, keyVars, peerVars, clients, events, doneClosed,
                   held, since, up, stalled, gauge>>

\* case <-ctx.Done() and case <-client.Done.
Leave(s) ==
    /\ serve[s] = "loop"
    /\ s \notin up \/ s \in doneClosed
    /\ serve' = [serve EXCEPT ![s] = "ending"]
    /\ UNCHANGED <<pubVars, keyVars, peerVars, clients, events, doneClosed,
                   held, since, up, stalled, gauge>>

\* Mutant: the gauge goes down after Unsubscribe and not in a deferred call,
\* so the panic of the second close skips it.
UnsubscribeSkipsGauge(s) ==
    /\ serve[s] = "ending"
    /\ gauge' = IF s \in doneClosed THEN gauge ELSE gauge - 1
    /\ clients' = clients \ {s}
    /\ events' = [events EXCEPT ![s] = <<>>]
    /\ doneClosed' = doneClosed \ {s}
    /\ serve' = [serve EXCEPT ![s] = "idle"]
    /\ up' = up \ {s} /\ stalled' = stalled \ {s}
    /\ since' = [since EXCEPT ![s] = 0]
    /\ excused' = [excused EXCEPT ![s] = {}]
    /\ late' = late \ {s}
    /\ UNCHANGED <<pubVars, active, revoke, lastSeen, first, got, held>>

\* The deferred calls, last first: the gauge goes down, then Unsubscribe,
\* whose close(client.Done) panics after DisconnectKey; net/http recovers.
\* Either way the request is over and the SSEClient is garbage.
Unsubscribe(s) ==
    /\ serve[s] = "ending"
    /\ gauge' = gauge - 1
    /\ clients' = clients \ {s}
    /\ events' = [events EXCEPT ![s] = <<>>]
    /\ doneClosed' = doneClosed \ {s}
    /\ serve' = [serve EXCEPT ![s] = "idle"]
    /\ up' = up \ {s} /\ stalled' = stalled \ {s}
    /\ since' = [since EXCEPT ![s] = 0]
    /\ excused' = [excused EXCEPT ![s] = {}]
    /\ late' = late \ {s}
    /\ UNCHANGED <<pubVars, active, revoke, lastSeen, first, got, held>>

-----------------------------------------------------------------------------
(* Revocation and the network.                                             *)

\* APIKeyStore.Revoke, of an active key or of one already revoked.
Revoke(k) ==
    /\ active' = active \ {k}
    /\ revoke' = [revoke EXCEPT ![k] = "dropping"]
    /\ UNCHANGED <<pubVars, late, peerVars, clients, events, doneClosed, serve,
                   held, since, up, stalled, gauge>>

\* Mutant: the clients of the key stay in the map.
DisconnectKeyKeepsClients(k) ==
    LET dropped == {s \in clients : KeyOf[s] = k} IN
    /\ revoke[k] = "dropping"
    /\ revoke' = [revoke EXCEPT ![k] = IF k \in active THEN "idle" ELSE "dropped"]
    /\ doneClosed' = doneClosed \cup dropped
    /\ late' = (late \ dropped) \cup {s \in Sub : /\ KeyOf[s] = k
                                                 /\ serve[s] = "validated"}
    /\ UNCHANGED <<pubVars, active, peerVars, clients, events, serve, held,
                   since, up, stalled, gauge>>

\* SSEBroker.DisconnectKey, which the handler calls next.  The revocation is
\* in force unless somebody has reactivated the key meanwhile.
DisconnectKey(k) ==
    LET dropped == {s \in clients : KeyOf[s] = k} IN
    /\ revoke[k] = "dropping"
    /\ revoke' = [revoke EXCEPT ![k] = IF k \in active THEN "idle" ELSE "dropped"]
    /\ doneClosed' = doneClosed \cup dropped
    /\ clients' = clients \ dropped
    /\ late' = (late \ dropped) \cup {s \in Sub : /\ KeyOf[s] = k
                                                 /\ serve[s] = "validated"}
    /\ UNCHANGED <<pubVars, active, peerVars, events, serve, held, since, up,
                   stalled, gauge>>

\* PUT /api/keys/update with an "active" field; it disconnects nobody.
UpdateKey(k, isActive) ==
    /\ active' = IF isActive THEN active \cup {k} ELSE active \ {k}
    /\ revoke' = [revoke EXCEPT ![k] =
                    IF isActive /\ @ = "dropped" THEN "idle" ELSE @]
    /\ UNCHANGED <<pubVars, late, peerVars, clients, events, doneClosed, serve,
                   held, since, up, stalled, gauge>>

\* The subscriber goes away.
Drop(s) ==
    /\ s \in up
    /\ up' = up \ {s} /\ stalled' = stalled \ {s}
    /\ UNCHANGED <<pubVars, keyVars, peerVars, clients, events, doneClosed,
                   serve, held, since, gauge>>

\* It stays connected without reading, and a write finds the buffers of the
\* connection full; then it reads on.
Stall(s) ==
    /\ s \in up \ stalled /\ serve[s] \in Writing
    /\ stalled' = stalled \cup {s}
    /\ UNCHANGED <<pubVars, keyVars, peerVars, clients, events, doneClosed,
                   serve, held, since, up, gauge>>

Resume(s) ==
    /\ s \in stalled
    /\ stalled' = stalled \ {s}
    /\ UNCHANGED <<pubVars, keyVars, peerVars, clients, events, doneClosed,
                   serve, held, since, up, gauge>>

ServeSSE(s) ==
    \/ Subscribe(s) \/ Replay(s) \/ Connected(s)
    \/ Take(s) \/ Write(s) \/ Tick(s) \/ KeepAlive(s)
    \/ Leave(s) \/ Unsubscribe(s)

Peer(s) == Validate(s) \/ Drop(s) \/ Stall(s) \/ Resume(s)

Publish(m) == Number(m) \/ Store(m) \/ Deliver(m)

Next ==
    \/ \E m \in Msg : Publish(m) \/ PublishAll(m)
    \/ \E s \in Sub : Peer(s) \/ ServeSSE(s)
    \/ \E k \in Key : Revoke(k) \/ DisconnectKey(k)
    \/ \E k \in Key, isActive \in BOOLEAN : UpdateKey(k, isActive)

Spec == Init /\ [][Next]_vars

\* Handlers and publishers run on.  The select of ServeSSE picks a ready case
\* at random, so a Done channel that stays closed is picked in the end; and a
\* blocked write gets ahead whenever the peer reads, so it returns if the peer
\* reads again and again.  The peer owes nothing: it may never read again.
Fairness ==
    /\ \A m \in Msg : WF_vars(Store(m) \/ Deliver(m))
    /\ \A s \in Sub : SF_vars(ServeSSE(s)) /\ SF_vars(Leave(s))

FairSpec == Spec /\ Fairness

-----------------------------------------------------------------------------
(* Properties.                                                             *)

Replayed(s) == s \in up \cap clients /\ serve[s] \in {"replayed"} \cup Streaming

\* No gap between the replay and the stream: once a reconnected subscriber
\* has been replayed to, every message of its channel that came after its
\* Last-Event-ID and that Publish is done with has been sent to it or is on
\* its way, unless a limit took it.  It rests on ServeSSE subscribing before
\* it replays and on Publish storing before it delivers.
NoGap ==
    \A s \in Sub, m \in Msg :
        /\ Replayed(s) /\ since[s] > 0
        /\ Target[m] = ChannelOf[s] /\ pub[m] = "done" /\ id[m] > since[s]
        => m \in got[s] \cup ToSet(events[s]) \cup {held[s]} \cup excused[s]

\* Metrics.SseConnections counts the running handlers, whether they end by
\* themselves or in the panic of a second close(client.Done).
GaugeExact == gauge = Cardinality({s \in Sub : serve[s] \notin {"idle", "validated"}})

\* The handler of every client in the map is running and can still be told
\* to stop: its Done channel is open.
ClientsOpen ==
    \A s \in clients : s \notin doneClosed /\ serve[s] \notin {"idle", "validated"}

\* After the revocation of a key the only clients of that key are requests
\* that had passed Validate and not yet reached Subscribe.
RevokedOnlyLate ==
    \A s \in clients : revoke[KeyOf[s]] = "dropped" => s \in late

\* A stored message is missing from a replay buffer only if that is full.
BufferKeeps ==
    \A m \in Msg : pub[m] \in {"stored", "done"} /\ Target[m] \in Channel =>
        \/ Contains(replayBuf[Target[m]], m)
        \/ Len(replayBuf[Target[m]]) = ReplayLimit

\* What makes these inductive: the buffers keep what they can, a closed Done
\* channel belongs to a running handler, a revocation in force is one of an
\* inactive key, and a request that is still to subscribe with a key so
\* revoked is known to be late.
Inv ==
    /\ TypeOK
    /\ NoGap
    /\ BufferKeeps
    /\ ClientsOpen
    /\ RevokedOnlyLate
    /\ \A s \in doneClosed : serve[s] \notin {"idle", "validated"}
    /\ \A k \in active : revoke[k] # "dropped"
    /\ \A s \in Sub : serve[s] = "validated" /\ revoke[KeyOf[s]] = "dropped"
                        => s \in late

\* A subscriber whose Done channel is closed by DisconnectKey is let go, unless
\* it stays connected and never reads again: the handler is then in a write and
\* does not look at Done.
DisconnectedEnds ==
    \A s \in Sub : s \in doneClosed ~> (serve[s] = "idle" \/ [](s \in stalled))

\* README, "reconnect and get missed messages": a subscriber that has
\* reconnected and drained its queue has every message that was numbered
\* after the first id it was sent, unless a limit took it.
MissedReplayed ==
    \A s \in Sub, m \in Msg :
        /\ Replayed(s) /\ since[s] > 0 /\ serve[s] = "loop" /\ events[s] = <<>>
        /\ Target[m] = ChannelOf[s] /\ pub[m] = "done" /\ id[m] > first[s]
        => m \in got[s] \cup excused[s]
=============================================================================
