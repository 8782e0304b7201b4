---------------------------- MODULE ElixirBroker ----------------------------
(***************************************************************************)
(* The Elixir broker: its rate limiter plug, the processes of its requests *)
(* and connections with their mailboxes, the GenServers ApiKeyStore and    *)
(* SSEBroker, the topics of Phoenix.PubSub, and the supervisor.            *)
(*                                                                         *)
(* A call of a GenServer is one step, and a message between processes of   *)
(* one node is in the mailbox when the send returns.  All connections are  *)
(* to one channel.  What the properties ask of a message is whether it was *)
(* sent before a key was revoked, so that is what a message consists of.   *)
(***************************************************************************)
EXTENDS Integers, Sequences, FiniteSets

CONSTANTS Sse, Ws, Pub,  \* requests to /subscribe, /ws and /publish
          Key, KeyOf,
          Loaded,        \* the keys in the file at the start
          Limit,         \* @limit of the plug, for the address of all requests
          MaxFaults,     \* bound: crashes, failed writes
          MaxMail        \* bound: revocations and chat stop at so many messages

Req  == Sse \cup Ws \cup Pub
Conn == Sse \cup Ws

ASSUME ElixirConstants ==
    /\ IsFiniteSet(Req)
    /\ Sse \cap Ws = {} /\ Conn \cap Pub = {}
    /\ KeyOf \in [Req -> Key] /\ Loaded \subseteq Key
    /\ Limit \in Nat /\ MaxFaults \in Nat /\ MaxMail \in Nat

VARIABLES
    pc,       \* progress of each request
    recent,   \* rows of the ETS table within the window
    keys,     \* state.keys of ApiKeyStore
    file,     \* data/api_keys.json
    subs,     \* state.channels of SSEBroker
    gone,     \* unsubscribe casts and :DOWN messages it has not taken yet
    topic,    \* subscribers of "channel:..."
    watch,    \* subscribers of "api_keys"
    mail,     \* the mailbox of each connection's process
    faults,
    races,    \* history: requests counted while another was about to insert
    revoked,  \* history: keys whose revocation is in force
    late,     \* history: connections a revocation has missed
    leaked,   \* history: connections that were sent what came after it
    deaf,     \* history: subscribers that a restart of SSEBroker has lost
    unsaved   \* history: the last write has failed and left the file as it was

store == <<keys, file, revoked, unsaved>>
conns == <<subs, gone, topic, watch, mail, late, leaked, deaf>>
limit == <<recent, races>>
vars == <<pc, limit, store, conns, faults>>

Status  == {"none", "active", "revoked"}
Open    == {"watching", "open"}
Alive   == {"subscribed"} \cup Open

\* An event, and whether it was sent after the receiver's key was revoked,
\* or a revocation.
Event   == [key: {"none"}, after: BOOLEAN]
Revoked == [key: Key, after: {FALSE}]

\* The type of the state.  Mail is for processes that live, and only they
\* subscribe to topics; a key that is revoked is not active in memory.
TypeOK ==
    /\ pc \in [Req -> {"idle", "counted", "admitted", "validated", "subscribed",
                       "ended"} \cup Open]
    /\ recent \in Nat /\ races \in 0..Cardinality(Req)
    /\ keys \in [Key -> Status] /\ file \in [Key -> Status]
    /\ subs \subseteq Sse /\ gone \subseteq Sse /\ deaf \subseteq Sse
    /\ topic \subseteq Ws
    /\ watch \subseteq {c \in Conn : pc[c] \in Open}
    /\ late \cup leaked \subseteq Conn
    /\ mail \in [Conn -> Seq(Event \cup Revoked)]
    /\ \A c \in Conn : mail[c] # <<>> => pc[c] \in Alive
    /\ faults \in 0..MaxFaults
    /\ revoked \subseteq {k \in Key : keys[k] # "active"} /\ unsaved \in BOOLEAN

Init ==
    /\ pc = [r \in Req |-> "idle"]
    /\ recent = 0 /\ races = 0
    /\ keys = [k \in Key |-> IF k \in Loaded THEN "active" ELSE "none"]
    /\ file = keys
    /\ subs = {} /\ gone = {} /\ topic = {} /\ watch = {}
    /\ mail = [c \in Conn |-> <<>>]
    /\ faults = 0
    /\ revoked = {} /\ late = {} /\ leaked = {} /\ deaf = {} /\ unsaved = FALSE

Goto(r, from, to) == pc[r] = from /\ pc' = [pc EXCEPT ![r] = to]

AnEvent(c) == [key |-> "none", after |-> KeyOf[c] \in revoked]

\* Another message is within the bound.
Roomy(S) == \A c \in S : Len(mail[c]) < MaxMail

\* An event is sent now to the processes of S.
Tell(S) ==
    mail' = [c \in Conn |->
               IF c \in S THEN Append(mail[c], AnEvent(c))
                          ELSE mail[c]]

-----------------------------------------------------------------------------
(* The plug, ahead of every request: allowed? counts the rows within the   *)
(* window and inserts its own in two operations on a public table.  Its    *)
(* cleanup deletes rows that no longer count.                              *)

\* The count is in order, or the answer is 429.
Counted(r, ok) ==
    /\ Goto(r, "idle", IF ok THEN "counted" ELSE "ended")
    /\ races' = races + (IF ok /\ \E q \in Req : pc[q] = "counted" THEN 1 ELSE 0)
    /\ UNCHANGED <<recent, store, conns, faults>>

\* Mutant: one more than the limit is let through.
CountOffByOne(r) == Counted(r, recent <= Limit)

Count(r) == Counted(r, recent < Limit)

Insert(r) ==
    /\ Goto(r, "counted", "admitted")
    /\ recent' = recent + 1
    /\ UNCHANGED <<races, store, conns, faults>>

\* A minute has passed since a request.
Expire ==
    /\ recent > 0
    /\ recent' = recent - 1
    /\ UNCHANGED <<pc, races, store, conns, faults>>

-----------------------------------------------------------------------------
(* ApiKeyStore.                                                            *)

\* The {:validate, ...} call.  A foreign origin is refused too.
Validate(r) ==
    /\ \/ keys[KeyOf[r]] = "active" /\ Goto(r, "admitted", "validated")
       \/ Goto(r, "admitted", "ended")
    /\ UNCHANGED <<limit, store, conns, faults>>

NoKeys == [k \in Key |-> "none"]

\* save_keys ignores what File.write returns: the file may be left as it
\* was, or truncated, which load_keys takes for an empty store.
Save ==
    \/ file' = keys' /\ unsaved' = FALSE /\ UNCHANGED faults
    \/ /\ faults < MaxFaults /\ faults' = faults + 1
       /\ \/ file' = file /\ unsaved' = TRUE
          \/ file' = NoKeys /\ unsaved' = FALSE

\* The {:create, ...} call makes a key that nobody had before.
Create(k) ==
    /\ keys[k] = "none" /\ file[k] = "none" /\ k \notin revoked
    /\ keys' = [keys EXCEPT ![k] = "active"]
    /\ Save
    /\ UNCHANGED <<pc, limit, revoked, conns>>

Deactivated(k) == [keys EXCEPT ![k] = "revoked"]

\* The broadcast of {:revoke_key, k}.  It misses a process that has been
\* validated and has not yet subscribed to it.
BroadcastRevoke(k) ==
    /\ keys[k] # "none" /\ Roomy(watch)
    /\ revoked' = revoked \cup {k}
    /\ late' = late \cup {c \in Conn : /\ KeyOf[c] = k
                                      /\ pc[c] \in {"validated", "subscribed"}}
    /\ mail' = [c \in Conn |-> IF c \in watch
                               THEN Append(mail[c], [key |-> k, after |-> FALSE])
                               ELSE mail[c]]
    /\ UNCHANGED <<pc, limit, subs, gone, topic, watch, leaked, deaf>>

\* Mutant: the file is not written.
RevokeUnsaved(k) ==
    /\ keys' = Deactivated(k)
    /\ BroadcastRevoke(k)
    /\ UNCHANGED <<file, unsaved, faults>>

\* Mutant: the call returns the state it was given.
RevokeForgotten(k) ==
    /\ file' = Deactivated(k)
    /\ BroadcastRevoke(k)
    /\ UNCHANGED <<keys, unsaved, faults>>

\* The {:revoke, ...} call.
Revoke(k) ==
    /\ keys' = Deactivated(k)
    /\ Save
    /\ BroadcastRevoke(k)

\* It crashes (File.mkdir_p! raises, for one) and the supervisor starts it
\* again: load_keys gives what is in the file or, if that cannot be read, an
\* empty store.
StoreRestart ==
    /\ faults < MaxFaults /\ faults' = faults + 1
    /\ keys' \in {file, NoKeys}
    /\ revoked' = {k \in revoked : keys'[k] # "active"}
    /\ UNCHANGED <<pc, limit, file, unsaved, conns>>

-----------------------------------------------------------------------------
(* Connections.                                                            *)

\* SSEBroker.subscribe, and the first PubSub.subscribe of WebsockHandler.
Subscribe(c) ==
    /\ Goto(c, "validated", "subscribed")
    /\ subs' = subs \cup ({c} \cap Sse)
    /\ topic' = topic \cup ({c} \cap Ws)
    /\ UNCHANGED <<limit, store, gone, watch, mail, late, leaked, deaf,
                   faults>>

\* PubSub.subscribe(..., "api_keys").
Watch(c) ==
    /\ Goto(c, "subscribed", "watching")
    /\ watch' = watch \cup {c}
    /\ UNCHANGED <<limit, store, subs, gone, topic, mail, late, leaked,
                   deaf, faults>>

\* The first event of a stream, or the welcome and the user_joined broadcast.
Start(c) ==
    /\ Goto(c, "watching", "open")
    /\ Tell(IF c \in Ws THEN topic ELSE {})
    /\ UNCHANGED <<limit, store, subs, gone, topic, watch, late, leaked,
                   deaf, faults>>

\* The process is gone, and with it its mailbox and its subscriptions to
\* topics; terminate of a WebSocket broadcasts user_left.
Vanish(c) ==
    /\ pc' = [pc EXCEPT ![c] = "ended"]
    /\ watch' = watch \ {c} /\ topic' = topic \ {c}
    /\ mail' = [d \in Conn |->
                 IF d = c THEN <<>>
                 ELSE IF c \in Ws /\ d \in topic THEN Append(mail[d], AnEvent(d))
                                                 ELSE mail[d]]
    /\ late' = late \ {c} /\ deaf' = deaf \ {c} /\ leaked' = leaked \ {c}

\* Mutant: SSEBroker does not monitor its subscribers, and is not told.
EndUnnoticed(c) == Vanish(c) /\ UNCHANGED gone

\* SSEBroker gets an unsubscribe or, as it monitors the process, a :DOWN; one
\* of a process it does not know changes nothing.
End(c) == Vanish(c) /\ gone' = gone \cup ({c} \cap subs)

\* The next message is an event that is written, or the revocation of another
\* key.
Write(c, m) ==
    /\ mail' = [mail EXCEPT ![c] = Tail(@)]
    /\ leaked' = IF m.after THEN leaked \cup {c} ELSE leaked
    /\ UNCHANGED <<pc, watch, topic, gone, late, deaf>>

\* Mutant: a revocation is passed over.
ReceiveOn(c) ==
    /\ pc[c] = "open" /\ mail[c] # <<>>
    /\ Write(c, Head(mail[c]))
    /\ UNCHANGED <<limit, store, subs, faults>>

\* sse_loop, and handle_info of WebsockHandler, take the next message: an
\* event is written, a revocation of the connection's key ends it.
Receive(c) ==
    /\ pc[c] = "open" /\ mail[c] # <<>>
    /\ IF Head(mail[c]).key = KeyOf[c] THEN End(c) ELSE Write(c, Head(mail[c]))
    /\ UNCHANGED <<limit, store, subs, faults>>

\* The peer is gone: a chunk fails, also the first one, the socket closes, or
\* the process of a request to /subscribe dies with its connection on the way.
Drop(c) ==
    /\ pc[c] \in Open \cup (IF c \in Sse THEN {"validated", "subscribed"} ELSE {})
    /\ End(c)
    /\ UNCHANGED <<limit, store, subs, faults>>

\* handle_in with a room_message or a user_info.  A direct message goes to
\* the topic "client:...", which has no subscribers, and so to nobody.
HandleIn(c) ==
    /\ pc[c] = "open" /\ Roomy(topic)
    /\ Tell(topic)
    /\ UNCHANGED <<pc, limit, store, subs, gone, topic, watch, late, leaked,
                   deaf, faults>>

-----------------------------------------------------------------------------
(* SSEBroker and the publisher.                                            *)

\* Endpoint.broadcast to the WebSockets, then SSEBroker.publish.
PublishWs(p) ==
    /\ Goto(p, "validated", "subscribed")
    /\ Tell(topic)
    /\ UNCHANGED <<limit, store, subs, gone, topic, watch, late, leaked,
                   deaf, faults>>

PublishSse(p) ==
    /\ Goto(p, "subscribed", "ended")
    /\ Tell({c \in subs : pc[c] # "ended"})
    /\ UNCHANGED <<limit, store, subs, gone, topic, watch, late, leaked,
                   deaf, faults>>

\* It takes an unsubscribe or a :DOWN.
Cleanup(c) ==
    /\ c \in gone
    /\ subs' = subs \ {c} /\ gone' = gone \ {c}
    /\ UNCHANGED <<pc, limit, store, topic, watch, mail, late, leaked,
                   deaf, faults>>

\* It crashes and starts again empty.  one_for_one: no other process notices.
BrokerRestart ==
    /\ faults < MaxFaults /\ faults' = faults + 1
    /\ deaf' = deaf \cup subs
    /\ subs' = {} /\ gone' = {}
    /\ UNCHANGED <<pc, limit, store, topic, watch, mail, late, leaked>>

-----------------------------------------------------------------------------
Plug(r) == Count(r) \/ Insert(r) \/ Validate(r)

Connection(c) == Subscribe(c) \/ Watch(c) \/ Start(c) \/ Receive(c) \/ Drop(c)

Next ==
    \/ Expire \/ StoreRestart \/ BrokerRestart
    \/ \E r \in Req : Plug(r)
    \/ \E k \in Key : Create(k) \/ Revoke(k)
    \/ \E c \in Conn : Connection(c)
    \/ \E c \in Ws : HandleIn(c)
    \/ \E p \in Pub : PublishWs(p) \/ PublishSse(p)
    \/ \E c \in Sse : Cleanup(c)

\* The processes are scheduled.
Fairness == \A c \in Conn : WF_vars(Watch(c) \/ Start(c) \/ Receive(c))

Spec == Init /\ [][Next]_vars /\ Fairness

-----------------------------------------------------------------------------
(* Properties.                                                             *)

\* The plug lets through at most Limit requests within its window and, for
\* each request that was counted while another had not inserted its row yet,
\* one more.
OverLimitOnlyRaced ==
    recent + Cardinality({r \in Req : pc[r] = "counted"}) <= Limit + races

\* A revocation is undone only by a restart with a file that the last save has
\* failed to write: neither a crash and restart of ApiKeyStore, nor a file it
\* cannot read, nor an earlier failure makes a revoked key active again.
RevokedStaysRevoked == [][revoked \subseteq revoked' \/ unsaved]_vars

\* What others send after a revocation is never written to a connection with
\* that key: the {:revoke_key, ...} is ahead of it in the mailbox.  The
\* exception is a connection that was between its validation and its
\* subscription.  What a process writes by itself (the frame that a connection
\* begins with, keepalives, pongs) is nobody's message.
NothingAfterRevocation == leaked \subseteq late

\* SSEBroker knows every stream that is open, unless it has been restarted
\* since, and has no other entries but those it is about to remove.
SubscribersKnown ==
    /\ \A c \in Sse : pc[c] \in Open => c \in subs \cup deaf
    /\ \A c \in subs : pc[c] = "ended" => c \in gone

\* A connection with a revoked key ends, unless it was late or the revocation
\* is undone.
RevokedEnds ==
    \A c \in Conn : (pc[c] \in Open /\ KeyOf[c] \in revoked)
                    ~> (pc[c] = "ended" \/ c \in late \/ KeyOf[c] \notin revoked)

-----------------------------------------------------------------------------
(* The invariant behind them, which is inductive.                          *)

\* Who is in the books of PubSub and of SSEBroker, by the stage of its
\* process: a :DOWN or an unsubscribe comes only from one that has ended.
BooksKept ==
    /\ \A c \in Conn : pc[c] \in Open => c \in watch
    /\ \A c \in topic : pc[c] \in Alive
    /\ \A c \in subs : pc[c] \in Alive \cup {"ended"}
    /\ \A c \in gone : pc[c] = "ended"
    /\ \A c \in Sse : pc[c] = "subscribed" => c \in subs \cup deaf

\* A connection that no revocation has missed has its key, as long as it does
\* not listen for revocations; from then on the revocation of its key is in
\* its mailbox, and ahead of everything that was sent after it.
Warned ==
    \A c \in Conn \ late :
        /\ pc[c] \in {"validated", "subscribed"} => KeyOf[c] \notin revoked
        /\ pc[c] \in Open /\ KeyOf[c] \in revoked =>
             \E j \in DOMAIN mail[c] : mail[c][j].key = KeyOf[c]
        /\ \A i \in DOMAIN mail[c] : mail[c][i].after =>
             \E j \in 1..i - 1 : mail[c][j].key = KeyOf[c]

\* A revocation is in the file, unless the last save has failed.
SavedKept == unsaved \/ \A k \in revoked : file[k] # "active"

\* A request races once at most.
RacesCounted == races <= Cardinality({r \in Req : pc[r] # "idle"})

Inv ==
    /\ TypeOK
    /\ BooksKept
    /\ Warned
    /\ SavedKept
    /\ RacesCounted
    /\ OverLimitOnlyRaced
    /\ NothingAfterRevocation
    /\ SubscribersKnown
=============================================================================
