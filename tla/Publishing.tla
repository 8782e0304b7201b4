----------------------------- MODULE Publishing -----------------------------
(***************************************************************************)
(* POST /publish from its checks to its answer: the WebSocket members and  *)
(* the SSE subscribers of the channel, the metrics, and the webhooks, that *)
(* are registered, replaced and removed meanwhile and whose deliveries go  *)
(* on after the answer; and the shutdown of the process around all that.   *)
(*                                                                         *)
(* Who is in a channel is fixed here: joining, leaving and revocation are  *)
(* in modules Hub, SSEBroker and Revocation, the checks of keys, rates and *)
(* ACLs in APIKeyStore, RateLimiter and Access.  Of the takeovers in Hub   *)
(* there is what a request meets: the closed channel of a member, and the  *)
(* lock that is lost in a panic; panics that end the process are in Hub.   *)
(* Cap is the number of places that messages of other origin leave in a    *)
(* queue, and only messages of /publish are counted.                       *)
(***************************************************************************)
EXTENDS Integers, FiniteSets

CONSTANTS Pub,        \* requests to /publish
          Id,         \* Webhook.ID
          Event, Channel,
          Star,       \* the event "*"
          AnyChannel, \* Webhook.Channel when it is empty
          NoHook, NoJob,
          Ask,        \* the event and the channel of each request
          Filter,     \* the events and the channel webhooks are registered for
          Member, Subscriber, \* in the rooms of the hub, and of the SSE broker
          ChannelOf,
          Cap,        \* of Client.Send and of SSEClient.Events
          MaxChanges  \* bound: registrations and removals of webhooks,
                      \* takeovers, failing writes

Listener == Member \cup Subscriber
Webhook  == [id: Id, events: SUBSET (Event \cup {Star}),
             channel: Channel \cup {AnyChannel}]
Job      == [wh: Webhook, at: {"spawned", "sending", "ok", "failed"}]

ASSUME PublishingConstants ==
    /\ IsFiniteSet(Pub) /\ IsFiniteSet(Id)
    /\ IsFiniteSet(Listener) /\ Member \cap Subscriber = {}
    /\ Star \notin Event /\ AnyChannel \notin Channel
    /\ NoHook \notin Webhook /\ NoJob \notin Job
    /\ Ask \in [Pub -> [event: Event, channel: Channel]]
    /\ Filter \subseteq [events: SUBSET (Event \cup {Star}),
                         channel: Channel \cup {AnyChannel}]
    /\ ChannelOf \in [Listener -> Channel]
    /\ Cap \in Nat /\ MaxChanges \in Nat

VARIABLES
    req,       \* progress of each request
    count,     \* wsCount + sseCount
    queued,    \* the messages in the channel of each listener
    webhooks,  \* Manager.webhooks
    jobs,      \* the deliveries of each request, by webhook
    metrics,   \* Metrics
    up,        \* the process runs
    drain,     \* server.Shutdown: not called, waiting, returned
    changes,   \* what MaxChanges bounds, so far
    closed,    \* the members of a room whose Client.Send is closed
    pumping,   \* the members whose WritePump runs
    lock,      \* Hub.Mu: free, read-locked for good, or with a writer behind it
    handed,    \* history: the listeners a request has handed its message to
    wrote,     \* history: the messages written to each socket
    failed,    \* history: the messages whose write to a stream has failed
    kept, had  \* history: webhooks registered all through a request, and at
               \* some moment of it

procVars == <<up, drain>>
connVars == <<closed, pumping, lock>>
history  == <<handed, wrote, failed, kept, had>>
vars == <<req, count, queued, webhooks, jobs, metrics, procVars, connVars, changes,
          history>>

Serving == {"accepted", "ws", "sse", "counted"}
Ended   == {"answered", "refused", "limited", "panicked"}

\* The type of the state.  A queue holds at most its capacity, and a
\* delivery is of a webhook with its id.
TypeOK ==
    /\ req \in [Pub -> {"idle"} \cup Serving \cup Ended]
    /\ count \in [Pub -> 0..Cardinality(Listener)]
    /\ queued \in [Listener -> 0..Cap]
    /\ webhooks \in [Id -> Webhook \cup {NoHook}]
    /\ jobs \in [Pub -> [Id -> Job \cup {NoJob}]]
    /\ \A p \in Pub, i \in Id : jobs[p][i] # NoJob => jobs[p][i].wh.id = i
    /\ metrics \in [published: Nat, delivered: Nat, out: Nat, limited: Nat,
                    attempts: Nat, failures: Nat]
    /\ up \in BOOLEAN /\ drain \in {"no", "waiting", "over"}
    /\ changes \in 0..MaxChanges
    /\ closed \subseteq Member /\ pumping \subseteq Member
    /\ lock \in {"free", "leaked", "stuck"}
    /\ handed \in [Pub -> SUBSET Listener]
    /\ wrote \in [Listener -> Nat] /\ failed \in [Listener -> Nat]
    /\ kept \in [Pub -> SUBSET Webhook] /\ had \in [Pub -> SUBSET Webhook]
    /\ \A p \in Pub : kept[p] \subseteq had[p]

Init ==
    /\ req = [p \in Pub |-> "idle"]
    /\ count = [p \in Pub |-> 0]
    /\ queued = [l \in Listener |-> 0]
    /\ webhooks = [i \in Id |-> NoHook]
    /\ jobs = [p \in Pub |-> [i \in Id |-> NoJob]]
    /\ metrics = [published |-> 0, delivered |-> 0, out |-> 0, limited |-> 0,
                  attempts |-> 0, failures |-> 0]
    /\ changes = 0
    /\ closed = {} /\ pumping = Member /\ lock = "free"
    /\ handed = [p \in Pub |-> {}]
    /\ wrote = [l \in Listener |-> 0] /\ failed = wrote
    /\ kept = [p \in Pub |-> {}] /\ had = [p \in Pub |-> {}]
    /\ up = TRUE /\ drain = "no"

\* Something happens that is bounded.
Change == changes < MaxChanges /\ changes' = changes + 1

Add(name, n) == metrics' = [metrics EXCEPT ![name] = @ + n]

Registered == {webhooks[i] : i \in Id} \ {NoHook}

-----------------------------------------------------------------------------
(* The handler of /publish.                                                *)

\* The method, the key, its limit, the body and the ACL are in order.
Accept(p) ==
    /\ req[p] = "idle"
    /\ req' = [req EXCEPT ![p] = "accepted"]
    /\ kept' = [kept EXCEPT ![p] = Registered]
    /\ had' = [had EXCEPT ![p] = Registered]
    /\ UNCHANGED <<count, queued, webhooks, jobs, metrics, procVars, connVars,
                   changes, handed, wrote, failed>>

\* They are not.  Only the two limiters count that: no code adds to HttpErrors.
Refuse(p, limited) ==
    /\ req[p] = "idle"
    /\ req' = [req EXCEPT ![p] = IF limited THEN "limited" ELSE "refused"]
    /\ Add("limited", IF limited THEN 1 ELSE 0)
    /\ UNCHANGED <<count, queued, webhooks, jobs, procVars, connVars, changes,
                   history>>

\* Sends to the listeners of F, which take the message.
Give(p, F) ==
    /\ count' = [count EXCEPT ![p] = @ + Cardinality(F)]
    /\ queued' = [l \in Listener |-> queued[l] + (IF l \in F THEN 1 ELSE 0)]
    /\ handed' = [handed EXCEPT ![p] = @ \cup F]

Of(p, S)   == {l \in S : ChannelOf[l] = Ask[p].channel}
Free(p, S) == {l \in Of(p, S) : queued[l] < Cap}

\* Mutant: a full queue is not looked at.
HandAll(p, S) == Give(p, Of(p, S))

\* Non-blocking sends to the listeners of S that have the request's channel.
Hand(p, S) == Give(p, Free(p, S))

\* Mutant: the send waits for a place.
DeliverWsBlocking(p) ==
    /\ req[p] = "accepted" /\ lock # "stuck" /\ Of(p, closed) = {}
    /\ Of(p, Member) = Free(p, Member)
    /\ req' = [req EXCEPT ![p] = "ws"]
    /\ Hand(p, Member)
    /\ Add("out", count'[p])
    /\ UNCHANGED <<webhooks, jobs, procVars, connVars, changes, wrote, failed,
                   kept, had>>

\* To the members of the room, under Hub.Mu.  WsMessagesOut counts them here
\* and WritePump will count them again.
DeliverWs(p) ==
    /\ req[p] = "accepted" /\ lock # "stuck" /\ Of(p, closed) = {}
    /\ req' = [req EXCEPT ![p] = "ws"]
    /\ Hand(p, Member)
    /\ Add("out", count'[p])
    /\ UNCHANGED <<webhooks, jobs, procVars, connVars, changes, wrote, failed,
                   kept, had>>

\* It meets a closed channel, after some of the others, and panics; net/http
\* recovers, nobody is answered, and the read lock stays taken.
PanicWs(p) ==
    /\ req[p] = "accepted" /\ lock # "stuck" /\ Of(p, closed) # {}
    /\ req' = [req EXCEPT ![p] = "panicked"]
    /\ lock' = "leaked"
    /\ \E F \in SUBSET Free(p, Member \ closed) :
         Give(p, F) /\ Add("out", Cardinality(F))
    /\ UNCHANGED <<webhooks, jobs, procVars, closed, pumping, changes, wrote,
                   failed, kept, had>>

\* SSEBroker.Publish.
DeliverSse(p) ==
    /\ req[p] = "ws"
    /\ req' = [req EXCEPT ![p] = "sse"]
    /\ Hand(p, Subscriber)
    /\ UNCHANGED <<webhooks, jobs, metrics, procVars, connVars, changes, wrote,
                   failed, kept, had>>

CountPublished(p) ==
    /\ req[p] = "sse"
    /\ req' = [req EXCEPT ![p] = "counted"]
    /\ metrics' = [metrics EXCEPT !.published = @ + 1,
                                  !.delivered = @ + count[p]]
    /\ UNCHANGED <<count, queued, webhooks, jobs, procVars, connVars, changes,
                   history>>

\* Mutant: an empty list of events matches none.
MatchesListed(wh, e) == \E x \in wh.events : x \in {e, Star}

\* Manager.matchesEvent.
MatchesEvent(wh, e) == wh.events # {} => \E x \in wh.events : x \in {e, Star}

\* Manager.Dispatch starts a goroutine with the webhook as it is registered
\* now, and the request is answered.
Dispatch(p) ==
    LET hit(wh) == /\ wh # NoHook
                   /\ MatchesEvent(wh, Ask[p].event)
                   /\ wh.channel \in {AnyChannel, Ask[p].channel} IN
    /\ req[p] = "counted"
    /\ req' = [req EXCEPT ![p] = "answered"]
    /\ jobs' = [jobs EXCEPT ![p] =
                 [i \in Id |-> IF hit(webhooks[i])
                               THEN [wh |-> webhooks[i], at |-> "spawned"]
                               ELSE NoJob]]
    /\ UNCHANGED <<count, queued, webhooks, metrics, procVars, connVars,
                   changes, history>>

-----------------------------------------------------------------------------
(* Webhooks.                                                               *)

\* The manager has wh, or nothing, for id i from now on.
SetHook(i, wh) ==
    /\ Change
    /\ webhooks' = [webhooks EXCEPT ![i] = wh]
    /\ kept' = [p \in Pub |-> {w \in kept[p] : w.id # i}]
    /\ had' = [p \in Pub |-> IF req[p] \in Serving /\ wh # NoHook
                             THEN had[p] \cup {wh} ELSE had[p]]
    /\ UNCHANGED <<req, count, queued, jobs, metrics, procVars, connVars,
                   handed, wrote, failed>>

\* POST /webhooks.  A known id replaces its webhook.
Register(i, f) ==
    SetHook(i, [id |-> i, events |-> f.events, channel |-> f.channel])

\* DELETE /webhooks.
Unregister(i) == webhooks[i] # NoHook /\ SetHook(i, NoHook)

\* One step of Manager.deliver; it adds the attempt, the failure or nothing.
DeliverStep(p, i, from, to, counts) ==
    /\ jobs[p][i] # NoJob /\ jobs[p][i].at = from
    /\ jobs' = [jobs EXCEPT ![p][i].at = to]
    /\ metrics' = [metrics EXCEPT !.attempts = @ + counts[1],
                                  !.failures = @ + counts[2]]
    /\ UNCHANGED <<req, count, queued, webhooks, procVars, connVars, changes,
                   history>>

DeliverStart(p, i) == DeliverStep(p, i, "spawned", "sending", <<1, 0>>)

\* The receiver answers with a status below 400.
DeliverOk(p, i) == DeliverStep(p, i, "sending", "ok", <<0, 0>>)

\* Mutant: only an error of the client counts, not the status.
DeliverFailsSilent(p, i) == DeliverStep(p, i, "sending", "failed", <<0, 0>>)

\* The URL is bad, the receiver cannot be reached, does not answer within the
\* 10 seconds of the client, or answers with 400 and more.  There is no
\* second attempt.
DeliverFails(p, i) == DeliverStep(p, i, "sending", "failed", <<0, 1>>)

-----------------------------------------------------------------------------
(* The listeners.                                                          *)

\* WritePump counts what it has written, and returns when a write fails.
WritePump(l) ==
    /\ l \in pumping /\ queued[l] > 0
    /\ queued' = [queued EXCEPT ![l] = @ - 1]
    /\ \/ /\ wrote' = [wrote EXCEPT ![l] = @ + 1]
          /\ Add("out", 1)
          /\ UNCHANGED <<pumping, changes>>
       \/ /\ Change
          /\ pumping' = pumping \ {l}
          /\ UNCHANGED <<wrote, metrics>>
    /\ UNCHANGED <<req, count, webhooks, jobs, procVars, closed, lock, handed,
                   failed, kept, had>>

\* The loop of ServeSSE adds to MessagesDelivered what /publish has counted
\* before, and does not ask whether the write has failed.
WriteSSE(l) ==
    /\ queued[l] > 0
    /\ queued' = [queued EXCEPT ![l] = @ - 1]
    /\ Add("delivered", 1)
    /\ \/ wrote' = [wrote EXCEPT ![l] = @ + 1] /\ UNCHANGED <<failed, changes>>
       \/ Change /\ failed' = [failed EXCEPT ![l] = @ + 1] /\ UNCHANGED wrote
    /\ UNCHANGED <<req, count, webhooks, jobs, procVars, closed, pumping, lock,
                   handed, kept, had>>

\* Run registers another connection of the member's user: it closes Send, and
\* leaves the member in its rooms.
TakeOver(l) ==
    /\ lock = "free" /\ l \notin closed
    /\ Change
    /\ closed' = closed \cup {l}
    /\ UNCHANGED <<req, count, queued, webhooks, jobs, metrics, procVars,
                   pumping, lock, history>>

\* Somebody joins, leaves or connects and waits for the lock: nobody else gets
\* it any more.
WriterWaits ==
    /\ lock = "leaked" /\ lock' = "stuck"
    /\ UNCHANGED <<req, count, queued, webhooks, jobs, metrics, procVars,
                   closed, pumping, changes, history>>

-----------------------------------------------------------------------------
(* The shutdown.                                                           *)

\* SIGINT or SIGTERM: the context is cancelled, the bridge closed, and
\* server.Shutdown closes the listeners and waits for the handlers.
Shutdown ==
    /\ drain = "no" /\ drain' = "waiting"
    /\ UNCHANGED <<req, count, queued, webhooks, jobs, metrics, up, connVars,
                   changes, history>>

\* It returns when none is left, or after 10 seconds.
ShutdownReturns ==
    /\ drain = "waiting" /\ drain' = "over"
    /\ UNCHANGED <<req, count, queued, webhooks, jobs, metrics, up, connVars,
                   changes, history>>

\* ListenAndServe returns as soon as the listeners are closed, and main with
\* it: that is the end of the process.
Exit ==
    /\ drain # "no"
    /\ up' = FALSE
    /\ UNCHANGED <<req, count, queued, webhooks, jobs, metrics, drain,
                   connVars, changes, history>>

-----------------------------------------------------------------------------
Serve(p) ==
    \/ DeliverWs(p) \/ PanicWs(p) \/ DeliverSse(p)
    \/ CountPublished(p) \/ Dispatch(p)

Deliver(p, i) == DeliverStart(p, i) \/ DeliverOk(p, i) \/ DeliverFails(p, i)

Request(p) == Accept(p) \/ \E limited \in BOOLEAN : Refuse(p, limited)

Next ==
    /\ up
    /\ \/ \E p \in Pub : Request(p) \/ Serve(p)
       \/ \E i \in Id : Unregister(i) \/ \E f \in Filter : Register(i, f)
       \/ \E p \in Pub, i \in Id : Deliver(p, i)
       \/ \E l \in Member : WritePump(l) \/ TakeOver(l)
       \/ \E l \in Subscriber : WriteSSE(l)
       \/ WriterWaits
       \/ Shutdown \/ ShutdownReturns \/ Exit

\* A handler runs on, and a delivery ends: the client has a timeout.
Fairness ==
    /\ WF_vars(up /\ \E p \in Pub : Serve(p))
    /\ WF_vars(up /\ \E p \in Pub, i \in Id : Deliver(p, i))

Spec == Init /\ [][Next]_vars /\ Fairness

-----------------------------------------------------------------------------
(* Properties.                                                             *)

Jobs(S) == {pi \in Pub \X Id : /\ jobs[pi[1]][pi[2]] # NoJob
                               /\ jobs[pi[1]][pi[2]].at \in S}

\* The requests that have been counted, the messages that requests of P have
\* handed to listeners of S, and those written to sockets of S or lost in a
\* failing write.
Past == {p \in Pub : req[p] \in {"counted", "answered"}}
Given(P, S) == {pl \in P \X S : pl[2] \in handed[pl[1]]}
Tally(f, S) == UNION {{l} \X (1..f[l]) : l \in S}
Written(S) == Tally(wrote, S)
Failed(S)  == Tally(failed, S)

\* What a webhook is registered for, as the API describes it.
Wants(wh, p) ==
    /\ wh.events = {} \/ Star \in wh.events \/ Ask[p].event \in wh.events
    /\ wh.channel \in {AnyChannel, Ask[p].channel}

\* The webhooks that a request is dispatched to are right, however they are
\* registered, replaced and removed while it is handled and delivered: one
\* that was there all the time and wants the event has its delivery when the
\* request is answered, and a delivery is of a webhook that was registered at
\* some moment of the request and wants the event, never of the one that has
\* taken its id since.
DispatchedRight ==
    \A p \in Pub, i \in Id :
        /\ req[p] = "answered" =>
             \A wh \in kept[p] : wh.id = i /\ Wants(wh, p) =>
                 jobs[p][i] # NoJob /\ jobs[p][i].wh = wh
        /\ jobs[p][i] # NoJob => /\ jobs[p][i].wh \in had[p]
                                 /\ Wants(jobs[p][i].wh, p)

\* The metrics against what has really happened.  MessagesPublished,
\* RateLimitHits, WebhookDeliveries and WebhookFailures are exact, whatever
\* the goroutines do at the same time; a request that panics is not published.
\* WsMessagesOut has a message of /publish twice once it is written, and once
\* when it is queued, dropped or its write fails.  MessagesDelivered has what
\* /publish handed over and, a second time, what ServeSSE took from a queue,
\* whether its write succeeded or failed.
CountersExact ==
    /\ metrics.published = Cardinality(Past)
    /\ metrics.limited = Cardinality({p \in Pub : req[p] = "limited"})
    /\ metrics.attempts = Cardinality(Jobs({"sending", "ok", "failed"}))
    /\ metrics.failures = Cardinality(Jobs({"failed"}))
    /\ metrics.out = Cardinality(Written(Member)) + Cardinality(Given(Pub, Member))
    /\ metrics.delivered = Cardinality(Written(Subscriber))
                           + Cardinality(Failed(Subscriber))
                           + Cardinality(Given(Past, Listener))

\* A request that is accepted is answered, and each delivery it has caused
\* ends, unless the process exits before.  The exceptions are those that a
\* takeover brings: a request that panics is not answered, and the ones that
\* come to the lock it has lost, with a writer ahead of them, wait for ever.
RequestsEnd ==
    \A p \in Pub : req[p] \in Serving ~>
        \/ /\ req[p] = "answered"
           /\ \A i \in Id : <<p, i>> \notin Jobs({"spawned", "sending"})
        \/ ~up
        \/ req[p] = "panicked"
        \/ req[p] = "accepted" /\ lock = "stuck"

\* README: a 10-second drain period for active connections.  When the process
\* exits, no request is being served, or the 10 seconds are over.
Drained == ~up /\ drain = "waiting" => \A p \in Pub : req[p] \notin Serving

-----------------------------------------------------------------------------
(* The invariant behind the two, which is inductive.                       *)

\* A webhook is filed under its id; those that were there all through a
\* request still are, and those that are have been noticed.
HooksKept ==
    /\ \A i \in Id : webhooks[i] # NoHook => webhooks[i].id = i
    /\ \A p \in Pub : req[p] \in Serving =>
         kept[p] \subseteq Registered /\ Registered \subseteq had[p]

\* What a request has done by each of its stages.
Progress ==
    \A p \in Pub :
        /\ count[p] = Cardinality(handed[p])
        /\ req[p] \in {"idle", "accepted", "refused", "limited"} => handed[p] = {}
        /\ req[p] = "ws" => handed[p] \subseteq Member
        /\ req[p] # "answered" => \A i \in Id : jobs[p][i] = NoJob

Inv ==
    /\ TypeOK
    /\ HooksKept
    /\ Progress
    /\ DispatchedRight
    /\ CountersExact
=============================================================================
