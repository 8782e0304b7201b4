------------------------------- MODULE Access -------------------------------
(***************************************************************************)
(* Who may enter a room: channel ACLs, JWT claims and member limits.       *)
(*                                                                         *)
(* ServeWS and handleJoinRoom ask the ACL manager, the token and the hub   *)
(* one after the other and join afterwards; no lock is held in between, so *)
(* /acl and the other connections run between any two questions.  An ACL   *)
(* is never applied to those who are already in.  The registry and the     *)
(* channels of the hub are left to module Hub: what is kept of them here   *)
(* is that an unregistration may find no entry and then cleans no room.    *)
(***************************************************************************)
EXTENDS Integers, FiniteSets

CONSTANTS Conn,      \* connections
          Room,      \* channels
          ACLs,      \* what POST /acl may set: [public, max, keys, perms]
          Tokens,    \* what POST /auth/token may sign: [user, channels, perms]
          APIKey,    \* the API key of each connection
          ClientID,  \* its client_id, or the anon-... id made for it
          Star,       \* the channel name "*" of a token
          NoRoom,    \* no channel in the request
          NoACL,     \* no entry in ACLManager.channels
          NoToken    \* a nil *JWTClaims

ASSUME AccessConstantsOK ==
    /\ IsFiniteSet(Conn)
    /\ NoRoom \notin Room
    /\ NoACL \notin ACLs
    /\ NoToken \notin Tokens
    /\ \A a \in ACLs : a.max \in Int

VARIABLES
    acl,        \* ACLManager.channels
    live,       \* the tokens that have been signed and have not expired
    claims,     \* Client.JWTClaims
    rooms,      \* Hub.Rooms; Client.Rooms agrees with it, see Hub!RoomsAgree
    pc,         \* progress of ServeWS and then of the ReadPump
    arg,        \* the room it is working on
    count,      \* currentCount in handleJoinRoom
    \* What follows is history, for the properties only.
    stale,      \* who passed CanJoin before the room's ACL was last changed
    uncounted,  \* members that the limit in force was not applied to
    raced       \* whose last check is out of date: another has joined since
                \* it counted, or the ACL has changed since it was passed

history == <<stale, uncounted, raced>>
vars == <<acl, live, claims, rooms, pc, arg, count, history>>

\* Where a join is under way, and where its last check has been passed.
Serving  == {"serve", "upgrade"}
Joining  == {"count", "limit", "join"}
PCs      == {"idle", "on", "write", "gone"} \cup Serving \cup Joining

\* The type of the state.
TypeOK ==
    /\ acl \in [Room -> ACLs \cup {NoACL}]
    /\ live \in SUBSET Tokens
    /\ claims \in [Conn -> Tokens \cup {NoToken}]
    /\ rooms \in [Room -> SUBSET Conn]
    /\ pc \in [Conn -> PCs]
    /\ arg \in [Conn -> Room \cup {NoRoom}]
    /\ count \in [Conn -> Nat]
    /\ stale \in [Room -> SUBSET Conn]
    /\ uncounted \in [Room -> SUBSET Conn]
    /\ raced \in SUBSET Conn
    /\ \A c \in Conn : pc[c] \in Joining \cup {"write"} => arg[c] \in Room

Init ==
    /\ acl = [r \in Room |-> NoACL]
    /\ live = {}
    /\ claims = [c \in Conn |-> NoToken]
    /\ rooms = [r \in Room |-> {}]
    /\ pc = [c \in Conn |-> "idle"]
    /\ arg = [c \in Conn |-> NoRoom]
    /\ count = [c \in Conn |-> 0]
    /\ stale = [r \in Room |-> {}]
    /\ uncounted = [r \in Room |-> {}]
    /\ raced = {}

-----------------------------------------------------------------------------
(* The questions that are asked.                                           *)

\* Names other than these three, of any case, carry no right.
PermissionLevel(perm) ==
    CASE perm = "read"  -> 1
      [] perm = "write" -> 2
      [] perm = "admin" -> 3
      [] OTHER          -> 0

\* Client.UserID: the token's user comes before the client_id.
UserID(c) == IF claims[c] = NoToken THEN ClientID[c] ELSE claims[c].user

\* No entry, or a public one, lets everybody in.
CanJoin(a, key, user) ==
    a # NoACL /\ ~a.public =>
        /\ a.keys # {} => key \in a.keys
        /\ DOMAIN a.perms # {} => user \in DOMAIN a.perms

CanWrite(a, user) ==
    a # NoACL /\ ~a.public /\ DOMAIN a.perms # {} =>
        /\ user \in DOMAIN a.perms
        /\ PermissionLevel(a.perms[user]) >= PermissionLevel("write")

\* Mutant: the last free place is given twice.
CheckMaxMembersOffByOne(a, n) == a # NoACL /\ a.max # 0 => n <= a.max

CheckMaxMembers(a, n) == a # NoACL /\ a.max # 0 => n < a.max

\* The entry of the channel decides before that of "*", and either before
\* the list of channels; empty claims grant everything.
HasChannelAccess(t, r, need) ==
    LET granted(x) == PermissionLevel(t.perms[x]) >= PermissionLevel(need) IN
    \/ t.channels = {} /\ DOMAIN t.perms = {}
    \/ r \in DOMAIN t.perms /\ granted(r)
    \/ r \notin DOMAIN t.perms /\ Star \in DOMAIN t.perms /\ granted(Star)
    \/ /\ DOMAIN t.perms \cap {r, Star} = {}
       /\ t.channels \cap {r, Star} # {}

\* A client without a token is not asked for one.
TokenAdmits(t, r) == t # NoToken => HasChannelAccess(t, r, "read")

\* Connections that have got past CanJoin for room r, and not yet joined it.
Admitted(r) == {c \in Conn : pc[c] \in Joining \cup {"upgrade"} /\ arg[c] = r}

\* Connections whose last check against the ACL of r is behind them.
Checked(r) == {c \in Conn : pc[c] \in {"join", "write"} /\ arg[c] = r}

-----------------------------------------------------------------------------
(* The management endpoints.                                               *)

ChangeACL(r, a) ==
    /\ acl' = [acl EXCEPT ![r] = a]
    /\ stale' = [stale EXCEPT ![r] = rooms[r] \cup Admitted(r)]
    /\ uncounted' = [uncounted EXCEPT ![r] = rooms[r]]
    /\ raced' = raced \cup Checked(r)
    /\ UNCHANGED <<live, claims, rooms, pc, arg, count>>

\* POST /acl.
SetChannelACL(r, a) == ChangeACL(r, a)

\* DELETE /acl; without an entry it is a 404.
RemoveChannelACL(r) == acl[r] # NoACL /\ ChangeACL(r, NoACL)

\* POST /auth/token with a valid key and a user id, and the end of its TTL.
GenerateToken(t) ==
    /\ live' = live \cup {t}
    /\ UNCHANGED <<acl, claims, rooms, pc, arg, count, history>>

Expire(t) ==
    /\ live' = live \ {t}
    /\ UNCHANGED <<acl, claims, rooms, pc, arg, count, history>>

-----------------------------------------------------------------------------
(* ServeWS.                                                                *)

Step(c, next) == pc' = [pc EXCEPT ![c] = next]

\* The handler of c returns and its locals are gone.
Return(c, next) ==
    /\ Step(c, next)
    /\ arg' = [arg EXCEPT ![c] = NoRoom]
    /\ count' = [count EXCEPT ![c] = 0]

\* ValidateToken and, if the request names a channel, HasChannelAccess.  A
\* refusal changes nothing.
ServeToken(c, t, r) ==
    /\ pc[c] = "idle"
    /\ t \in live \cup {NoToken}
    /\ r # NoRoom => TokenAdmits(t, r)
    /\ claims' = [claims EXCEPT ![c] = t]
    /\ arg' = [arg EXCEPT ![c] = r]
    /\ Step(c, "serve")
    /\ UNCHANGED <<acl, live, rooms, count, history>>

\* Whoever passes CanJoin for r has been admitted by the ACL in force.
Admit(c, r) == stale' = [stale EXCEPT ![r] = @ \ {c}]

\* aclManager.CanJoin, asked only if the request names a channel.
ServeCanJoin(c) ==
    LET r == arg[c] IN
    /\ pc[c] = "serve"
    /\ \/ r = NoRoom /\ Step(c, "upgrade") /\ UNCHANGED stale
       \/ /\ r # NoRoom
          /\ CanJoin(acl[r], APIKey[c], UserID(c))
          /\ Step(c, "upgrade")
          /\ Admit(c, r)
       \/ /\ r # NoRoom
          /\ ~CanJoin(acl[r], APIKey[c], UserID(c))
          /\ Step(c, "idle")
          /\ UNCHANGED stale
    /\ UNCHANGED <<acl, live, claims, rooms, arg, count, uncounted, raced>>

\* Client c becomes a member of r.  Everybody else who has counted the
\* members by now has counted too few.
Enter(c, r) ==
    /\ rooms' = [rooms EXCEPT ![r] = @ \cup {c}]
    /\ raced' = (raced \ {c}) \cup
         (IF c \in rooms[r] THEN {}
          ELSE {d \in Conn \ {c} : pc[d] \in {"limit", "join"} /\ arg[d] = r})

\* The upgrade and the auto-join, which asks for no limit.
ServeUpgrade(c) ==
    LET r == arg[c] IN
    /\ pc[c] = "upgrade"
    /\ Return(c, "on")
    /\ \/ r = NoRoom /\ UNCHANGED <<rooms, uncounted, raced>>
       \/ /\ r # NoRoom
          /\ Enter(c, r)
          /\ uncounted' = [uncounted EXCEPT ![r] = @ \cup {c}]
    /\ UNCHANGED <<acl, live, claims, stale>>

UpgradeError(c) ==
    /\ pc[c] = "upgrade"
    /\ Step(c, "idle")
    /\ UNCHANGED <<acl, live, claims, rooms, arg, count, history>>

-----------------------------------------------------------------------------
(* handleJoinRoom, handleLeaveRoom, handleRoomMessage.                     *)

\* Mutant: the name of the room is lost.
JoinCanJoinUnnamed(c, r) ==
    /\ pc[c] = "on"
    /\ CanJoin(acl[r], APIKey[c], UserID(c))
    /\ arg' = [arg EXCEPT ![c] = NoRoom]
    /\ Step(c, "count")
    /\ Admit(c, r)
    /\ UNCHANGED <<acl, live, claims, rooms, count, uncounted, raced>>

\* CanJoin; a refusal is an error message.
JoinCanJoin(c, r) ==
    /\ pc[c] = "on"
    /\ CanJoin(acl[r], APIKey[c], UserID(c))
    /\ arg' = [arg EXCEPT ![c] = r]
    /\ Step(c, "count")
    /\ Admit(c, r)
    /\ UNCHANGED <<acl, live, claims, rooms, count, uncounted, raced>>

\* Hub.RoomMemberCount.
JoinCount(c) ==
    /\ pc[c] = "count"
    /\ count' = [count EXCEPT ![c] = Cardinality(rooms[arg[c]])]
    /\ raced' = raced \ {c}
    /\ Step(c, "limit")
    /\ UNCHANGED <<acl, live, claims, rooms, arg, stale, uncounted>>

\* Mutant: the token counts at the upgrade only.
JoinLimitTokenless(c) ==
    /\ pc[c] = "limit"
    /\ IF CheckMaxMembers(acl[arg[c]], count[c])
       THEN Step(c, "join") /\ UNCHANGED <<arg, count, raced>>
       ELSE Return(c, "on") /\ raced' = raced \ {c}
    /\ UNCHANGED <<acl, live, claims, rooms, stale, uncounted>>

\* CheckMaxMembers, which looks the ACL up again, and the token.
JoinLimit(c) ==
    /\ pc[c] = "limit"
    /\ IF /\ CheckMaxMembers(acl[arg[c]], count[c])
          /\ TokenAdmits(claims[c], arg[c])
       THEN Step(c, "join") /\ UNCHANGED <<arg, count, raced>>
       ELSE Return(c, "on") /\ raced' = raced \ {c}
    /\ UNCHANGED <<acl, live, claims, rooms, stale, uncounted>>

\* Hub.JoinRoom.
JoinRoom(c) ==
    LET r == arg[c] IN
    /\ pc[c] = "join"
    /\ Enter(c, r)
    /\ uncounted' = [uncounted EXCEPT ![r] = IF c \in raced THEN @ \cup {c}
                                                            ELSE @ \ {c}]
    /\ Return(c, "on")
    /\ UNCHANGED <<acl, live, claims, stale>>

\* Client c is no longer a member of the rooms of S.
Exit(c, S) ==
    LET without(f) == [r \in Room |-> IF r \in S THEN f[r] \ {c} ELSE f[r]] IN
    /\ rooms' = without(rooms)
    /\ stale' = without(stale)
    /\ uncounted' = without(uncounted)

LeaveRoom(c, r) ==
    /\ pc[c] = "on"
    /\ Exit(c, {r})
    /\ UNCHANGED <<acl, live, claims, pc, arg, count, raced>>

\* handleRoomMessage up to CanWrite, and the broadcast to the room.
RoomMessage(c, r) ==
    /\ pc[c] = "on"
    /\ c \in rooms[r]
    /\ CanWrite(acl[r], UserID(c))
    /\ arg' = [arg EXCEPT ![c] = r]
    /\ raced' = raced \ {c}
    /\ Step(c, "write")
    /\ UNCHANGED <<acl, live, claims, rooms, count, stale, uncounted>>

BroadcastToRoom(c) ==
    /\ pc[c] = "write"
    /\ Return(c, "on")
    /\ raced' = raced \ {c}
    /\ UNCHANGED <<acl, live, claims, rooms, stale, uncounted>>

\* The ReadPump ends and Run unregisters the client: it leaves all its
\* rooms, or none when the registry has no entry for its user.
Unregister(c) ==
    /\ pc[c] = "on"
    /\ Step(c, "gone")
    /\ Exit(c, Room) \/ UNCHANGED <<rooms, stale, uncounted>>
    /\ UNCHANGED <<acl, live, claims, arg, count, raced>>

\* A client that is in no room any more is free for a new connection.
Recycle(c) ==
    /\ pc[c] = "gone"
    /\ \A r \in Room : c \notin rooms[r]
    /\ Step(c, "idle")
    /\ claims' = [claims EXCEPT ![c] = NoToken]
    /\ UNCHANGED <<acl, live, rooms, arg, count, history>>

-----------------------------------------------------------------------------
ServeWS(c) ==
    \/ \E t \in Tokens \cup {NoToken}, r \in Room \cup {NoRoom} :
         ServeToken(c, t, r)
    \/ ServeCanJoin(c)
    \/ ServeUpgrade(c)
    \/ UpgradeError(c)

ReadPump(c) ==
    \/ \E r \in Room : JoinCanJoin(c, r) \/ LeaveRoom(c, r) \/ RoomMessage(c, r)
    \/ JoinCount(c)
    \/ JoinLimit(c)
    \/ JoinRoom(c)
    \/ BroadcastToRoom(c)
    \/ Unregister(c)

Manage ==
    \/ \E r \in Room : RemoveChannelACL(r)
    \/ \E r \in Room, a \in ACLs : SetChannelACL(r, a)
    \/ \E t \in Tokens : GenerateToken(t) \/ Expire(t)

Next == Manage \/ \E c \in Conn : ServeWS(c) \/ ReadPump(c) \/ Recycle(c)

Spec == Init /\ [][Next]_vars

-----------------------------------------------------------------------------
(* Properties.                                                             *)

\* A room with a limit holds more members than that only because of those
\* the limit in force was never applied to, or not to the members of the
\* moment: auto-joined by ServeWS, in the room when its ACL was changed, or
\* joining in a race with another join or with /acl.
OverfullOnlyRaced ==
    \A r \in Room :
        acl[r] # NoACL /\ acl[r].max > 0
            => Cardinality(rooms[r] \ uncounted[r]) <= acl[r].max

\* The ACL in force admits every member that has not been there, or been on
\* its way in, since before it was set; a token admits its owner to every
\* room it is in, also the ones it entered long after ServeWS looked; and a
\* message goes out to a room whose ACL allows its sender to write, unless
\* the ACL was changed between the check and the broadcast.
MembersAdmitted ==
    /\ \A r \in Room, c \in Conn : c \in rooms[r] =>
         /\ c \notin stale[r] => CanJoin(acl[r], APIKey[c], UserID(c))
         /\ TokenAdmits(claims[c], r)
    /\ \A c \in Conn : pc[c] = "write" /\ c \notin raced =>
         CanWrite(acl[arg[c]], UserID(c))

-----------------------------------------------------------------------------
(* The invariant behind them, which is inductive.                          *)

\* What a join under way has been told so far, while it is still true.
JoinsChecked ==
    \A c \in Conn :
        /\ \A r \in Room : c \in Admitted(r) \ stale[r] =>
             CanJoin(acl[r], APIKey[c], UserID(c))
        /\ pc[c] \in Serving /\ arg[c] # NoRoom => TokenAdmits(claims[c], arg[c])
        /\ pc[c] = "join" => TokenAdmits(claims[c], arg[c])
        /\ pc[c] \in {"limit", "join"} /\ c \notin raced =>
             Cardinality(rooms[arg[c]]) <= count[c]
        /\ pc[c] = "join" /\ c \notin raced =>
             CheckMaxMembers(acl[arg[c]], count[c])

\* A connection is in a room only from its upgrade until it is recycled.
MembersConnected ==
    \A r \in Room, c \in Conn :
        c \in rooms[r] => pc[c] \notin Serving \cup {"idle"}

Inv ==
    /\ TypeOK
    /\ MembersConnected
    /\ JoinsChecked
    /\ OverfullOnlyRaced
    /\ MembersAdmitted
=============================================================================
