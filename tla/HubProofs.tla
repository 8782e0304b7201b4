----------------------------- MODULE HubProofs -----------------------------
(* Proofs about Hub and Revocation, for any connections, users, rooms and  *)
(* keys.                                                                   *)
EXTENDS Revocation, FiniteSetTheorems, TLAPS

(***************************************************************************)
(* Typing.                                                                 *)
(***************************************************************************)

\* The broker starts well typed.
LEMMA InitTypeOK == Init => TypeOK
BY ConstantsOK
DEF Init, TypeOK, ServeStates, ReaderStates, WriterStates, Leaving,
    PanicSites, ReaderSites, LockedSites

USE DEF ServeStates, ReaderStates, WriterStates, Leaving, PanicSites,
        ReaderSites, LockedSites, Channels

\* Each step of the broker preserves TypeOK.
LEMMA NextTypeOK == TypeOK /\ [Next]_vars => TypeOK'
<1> SUFFICES ASSUME TypeOK, [Next]_vars PROVE TypeOK'
  OBVIOUS
<1> USE ConstantsOK DEF TypeOK
<1>1. ASSUME NEW c \in Conn, Validate(c) PROVE TypeOK'
  BY <1>1 DEF Validate, hubVars, argVars, faultVars
<1>2. ASSUME NEW c \in Conn, NEW channel \in Channels, Upgrade(c, channel)
      PROVE  TypeOK'
  BY <1>2 DEF Upgrade, argVars, faultVars
<1>3. ASSUME NEW c \in Conn, NEW channel \in Channels,
             UpgradeBlocks(c, channel)
      PROVE  TypeOK'
  BY <1>3 DEF UpgradeBlocks, argVars
<1>4. ASSUME NEW c \in Conn, UpgradeError(c) PROVE TypeOK'
  BY <1>4 DEF UpgradeError, hubVars, argVars, faultVars
<1>5. ASSUME NEW c \in Conn, Register(c) PROVE TypeOK'
  BY <1>5 DEF Register, argVars, SendTo
<1>6. CASE Welcome
  BY <1>6 DEF Welcome, argVars, SendTo
<1>7. CASE Announce
  BY <1>7 DEF Announce, argVars, SendTo
<1>8. ASSUME NEW c \in Conn, Unregister(c) PROVE TypeOK'
  <2>1. Without(c, joined[c]) \in [Room -> SUBSET Conn]
    BY DEF Without
  <2>2. Detached(c, joined[c]) \in [Conn -> Room \cup {NoRoom}]
    BY DEF Detached
  <2>3. \A d \in Conn :
          reader[d] \notin {"notifySend", "roomSend"}
              => Detached(c, joined[c])[d] = roomArg[d]
    BY DEF Detached
  <2> QED
    BY <1>8, <2>1, <2>2, <2>3 DEF Unregister, Delisted, SendTo
<1>9. ASSUME NEW c \in Conn, RunBlocks(c) PROVE TypeOK'
  BY <1>9 DEF RunBlocks, argVars
<1>10. ASSUME NEW c \in Conn, ReadEnd(c) PROVE TypeOK'
  BY <1>10 DEF ReadEnd, hubVars, argVars, faultVars
<1>11. ASSUME NEW c \in Conn, CloseConn(c) PROVE TypeOK'
  BY <1>11 DEF CloseConn, hubVars, argVars
<1>12. ASSUME NEW c \in Conn, HandleReplyOnly(c) PROVE TypeOK'
  BY <1>12 DEF HandleReplyOnly, ReaderSend, hubVars, argVars, faultVars
<1>13. ASSUME NEW c \in Conn, Reply(c) PROVE TypeOK'
  BY <1>13 DEF Reply, ReaderSend, hubVars, argVars, faultVars
<1>14. ASSUME NEW c \in Conn, HandleUserInfo(c) PROVE TypeOK'
  BY <1>14 DEF HandleUserInfo, ReaderSend, hubVars, argVars, faultVars
<1>15. ASSUME NEW c \in Conn, BroadcastInfo(c) PROVE TypeOK'
  BY <1>15 DEF BroadcastInfo, ReaderSend, hubVars, argVars, faultVars
<1>16. ASSUME NEW c \in Conn, HandleBroadcast(c) PROVE TypeOK'
  BY <1>16 DEF HandleBroadcast, ReaderSend, hubVars, argVars, faultVars
<1>17. ASSUME NEW c \in Conn, NEW u \in User, HandleDirect(c, u)
       PROVE  TypeOK'
  BY <1>17 DEF HandleDirect, hubVars, faultVars
<1>18. ASSUME NEW c \in Conn, SendDirect(c) PROVE TypeOK'
  BY <1>18 DEF SendDirect, ReaderSend, hubVars, faultVars
<1>19. ASSUME NEW c \in Conn, NEW r \in Room, HandleJoinRoom(c, r)
       PROVE  TypeOK'
  BY <1>19 DEF HandleJoinRoom, hubVars, faultVars
<1>20. ASSUME NEW c \in Conn, JoinRoom(c) PROVE TypeOK'
  BY <1>20 DEF JoinRoom, argVars, faultVars
<1>21. ASSUME NEW c \in Conn, NEW r \in Room, HandleLeaveRoom(c, r)
       PROVE  TypeOK'
  BY <1>21 DEF HandleLeaveRoom, Without, Detached, faultVars
<1>22. ASSUME NEW c \in Conn, NEW r \in Room, MembershipBlocks(c, r)
       PROVE  TypeOK'
  BY <1>22 DEF MembershipBlocks, hubVars, argVars
<1>23. ASSUME NEW c \in Conn, NotifyAck(c) PROVE TypeOK'
  BY <1>23 DEF NotifyAck, ReaderSend, hubVars, argVars, faultVars
<1>24. ASSUME NEW c \in Conn, NotifyRoom(c) PROVE TypeOK'
  BY <1>24 DEF NotifyRoom, hubVars, faultVars
<1>25. ASSUME NEW c \in Conn, NotifySend(c) PROVE TypeOK'
  BY <1>25 DEF NotifySend, ReaderSend, hubVars, faultVars
<1>26. ASSUME NEW c \in Conn, NEW r \in Room, HandleRoomMessage(c, r)
       PROVE  TypeOK'
  BY <1>26 DEF HandleRoomMessage, hubVars, faultVars
<1>27. ASSUME NEW c \in Conn, RoomSend(c) PROVE TypeOK'
  BY <1>27 DEF RoomSend, ReaderSend, hubVars, faultVars
<1>28. ASSUME NEW c \in Conn, WriteEnd(c) PROVE TypeOK'
  BY <1>28 DEF WriteEnd, hubVars, argVars, faultVars
<1>29. ASSUME NEW r \in Room, Publish(r) PROVE TypeOK'
  BY <1>29 DEF Publish, hubVars, argVars
<1>30. ASSUME NEW k \in Key, DisconnectKey(k) PROVE TypeOK'
  BY <1>30 DEF DisconnectKey, hubVars, argVars, faultVars
<1>31. CASE DisconnectBlocks
  BY <1>31 DEF DisconnectBlocks, hubVars, argVars
<1>32. CASE HandleIncomingMessage
  BY <1>32 DEF HandleIncomingMessage, RemoteMessage, SendTo, hubVars, argVars
<1>33. ASSUME NEW c \in Conn, Drop(c) PROVE TypeOK'
  BY <1>33 DEF Drop, hubVars, argVars, faultVars
<1>34. ASSUME NEW c \in Conn, Recycle(c) PROVE TypeOK'
  BY <1>34 DEF Recycle, argVars, faultVars
<1>35. CASE UNCHANGED vars
  BY <1>35 DEF vars, hubVars, argVars, faultVars
<1> QED
  <2> HIDE DEF TypeOK
  <2> QED
    BY <1>1, <1>2, <1>3, <1>4, <1>5, <1>6, <1>7, <1>8, <1>9, <1>10, <1>11,
       <1>12, <1>13, <1>14, <1>15, <1>16, <1>17, <1>18, <1>19, <1>20, <1>21,
       <1>22, <1>23, <1>24, <1>25, <1>26, <1>27, <1>28, <1>29, <1>30, <1>31,
       <1>32, <1>33, <1>34, <1>35
    DEF Next, Broker, Run, ServeWS, ReadPump, Continue, HandleMessage, Others

\* Hub, its clients and its handlers always have the types of the code.
THEOREM TypeCorrect == Spec => []TypeOK
BY InitTypeOK, NextTypeOK, PTL DEF Spec

(***************************************************************************)
(* The inductive invariant.  Most steps move one ReadPump between two      *)
(* states of its loop and touch neither the maps nor the channels: they    *)
(* are Quiet, and one lemma covers all of them.                            *)
(***************************************************************************)

\* The conjuncts of Inv about the maps, the channels and the pumps.
Structure ==
    /\ UnbornUnknown
    /\ EntriesTaken
    /\ ClosedTaken
    /\ RoomsAgree
    /\ RegisteredOpen
    /\ ClosedUnreachable
    /\ RegistryComplete

\* A step that only moves ReadPumps within their loops.
Quiet ==
    /\ UNCHANGED <<clients, rooms, closed, joined, serve, hubPC, hubConn, gauge>>
    /\ \A c \in Conn : reader'[c] # reader[c] => Reading(c) /\ Reading(c)'

\* The other steps.
Loud ==
    \/ Welcome \/ Announce
    \/ \E c \in Conn :
         \/ Validate(c) \/ UpgradeError(c) \/ Register(c) \/ Unregister(c)
         \/ RunBlocks(c) \/ CloseConn(c) \/ JoinRoom(c) \/ Recycle(c)
         \/ \E channel \in Channels : Upgrade(c, channel) \/ UpgradeBlocks(c, channel)
         \/ \E r \in Room : HandleLeaveRoom(c, r) \/ MembershipBlocks(c, r)

\* The broker starts with nobody registered, which satisfies the invariant.
LEMMA InitStructure == Init => Inv
BY InitTypeOK, ConstantsOK
DEF Init, Inv, UnbornUnknown, Unborn, EntriesTaken, ClosedTaken, RoomsAgree,
    RegisteredOpen, Registered, ClosedUnreachable, RegistryComplete,
    OnlyDirectPanics, Reading

\* A quiet step keeps every conjunct.
LEMMA QuietStructure ==
    ASSUME Inv, TypeOK', panic = "none", Quiet
    PROVE  Structure'
<1> USE DEF Quiet, Inv, TypeOK, Reading
<1>1. UnbornUnknown'
  BY DEF UnbornUnknown, Unborn
<1>2. EntriesTaken' /\ ClosedTaken'
  BY DEF EntriesTaken, ClosedTaken
<1>3. RoomsAgree'
  BY DEF RoomsAgree
<1>4. RegisteredOpen' /\ ClosedUnreachable' /\ RegistryComplete'
  BY DEF RegisteredOpen, Registered, ClosedUnreachable, RegistryComplete,
         UniqueIds
<1> QED
  BY <1>1, <1>2, <1>3, <1>4 DEF Structure

\* Every action is one or the other.
LEMMA QuietOrLoud ==
    ASSUME TypeOK, TypeOK', Next
    PROVE  Quiet \/ Loud
<1> USE DEF TypeOK, Reading
<1>1. ASSUME NEW c \in Conn, HandleReplyOnly(c) PROVE Quiet
  BY <1>1 DEF Quiet, HandleReplyOnly, ReaderSend, hubVars, faultVars, Reads
<1>2. ASSUME NEW c \in Conn, Reply(c) PROVE Quiet
  BY <1>2 DEF Quiet, Reply, ReaderSend, hubVars, faultVars
<1>3. ASSUME NEW c \in Conn, HandleUserInfo(c) PROVE Quiet
  BY <1>3 DEF Quiet, HandleUserInfo, ReaderSend, hubVars, faultVars, Reads
<1>4. ASSUME NEW c \in Conn, BroadcastInfo(c) PROVE Quiet
  BY <1>4 DEF Quiet, BroadcastInfo, ReaderSend, hubVars, faultVars
<1>5. ASSUME NEW c \in Conn, HandleBroadcast(c) PROVE Quiet
  BY <1>5 DEF Quiet, HandleBroadcast, ReaderSend, hubVars, faultVars, Reads
<1>6. ASSUME NEW c \in Conn, SendDirect(c) PROVE Quiet
  BY <1>6 DEF Quiet, SendDirect, ReaderSend, hubVars, faultVars
<1>7. ASSUME NEW c \in Conn, NotifyAck(c) PROVE Quiet
  BY <1>7 DEF Quiet, NotifyAck, ReaderSend, hubVars, faultVars
<1>8. ASSUME NEW c \in Conn, NotifyRoom(c) PROVE Quiet
  BY <1>8 DEF Quiet, NotifyRoom, hubVars
<1>9. ASSUME NEW c \in Conn, NotifySend(c) PROVE Quiet
  BY <1>9 DEF Quiet, NotifySend, ReaderSend, hubVars, faultVars
<1>10. ASSUME NEW c \in Conn, RoomSend(c) PROVE Quiet
  BY <1>10 DEF Quiet, RoomSend, ReaderSend, hubVars, faultVars
<1>11. ASSUME NEW c \in Conn, ReadEnd(c) PROVE Quiet
  BY <1>11 DEF Quiet, ReadEnd, hubVars
<1>12. ASSUME NEW c \in Conn, WriteEnd(c) PROVE Quiet
  BY <1>12 DEF Quiet, WriteEnd, hubVars
<1>13. ASSUME NEW c \in Conn, Drop(c) PROVE Quiet
  BY <1>13 DEF Quiet, Drop, hubVars
<1>14. ASSUME NEW c \in Conn, NEW u \in User, HandleDirect(c, u) PROVE Quiet
  BY <1>14 DEF Quiet, HandleDirect, hubVars, Reads
<1>15. ASSUME NEW c \in Conn, NEW r \in Room, HandleJoinRoom(c, r) PROVE Quiet
  BY <1>15 DEF Quiet, HandleJoinRoom, hubVars, Reads
<1>16. ASSUME NEW c \in Conn, NEW r \in Room, HandleRoomMessage(c, r) PROVE Quiet
  BY <1>16 DEF Quiet, HandleRoomMessage, hubVars, Reads
<1>17. ASSUME NEW r \in Room, Publish(r) PROVE Quiet
  BY <1>17 DEF Quiet, Publish, hubVars
<1>18. ASSUME NEW k \in Key, DisconnectKey(k) PROVE Quiet
  BY <1>18 DEF Quiet, DisconnectKey, hubVars
<1>19. ASSUME DisconnectBlocks PROVE Quiet
  BY <1>19 DEF Quiet, DisconnectBlocks, hubVars
<1>20. ASSUME HandleIncomingMessage PROVE Quiet
  BY <1>20 DEF Quiet, HandleIncomingMessage, RemoteMessage, hubVars
<1> QED
  <2> HIDE DEF TypeOK
  <2> QED
    BY <1>1, <1>2, <1>3, <1>4, <1>5, <1>6, <1>7, <1>8, <1>9, <1>10, <1>11,
       <1>12, <1>13, <1>14, <1>15, <1>16, <1>17, <1>18, <1>19, <1>20
    DEF Next, Broker, Run, ServeWS, ReadPump, Continue, HandleMessage, Others,
        Loud

\* Every step keeps the maps, the channels and the pumps in order.
LEMMA NextStructure ==
    ASSUME Inv, TypeOK', Next
    PROVE  Structure'
<1>0. panic = "none"
  BY DEF Next
<1> USE DEF Inv, TypeOK, Reading, Unborn
<1> USE ConstantsOK, <1>0
<1> USE DEF Registered, UniqueIds
<1>1. ASSUME NEW c \in Conn, Validate(c) PROVE Structure'
  BY <1>1 DEF Validate, hubVars,
         UnbornUnknown, EntriesTaken, ClosedTaken, RoomsAgree,
         RegisteredOpen, ClosedUnreachable, RegistryComplete, Structure
<1>2. ASSUME NEW c \in Conn, UpgradeError(c) PROVE Structure'
  BY <1>2 DEF UpgradeError, hubVars,
         UnbornUnknown, EntriesTaken, ClosedTaken, RoomsAgree,
         RegisteredOpen, ClosedUnreachable, RegistryComplete, Structure
<1>3. ASSUME NEW c \in Conn, Register(c) PROVE Structure'
  <2> USE <1>3 DEF Register
  <2>1. UnbornUnknown' /\ RoomsAgree'
    BY DEF UnbornUnknown, EntriesTaken, RoomsAgree
  <2>2. EntriesTaken'
    BY DEF EntriesTaken
  <2>3. \A u \in User \ {UserID[c]} : clients'[u] = clients[u]
    OBVIOUS
  <2>4. ClosedTaken'
    BY <2>3 DEF ClosedTaken, EntriesTaken
  <2>5. RegisteredOpen'
    <3> SUFFICES ASSUME NEW u \in User, clients'[u] \in closed'
                 PROVE  clients'[u] = c /\ reader[c] \in Leaving
      BY DEF RegisteredOpen
    <3>1. CASE u = UserID[c]
      BY <3>1 DEF ClosedTaken, EntriesTaken
    <3>2. CASE u # UserID[c]
      <4>1. clients[u] \in Registered /\ clients[u] # clients[UserID[c]]
        BY <3>2, <2>3 DEF EntriesTaken
      <4>2. clients[u] \in closed
        BY <4>1, <3>2, <2>3
      <4> QED
        BY <4>1, <4>2 DEF RegisteredOpen, ClosedTaken
    <3> QED
      BY <3>1, <3>2
  <2>6. ASSUME UniqueIds PROVE closed' = closed
    BY <2>6 DEF EntriesTaken
  <2>7. ClosedUnreachable'
    BY <2>3, <2>6 DEF ClosedUnreachable
  <2>8. RegistryComplete'
    BY <2>3 DEF RegistryComplete
  <2> QED
    BY <2>1, <2>2, <2>4, <2>5, <2>7, <2>8 DEF Structure
<1>4. ASSUME NEW c \in Conn, Unregister(c) PROVE Structure'
  <2> USE <1>4 DEF Unregister, Delisted, Without
  <2>1. UnbornUnknown'
    BY DEF UnbornUnknown
  <2>2. RoomsAgree'
    <3> SUFFICES ASSUME NEW d \in Conn, NEW r \in Room
                 PROVE  /\ d \in rooms'[r] => r \in joined[d] \/ reader'[d] = "stuck"
                        /\ Reading(d)' /\ r \in joined[d] => d \in rooms'[r]
      BY DEF RoomsAgree
    <3>1. CASE d = c
      BY <3>1 DEF RoomsAgree
    <3>2. CASE d # c
      BY <3>2 DEF RoomsAgree
    <3> QED
      BY <3>1, <3>2
  <2>3. EntriesTaken'
    BY DEF EntriesTaken
  <2>4. ClosedTaken'
    BY DEF ClosedTaken
  <2>5. RegisteredOpen'
    BY DEF RegisteredOpen, EntriesTaken, SendTo
  <2>6. ClosedUnreachable'
    <3> SUFFICES ASSUME UniqueIds, NEW d \in closed'
                 PROVE  /\ serve[d] = "done" /\ reader'[d] \in Leaving
                        /\ d \notin Registered'
                        /\ \A r \in Room : d \notin rooms'[r]
      BY DEF ClosedUnreachable
    <3>1. CASE d \in closed
      <4>1. d # c
        BY <3>1 DEF ClosedUnreachable
      <4>2. Registered' \subseteq Registered
        OBVIOUS
      <4>3. \A r \in Room : rooms'[r] \subseteq rooms[r]
        OBVIOUS
      <4> QED
        BY <3>1, <4>1, <4>2, <4>3 DEF ClosedUnreachable
    <3>2. CASE d \notin closed
      <4>1. d = c /\ clients[UserID[c]] = c /\ serve[c] = "done"
        BY <3>2 DEF EntriesTaken
      <4>2. \A u \in User : clients'[u] # c
        BY <4>1 DEF EntriesTaken
      <4>3. \A r \in Room : c \notin rooms'[r]
        BY <3>2, <4>1 DEF RoomsAgree
      <4> QED
        BY <4>1, <4>2, <4>3
    <3> QED
      BY <3>1, <3>2
  <2>7. RegistryComplete'
    BY DEF RegistryComplete
  <2> QED
    BY <2>1, <2>2, <2>3, <2>4, <2>5, <2>6, <2>7 DEF Structure
<1>5. ASSUME NEW c \in Conn, RunBlocks(c) PROVE Structure'
  <2> USE <1>5 DEF RunBlocks
  <2>1. ~UniqueIds
    BY DEF OnlyDirectPanics, CanLock
  <2>2. UnbornUnknown'
    BY DEF UnbornUnknown
  <2>3. RoomsAgree'
    BY DEF RoomsAgree
  <2>4. EntriesTaken' /\ ClosedTaken' /\ RegisteredOpen'
    BY DEF EntriesTaken, ClosedTaken, RegisteredOpen
  <2> QED
    BY <2>1, <2>2, <2>3, <2>4 DEF Structure, ClosedUnreachable, RegistryComplete
<1>6. ASSUME NEW c \in Conn, CloseConn(c) PROVE Structure'
  BY <1>6 DEF CloseConn, hubVars,
         UnbornUnknown, EntriesTaken, ClosedTaken, RoomsAgree,
         RegisteredOpen, ClosedUnreachable, RegistryComplete, Structure
<1>7. ASSUME NEW c \in Conn, JoinRoom(c) PROVE Structure'
  BY <1>7 DEF JoinRoom,
         UnbornUnknown, EntriesTaken, ClosedTaken, RoomsAgree,
         RegisteredOpen, ClosedUnreachable, RegistryComplete, Structure
<1>8. ASSUME NEW c \in Conn, Recycle(c) PROVE Structure'
  BY <1>8 DEF Recycle,
         UnbornUnknown, EntriesTaken, ClosedTaken, RoomsAgree,
         RegisteredOpen, ClosedUnreachable, RegistryComplete, Structure
<1>9. CASE Welcome
  BY <1>9 DEF Welcome, SendTo,
         UnbornUnknown, EntriesTaken, ClosedTaken, RoomsAgree,
         RegisteredOpen, ClosedUnreachable, RegistryComplete, Structure
<1>10. CASE Announce
  BY <1>10 DEF Announce, SendTo,
         UnbornUnknown, EntriesTaken, ClosedTaken, RoomsAgree,
         RegisteredOpen, ClosedUnreachable, RegistryComplete, Structure
<1>11. ASSUME NEW c \in Conn, NEW channel \in Channels, Upgrade(c, channel)
       PROVE  Structure'
  BY <1>11 DEF Upgrade,
         UnbornUnknown, EntriesTaken, ClosedTaken, RoomsAgree,
         RegisteredOpen, ClosedUnreachable, RegistryComplete, Structure
<1>12. ASSUME NEW c \in Conn, NEW channel \in Channels, UpgradeBlocks(c, channel)
       PROVE  Structure'
  BY <1>12 DEF UpgradeBlocks,
         UnbornUnknown, EntriesTaken, ClosedTaken, RoomsAgree,
         RegisteredOpen, ClosedUnreachable, RegistryComplete, Structure
<1>13. ASSUME NEW c \in Conn, NEW r \in Room, HandleLeaveRoom(c, r)
       PROVE  Structure'
  BY <1>13 DEF HandleLeaveRoom, Without, Reads,
         UnbornUnknown, EntriesTaken, ClosedTaken, RoomsAgree,
         RegisteredOpen, ClosedUnreachable, RegistryComplete, Structure
<1>14. ASSUME NEW c \in Conn, NEW r \in Room, MembershipBlocks(c, r)
       PROVE  Structure'
  BY <1>14 DEF MembershipBlocks, Reads, hubVars,
         UnbornUnknown, EntriesTaken, ClosedTaken, RoomsAgree,
         RegisteredOpen, ClosedUnreachable, RegistryComplete, Structure
<1> QED
  <2> HIDE DEF Inv, TypeOK, Structure
  <2> QED
    BY QuietStructure, QuietOrLoud, <1>0, <1>1, <1>2, <1>3, <1>4, <1>5,
       <1>6, <1>7, <1>8, <1>9, <1>10, <1>11, <1>12, <1>13, <1>14
    DEF Loud, Inv

\* With unique ids no send but the one of SendToUser meets a closed channel.
LEMMA NextOnlyDirect ==
    ASSUME Inv, Next
    PROVE  OnlyDirectPanics'
<1> DEFINE Safe == /\ mu' = "free"
                   /\ panic' \in {"none", "direct"}
                   /\ \A c \in Conn : fault'[c] \in {"none", "direct"}
<1> SUFFICES ASSUME UniqueIds PROVE Safe
  BY DEF OnlyDirectPanics, UniqueIds
<1>1. /\ panic = "none" /\ mu = "free"
      /\ fault \in [Conn -> ReaderSites \cup {"none"}]
      /\ \A c \in Conn : fault[c] \in {"none", "direct"}
  BY DEF Next, Inv, OnlyDirectPanics, TypeOK
<1>2. Registered \cap closed = {}
  BY DEF Inv, ClosedUnreachable
<1>3. \A r \in Room : rooms[r] \cap closed = {}
  BY DEF Inv, ClosedUnreachable
<1>4. \A c \in Conn : Reading(c) => {c} \cap closed = {}
  BY DEF Inv, ClosedUnreachable, Reading
<1>5. ASSUME NEW c \in Conn, NEW S, NEW site, NEW next,
             S \cap closed = {} \/ site = "direct",
             ReaderSend(c, S, site, next)
      PROVE  Safe
  BY <1>1, <1>5 DEF ReaderSend, faultVars
<1>6. ASSUME NEW c \in Conn,
             \/ HandleReplyOnly(c) \/ Reply(c) \/ HandleUserInfo(c) \/ NotifyAck(c)
      PROVE  Safe
  BY <1>4, <1>5, <1>6
  DEF HandleReplyOnly, Reply, HandleUserInfo, NotifyAck, Reads, Reading
<1>7. ASSUME NEW c \in Conn, BroadcastInfo(c) \/ HandleBroadcast(c)
      PROVE  Safe
  BY <1>2, <1>5, <1>7 DEF BroadcastInfo, HandleBroadcast
<1>8. ASSUME NEW c \in Conn, SendDirect(c) PROVE Safe
  BY <1>5, <1>8 DEF SendDirect
<1>9. ASSUME NEW c \in Conn, NotifySend(c) \/ RoomSend(c) PROVE Safe
  <2>1. HeldMembers(roomArg[c]) \cap closed = {}
    BY <1>3 DEF HeldMembers, Inv, TypeOK
  <2> QED
    BY <1>5, <1>9, <2>1 DEF NotifySend, RoomSend
<1>10. ASSUME NEW S, NEW site, S \cap closed = {}, SendTo(S, site),
              UNCHANGED <<mu, fault>>
       PROVE  Safe
  BY <1>1, <1>10 DEF SendTo
<1>11. ASSUME NEW c \in Conn, Register(c) PROVE Safe
  <2>1. clients[UserID[c]] = NoConn
    <3> SUFFICES ASSUME clients[UserID[c]] # NoConn PROVE FALSE
      OBVIOUS
    <3>1. UserID[c] \in User
      BY ConstantsOK
    <3>2. clients[UserID[c]] \in Conn
      BY <3>1 DEF Inv, TypeOK
    <3>3. clients[UserID[c]] = c /\ serve[c] = "done"
      BY <3>1, <3>2 DEF Inv, EntriesTaken, UniqueIds
    <3> QED
      BY <1>11, <3>3 DEF Register
  <2> QED
    BY <1>10, <1>11, <2>1 DEF Register
<1>12. CASE Welcome
  <2>1. hubConn \in Registered
    BY <1>12, ConstantsOK DEF Welcome, Inv, ClosedTaken, TypeOK, Registered
  <2> QED
    BY <1>2, <1>10, <1>12, <2>1 DEF Welcome
<1>13. CASE Announce
  BY <1>2, <1>10, <1>13 DEF Announce
<1>14. ASSUME NEW c \in Conn, Unregister(c) PROVE Safe
  BY <1>1, <1>4, <1>10, <1>14 DEF Unregister, Delisted, Reading
<1>15. CASE HandleIncomingMessage
  <2>1. \A u \in User : ({clients[u]} \ {NoConn}) \cap closed = {}
    BY <1>2 DEF Registered
  <2> QED
    BY <1>2, <1>3, <1>10, <1>15, <2>1 DEF HandleIncomingMessage, RemoteMessage
<1>16. ASSUME NEW r \in Room, Publish(r) PROVE Safe
  BY <1>1, <1>3, <1>16 DEF Publish
<1>17. ASSUME NEW c \in Conn, CloseConn(c) PROVE Safe
  BY <1>1, <1>17 DEF CloseConn
<1>18. ASSUME UNCHANGED faultVars PROVE Safe
  BY <1>1, <1>18 DEF faultVars
<1>19. CanLock
  BY <1>1 DEF CanLock
<1> QED
  <2> HIDE DEF Safe
  <2> QED
    BY <1>6, <1>7, <1>8, <1>9, <1>11, <1>12, <1>13, <1>14, <1>15, <1>16, <1>17,
       <1>18, <1>19
    DEF Next, Broker, Run, ServeWS, ReadPump, Continue, HandleMessage, Others,
        Validate, Upgrade, UpgradeBlocks, UpgradeError, RunBlocks, ReadEnd,
        HandleDirect, HandleJoinRoom, JoinRoom, HandleLeaveRoom,
        MembershipBlocks, NotifyRoom, HandleRoomMessage, WriteEnd,
        DisconnectKey, DisconnectBlocks, Drop, Recycle

\* The inductive invariant holds in every reachable state of the broker.
THEOREM Invariance == Spec => []Inv
<1>1. Init => Inv
  BY InitStructure
<1>2. Inv /\ [Next]_vars => Inv'
  <2> SUFFICES ASSUME Inv, [Next]_vars PROVE Inv'
    OBVIOUS
  <2>1. TypeOK'
    BY NextTypeOK DEF Inv
  <2>2. CASE Next
    BY <2>1, <2>2, NextStructure, NextOnlyDirect DEF Inv, Structure
  <2>3. CASE UNCHANGED vars
    BY <2>1, <2>3
    DEF Inv, vars, hubVars, argVars, faultVars, UnbornUnknown, Unborn,
        EntriesTaken, ClosedTaken, RoomsAgree, Reading, RegisteredOpen,
        Registered, ClosedUnreachable, OnlyDirectPanics, RegistryComplete,
        UniqueIds
  <2> QED
    BY <2>2, <2>3
<1> QED
  BY <1>1, <1>2, PTL DEF Spec

\* For any number of connections that share user ids or not: the two views of
\* membership agree, whatever the pumps, the hub and the handlers do.
THEOREM RoomsAgreeHolds == Spec => []RoomsAgree
BY Invariance, PTL DEF Inv

\* A broadcast never meets a closed channel, except on the client that Run
\* is about to stop on.
THEOREM RegisteredOpenHolds == Spec => []RegisteredOpen
BY Invariance, PTL DEF Inv

\* Unless two live connections share a user id, nothing but SendToUser's
\* late send can crash the broker or leave Hub.Mu locked.
THEOREM OnlyDirectPanicsHolds == Spec => []OnlyDirectPanics
BY Invariance, PTL DEF Inv

\* Unless two live connections share a user id, the registry misses nobody.
THEOREM RegistryCompleteHolds == Spec => []RegistryComplete
BY Invariance, PTL DEF Inv

(***************************************************************************)
(* The connection gauge.                                                   *)
(***************************************************************************)

\* The connections that Metrics.WsConnections counts.
Counted == {c \in Conn : serve[c] \notin {"idle", "validated"} /\ reader[c] \notin Leaving}

\* There are finitely many of them, so they can be counted.
LEMMA CountedFinite == IsFiniteSet(Counted)
BY ConstantsOK, FS_Subset DEF Counted

\* Every step changes the gauge by what it adds to, or takes from, Counted.
LEMMA GaugeStep ==
    ASSUME Inv, GaugeExact, TypeOK', Next
    PROVE  GaugeExact'
<1>0. GaugeExact = (hubPC # "stuck" => gauge = Cardinality(Counted))
  BY DEF GaugeExact, Counted
<1>0p. GaugeExact' = (hubPC' # "stuck" => gauge' = Cardinality(Counted'))
  BY DEF GaugeExact, Counted
<1>1. ASSUME hubPC' = hubPC \/ hubPC # "stuck", UNCHANGED gauge, Counted' = Counted
      PROVE  GaugeExact'
  BY <1>0, <1>0p, <1>1
<1>2. ASSUME NEW c \in Conn, c \notin Counted, Counted' = Counted \cup {c},
             gauge' = gauge + 1, hubPC' = hubPC
      PROVE  GaugeExact'
  BY <1>0, <1>0p, <1>2, CountedFinite, FS_AddElement, FS_CardinalityType
<1>3. ASSUME NEW c \in Counted, Counted' = Counted \ {c}, gauge' = gauge - 1,
             hubPC # "stuck"
      PROVE  GaugeExact'
  BY <1>0, <1>0p, <1>3, CountedFinite, FS_RemoveElement, FS_CardinalityType
<1>4. CASE Quiet
  BY <1>1, <1>4 DEF Quiet, Counted, Reading
<1>5. ASSUME NEW c \in Conn, NEW channel \in Channels,
             Upgrade(c, channel) \/ UpgradeBlocks(c, channel)
      PROVE  GaugeExact'
  <2>1. /\ c \notin Counted
        /\ gauge' = gauge + 1 /\ hubPC' = hubPC
    BY <1>5 DEF Upgrade, UpgradeBlocks, Counted
  <2>2. reader[c] = "off"
    BY <1>5 DEF Upgrade, UpgradeBlocks, Inv, UnbornUnknown, Unborn
  <2>3. Counted' = Counted \cup {c}
    BY <1>5, <2>2 DEF Upgrade, UpgradeBlocks, Counted, Inv, TypeOK
  <2> QED
    BY <1>2, <2>1, <2>3
<1>6. ASSUME NEW c \in Conn, Unregister(c) PROVE GaugeExact'
  <2>1. serve[c] \notin {"idle", "validated"}
    BY <1>6 DEF Unregister, Delisted, Inv, UnbornUnknown, Unborn
  <2>2. c \in Counted /\ Counted' = Counted \ {c}
    BY <1>6, <2>1 DEF Unregister, Delisted, Counted, Inv, TypeOK
  <2> QED
    BY <1>3, <1>6, <2>2 DEF Unregister, Delisted
<1>7. ASSUME NEW c \in Conn, RunBlocks(c) PROVE GaugeExact'
  BY <1>0p, <1>7 DEF RunBlocks
<1>8. ASSUME NEW c \in Conn,
             \/ Validate(c) \/ UpgradeError(c) \/ Register(c)
             \/ CloseConn(c) \/ JoinRoom(c) \/ Recycle(c)
             \/ \E r \in Room : HandleLeaveRoom(c, r) \/ MembershipBlocks(c, r)
      PROVE  GaugeExact'
  <2>1. Counted' = Counted
    <3> USE DEF Counted, Inv, TypeOK
    <3>1. CASE Validate(c) \/ UpgradeError(c) \/ Register(c)
      BY <3>1 DEF Validate, UpgradeError, Register
    <3>2. CASE CloseConn(c) \/ JoinRoom(c) \/ Recycle(c)
      BY <3>2 DEF CloseConn, JoinRoom, Recycle
    <3>3. CASE \E r \in Room : HandleLeaveRoom(c, r) \/ MembershipBlocks(c, r)
      BY <3>3 DEF HandleLeaveRoom, MembershipBlocks, Reads
    <3> QED
      BY <1>8, <3>1, <3>2, <3>3
  <2>2. UNCHANGED gauge /\ (hubPC' = hubPC \/ hubPC # "stuck")
    BY <1>8
    DEF Validate, UpgradeError, Register, CloseConn, JoinRoom, Recycle,
        HandleLeaveRoom, MembershipBlocks, hubVars
  <2> QED
    BY <1>1, <2>1, <2>2
<1>9. CASE Welcome \/ Announce
  BY <1>1, <1>9 DEF Welcome, Announce, Counted
<1> QED
  BY QuietOrLoud, <1>4, <1>5, <1>6, <1>7, <1>8, <1>9 DEF Loud, Inv

\* Metrics.WsConnections never drifts: for any connections, it is the number
\* of those that have been upgraded and not yet unregistered.
THEOREM GaugeExactHolds == Spec => []GaugeExact
<1>1. Init => GaugeExact
  <2> SUFFICES ASSUME Init PROVE GaugeExact
    OBVIOUS
  <2>1. Counted = {}
    BY DEF Init, Counted
  <2> QED
    BY <2>1, FS_EmptySet DEF Init, GaugeExact, Counted
<1>2. Inv /\ Inv' /\ GaugeExact /\ [Next]_vars => GaugeExact'
  <2>1. ASSUME UNCHANGED vars, GaugeExact PROVE GaugeExact'
    BY <2>1 DEF vars, hubVars, GaugeExact
  <2> QED
    BY <2>1, GaugeStep DEF Inv
<1> QED
  BY <1>1, <1>2, Invariance, PTL DEF Spec

(***************************************************************************)
(* Departures.                                                             *)
(***************************************************************************)

\* For any connections, no client loses a room to another one's cleanup.
THEOREM NoEvictionHolds == Spec => NoEviction
<1>1. TypeOK /\ TypeOK' /\ [Next]_vars => [LeavesByItself]_vars
  <2> SUFFICES ASSUME TypeOK, TypeOK', Next PROVE LeavesByItself
    OBVIOUS
  <2> USE DEF LeavesByItself, TypeOK
  <2>1. CASE UNCHANGED rooms
    BY <2>1
  <2>2. ASSUME NEW c \in Conn, Unregister(c) PROVE LeavesByItself
    BY <2>2 DEF Unregister, Delisted, Without
  <2>3. ASSUME NEW c \in Conn, NEW r \in Room, HandleLeaveRoom(c, r)
        PROVE  LeavesByItself
    BY <2>3 DEF HandleLeaveRoom, Without, Reads
  <2>4. ASSUME NEW c \in Conn, JoinRoom(c) PROVE LeavesByItself
    BY <2>4 DEF JoinRoom
  <2>5. ASSUME NEW c \in Conn, NEW channel \in Channels, Upgrade(c, channel)
        PROVE  LeavesByItself
    BY <2>5 DEF Upgrade
  <2> QED
    <3> HIDE DEF TypeOK, LeavesByItself
    <3> QED
      BY QuietOrLoud, <2>1, <2>2, <2>3, <2>4, <2>5
      DEF Quiet, Loud, Welcome, Announce, Validate, UpgradeError, Register,
          RunBlocks, CloseConn, Recycle, UpgradeBlocks, MembershipBlocks, hubVars
<1> QED
  BY <1>1, TypeCorrect, PTL DEF Spec, NoEviction

(***************************************************************************)
(* Presence.                                                               *)
(***************************************************************************)

\* A step that touches neither map shows nothing.
LEMMA MapsUnchanged ==
    ASSUME UNCHANGED <<clients, rooms>>
    PROVE  UNCHANGED <<GetOnlineUsers, GetRoomMembers>>
BY DEF GetOnlineUsers, GetRoomMembers

\* A client that enters a room shows its user there.
LEMMA EnterShows ==
    ASSUME TypeOK, NEW c \in Conn, NEW r \in Room,
           rooms' = [rooms EXCEPT ![r] = @ \cup {c}]
    PROVE  GetRoomMembers' = [GetRoomMembers EXCEPT ![r] = @ \cup {UserID[c]}]
<1>1. {UserID[d] : d \in rooms[r] \cup {c}} = {UserID[d] : d \in rooms[r]} \cup {UserID[c]}
  OBVIOUS
<1>2. \A s \in Room : rooms'[s] = IF s = r THEN rooms[r] \cup {c} ELSE rooms[s]
  BY DEF TypeOK
<1> QED
  BY <1>1, <1>2 DEF GetRoomMembers

\* With unique user ids, a client that leaves a set of rooms takes its user
\* out of them and nobody else.
LEMMA ExitShows ==
    ASSUME UniqueIds, TypeOK, NEW c \in Conn, NEW S \in SUBSET Room,
           \A s \in Room : rooms'[s] = IF s \in S THEN rooms[s] \ {c} ELSE rooms[s]
    PROVE  GetRoomMembers' = [s \in Room |-> IF s \in S THEN GetRoomMembers[s] \ {UserID[c]}
                                                        ELSE GetRoomMembers[s]]
<1>1. ASSUME NEW s \in Room
      PROVE  {UserID[d] : d \in rooms[s] \ {c}} = {UserID[d] : d \in rooms[s]} \ {UserID[c]}
  BY DEF UniqueIds, TypeOK
<1> QED
  BY <1>1 DEF GetRoomMembers

\* With unique user ids each step of the broker is one of Presence's, or
\* shows nothing.
LEMMA PresenceStep ==
    ASSUME UniqueIds, Inv, TypeOK', Next
    PROVE  [Shown!Next]_<<GetOnlineUsers, GetRoomMembers>>
<1> DEFINE Goal == [Shown!Next]_<<GetOnlineUsers, GetRoomMembers>>
<1>1. ASSUME UNCHANGED <<clients, rooms>> PROVE Goal
  BY <1>1, MapsUnchanged
<1>2. ASSUME NEW c \in Conn, NEW channel \in Channels, Upgrade(c, channel)
      PROVE  Goal
  <2>1. CASE channel = {}
    BY <1>1, <1>2, <2>1 DEF Upgrade, Inv, TypeOK
  <2>2. ASSUME NEW r \in Room, channel = {r} PROVE Goal
    <3>1. clients' = clients /\ rooms' = [rooms EXCEPT ![r] = @ \cup {c}]
      BY <1>2, <2>2 DEF Upgrade, Inv, TypeOK
    <3>2. GetRoomMembers' = [GetRoomMembers EXCEPT ![r] = @ \cup {UserID[c]}]
      BY <3>1, EnterShows DEF Inv
    <3>3. Shown!Enter(UserID[c], r)
      BY <3>1, <3>2 DEF Shown!Enter, GetOnlineUsers
    <3> QED
      BY <3>3, ConstantsOK DEF Shown!Next
  <2> QED
    BY <2>1, <2>2 DEF Channels
<1>3. ASSUME NEW c \in Conn, JoinRoom(c) PROVE Goal
  <2> DEFINE r == roomArg[c]
  <2>1. r \in Room /\ clients' = clients /\ rooms' = [rooms EXCEPT ![r] = @ \cup {c}]
    BY <1>3 DEF JoinRoom, Inv, TypeOK
  <2>2. GetRoomMembers' = [GetRoomMembers EXCEPT ![r] = @ \cup {UserID[c]}]
    BY <2>1, EnterShows DEF Inv
  <2>3. Shown!Enter(UserID[c], r)
    BY <2>1, <2>2 DEF Shown!Enter, GetOnlineUsers
  <2> QED
    BY <2>1, <2>3, ConstantsOK DEF Shown!Next
<1>4. ASSUME NEW c \in Conn, NEW r \in Room, HandleLeaveRoom(c, r) PROVE Goal
  <2>1. /\ clients' = clients
        /\ \A s \in Room : rooms'[s] = IF s \in {r} THEN rooms[s] \ {c} ELSE rooms[s]
    BY <1>4 DEF HandleLeaveRoom, Without
  <2>2. GetRoomMembers' = [GetRoomMembers EXCEPT ![r] = @ \ {UserID[c]}]
    <3> DEFINE S == {r}
    <3>1. S \in SUBSET Room
      OBVIOUS
    <3>2. GetRoomMembers' = [s \in Room |-> IF s \in S THEN GetRoomMembers[s] \ {UserID[c]}
                                                       ELSE GetRoomMembers[s]]
      BY <2>1, <3>1, ExitShows DEF Inv
    <3> QED
      BY <3>2 DEF GetRoomMembers
  <2>3. Shown!Exit(UserID[c], r)
    BY <2>1, <2>2 DEF Shown!Exit, GetOnlineUsers
  <2> QED
    BY <2>3, ConstantsOK DEF Shown!Next
<1>5. ASSUME NEW c \in Conn, Register(c) PROVE Goal
  <2> DEFINE u == UserID[c]
  <2>1. clients[u] = NoConn
    BY <1>5, ConstantsOK DEF Register, Inv, TypeOK, EntriesTaken, UniqueIds
  <2>2. clients' = [clients EXCEPT ![u] = c] /\ rooms' = rooms
    BY <1>5 DEF Register
  <2>3. u \in User /\ u \notin GetOnlineUsers
    BY <2>1, ConstantsOK DEF GetOnlineUsers
  <2>4. GetOnlineUsers' = GetOnlineUsers \cup {u}
    BY <2>2, <2>3, ConstantsOK DEF GetOnlineUsers, Inv, TypeOK
  <2>5. Shown!Arrive(u)
    BY <2>2, <2>3, <2>4 DEF Shown!Arrive, GetRoomMembers
  <2> QED
    BY <2>3, <2>5 DEF Shown!Next
<1>6. ASSUME NEW c \in Conn, Unregister(c) PROVE Goal
  <2> DEFINE u == UserID[c]
  <2>1. CASE clients[u] = NoConn
    BY <1>1, <1>6, <2>1 DEF Unregister
  <2>2. CASE clients[u] # NoConn
    <3>1. clients' = [clients EXCEPT ![u] = NoConn] /\ rooms' = Without(c, joined[c])
      BY <1>6, <2>2 DEF Unregister, Delisted
    <3>2. u \in User /\ u \in GetOnlineUsers
      BY <2>2, ConstantsOK DEF GetOnlineUsers
    <3>3. GetOnlineUsers' = GetOnlineUsers \ {u}
      BY <3>1, <3>2 DEF GetOnlineUsers, Inv, TypeOK
    <3>4. \A r \in Room : rooms'[r] = IF r \in Room THEN rooms[r] \ {c} ELSE rooms[r]
      BY <1>6, <3>1 DEF Unregister, Without, Inv, RoomsAgree
    <3>5. GetRoomMembers' = [r \in Room |-> GetRoomMembers[r] \ {u}]
      <4> DEFINE S == Room
      <4>1. GetRoomMembers' = [r \in Room |-> IF r \in S THEN GetRoomMembers[r] \ {u}
                                                         ELSE GetRoomMembers[r]]
        BY <3>4, ExitShows DEF Inv
      <4> QED
        BY <4>1
    <3>6. Shown!Depart(u)
      BY <3>2, <3>3, <3>5 DEF Shown!Depart
    <3> QED
      BY <3>2, <3>6 DEF Shown!Next
  <2> QED
    BY <2>1, <2>2
<1>7. Goal
  <2> HIDE DEF Goal
  <2> QED
    BY QuietOrLoud, <1>1, <1>2, <1>3, <1>4, <1>5, <1>6
    DEF Inv, Quiet, Loud, Welcome, Announce, Validate, UpgradeError, RunBlocks,
        CloseConn, Recycle, UpgradeBlocks, MembershipBlocks, hubVars
<1> QED
  BY <1>7

\* The hub implements Presence: with unique user ids, what the endpoints show
\* changes as if one user at a time arrived, entered, left or departed, for
\* any number of connections and rooms.
THEOREM PresenceKeptHolds == ASSUME UniqueIds PROVE Spec => PresenceKept
<1>1. Init => Shown!Init
  BY ConstantsOK DEF Init, Shown!Init, GetOnlineUsers, GetRoomMembers
<1>2. Inv /\ Inv' /\ [Next]_vars => [Shown!Next]_<<GetOnlineUsers, GetRoomMembers>>
  <2>1. ASSUME UNCHANGED vars PROVE UNCHANGED <<GetOnlineUsers, GetRoomMembers>>
    BY <2>1, MapsUnchanged DEF vars, hubVars
  <2> QED
    BY <2>1, PresenceStep DEF Inv
<1> QED
  BY <1>1, <1>2, Invariance, PTL DEF Spec, PresenceKept, Shown!Spec, Shown!presence

(***************************************************************************)
(* The hub with the key store is still the hub.                            *)
(***************************************************************************)

\* Every step of the composition is one of the hub or leaves the hub alone.
LEMMA RevStep == RevNext => [Next]_vars
BY DEF RevNext, ValidateKey, Revoke, RevokeDisconnect, UpdateKey, Next

\* Key management restricts the hub and adds nothing to it: whatever is proved
\* of Hub holds of a broker whose keys come and go.
THEOREM ImplementsHub == RevSpec => Spec
<1>1. RevInit => Init
  BY DEF RevInit
<1>2. [RevNext]_allVars => [Next]_vars
  BY RevStep DEF allVars
<1> QED
  BY <1>1, <1>2, PTL DEF RevSpec, Spec

(***************************************************************************)
(* What the hub does to a connection between its validation and its end.   *)
(***************************************************************************)

\* An open connection is past its upgrade and its ReadPump is not over.
UpRunning ==
    \A c \in up : serve[c] \in {"register", "done", "stuck"} /\ reader[c] # "done"

\* Validated, and the hub does not know of it yet.
Coming == {"validated", "register", "stuck"}

\* Only an upgrade opens a connection, a ReadPump that leaves goes on to leave,
\* and nothing waits for a lock that is free.
Moves ==
    /\ \A c \in Conn : serve'[c] \in Coming => serve[c] \in Coming
    /\ \A c \in up' : \/ serve[c] = "validated"
                      \/ c \in up /\ (reader[c] \in Leaving => reader'[c] \in Leaving)
    /\ UpRunning'
    /\ mu = "free" => \A c \in Conn : reader'[c] = "stuck" => reader[c] = "stuck"

USE DEF ServeStates, ReaderStates, Leaving, Channels

\* The steps in which a ServeWS handler takes part.
Serves(c) ==
    \/ UpgradeError(c) \/ Register(c) \/ RunBlocks(c) \/ Recycle(c)
    \/ \E channel \in Channels : Upgrade(c, channel) \/ UpgradeBlocks(c, channel)

\* No other step of the broker opens a connection or moves a handler.
LEMMA OthersServeNobody ==
    ASSUME Broker
    PROVE  (UNCHANGED serve /\ up' \subseteq up) \/ \E c \in Conn : Serves(c)
<1> DEFINE Apart == UNCHANGED serve /\ up' \subseteq up
<1>1. ASSUME NEW c \in Conn, HandleMessage(c) PROVE Apart
  BY <1>1
  DEF HandleMessage, HandleReplyOnly, HandleUserInfo, HandleBroadcast,
      HandleDirect, HandleJoinRoom, HandleLeaveRoom, HandleRoomMessage,
      MembershipBlocks
<1>2. ASSUME NEW c \in Conn, Continue(c) PROVE Apart
  BY <1>2
  DEF Continue, CloseConn, Reply, BroadcastInfo, SendDirect, JoinRoom,
      NotifyAck, NotifyRoom, NotifySend, RoomSend, ReadEnd
<1>3. ASSUME NEW c \in Conn, ReadEnd(c) \/ WriteEnd(c) \/ Drop(c) \/ Unregister(c)
      PROVE  Apart
  BY <1>3 DEF ReadEnd, WriteEnd, Drop, Unregister, Delisted
<1>4. ASSUME Welcome \/ Announce PROVE Apart
  BY <1>4 DEF Welcome, Announce
<1>5. ASSUME NEW r \in Room, Publish(r) PROVE Apart
  BY <1>5 DEF Publish
<1>6. ASSUME DisconnectBlocks \/ HandleIncomingMessage PROVE Apart
  BY <1>6 DEF DisconnectBlocks, HandleIncomingMessage, RemoteMessage
<1> HIDE DEF Apart
<1>7. Apart \/ \E c \in Conn : Serves(c)
  BY <1>1, <1>2, <1>3, <1>4, <1>5, <1>6
  DEF Broker, Run, ServeWS, ReadPump, Others, Serves
<1> QED
  BY <1>7 DEF Apart

\* Every step of the hub after a validation moves connections as it should.
LEMMA HubMoves ==
    ASSUME TypeOK, TypeOK', UnbornUnknown, UpRunning, panic = "none", Broker
    PROVE  Moves
<1>t. /\ serve \in [Conn -> ServeStates] /\ reader \in [Conn -> ReaderStates]
      /\ up \subseteq Conn
  BY DEF TypeOK
<1>n. Next
  BY DEF Next
<1> USE <1>t DEF Moves, UpRunning, Coming
<1>1. ASSUME NEW c \in Conn, NEW channel \in Channels,
             Upgrade(c, channel) \/ UpgradeBlocks(c, channel)
      PROVE  Moves
  <2>1. /\ serve[c] = "validated" /\ up' = up \cup {c}
        /\ \/ serve' = [serve EXCEPT ![c] = "register"]
           \/ serve' = [serve EXCEPT ![c] = "stuck"]
        /\ reader' = [reader EXCEPT ![c] = "read"] \/ reader' = reader
    BY <1>1 DEF Upgrade, UpgradeBlocks
  <2>2. reader'[c] \in {"read", "off"}
    BY <1>1, <2>1 DEF Upgrade, UpgradeBlocks, UnbornUnknown, Unborn
  <2> QED
    BY <2>1, <2>2
<1>2. ASSUME NEW c \in Conn, UpgradeError(c) PROVE Moves
  BY <1>2 DEF UpgradeError
<1>3. ASSUME NEW c \in Conn, Register(c) PROVE Moves
  BY <1>3 DEF Register
<1>4. ASSUME NEW c \in Conn, RunBlocks(c) PROVE Moves
  BY <1>4 DEF RunBlocks
<1>5. ASSUME NEW c \in Conn, Recycle(c) PROVE Moves
  BY <1>5 DEF Recycle
<1>6. ASSUME UNCHANGED serve, up' \subseteq up PROVE Moves
  <2>1. CASE Quiet
    BY <1>6, <2>1 DEF Quiet, Reading
  <2>2. ASSUME NEW c \in Conn, Unregister(c) PROVE Moves
    BY <1>6, <2>2 DEF Unregister, Delisted
  <2>3. ASSUME NEW c \in Conn, CloseConn(c) PROVE Moves
    BY <1>6, <2>3 DEF CloseConn
  <2>4. ASSUME NEW c \in Conn, JoinRoom(c) PROVE Moves
    BY <1>6, <2>4 DEF JoinRoom
  <2>5. ASSUME NEW c \in Conn, NEW r \in Room, HandleLeaveRoom(c, r) PROVE Moves
    BY <1>6, <2>5 DEF HandleLeaveRoom, Reads
  <2>6. ASSUME NEW c \in Conn, NEW r \in Room, MembershipBlocks(c, r) PROVE Moves
    BY <1>6, <2>6 DEF MembershipBlocks, Reads, CanLock
  <2>7. CASE Welcome \/ Announce
    BY <1>6, <2>7 DEF Welcome, Announce
  <2>8. ASSUME NEW c \in Conn, Validate(c) PROVE Moves
    BY <1>6, <2>8 DEF Validate
  <2> HIDE DEF Moves
  <2> QED
    BY QuietOrLoud, <1>n, <1>1, <1>2, <1>3, <1>4, <1>5, <2>1, <2>2, <2>3, <2>4,
       <2>5, <2>6, <2>7, <2>8
    DEF Loud
<1> HIDE DEF Moves
<1> QED
  BY OthersServeNobody, <1>1, <1>2, <1>3, <1>4, <1>5, <1>6 DEF Serves

(***************************************************************************)
(* Revocation.                                                             *)
(***************************************************************************)

\* A revocation in force is one of an inactive key, and a connection that
\* comes with such a key was already coming when DisconnectKey looked.
RevInv ==
    /\ KeyTypeOK
    /\ UpRunning
    /\ UniqueIds => \A c \in Conn : reader[c] # "stuck"
    /\ \A k \in active : revoke[k] # "dropped"
    /\ \A c \in Conn : serve[c] \in Coming /\ revoke[APIKey[c]] = "dropped"
                         => c \in late
    /\ RevokedOnlyLate

\* RevInv is kept by every step that starts in the hub's own invariant.
LEMMA RevInvStep ==
    ASSUME Inv, TypeOK', RevInv, RevNext
    PROVE  RevInv'
<1>t. /\ serve \in [Conn -> ServeStates] /\ reader \in [Conn -> ReaderStates]
      /\ up \subseteq Conn /\ up' \subseteq Conn /\ APIKey \in [Conn -> Key]
      /\ clients \in [User -> Conn \cup {NoConn}] /\ UserID \in [Conn -> User]
      /\ NoConn \notin Conn
  BY ConstantsOK DEF Inv, TypeOK
<1>u. UniqueIds' = UniqueIds
  BY DEF UniqueIds
<1>m. UniqueIds => mu = "free"
  BY DEF Inv, OnlyDirectPanics
<1> USE <1>t, <1>u DEF RevInv, KeyTypeOK, RevokedOnlyLate, keyVars, Coming
<1>1. ASSUME NEW c \in Conn, ValidateKey(c) PROVE RevInv'
  <2>1. /\ serve[c] = "idle" /\ APIKey[c] \in active
        /\ serve' = [serve EXCEPT ![c] = "validated"]
        /\ UNCHANGED <<reader, up, active, revoke>>
        /\ late' = late \ {c}
    BY <1>1 DEF ValidateKey, Validate
  <2>2. c \notin up
    BY <2>1 DEF UpRunning
  <2> QED
    BY <2>1, <2>2 DEF UpRunning
<1>2. ASSUME NEW k \in Key, Revoke(k) PROVE RevInv'
  BY <1>2 DEF Revoke, UpRunning, vars
<1>3. ASSUME NEW k \in Key, NEW isActive \in BOOLEAN, UpdateKey(k, isActive)
      PROVE  RevInv'
  BY <1>3 DEF UpdateKey, UpRunning, vars
<1>4. ASSUME NEW k \in Key, RevokeDisconnect(k) PROVE RevInv'
  <2> DEFINE dropped == {c \in Registered : APIKey[c] = k}
             new == {c \in Conn : APIKey[c] = k /\ serve[c] \in Coming}
  <2>1. /\ UNCHANGED <<serve, reader, active>>
        /\ up' = up \ dropped
        /\ late' = (late \ dropped) \cup new
        /\ revoke' = [revoke EXCEPT ![k] = IF k \in active THEN "idle" ELSE "dropped"]
    BY <1>4 DEF RevokeDisconnect, DisconnectKey
  <2>2. dropped \subseteq Conn
    BY DEF Registered
  <2>3. UpRunning'
    BY <2>1 DEF UpRunning
  <2>4. UniqueIds => \A c \in up' : APIKey[c] = k => c \in new \/ reader[c] \in Leaving
    <3> SUFFICES ASSUME UniqueIds, NEW c \in up', APIKey[c] = k,
                        c \notin new, reader[c] \notin Leaving
                 PROVE  FALSE
      OBVIOUS
    <3>1. c \in up /\ c \in Conn /\ serve[c] = "done"
      BY <2>1 DEF UpRunning
    <3>2. reader[c] # "off"
      BY <3>1 DEF Inv, UnbornUnknown, Unborn
    <3>3. Reading(c)
      BY <3>1, <3>2 DEF Reading
    <3>4. clients[UserID[c]] = c
      BY <3>1, <3>3 DEF Inv, RegistryComplete
    <3>5. c \in dropped
      BY <3>1, <3>4 DEF Registered
    <3> QED
      BY <2>1, <3>5
  <2>5. \A c \in Conn : APIKey[c] # k => (c \in late => c \in late')
                                       /\ revoke'[APIKey[c]] = revoke[APIKey[c]]
    BY <2>1
  <2>6. \A c \in Conn : serve'[c] \in Coming /\ revoke'[APIKey[c]] = "dropped"
                         => c \in late'
    BY <2>1, <2>5
  <2>7. RevokedOnlyLate'
    <3> SUFFICES ASSUME UniqueIds, NEW c \in up', revoke'[APIKey[c]] = "dropped"
                 PROVE  c \in late' \/ reader'[c] \in Leaving
      OBVIOUS
    <3>1. c \in Conn /\ c \in up
      BY <2>1
    <3> HIDE DEF dropped, new
    <3> QED
      BY <2>1, <2>4, <2>5, <3>1
  <2> HIDE DEF RevokedOnlyLate
  <2> QED
    BY <2>1, <2>2, <2>3, <2>6, <2>7
<1>5. ASSUME Broker, UNCHANGED keyVars PROVE RevInv'
  <2>1. Moves
    BY <1>5, HubMoves DEF Inv, RevNext
  <2> QED
    BY <1>5, <1>m, <2>1 DEF Moves
<1> QED
  BY <1>1, <1>2, <1>3, <1>4, <1>5 DEF RevNext

\* For any connections with unique ids and any keys: once a revocation is in
\* force, the only connections of the key still open are leaving or had passed
\* Validate without being registered when DisconnectKey looked.
THEOREM RevokedOnlyLateHolds == RevSpec => []RevokedOnlyLate
<1>1. RevSpec => []Inv
  BY ImplementsHub, Invariance
<1>2. RevInit => RevInv
  BY ConstantsOK
  DEF RevInit, Init, RevInv, KeyTypeOK, UpRunning, Coming, RevokedOnlyLate
<1>3. Inv /\ Inv' /\ RevInv /\ [RevNext]_allVars => RevInv'
  <2> SUFFICES ASSUME Inv, Inv', RevInv, [RevNext]_allVars PROVE RevInv'
    OBVIOUS
  <2>1. CASE RevNext
    BY <2>1, RevInvStep DEF Inv
  <2>2. CASE UNCHANGED allVars
    BY <2>2
    DEF allVars, vars, keyVars, RevInv, KeyTypeOK, UpRunning, RevokedOnlyLate,
        UniqueIds
  <2> QED
    BY <2>1, <2>2
<1>4. RevInv => RevokedOnlyLate
  BY DEF RevInv
<1> QED
  BY <1>1, <1>2, <1>3, <1>4, PTL DEF RevSpec
=============================================================================
