---------------------------- MODULE AccessProofs ----------------------------
(***************************************************************************)
(* The invariant of Access is inductive, and with it the member limits and *)
(* the admission of every member hold for any number of connections, rooms,*)
(* ACLs and tokens.                                                        *)
(***************************************************************************)
EXTENDS Access, FiniteSetTheorems, TLAPS

\* The sizes of sets of connections: they are numbers, a subset is no
\* larger, and one more member makes one more at most.
LEMMA MemberCount ==
    ASSUME NEW S \in SUBSET Conn, NEW T \in SUBSET S, NEW c \in Conn
    PROVE  /\ Cardinality(S) \in Nat
           /\ Cardinality(T) <= Cardinality(S)
           /\ Cardinality(S \cup {c}) <= Cardinality(S) + 1
<1>1. IsFiniteSet(S) /\ Cardinality(S) \in Nat
  BY FS_Subset, FS_CardinalityType, AccessConstantsOK
<1>2. Cardinality(T) <= Cardinality(S)
  BY <1>1, FS_Subset
<1>3. Cardinality(S \cup {c}) <= Cardinality(S) + 1
  BY <1>1, FS_AddElement
<1> QED
  BY <1>1, <1>2, <1>3

\* A room whose ACL stays and that gets no new counted member keeps to its
\* limit.
LEMMA NoNewMember ==
    ASSUME TypeOK, OverfullOnlyRaced, NEW r \in Room, acl'[r] = acl[r],
           (rooms'[r] \ uncounted'[r]) \subseteq (rooms[r] \ uncounted[r])
    PROVE  acl'[r] # NoACL /\ acl'[r].max > 0 =>
               Cardinality(rooms'[r] \ uncounted'[r]) <= acl'[r].max
<1> DEFINE S == rooms[r] \ uncounted[r]
           T == rooms'[r] \ uncounted'[r]
<1>1. S \in SUBSET Conn /\ T \in SUBSET S
  BY DEF TypeOK
<1>2. IsFiniteSet(S)
  BY <1>1, FS_Subset, AccessConstantsOK
<1>3. Cardinality(T) \in Nat /\ Cardinality(S) \in Nat
      /\ Cardinality(T) <= Cardinality(S)
  BY <1>1, <1>2, FS_Subset, FS_CardinalityType
<1>4. SUFFICES ASSUME acl[r] # NoACL, acl[r].max > 0
               PROVE  Cardinality(T) <= acl[r].max
  OBVIOUS
<1>5. acl[r].max \in Int /\ Cardinality(S) <= acl[r].max
  BY <1>4, AccessConstantsOK DEF TypeOK, OverfullOnlyRaced
<1> QED
  BY <1>3, <1>5

\* No connection, member or history at the start.
THEOREM InitInv == Init => Inv
<1> SUFFICES ASSUME Init PROVE Inv
  OBVIOUS
<1> USE AccessConstantsOK DEF Init
<1>1. TypeOK
  BY DEF TypeOK, PCs, Joining, Serving
<1>2. MembersConnected /\ MembersAdmitted
  BY DEF MembersConnected, MembersAdmitted
<1>3. JoinsChecked
  BY DEF JoinsChecked, Admitted, Joining, Serving
<1>4. OverfullOnlyRaced
  BY DEF OverfullOnlyRaced
<1> QED
  BY <1>1, <1>2, <1>3, <1>4 DEF Inv

\* Every step keeps the invariant: a check that is overtaken by /acl or by
\* another join is remembered as such in the same step.
THEOREM NextInv == Inv /\ [Next]_vars => Inv'
<1> SUFFICES ASSUME Inv, [Next]_vars PROVE Inv'
  OBVIOUS
<1> USE AccessConstantsOK DEF Inv
<1>1. ASSUME NEW r \in Room, NEW a \in ACLs, SetChannelACL(r, a)
      PROVE  Inv'
  <2> USE <1>1 DEF SetChannelACL, ChangeACL
  <2>1. TypeOK'
    BY DEF TypeOK, PCs, Joining, Serving, Admitted, Checked, history
  <2>2. MembersConnected'
    BY DEF TypeOK, MembersConnected, PCs, Joining, Serving, history
  <2>3. JoinsChecked'
    BY DEF TypeOK, JoinsChecked, Admitted, Checked, MembersConnected, PCs,
           Joining, Serving, UserID, history
  <2>4. OverfullOnlyRaced'
    <3> SUFFICES ASSUME NEW x \in Room
                 PROVE  acl'[x] # NoACL /\ acl'[x].max > 0 =>
                          Cardinality(rooms'[x] \ uncounted'[x]) <= acl'[x].max
      BY DEF OverfullOnlyRaced
    <3>1. CASE x = r
      <4>1. rooms'[x] \ uncounted'[x] = {} /\ acl'[x] = a
        BY <3>1 DEF TypeOK
      <4>2. Cardinality({}) = 0 /\ a.max \in Int
        BY FS_EmptySet
      <4>3. a.max > 0 => 0 <= a.max
        BY <4>2
      <4> QED
        BY <4>1, <4>2, <4>3
    <3>2. CASE x # r
      BY <3>2, NoNewMember DEF TypeOK
    <3> QED
      BY <3>1, <3>2
  <2>5. MembersAdmitted'
    BY DEF TypeOK, MembersAdmitted, MembersConnected, JoinsChecked, Admitted,
           Checked, PCs, Joining, Serving, UserID, history
  <2> QED
    BY <2>1, <2>2, <2>3, <2>4, <2>5
<1>2. ASSUME NEW r \in Room, RemoveChannelACL(r)
      PROVE  Inv'
  <2> USE <1>2 DEF RemoveChannelACL, ChangeACL
  <2>1. TypeOK'
    BY DEF TypeOK, PCs, Joining, Serving, Admitted, Checked, history
  <2>2. MembersConnected'
    BY DEF TypeOK, MembersConnected, PCs, Joining, Serving, history
  <2>3. JoinsChecked'
    BY DEF TypeOK, JoinsChecked, Admitted, Checked, MembersConnected, PCs,
           Joining, Serving, UserID, history
  <2>4. OverfullOnlyRaced'
    BY DEF TypeOK, OverfullOnlyRaced, history
  <2>5. MembersAdmitted'
    BY DEF TypeOK, MembersAdmitted, MembersConnected, JoinsChecked, Admitted,
           Checked, PCs, Joining, Serving, UserID, history
  <2> QED
    BY <2>1, <2>2, <2>3, <2>4, <2>5
<1>3. ASSUME NEW t \in Tokens, GenerateToken(t)
      PROVE  Inv'
  <2> USE <1>3 DEF GenerateToken
  <2>1. TypeOK'
    BY DEF TypeOK, PCs, Joining, Serving, Admitted, history
  <2>2. MembersConnected'
    BY DEF TypeOK, MembersConnected, PCs, Joining, Serving, history
  <2>3. JoinsChecked'
    BY DEF TypeOK, JoinsChecked, Admitted, Checked, MembersConnected, PCs,
           Joining, Serving, UserID, history
  <2>4. OverfullOnlyRaced'
    BY DEF TypeOK, OverfullOnlyRaced, history
  <2>5. MembersAdmitted'
    BY DEF TypeOK, MembersAdmitted, MembersConnected, JoinsChecked, Admitted,
           Checked, PCs, Joining, Serving, UserID, history
  <2> QED
    BY <2>1, <2>2, <2>3, <2>4, <2>5
<1>4. ASSUME NEW t \in Tokens, Expire(t)
      PROVE  Inv'
  <2> USE <1>4 DEF Expire
  <2>1. TypeOK'
    BY DEF TypeOK, PCs, Joining, Serving, Admitted, history
  <2>2. MembersConnected'
    BY DEF TypeOK, MembersConnected, PCs, Joining, Serving, history
  <2>3. JoinsChecked'
    BY DEF TypeOK, JoinsChecked, Admitted, Checked, MembersConnected, PCs,
           Joining, Serving, UserID, history
  <2>4. OverfullOnlyRaced'
    BY DEF TypeOK, OverfullOnlyRaced, history
  <2>5. MembersAdmitted'
    BY DEF TypeOK, MembersAdmitted, MembersConnected, JoinsChecked, Admitted,
           Checked, PCs, Joining, Serving, UserID, history
  <2> QED
    BY <2>1, <2>2, <2>3, <2>4, <2>5
<1>5. ASSUME NEW c \in Conn, NEW t \in Tokens \cup {NoToken},
             NEW r \in Room \cup {NoRoom}, ServeToken(c, t, r)
      PROVE  Inv'
  <2> USE <1>5 DEF ServeToken, Step
  <2>1. TypeOK'
    BY DEF TypeOK, PCs, Joining, Serving, Admitted, history
  <2>2. MembersConnected'
    BY DEF TypeOK, MembersConnected, PCs, Joining, Serving, history
  <2>3. JoinsChecked'
    BY DEF TypeOK, JoinsChecked, Admitted, Checked, MembersConnected, PCs,
           Joining, Serving, UserID, history
  <2>4. OverfullOnlyRaced'
    BY DEF TypeOK, OverfullOnlyRaced, history
  <2>5. MembersAdmitted'
    BY DEF TypeOK, MembersAdmitted, MembersConnected, JoinsChecked, Admitted,
           Checked, PCs, Joining, Serving, UserID, history
  <2> QED
    BY <2>1, <2>2, <2>3, <2>4, <2>5
<1>6. ASSUME NEW c \in Conn, ServeCanJoin(c)
      PROVE  Inv'
  <2> USE <1>6 DEF ServeCanJoin, Admit, Step
  <2>1. TypeOK'
    BY DEF TypeOK, PCs, Joining, Serving, Admitted, history
  <2>2. MembersConnected'
    BY DEF TypeOK, MembersConnected, PCs, Joining, Serving, history
  <2>3. JoinsChecked'
    BY DEF TypeOK, JoinsChecked, Admitted, Checked, MembersConnected, PCs,
           Joining, Serving, UserID, history
  <2>4. OverfullOnlyRaced'
    BY DEF TypeOK, OverfullOnlyRaced, history
  <2>5. MembersAdmitted'
    BY DEF TypeOK, MembersAdmitted, MembersConnected, JoinsChecked, Admitted,
           Checked, PCs, Joining, Serving, UserID, history
  <2> QED
    BY <2>1, <2>2, <2>3, <2>4, <2>5
<1>7. ASSUME NEW c \in Conn, ServeUpgrade(c)
      PROVE  Inv'
  <2> USE <1>7 DEF ServeUpgrade, Enter, Return, Step
  <2>1. TypeOK'
    BY DEF TypeOK, PCs, Joining, Serving, Admitted, history
  <2>2. MembersConnected'
    BY DEF TypeOK, MembersConnected, PCs, Joining, Serving, history
  <2>3. JoinsChecked'
    BY DEF TypeOK, JoinsChecked, Admitted, Checked, MembersConnected, PCs,
           Joining, Serving, UserID, history
  <2>4. OverfullOnlyRaced'
    <3> SUFFICES ASSUME NEW x \in Room
                 PROVE  acl'[x] # NoACL /\ acl'[x].max > 0 =>
                          Cardinality(rooms'[x] \ uncounted'[x]) <= acl'[x].max
      BY DEF OverfullOnlyRaced
    <3>1. (rooms'[x] \ uncounted'[x]) \subseteq (rooms[x] \ uncounted[x])
      BY DEF TypeOK
    <3> QED
      BY <3>1, NoNewMember
  <2>5. MembersAdmitted'
    BY DEF TypeOK, MembersAdmitted, MembersConnected, JoinsChecked, Admitted,
           Checked, PCs, Joining, Serving, UserID, history
  <2> QED
    BY <2>1, <2>2, <2>3, <2>4, <2>5
<1>8. ASSUME NEW c \in Conn, UpgradeError(c)
      PROVE  Inv'
  <2> USE <1>8 DEF UpgradeError, Step
  <2>1. TypeOK'
    BY DEF TypeOK, PCs, Joining, Serving, Admitted, history
  <2>2. MembersConnected'
    BY DEF TypeOK, MembersConnected, PCs, Joining, Serving, history
  <2>3. JoinsChecked'
    BY DEF TypeOK, JoinsChecked, Admitted, Checked, MembersConnected, PCs,
           Joining, Serving, UserID, history
  <2>4. OverfullOnlyRaced'
    BY DEF TypeOK, OverfullOnlyRaced, history
  <2>5. MembersAdmitted'
    BY DEF TypeOK, MembersAdmitted, MembersConnected, JoinsChecked, Admitted,
           Checked, PCs, Joining, Serving, UserID, history
  <2> QED
    BY <2>1, <2>2, <2>3, <2>4, <2>5
<1>9. ASSUME NEW c \in Conn, NEW r \in Room, JoinCanJoin(c, r)
      PROVE  Inv'
  <2> USE <1>9 DEF JoinCanJoin, Admit, Step
  <2>1. TypeOK'
    BY DEF TypeOK, PCs, Joining, Serving, Admitted, history
  <2>2. MembersConnected'
    BY DEF TypeOK, MembersConnected, PCs, Joining, Serving, history
  <2>3. JoinsChecked'
    BY DEF TypeOK, JoinsChecked, Admitted, Checked, MembersConnected, PCs,
           Joining, Serving, UserID, history
  <2>4. OverfullOnlyRaced'
    BY DEF TypeOK, OverfullOnlyRaced, history
  <2>5. MembersAdmitted'
    BY DEF TypeOK, MembersAdmitted, MembersConnected, JoinsChecked, Admitted,
           Checked, PCs, Joining, Serving, UserID, history
  <2> QED
    BY <2>1, <2>2, <2>3, <2>4, <2>5
<1>10. ASSUME NEW c \in Conn, JoinCount(c)
      PROVE  Inv'
  <2> USE <1>10 DEF JoinCount, Step
  <2>0. Cardinality(rooms[arg[c]]) \in Nat
    BY MemberCount DEF TypeOK, Joining
  <2>1. TypeOK'
    BY <2>0 DEF TypeOK, PCs, Joining, Serving, Admitted, history
  <2>2. MembersConnected'
    BY DEF TypeOK, MembersConnected, PCs, Joining, Serving, history
  <2>3. JoinsChecked'
    BY <2>0 DEF TypeOK, JoinsChecked, Admitted, Checked, MembersConnected, PCs,
           Joining, Serving, UserID, history
  <2>4. OverfullOnlyRaced'
    BY DEF TypeOK, OverfullOnlyRaced, history
  <2>5. MembersAdmitted'
    BY DEF TypeOK, MembersAdmitted, MembersConnected, JoinsChecked, Admitted,
           Checked, PCs, Joining, Serving, UserID, history
  <2> QED
    BY <2>1, <2>2, <2>3, <2>4, <2>5
<1>11. ASSUME NEW c \in Conn, JoinLimit(c)
      PROVE  Inv'
  <2> USE <1>11 DEF JoinLimit, Return, Step
  <2>1. TypeOK'
    BY DEF TypeOK, PCs, Joining, Serving, Admitted, history
  <2>2. MembersConnected'
    BY DEF TypeOK, MembersConnected, PCs, Joining, Serving, history
  <2>3. JoinsChecked'
    BY DEF TypeOK, JoinsChecked, Admitted, Checked, MembersConnected, PCs,
           Joining, Serving, UserID, history
  <2>4. OverfullOnlyRaced'
    BY DEF TypeOK, OverfullOnlyRaced, history
  <2>5. MembersAdmitted'
    BY DEF TypeOK, MembersAdmitted, MembersConnected, JoinsChecked, Admitted,
           Checked, PCs, Joining, Serving, UserID, history
  <2> QED
    BY <2>1, <2>2, <2>3, <2>4, <2>5
<1>12. ASSUME NEW c \in Conn, JoinRoom(c)
      PROVE  Inv'
  <2> USE <1>12 DEF JoinRoom, Enter, Return, Step
  <2>1. TypeOK'
    BY DEF TypeOK, PCs, Joining, Serving, Admitted, history
  <2>2. MembersConnected'
    BY DEF TypeOK, MembersConnected, PCs, Joining, Serving, history
  <2>3. JoinsChecked'
    <3>1. ASSUME NEW d \in Conn, pc'[d] \in {"limit", "join"}, d \notin raced'
          PROVE  rooms'[arg'[d]] = rooms[arg[d]] /\ arg'[d] = arg[d]
                 /\ pc'[d] = pc[d] /\ d \notin raced
      <4>1. d # c /\ arg'[d] = arg[d] /\ pc'[d] = pc[d] /\ d \notin raced
        BY <3>1 DEF TypeOK
      <4>2. CASE arg[d] # arg[c]
        BY <4>1, <4>2 DEF TypeOK
      <4>3. CASE arg[d] = arg[c]
        <5>1. c \in rooms[arg[c]] /\ arg[c] \in Room
          BY <3>1, <4>1, <4>3 DEF TypeOK, Joining
        <5>2. rooms[arg[c]] \cup {c} = rooms[arg[c]]
          BY <5>1
        <5> QED
          BY <4>1, <4>3, <5>1, <5>2 DEF TypeOK
      <4> QED
        BY <4>1, <4>2, <4>3
    <3>2. ASSUME NEW d \in Conn, pc'[d] \in {"limit", "join"}, d \notin raced'
          PROVE  Cardinality(rooms'[arg'[d]]) <= count'[d]
      BY <3>1, <3>2 DEF TypeOK, JoinsChecked
    <3> QED
      BY <3>2 DEF TypeOK, JoinsChecked, Admitted, Joining, Serving, UserID
  <2>4. OverfullOnlyRaced'
    <3> SUFFICES ASSUME NEW x \in Room
                 PROVE  acl'[x] # NoACL /\ acl'[x].max > 0 =>
                          Cardinality(rooms'[x] \ uncounted'[x]) <= acl'[x].max
      BY DEF OverfullOnlyRaced
    <3>1. CASE x = arg[c] /\ c \notin raced
      <4> SUFFICES ASSUME acl[x] # NoACL, acl[x].max > 0
                   PROVE  Cardinality(rooms'[x] \ uncounted'[x]) <= acl[x].max
        OBVIOUS
      <4>1. /\ Cardinality(rooms[x]) <= count[c]
            /\ count[c] < acl[x].max
            /\ count[c] \in Nat /\ acl[x].max \in Int
        BY <3>1 DEF TypeOK, JoinsChecked, CheckMaxMembers
      <4>2. /\ rooms[x] \in SUBSET Conn
            /\ rooms'[x] = rooms[x] \cup {c}
            /\ rooms'[x] \in SUBSET Conn
            /\ (rooms'[x] \ uncounted'[x]) \in SUBSET rooms'[x]
        BY <3>1 DEF TypeOK
      <4>3. /\ Cardinality(rooms[x]) \in Nat
            /\ Cardinality(rooms'[x]) <= Cardinality(rooms[x]) + 1
        BY <4>2, MemberCount
      <4>4. /\ Cardinality(rooms'[x]) \in Nat
            /\ Cardinality(rooms'[x] \ uncounted'[x]) <= Cardinality(rooms'[x])
        BY <4>2, MemberCount
      <4>5. Cardinality(rooms'[x] \ uncounted'[x]) \in Nat
        BY <4>2, MemberCount
      <4> QED
        BY <4>1, <4>2, <4>3, <4>4, <4>5
    <3>2. CASE ~(x = arg[c] /\ c \notin raced)
      <4>1. (rooms'[x] \ uncounted'[x]) \subseteq (rooms[x] \ uncounted[x])
        BY <3>2 DEF TypeOK
      <4> QED
        BY <4>1, NoNewMember
    <3> QED
      BY <3>1, <3>2
  <2>5. MembersAdmitted'
    BY DEF TypeOK, MembersAdmitted, MembersConnected, JoinsChecked, Admitted,
           Checked, PCs, Joining, Serving, UserID, history
  <2> QED
    BY <2>1, <2>2, <2>3, <2>4, <2>5
<1>13. ASSUME NEW c \in Conn, NEW r \in Room, LeaveRoom(c, r)
      PROVE  Inv'
  <2> USE <1>13 DEF LeaveRoom, Exit
  <2>1. TypeOK'
    BY DEF TypeOK, PCs, Joining, Serving, Admitted, history
  <2>2. MembersConnected'
    BY DEF TypeOK, MembersConnected, PCs, Joining, Serving, history
  <2>3. JoinsChecked'
    <3>1. ASSUME NEW x \in Room
          PROVE  /\ Cardinality(rooms[x]) \in Nat
                 /\ Cardinality(rooms'[x]) \in Nat
                 /\ Cardinality(rooms'[x]) <= Cardinality(rooms[x])
      <4>1. rooms[x] \in SUBSET Conn /\ rooms'[x] \in SUBSET rooms[x]
        BY DEF TypeOK
      <4>2. rooms'[x] \in SUBSET Conn
        BY <4>1
      <4> QED
        BY <4>1, <4>2, MemberCount
    <3>2. /\ pc' = pc /\ arg' = arg /\ count' = count /\ raced' = raced
          /\ acl' = acl /\ claims' = claims /\ pc[c] = "on"
      OBVIOUS
    <3>3. \A x \in Room, d \in Conn \ {c} : d \in stale'[x] <=> d \in stale[x]
      BY DEF TypeOK
    <3> HIDE <1>13 DEF LeaveRoom, Exit
    <3>4. ASSUME NEW d \in Conn, pc[d] \in {"limit", "join"}, d \notin raced
          PROVE  Cardinality(rooms'[arg[d]]) <= count[d]
      BY <3>1, <3>4 DEF TypeOK, JoinsChecked, Joining
    <3>5. ASSUME NEW x \in Room, NEW d \in Admitted(x) \ stale'[x]
          PROVE  d \in Conn /\ CanJoin(acl[x], APIKey[d], UserID(d))
      BY <3>2, <3>3, <3>5 DEF TypeOK, JoinsChecked, Admitted, Joining
    <3> QED
      BY <3>2, <3>4, <3>5
      DEF TypeOK, JoinsChecked, Admitted, Joining, Serving, UserID
  <2>4. OverfullOnlyRaced'
    <3> SUFFICES ASSUME NEW x \in Room
                 PROVE  acl'[x] # NoACL /\ acl'[x].max > 0 =>
                          Cardinality(rooms'[x] \ uncounted'[x]) <= acl'[x].max
      BY DEF OverfullOnlyRaced
    <3>1. (rooms'[x] \ uncounted'[x]) \subseteq (rooms[x] \ uncounted[x])
      BY DEF TypeOK
    <3> QED
      BY <3>1, NoNewMember
  <2>5. MembersAdmitted'
    BY DEF TypeOK, MembersAdmitted, MembersConnected, JoinsChecked, Admitted,
           Checked, PCs, Joining, Serving, UserID, history
  <2> QED
    BY <2>1, <2>2, <2>3, <2>4, <2>5
<1>14. ASSUME NEW c \in Conn, NEW r \in Room, RoomMessage(c, r)
      PROVE  Inv'
  <2> USE <1>14 DEF RoomMessage, Step
  <2>1. TypeOK'
    BY DEF TypeOK, PCs, Joining, Serving, Admitted, history
  <2>2. MembersConnected'
    BY DEF TypeOK, MembersConnected, PCs, Joining, Serving, history
  <2>3. JoinsChecked'
    BY DEF TypeOK, JoinsChecked, Admitted, Checked, MembersConnected, PCs,
           Joining, Serving, UserID, history
  <2>4. OverfullOnlyRaced'
    BY DEF TypeOK, OverfullOnlyRaced, history
  <2>5. MembersAdmitted'
    BY DEF TypeOK, MembersAdmitted, MembersConnected, JoinsChecked, Admitted,
           Checked, PCs, Joining, Serving, UserID, history
  <2> QED
    BY <2>1, <2>2, <2>3, <2>4, <2>5
<1>15. ASSUME NEW c \in Conn, BroadcastToRoom(c)
      PROVE  Inv'
  <2> USE <1>15 DEF BroadcastToRoom, Return, Step
  <2>1. TypeOK'
    BY DEF TypeOK, PCs, Joining, Serving, Admitted, history
  <2>2. MembersConnected'
    BY DEF TypeOK, MembersConnected, PCs, Joining, Serving, history
  <2>3. JoinsChecked'
    BY DEF TypeOK, JoinsChecked, Admitted, Checked, MembersConnected, PCs,
           Joining, Serving, UserID, history
  <2>4. OverfullOnlyRaced'
    BY DEF TypeOK, OverfullOnlyRaced, history
  <2>5. MembersAdmitted'
    BY DEF TypeOK, MembersAdmitted, MembersConnected, JoinsChecked, Admitted,
           Checked, PCs, Joining, Serving, UserID, history
  <2> QED
    BY <2>1, <2>2, <2>3, <2>4, <2>5
<1>16. ASSUME NEW c \in Conn, Unregister(c)
      PROVE  Inv'
  <2> USE <1>16 DEF Unregister, Exit, Step
  <2>1. TypeOK'
    BY DEF TypeOK, PCs, Joining, Serving, Admitted, history
  <2>2. MembersConnected'
    BY DEF TypeOK, MembersConnected, PCs, Joining, Serving, history
  <2>3. JoinsChecked'
    <3>1. ASSUME NEW x \in Room
          PROVE  /\ Cardinality(rooms[x]) \in Nat
                 /\ Cardinality(rooms'[x]) \in Nat
                 /\ Cardinality(rooms'[x]) <= Cardinality(rooms[x])
      <4>1. rooms[x] \in SUBSET Conn /\ rooms'[x] \in SUBSET rooms[x]
        BY DEF TypeOK
      <4>2. rooms'[x] \in SUBSET Conn
        BY <4>1
      <4> QED
        BY <4>1, <4>2, MemberCount
    <3> QED
      BY <3>1 DEF TypeOK, JoinsChecked, Admitted, Joining, Serving, UserID
  <2>4. OverfullOnlyRaced'
    <3> SUFFICES ASSUME NEW x \in Room
                 PROVE  acl'[x] # NoACL /\ acl'[x].max > 0 =>
                          Cardinality(rooms'[x] \ uncounted'[x]) <= acl'[x].max
      BY DEF OverfullOnlyRaced
    <3>1. (rooms'[x] \ uncounted'[x]) \subseteq (rooms[x] \ uncounted[x])
      BY DEF TypeOK
    <3> QED
      BY <3>1, NoNewMember
  <2>5. MembersAdmitted'
    BY DEF TypeOK, MembersAdmitted, MembersConnected, JoinsChecked, Admitted,
           Checked, PCs, Joining, Serving, UserID, history
  <2> QED
    BY <2>1, <2>2, <2>3, <2>4, <2>5
<1>17. ASSUME NEW c \in Conn, Recycle(c)
      PROVE  Inv'
  <2> USE <1>17 DEF Recycle, Step
  <2>1. TypeOK'
    BY DEF TypeOK, PCs, Joining, Serving, Admitted, history
  <2>2. MembersConnected'
    BY DEF TypeOK, MembersConnected, PCs, Joining, Serving, history
  <2>3. JoinsChecked'
    BY DEF TypeOK, JoinsChecked, Admitted, Checked, MembersConnected, PCs,
           Joining, Serving, UserID, history
  <2>4. OverfullOnlyRaced'
    BY DEF TypeOK, OverfullOnlyRaced, history
  <2>5. MembersAdmitted'
    BY DEF TypeOK, MembersAdmitted, MembersConnected, JoinsChecked, Admitted,
           Checked, PCs, Joining, Serving, UserID, history
  <2> QED
    BY <2>1, <2>2, <2>3, <2>4, <2>5
<1>18. CASE UNCHANGED vars
  BY <1>18 DEF vars, history, TypeOK, MembersConnected, JoinsChecked, Admitted,
             OverfullOnlyRaced, MembersAdmitted, UserID
<1> QED
  BY <1>1, <1>2, <1>3, <1>4, <1>5, <1>6, <1>7, <1>8, <1>9, <1>10, <1>11, <1>12, <1>13, <1>14, <1>15, <1>16, <1>17, <1>18
  DEF Next, Manage, ServeWS, ReadPump

\* The invariant holds in every behaviour.
THEOREM InvHolds == Spec => []Inv
  BY InitInv, NextInv, PTL DEF Spec

\* TypeOK: the variables keep their types.
THEOREM TypeCorrect == Spec => []TypeOK
  BY InvHolds, PTL DEF Inv

\* OverfullOnlyRaced: the member limit of /acl, for any number of members.
THEOREM LimitHolds == Spec => []OverfullOnlyRaced
  BY InvHolds, PTL DEF Inv

\* MembersAdmitted: what CanJoin, CanWrite and the token's claims keep.
THEOREM AdmissionHolds == Spec => []MembersAdmitted
  BY InvHolds, PTL DEF Inv
=============================================================================
