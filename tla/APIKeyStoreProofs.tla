------------------------- MODULE APIKeyStoreProofs -------------------------
(* Proofs about APIKeyStore, for any keys and any number of requests. *)
EXTENDS APIKeyStore, FiniteSetTheorems, TLAPS

(***************************************************************************)
(* Typing.                                                                 *)
(***************************************************************************)

\* The length of a saved file is a natural number.
LEMMA SizeType == ASSUME NEW m PROVE Size(m) \in Nat
<1>1. IsFiniteSet(Present(m)) /\ IsFiniteSet(Inactive(m))
  BY StoreConstants, FS_Subset DEF Present, Inactive
<1>2. Cardinality(Present(m)) \in Nat /\ Cardinality(Inactive(m)) \in Nat
  BY <1>1, FS_CardinalityType
<1> QED
  BY <1>2 DEF Size

\* The empty store satisfies the invariant.
LEMMA InitInv == Init => Inv
<1> SUFFICES ASSUME Init PROVE Inv
  OBVIOUS
<1>1. TypeOK
  BY StoreConstants DEF Init, TypeOK, Contents, Empty
<1>2. Present(keys) = {}
  BY DEF Init, Present, Empty
<1>3. Engaged /\ SnapsBehind /\ FileBehind /\ RevokedStays
  BY <1>2 DEF Init, Engaged, SnapsBehind, Saving, FileBehind, RevokedStays
<1>4. DiskFollows /\ DiskBehind
  BY DEF Init, DiskFollows, DiskBehind
<1> QED
  BY <1>1, <1>3, <1>4 DEF Inv

\* Every step of a request, and a restart, keeps the types.
LEMMA NextTypeOK ==
    ASSUME TypeOK, Engaged, Next
    PROVE  TypeOK'
<1> USE StoreConstants
    DEF TypeOK, Contents, Empty, memVars, reqVars, toldVars
<1>1. ASSUME NEW w \in Request, NEW k \in Key, GenerateKey(w, k) PROVE TypeOK'
  BY <1>1 DEF GenerateKey, Starts
<1>2. ASSUME NEW w \in Request, NEW k \in Key, NEW status \in {"active", "revoked"},
             Change(w, k, status)
      PROVE  TypeOK'
  BY <1>2 DEF Change, Starts
<1>3. ASSUME NEW w \in Request, Marshal(w) PROVE TypeOK'
  BY <1>3 DEF Marshal
<1>4. ASSUME NEW w \in Request, Open(w) PROVE TypeOK'
  BY <1>4 DEF Open
<1>5. ASSUME NEW w \in Request, req[w] # "idle", Answer(w),
             file' \in [map : Contents \cup {NoMap}, len : Nat],
             unsaved' \in {unsaved, unsaved \cup {target[w]}}
      PROVE  TypeOK'
  <2>1. target[w] \in Key
    BY <1>5 DEF Engaged
  <2> QED
    BY <1>5, <2>1 DEF Answer
<1>6. ASSUME NEW w \in Request, Write(w) PROVE TypeOK'
  <2>1. Size(snap[w]) \in Nat
    BY SizeType
  <2>2. file' \in [map : Contents \cup {NoMap}, len : Nat]
    BY <1>6, <2>1 DEF Write
  <2> QED
    BY <1>5, <1>6, <2>2 DEF Write
<1>7. ASSUME NEW w \in Request, SaveError(w) PROVE TypeOK'
  <2>1. Size(snap[w]) \in Nat
    BY SizeType
  <2>2. file' \in [map : Contents \cup {NoMap}, len : Nat]
    BY <1>7, <2>1 DEF SaveError
  <2> QED
    BY <1>5, <1>7, <2>2 DEF SaveError
<1>8. CASE Crash
  BY <1>8 DEF Crash
<1>9. CASE Restart
  BY <1>9 DEF Restart
<1>10. CASE RestartBlind
  BY <1>10 DEF RestartBlind
<1> QED
  <2> HIDE DEF TypeOK
  <2> QED
    BY <1>1, <1>2, <1>3, <1>4, <1>6, <1>7, <1>8, <1>9, <1>10 DEF Next, Update, Revoke

(***************************************************************************)
(* Memory and disk.                                                        *)
(***************************************************************************)

\* Every step keeps memory and disk together as far as Inv says.
LEMMA NextInv ==
    ASSUME Inv, Next
    PROVE  Inv'
<1>0. TypeOK'
  BY NextTypeOK DEF Inv
<1>t. /\ keys \in [Key -> {"absent", "active", "revoked"}]
      /\ req \in [Request -> {"idle", "marshal", "open", "write"}]
      /\ snap \in [Request -> [Key -> {"absent", "active", "revoked"}]]
      /\ target \in [Request -> Key \cup {Nobody}]
      /\ created \subseteq Key /\ revoked \subseteq Key /\ issued \subseteq Key
      /\ unsaved \subseteq Key /\ unread \in BOOLEAN /\ up \in BOOLEAN
      /\ NoMap \notin [Key -> {"absent", "active", "revoked"}]
      /\ file.map \in [Key -> {"absent", "active", "revoked"}] \cup {NoMap}
      /\ Nobody \notin Request
  BY StoreConstants DEF Inv, TypeOK, Contents
<1>i. Engaged /\ SnapsBehind /\ FileBehind /\ DiskFollows /\ DiskBehind /\ RevokedStays
  BY DEF Inv
<1> DEFINE Goal == /\ Engaged' /\ SnapsBehind' /\ FileBehind'
                   /\ DiskFollows' /\ DiskBehind' /\ RevokedStays'
<1> USE <1>t, <1>i DEF memVars, reqVars, toldVars, Present, Empty, Saving
<1>1. ASSUME NEW w \in Request, NEW k \in Key, GenerateKey(w, k) PROVE Goal
  <2> USE <1>1 DEF GenerateKey, Starts
  <2>1. Engaged' /\ SnapsBehind'
    BY DEF Engaged, SnapsBehind
  <2>2. FileBehind'
    BY DEF FileBehind
  <2>3. DiskFollows' /\ DiskBehind'
    BY DEF DiskFollows, DiskBehind, Quiet
  <2>4. RevokedStays'
    BY DEF RevokedStays, Engaged
  <2> QED
    BY <2>1, <2>2, <2>3, <2>4
<1>2. ASSUME NEW w \in Request, NEW k \in Key, NEW status \in {"active", "revoked"},
             Change(w, k, status)
      PROVE  Goal
  <2> USE <1>2 DEF Change, Starts
  <2>1. Engaged' /\ SnapsBehind'
    BY DEF Engaged, SnapsBehind
  <2>2. FileBehind'
    BY DEF FileBehind
  <2>3. DiskFollows' /\ DiskBehind'
    BY DEF DiskFollows, DiskBehind, Quiet
  <2>4. RevokedStays'
    BY DEF RevokedStays
  <2> QED
    BY <2>1, <2>2, <2>3, <2>4
<1>3. ASSUME NEW w \in Request, Marshal(w) PROVE Goal
  BY <1>3
  DEF Marshal, Engaged, SnapsBehind, FileBehind, DiskFollows, DiskBehind, Quiet,
      RevokedStays
<1>4. ASSUME NEW w \in Request, Open(w) PROVE Goal
  <2>1. file'.map = NoMap
    BY <1>4 DEF Open
  <2> QED
    BY <1>4, <2>1
    DEF Open, Engaged, SnapsBehind, FileBehind, DiskFollows, DiskBehind, Quiet,
        RevokedStays
<1>5. ASSUME NEW w \in Request, Write(w) PROVE Goal
  <2>1. file'.map \in {snap[w], NoMap}
    BY <1>5 DEF Write, Inv, TypeOK
  <2> USE <1>5 DEF Write, Answer
  <2>2. Engaged' /\ SnapsBehind' /\ RevokedStays'
    BY <2>1 DEF Engaged, SnapsBehind, RevokedStays
  <2>3. FileBehind'
    <3>1. /\ w \in Saving /\ UNCHANGED <<keys, unsaved>>
          /\ \A k \in revoked' \ unsaved : keys[k] # "active"
      BY DEF RevokedStays
    <3>2. \A k \in Key \ unsaved : snap[w][k] = keys[k]
      BY <3>1 DEF SnapsBehind
    <3> QED
      BY <2>1, <3>1, <3>2 DEF FileBehind
  <2>4. DiskFollows' /\ DiskBehind'
    BY <2>1 DEF DiskFollows, DiskBehind, FileBehind, SnapsBehind
  <2> QED
    BY <2>2, <2>3, <2>4
<1>6. ASSUME NEW w \in Request, SaveError(w) PROVE Goal
  <2>1. /\ req[w] \in {"open", "write"} /\ Answer(w)
        /\ unsaved' = unsaved \cup {target[w]}
        /\ file' = file \/ file'.map = NoMap
    BY <1>6 DEF SaveError
  <2> USE <2>1 DEF Answer
  <2>2. Engaged' /\ SnapsBehind' /\ RevokedStays'
    BY DEF Engaged, SnapsBehind, RevokedStays
  <2>3. FileBehind'
    BY DEF FileBehind, RevokedStays
  <2>4. DiskFollows' /\ DiskBehind'
    BY <2>3 DEF DiskFollows, DiskBehind, FileBehind, Quiet
  <2> QED
    BY <2>2, <2>3, <2>4
<1>7. ASSUME Crash PROVE Goal
  <2>1. /\ ~up' /\ keys' = [k \in Key |-> "absent"]
        /\ req' = [w \in Request |-> "idle"]
        /\ UNCHANGED <<snap, issued, created, revoked, file, unsaved>>
    BY <1>7 DEF Crash
  <2>2. Engaged' /\ SnapsBehind'
    BY <2>1 DEF Engaged, SnapsBehind
  <2>3. FileBehind' /\ RevokedStays'
    BY <2>1 DEF FileBehind, RevokedStays
  <2>4. DiskFollows' /\ DiskBehind'
    BY <2>1 DEF DiskFollows, DiskBehind
  <2> QED
    BY <2>2, <2>3, <2>4
<1>8. ASSUME Restart \/ RestartBlind PROVE Goal
  <2>1. /\ ~up /\ up'
        /\ \/ /\ unread' /\ keys' = [k \in Key |-> "absent"]
           \/ keys' = IF file.map = NoMap THEN [k \in Key |-> "absent"] ELSE file.map
        /\ UNCHANGED <<req, snap, target, issued, created, revoked, file, unsaved>>
    BY <1>8 DEF Restart, RestartBlind, Engaged
  <2>2. \A w \in Request : req[w] = "idle"
    BY <2>1 DEF Engaged
  <2>3. Engaged' /\ SnapsBehind'
    BY <2>1, <2>2 DEF Engaged, SnapsBehind
  <2>4. FileBehind' /\ RevokedStays'
    BY <2>1, <2>2 DEF FileBehind, RevokedStays
  <2>5. DiskFollows' /\ DiskBehind'
    BY <2>1 DEF DiskFollows, DiskBehind
  <2> QED
    BY <2>3, <2>4, <2>5
<1> HIDE DEF Goal
<1>9. Goal
  BY <1>1, <1>2, <1>3, <1>4, <1>5, <1>6, <1>7, <1>8 DEF Next, Update, Revoke
<1> QED
  BY <1>0, <1>9 DEF Goal, Inv

\* The inductive invariant holds in every state, crashes included.
THEOREM Invariance == Spec => []Inv
<1>1. Inv /\ [Next]_vars => Inv'
  <2>1. ASSUME Inv, UNCHANGED vars PROVE Inv'
    BY <2>1
    DEF vars, memVars, reqVars, toldVars, Inv, TypeOK, Engaged, SnapsBehind,
        FileBehind, DiskFollows, DiskBehind, Quiet, RevokedStays, Saving
  <2> QED
    BY <2>1, NextInv
<1> QED
  BY <1>1, InitInv, PTL DEF Spec

\* For any keys and requests, the types hold whatever overlaps: a saved file
\* has a length, and a snapshot is a map of the store.
THEOREM TypeCorrect == Spec => []TypeOK
BY Invariance, PTL DEF Inv

\* For any keys and requests, and failures anywhere, memory and disk come apart
\* only for a key with a change that was not saved or that met an unlocked
\* save, and in a process that could not read the file when it started.
THEOREM DiskFollowsHolds == Spec => []DiskFollows
BY Invariance, PTL DEF Inv

\* For any keys and requests, however their saves overlap or fail, the file
\* never has a key that a running process that has read it does not know.
THEOREM DiskBehindHolds == Spec => []DiskBehind
BY Invariance, PTL DEF Inv

\* For any keys and requests, and a crash anywhere, an answered revocation is
\* undone only if a change of the same key failed to be saved or met an
\* unlocked save.
THEOREM RevokedStaysHolds == Spec => []RevokedStays
BY Invariance, PTL DEF Inv
=============================================================================
