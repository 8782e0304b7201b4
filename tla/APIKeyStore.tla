---------------------------- MODULE APIKeyStore ----------------------------
(***************************************************************************)
(* The API keys of the Go broker in memory and in data/api_keys.json, as   *)
(* concurrent requests change and save them, and as the process dies and   *)
(* starts again.                                                           *)
(*                                                                         *)
(* Update and Revoke save while they hold the store's lock.  GenerateKey   *)
(* saves after it has released it, so its save runs beside other requests. *)
(* os.WriteFile truncates the file and then writes it: these are two       *)
(* steps, each writer has its own offset, and the process may die between  *)
(* them.                                                                   *)
(***************************************************************************)
EXTENDS Integers, FiniteSets

CONSTANTS Key,       \* the keys GenerateRandomKey can return
          Request,   \* goroutines that serve key management requests
          Nobody,    \* the lock is free
          NoMap,     \* bytes that json.Unmarshal rejects
          DiskFails  \* whether reading and writing the file can fail

ASSUME StoreConstants ==
    /\ IsFiniteSet(Key)
    /\ Nobody \notin Request
    /\ NoMap \notin [Key -> {"absent", "active", "revoked"}]
    /\ DiskFails \in BOOLEAN

VARIABLES
    keys,     \* APIKeyStore.keys, "revoked" for Active = false
    lock,     \* who holds APIKeyStore.mu from one step to the next
    req,      \* progress of each request
    snap,     \* the bytes json.MarshalIndent gave a request
    target,   \* the key a request is about
    file,     \* api_keys.json: what it parses to, and its length
    up,       \* the process runs
    issued,   \* every key ever generated
    created,  \* the keys whose creation a client has been told of
    revoked,  \* the keys whose revocation it was told of last
    unsaved,  \* history: keys with a change that its own save did not write, or
              \* that was made when another request had its bytes ready
    unread    \* the process runs without having been able to read the file

memVars == <<keys, lock>>
reqVars == <<req, snap, target>>
toldVars == <<issued, created, revoked>>
vars == <<memVars, reqVars, toldVars, file, up, unsaved, unread>>

Contents == [Key -> {"absent", "active", "revoked"}]
Empty == [k \in Key |-> "absent"]

\* The type of the state.
TypeOK ==
    /\ keys \in Contents
    /\ lock \in Request \cup {Nobody}
    /\ req \in [Request -> {"idle", "marshal", "open", "write"}]
    /\ snap \in [Request -> Contents]
    /\ target \in [Request -> Key \cup {Nobody}]
    /\ file \in [map : Contents \cup {NoMap}, len : Nat]
    /\ up \in BOOLEAN
    /\ issued \in SUBSET Key
    /\ created \in SUBSET Key
    /\ revoked \in SUBSET Key
    /\ unsaved \in SUBSET Key
    /\ unread \in BOOLEAN

Init ==
    /\ keys = Empty
    /\ lock = Nobody
    /\ req = [w \in Request |-> "idle"]
    /\ snap = [w \in Request |-> Empty]
    /\ target = [w \in Request |-> Nobody]
    /\ file = [map |-> Empty, len |-> 0]
    /\ up = TRUE
    /\ issued = {}
    /\ created = {}
    /\ revoked = {}
    /\ unsaved = {}
    /\ unread = FALSE

-----------------------------------------------------------------------------
(* Requests.                                                               *)

Present(m) == {k \in Key : m[k] # "absent"}
Inactive(m) == {k \in Key : m[k] = "revoked"}

\* The length of the JSON text of a map: an entry has the same text whoever
\* writes it but for "active", where false is a byte longer than true.
Size(m) == 2 * Cardinality(Present(m)) + Cardinality(Inactive(m))

Saving == {w \in Request : req[w] \in {"open", "write"}}

\* A request about key k takes the lock.  A save that is under way is one
\* without the lock, and its bytes do not have what is done to k now.
Starts(w, k) ==
    /\ up
    /\ req[w] = "idle"
    /\ lock = Nobody
    /\ unsaved' = IF Saving = {} THEN unsaved ELSE unsaved \cup {k}
    /\ UNCHANGED unread

\* GenerateKey up to Unlock.
GenerateKey(w, k) ==
    /\ Starts(w, k)
    /\ k \notin issued
    /\ keys' = [keys EXCEPT ![k] = "active"]
    /\ issued' = issued \cup {k}
    /\ req' = [req EXCEPT ![w] = "marshal"]
    /\ target' = [target EXCEPT ![w] = k]
    /\ UNCHANGED <<lock, snap, created, revoked, file, up>>

\* json.MarshalIndent in the save of GenerateKey, which reads the map without
\* the lock.  Met by an insertion it can end the process: see Crash.
Marshal(w) ==
    /\ req[w] = "marshal"
    /\ snap' = [snap EXCEPT ![w] = keys]
    /\ req' = [req EXCEPT ![w] = "open"]
    /\ UNCHANGED <<memVars, target, toldVars, file, up, unsaved, unread>>

\* A change of Active under the lock, up to the file.  The client names a key
\* it was given; List shows keys masked.
Change(w, k, status) ==
    /\ Starts(w, k)
    /\ k \in created /\ keys[k] # "absent"
    /\ keys' = [keys EXCEPT ![k] = status]
    /\ lock' = w
    /\ snap' = [snap EXCEPT ![w] = keys']
    /\ req' = [req EXCEPT ![w] = "open"]
    /\ target' = [target EXCEPT ![w] = k]
    /\ revoked' = IF status = "active" THEN revoked \ {k} ELSE revoked
    /\ UNCHANGED <<issued, created, file, up>>

\* Update, with or without an "active" field.
Update(w, k) ==
    \E status \in {"active", "revoked"} : Change(w, k, status)

\* Mutant: the change is marshalled before it is made.
RevokeSavesFirst(w, k) ==
    /\ Starts(w, k)
    /\ k \in created /\ keys[k] # "absent"
    /\ keys' = [keys EXCEPT ![k] = "revoked"]
    /\ lock' = w
    /\ snap' = [snap EXCEPT ![w] = keys]
    /\ req' = [req EXCEPT ![w] = "open"]
    /\ target' = [target EXCEPT ![w] = k]
    /\ UNCHANGED <<toldVars, file, up>>

\* Mutant: the change is not saved.
RevokeInMemory(w, k) ==
    /\ Starts(w, k)
    /\ k \in created /\ keys[k] # "absent"
    /\ keys' = [keys EXCEPT ![k] = "revoked"]
    /\ revoked' = revoked \cup {k}
    /\ UNCHANGED <<lock, reqVars, issued, created, file, up>>

\* Revoke.
Revoke(w, k) == Change(w, k, "revoked")

-----------------------------------------------------------------------------
(* os.WriteFile.                                                           *)

\* OpenFile with O_TRUNC.  From now on the file is this process's own.
Open(w) ==
    /\ req[w] = "open"
    /\ file' = [map |-> NoMap, len |-> 0]
    /\ req' = [req EXCEPT ![w] = "write"]
    /\ unread' = FALSE
    /\ UNCHANGED <<memVars, snap, target, toldVars, up, unsaved>>

\* The request is answered: the key is created, or inactive, or changed.
Answer(w) ==
    /\ req' = [req EXCEPT ![w] = "idle"]
    /\ target' = [target EXCEPT ![w] = Nobody]
    /\ lock' = IF lock = w THEN Nobody ELSE lock
    /\ created' = created \cup {target[w]}
    /\ revoked' = IF lock = w /\ keys[target[w]] = "revoked"
                  THEN revoked \cup {target[w]} ELSE revoked
    /\ UNCHANGED <<keys, snap, issued, up, unread>>

\* Write from offset 0, over whatever another writer has put there since, and
\* Close.
Write(w) ==
    /\ req[w] = "write"
    /\ file' = IF Size(snap[w]) >= file.len
               THEN [map |-> snap[w], len |-> Size(snap[w])]
               ELSE [file EXCEPT !.map = NoMap]
    /\ Answer(w)
    /\ UNCHANGED unsaved

\* The file cannot be opened, or the write ends early, with nothing written or
\* with a part of the text.  save logs it, and the client is answered.
SaveError(w) ==
    /\ DiskFails
    /\ \/ req[w] \in {"open", "write"} /\ UNCHANGED file
       \/ /\ req[w] = "write"
          /\ \E n \in 1..Size(snap[w]) - 1 :
                file' = [map |-> NoMap, len |-> IF n > file.len THEN n ELSE file.len]
    /\ Answer(w)
    /\ unsaved' = unsaved \cup {target[w]}

-----------------------------------------------------------------------------
(* The process.                                                            *)

\* The process is stopped, or dies: of another goroutine's panic, or of the
\* runtime's fatal "concurrent map iteration and map write".
Crash ==
    /\ up
    /\ up' = FALSE
    /\ keys' = Empty
    /\ lock' = Nobody
    /\ req' = [w \in Request |-> "idle"]
    /\ target' = [w \in Request |-> Nobody]
    /\ unread' = FALSE
    /\ UNCHANGED <<snap, toldVars, file, unsaved>>

\* Mutant: the result of a failed json.Unmarshal is used.
RestartUnchecked ==
    /\ ~up
    /\ up' = TRUE
    /\ keys' = file.map
    /\ UNCHANGED <<lock, reqVars, toldVars, file, unsaved, unread>>

\* Mutant: NewAPIKeyStore does not load.
RestartEmpty ==
    /\ ~up
    /\ up' = TRUE
    /\ UNCHANGED <<memVars, reqVars, toldVars, file, unsaved, unread>>

\* NewAPIKeyStore: load.  A file that is not there yet, or that does not parse,
\* gives an empty store.
Restart ==
    /\ ~up
    /\ up' = TRUE
    /\ keys' = IF file.map = NoMap THEN Empty ELSE file.map
    /\ UNCHANGED <<lock, reqVars, toldVars, file, unsaved, unread>>

\* The file is there and cannot be read.  load logs it, and the process runs
\* with an empty store.
RestartBlind ==
    /\ DiskFails
    /\ ~up
    /\ up' = TRUE
    /\ unread' = TRUE
    /\ UNCHANGED <<memVars, reqVars, toldVars, file, unsaved>>

Next ==
    \/ \E w \in Request, k \in Key :
          GenerateKey(w, k) \/ Update(w, k) \/ Revoke(w, k)
    \/ \E w \in Request : Marshal(w) \/ Open(w) \/ Write(w) \/ SaveError(w)
    \/ Crash
    \/ Restart
    \/ RestartBlind

Spec == Init /\ [][Next]_vars

-----------------------------------------------------------------------------
(* Properties.                                                             *)

Quiet == \A w \in Request : req[w] = "idle"

\* Whenever nothing is being saved the file has what memory has of a key,
\* whatever overlapped and wherever the process died before.  Memory and disk
\* come apart only for a key whose change came to a request that failed to
\* save it, or came between the marshalling and the write of GenerateKey's
\* unlocked save; and altogether only from a start that could not read the
\* file until the first save, which replaces it.
DiskFollows ==
    up /\ Quiet /\ ~unread /\ file.map # NoMap =>
        \A k \in Key \ unsaved : file.map[k] = keys[k]

\* Whatever requests overlap or fail, a file that parses holds no key that the
\* running process does not know, unless it could not read that file.
DiskBehind ==
    up /\ ~unread /\ file.map # NoMap => Present(file.map) \subseteq Present(keys)

\* Wherever the process dies, and whether it can read the file then or not, a
\* revocation that was answered is in force when it runs again, unless a
\* change of this key was not saved.
RevokedStays ==
    \A k \in revoked \ unsaved : keys[k] # "active"

-----------------------------------------------------------------------------
(* The invariant behind these, which is inductive.                         *)

\* Requests under way know their key, and end with the process; no key comes
\* from nowhere.
Engaged ==
    /\ \A w \in Request : req[w] # "idle" => up /\ target[w] \in issued
    /\ created \cup revoked \cup Present(keys) \subseteq issued
    /\ file.map # NoMap => Present(file.map) \subseteq issued
    /\ ~up => keys = Empty

\* What is about to be written never has more keys than memory, and has what
\* memory has of a key that no change has overtaken.
SnapsBehind ==
    \A w \in Saving :
        /\ Present(snap[w]) \subseteq Present(keys)
        /\ \A k \in Key \ unsaved : snap[w][k] = keys[k]

\* The file, if it parses, has of such a key what memory has, until a request
\* about it is through; and no answered revocation of one is undone in it.
FileBehind ==
    file.map # NoMap => \A k \in Key \ unsaved :
        /\ up /\ ~unread => \/ file.map[k] = keys[k]
                            \/ \E w \in Request : req[w] # "idle" /\ target[w] = k
        /\ k \in revoked => file.map[k] # "active"

Inv ==
    /\ TypeOK
    /\ Engaged
    /\ SnapsBehind
    /\ FileBehind
    /\ DiskFollows
    /\ DiskBehind
    /\ RevokedStays

=============================================================================
