----------------------------- MODULE Revocation -----------------------------
(***************************************************************************)
(* The hub together with the key store, as DELETE /api/keys/revoke sees    *)
(* them: Revoke, then Hub.DisconnectKey, with ServeWS checking the key     *)
(* well before the hub registers the connection.                           *)
(***************************************************************************)
EXTENDS Hub

VARIABLES
    active,  \* the keys APIKeyStore.Validate accepts
    revoke,  \* a revocation of each key: none, under way, or done and in force
    late     \* connections validated but not registered at a DisconnectKey

keyVars == <<active, revoke, late>>
allVars == <<vars, keyVars>>

\* The type of the key store's state.
KeyTypeOK ==
    /\ active \in SUBSET Key
    /\ revoke \in [Key -> {"idle", "dropping", "dropped"}]
    /\ late \in SUBSET Conn

RevInit ==
    /\ Init
    /\ active = Key
    /\ revoke = [k \in Key |-> "idle"]
    /\ late = {}

\* apiKeys.Validate at the start of ServeWS.
ValidateKey(c) ==
    /\ APIKey[c] \in active
    /\ Validate(c)
    /\ late' = late \ {c}
    /\ UNCHANGED <<active, revoke>>

\* APIKeyStore.Revoke, of an active key or of one already revoked.
Revoke(k) ==
    /\ active' = active \ {k}
    /\ revoke' = [revoke EXCEPT ![k] = "dropping"]
    /\ UNCHANGED <<vars, late>>

\* Hub.DisconnectKey.  The revocation is in force unless somebody has
\* reactivated the key meanwhile.
RevokeDisconnect(k) ==
    /\ revoke[k] = "dropping"
    /\ DisconnectKey(k)
    /\ revoke' = [revoke EXCEPT ![k] = IF k \in active THEN "idle" ELSE "dropped"]
    /\ late' = (late \ {c \in Registered : APIKey[c] = k})
                 \cup {c \in Conn : /\ APIKey[c] = k
                                     /\ serve[c] \in {"validated", "register", "stuck"}}
    /\ UNCHANGED active

\* PUT /api/keys/update with an "active" field; it disconnects nobody.
UpdateKey(k, isActive) ==
    /\ active' = IF isActive THEN active \cup {k} ELSE active \ {k}
    /\ revoke' = [revoke EXCEPT ![k] =
                    IF isActive /\ @ = "dropped" THEN "idle" ELSE @]
    /\ UNCHANGED <<vars, late>>

RevNext ==
    /\ panic = "none"
    /\ \/ \E c \in Conn : ValidateKey(c)
       \/ \E k \in Key : Revoke(k) \/ RevokeDisconnect(k)
       \/ \E k \in Key, isActive \in BOOLEAN : UpdateKey(k, isActive)
       \/ Broker /\ UNCHANGED keyVars

RevSpec == RevInit /\ [][RevNext]_allVars

-----------------------------------------------------------------------------
(* Properties.                                                             *)

\* With unique user ids, once a revocation is done the only open connections
\* of the key are on their way out or had passed Validate without being
\* registered when DisconnectKey looked.
RevokedOnlyLate ==
    UniqueIds => \A c \in up : revoke[APIKey[c]] = "dropped"
                                 => c \in late \/ reader[c] \in Leaving
=============================================================================
