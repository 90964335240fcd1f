-------------------------- MODULE MemoryTokenStore --------------------------
(***************************************************************************)
(* The credential half of MemoryTokenStore (auth/token_store.go): the map  *)
(* of issued access tokens and the index from refresh tokens to it.  Every *)
(* operation of the code runs under mu from its first line to its last, so *)
(* every operation is one action here.  OAuth states, authorization codes  *)
(* and registered clients live in maps of their own that no operation of   *)
(* this module reads; they are modelled in OAuthFlow.                      *)
(*                                                                         *)
(* Data.  A credential is a member of Access or Refresh (32 random bytes   *)
(* in the code), a moment is a natural number, and a Google token is the   *)
(* moment it expires, the only field of it that a guard reads.  Kind and   *)
(* the logging are left out.                                               *)
(***************************************************************************)
EXTENDS Integers

CONSTANTS
    Access,         \* access tokens (bearers)
    Refresh,        \* refresh tokens
    Client,         \* OAuth client ids
    NoAccess,       \* "" in refreshIndex: the refresh token is not indexed
    NoRefresh,      \* "" as a TokenInfo.RefreshToken
    NoToken,        \* no entry in the tokens map
    AccessTTL,      \* accessTokenTTL
    RefreshWindow,  \* 30 days in the code
    PurgeGrace,     \* the hour an expired entry is kept
    GoogleExpiry,   \* moments at which a caller's Google token may expire
    MaxTime         \* bound: the clock stops here

ASSUME StoreAssumption ==
    /\ NoAccess \notin Access
    /\ NoRefresh \notin Refresh
    /\ {AccessTTL, RefreshWindow, PurgeGrace, MaxTime} \subseteq Nat
    /\ GoogleExpiry \subseteq Nat
    /\ NoToken \notin [refresh : Refresh \cup {NoRefresh}, client : Client,
                       expiresAt : Nat, refreshExpiresAt : Nat,
                       google : Nat, createdAt : Nat]

VARIABLES
    tokens,         \* access token -> entry
    refreshIndex,   \* refresh token -> access token
    now,            \* time.Now()
    issuedAccess,   \* history: access tokens ever handed out
    issuedRefresh,  \* history: refresh tokens ever handed out
    spent,          \* history: refresh tokens given up in a committed rotation
    revoked         \* history: refresh tokens of entries removed by DeleteToken

storeVars == <<tokens, refreshIndex, issuedAccess, issuedRefresh, spent, revoked>>
vars == <<storeVars, now>>

-----------------------------------------------------------------------------
(* The entries.                                                            *)

TokenInfo ==
    [refresh : Refresh \cup {NoRefresh}, client : Client, expiresAt : Nat,
     refreshExpiresAt : Nat, google : Nat, createdAt : Nat]

\* The entry the token endpoint builds for a new pair of credentials.
NewTokenInfo(r, c, g) ==
    [refresh |-> r, client |-> c, expiresAt |-> now + AccessTTL,
     refreshExpiresAt |-> now + RefreshWindow, google |-> g, createdAt |-> now]

Stored(a) == tokens[a] # NoToken

\* GetTokenByAccess: ErrTokenNotFound, ErrTokenExpired or the entry.
FoundByAccess(a) == Stored(a) /\ ~(now > tokens[a].expiresAt)

\* GetTokenByRefresh.  It trusts the index: the entry's own refresh token is
\* not compared with the one presented.
FoundByRefresh(r) ==
    /\ refreshIndex[r] # NoAccess
    /\ Stored(refreshIndex[r])
    /\ ~(now > tokens[refreshIndex[r]].refreshExpiresAt)

\* rotationPredecessorLocked, first half: r names an entry that may rotate.
Rotatable(r) ==
    /\ refreshIndex[r] # NoAccess
    /\ Stored(refreshIndex[r])
    /\ tokens[refreshIndex[r]].refresh = r
    /\ now < tokens[refreshIndex[r]].refreshExpiresAt

\* rotationPredecessorLocked, second half: the successor is acceptable.
SuccessorOK_NoCollisionCheck(r, a2, info) ==
    /\ info.refresh # NoRefresh
    /\ info.client = tokens[refreshIndex[r]].client
    /\ ~Stored(a2)

SuccessorOK(r, a2, info) ==
    /\ info.refresh # NoRefresh
    /\ info.client = tokens[refreshIndex[r]].client
    /\ ~Stored(a2)
    /\ refreshIndex[info.refresh] = NoAccess

\* Delete entry a: DeleteToken and purgeExpired also drop the index entry.
Unindexed(index, doomed) ==
    [r \in Refresh |->
        IF \E a \in doomed : tokens[a].refresh = r THEN NoAccess ELSE index[r]]

Without(doomed) == [a \in Access |-> IF a \in doomed THEN NoToken ELSE tokens[a]]

-----------------------------------------------------------------------------
Init ==
    /\ tokens = [a \in Access |-> NoToken]
    /\ refreshIndex = [r \in Refresh |-> NoAccess]
    /\ now = 0
    /\ issuedAccess = {}
    /\ issuedRefresh = {}
    /\ spent = {}
    /\ revoked = {}

(***************************************************************************)
(* StoreToken, as the authorization_code grant calls it: with credentials  *)
(* GenerateToken has just produced.                                        *)
(***************************************************************************)
StoreToken(a, info) ==
    /\ a \notin issuedAccess
    /\ info.refresh \notin issuedRefresh
    /\ tokens' = [tokens EXCEPT ![a] = info]
    /\ refreshIndex' = IF info.refresh = NoRefresh THEN refreshIndex
                       ELSE [refreshIndex EXCEPT ![info.refresh] = a]
    /\ issuedAccess' = issuedAccess \cup {a}
    /\ issuedRefresh' = issuedRefresh \cup ({info.refresh} \ {NoRefresh})
    /\ UNCHANGED <<now, spent, revoked>>

(***************************************************************************)
(* RotateToken when every check passes.  The successor is either freshly   *)
(* generated or collides with credentials in use; the checks of            *)
(* SuccessorOK exist for the second case.                                  *)
(***************************************************************************)
\* The predecessor keeps its entry and its index.
RotateToken_KeepOldEntry(r, a2, info) ==
    /\ Rotatable(r)
    /\ SuccessorOK(r, a2, info)
    /\ tokens' = [tokens EXCEPT ![a2] = info]
    /\ refreshIndex' = [refreshIndex EXCEPT ![info.refresh] = a2]
    /\ issuedAccess' = issuedAccess \cup {a2}
    /\ issuedRefresh' = issuedRefresh \cup {info.refresh}
    /\ spent' = spent \cup {r}
    /\ UNCHANGED <<now, revoked>>

\* The index is given the refresh token in place of the access token.
RotateToken_IndexSwapped(r, a2, info) ==
    /\ Rotatable(r)
    /\ SuccessorOK(r, a2, info)
    /\ tokens' = [tokens EXCEPT ![refreshIndex[r]] = NoToken, ![a2] = info]
    /\ refreshIndex' = [refreshIndex EXCEPT ![r] = NoAccess, ![info.refresh] = info.refresh]
    /\ issuedAccess' = issuedAccess \cup {a2}
    /\ issuedRefresh' = issuedRefresh \cup {info.refresh}
    /\ spent' = spent \cup {r}
    /\ UNCHANGED <<now, revoked>>

RotateToken(r, a2, info) ==
    /\ Rotatable(r)
    /\ SuccessorOK(r, a2, info)
    /\ tokens' = [tokens EXCEPT ![refreshIndex[r]] = NoToken, ![a2] = info]
    /\ refreshIndex' = [refreshIndex EXCEPT ![r] = NoAccess, ![info.refresh] = a2]
    /\ issuedAccess' = issuedAccess \cup {a2}
    /\ issuedRefresh' = issuedRefresh \cup {info.refresh}
    /\ spent' = spent \cup {r}
    /\ UNCHANGED <<now, revoked>>

\* The index entry is left behind.
DeleteToken_IndexLeft(a) ==
    /\ Stored(a)
    /\ tokens' = Without({a})
    /\ revoked' = revoked \cup ({tokens[a].refresh} \ {NoRefresh})
    /\ UNCHANGED <<now, refreshIndex, issuedAccess, issuedRefresh, spent>>

DeleteToken(a) ==
    /\ Stored(a)
    /\ tokens' = Without({a})
    /\ refreshIndex' = Unindexed(refreshIndex, {a})
    /\ revoked' = revoked \cup ({tokens[a].refresh} \ {NoRefresh})
    /\ UNCHANGED <<now, issuedAccess, issuedRefresh, spent>>

UpdateGoogleToken(a, g) ==
    /\ Stored(a)
    /\ tokens' = [tokens EXCEPT ![a].google = g]
    /\ UNCHANGED <<now, refreshIndex, issuedAccess, issuedRefresh, spent, revoked>>

\* A renewal that opens the refresh window again.
ExtendTokenExpiry_Window(a, t) ==
    /\ Stored(a)
    /\ tokens' = [tokens EXCEPT ![a].expiresAt = t, ![a].refreshExpiresAt = t]
    /\ UNCHANGED <<now, refreshIndex, issuedAccess, issuedRefresh, spent, revoked>>

\* The new expiry replaces the old one, whichever is later.
ExtendTokenExpiry(a, t) ==
    /\ Stored(a)
    /\ tokens' = [tokens EXCEPT ![a].expiresAt = t]
    /\ UNCHANGED <<now, refreshIndex, issuedAccess, issuedRefresh, spent, revoked>>

Refreshable(info) == info.refresh # NoRefresh /\ now < info.refreshExpiresAt

\* Purge on access expiry alone.
Purgeable_AccessOnly ==
    {a \in Access : Stored(a) /\ now > tokens[a].expiresAt + PurgeGrace}

Purgeable ==
    {a \in Access : /\ Stored(a)
                    /\ now > tokens[a].expiresAt + PurgeGrace
                    /\ ~Refreshable(tokens[a])}

\* purgeExpired's first loop; cleanup runs it every five minutes.
PurgeExpired ==
    /\ Purgeable # {}
    /\ tokens' = Without(Purgeable)
    /\ refreshIndex' = Unindexed(refreshIndex, Purgeable)
    /\ UNCHANGED <<now, issuedAccess, issuedRefresh, spent, revoked>>

Tick ==
    /\ now < MaxTime
    /\ now' = now + 1
    /\ UNCHANGED storeVars

-----------------------------------------------------------------------------
(* The store under callers of every kind.                                  *)

\* A successor the caller may pass: never used before, or in use right now.
Offered(a2, r2) ==
    /\ a2 \notin issuedAccess \/ Stored(a2)
    /\ r2 \in issuedRefresh => refreshIndex[r2] # NoAccess

Next ==
    \/ \E a \in Access, r \in Refresh \cup {NoRefresh}, c \in Client, g \in GoogleExpiry :
          StoreToken(a, NewTokenInfo(r, c, g))
    \/ \E r \in Refresh, a2 \in Access, r2 \in Refresh \cup {NoRefresh}, c \in Client,
         g \in GoogleExpiry :
          /\ Offered(a2, r2)
          /\ RotateToken(r, a2, NewTokenInfo(r2, c, g))
    \/ \E a \in Access : DeleteToken(a)
    \/ \E a \in Access, g \in GoogleExpiry : UpdateGoogleToken(a, g)
    \/ \E a \in Access, computedAt \in 0..now : ExtendTokenExpiry(a, computedAt + AccessTTL)
    \/ PurgeExpired
    \/ Tick

Spec == Init /\ [][Next]_vars

-----------------------------------------------------------------------------
(* Properties.                                                             *)

\* Every map and history variable holds what its declaration says.
TypeOK ==
    /\ tokens \in [Access -> TokenInfo \cup {NoToken}]
    /\ refreshIndex \in [Refresh -> Access \cup {NoAccess}]
    /\ now \in Nat
    /\ issuedAccess \in SUBSET Access
    /\ issuedRefresh \in SUBSET Refresh
    /\ spent \in SUBSET issuedRefresh
    /\ revoked \in SUBSET issuedRefresh

\* The two maps agree: an indexed refresh token leads to a stored entry that
\* carries it, and a stored entry with a refresh token is the one its index
\* entry leads to.  GetTokenByRefresh returns the entry the index names without
\* looking at its refresh token, so this is what keeps one session's refresh
\* token from returning another session's Google credentials.
IndexConsistent ==
    /\ \A r \in Refresh : refreshIndex[r] # NoAccess =>
          Stored(refreshIndex[r]) /\ tokens[refreshIndex[r]].refresh = r
    /\ \A a \in Access : Stored(a) /\ tokens[a].refresh # NoRefresh =>
          refreshIndex[tokens[a].refresh] = a

\* A refresh token that was rotated out, or whose entry was deleted, is not
\* accepted again by GetTokenByRefresh or RotateToken ("only one caller may
\* succeed", token_store.go:82).
SpentIsDead == \A r \in spent \cup revoked : ~FoundByRefresh(r) /\ ~Rotatable(r)

\* Once an issued refresh token stops being acceptable, by rotation, deletion,
\* purge or the end of its window, no later call makes it acceptable again.
DeadStaysDead ==
    [][\A r \in issuedRefresh : ~Rotatable(r) => ~Rotatable(r)']_vars

\* A refresh token whose window is open is taken away only by its own rotation
\* or by DeleteToken: purgeExpired, a rotation of another session, or a colliding
\* successor never costs a client its session.
OnlyRotationOrDeletionEnds ==
    [][\A r \in issuedRefresh :
          Rotatable(r) /\ ~Rotatable(r)' =>
             r \in spent' \cup revoked' \/ now' > now]_vars

=============================================================================
