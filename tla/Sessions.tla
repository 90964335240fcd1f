------------------------------ MODULE Sessions ------------------------------
(***************************************************************************)
(* The request handlers that keep a session alive, over the store of       *)
(* MemoryTokenStore:                                                       *)
(*   - an MCP request with a bearer (Middleware and tryAutoRefresh in      *)
(*     auth/middleware.go), which may renew an expired bearer in place;    *)
(*   - the tool call of a served request (AutoRefreshTokenSource in        *)
(*     auth/google.go), which may renew the Google token in the store;     *)
(*   - a refresh_token grant (handleRefreshTokenGrant in auth/handlers.go) *)
(*     which replaces both credentials;                                    *)
(*   - the end of an authorization_code grant, which starts a session.     *)
(* Each store call is one step; between two of them, and while Google is   *)
(* asked for a new token, every other request may run.                     *)
(*                                                                         *)
(* Data.  A request keeps the copy of the entry it read (cloneTokenInfo).  *)
(* Exchange and RefreshToken never return a nil token, so the nil checks   *)
(* of the code do not fire; an upstream token without a refresh credential *)
(* is one whose refresh fails, and GoogleRefuses lets any refresh fail.    *)
(***************************************************************************)
EXTENDS MemoryTokenStore

CONSTANTS
    Request,    \* concurrent HTTP requests
    NoEntry,    \* a request that has read no entry
    GoogleTTL,  \* lifetime of a Google access token
    MaxAges,    \* settings of AUTH_AUTO_REFRESH_MAX_AGE; 0 disables the cap
    CallBound   \* bound: the longest a request stays in flight; the code sets none

ASSUME SessionAssumption ==
    /\ MaxAges \subseteq Nat
    /\ CallBound \in Nat
    /\ GoogleTTL \in Nat
    /\ \A t \in 0..MaxTime : t + GoogleTTL \in GoogleExpiry
    /\ NoEntry \notin TokenInfo

VARIABLES
    maxAge,     \* the setting the server was started with; never changes
    pc,         \* where each request is
    bearer,     \* the access token of an MCP request
    presented,  \* the refresh token of a grant
    entry,      \* the copy of the entry the request works on
    since,      \* when that copy was read
    root        \* history: the first access token of each one's session

requestVars == <<pc, bearer, presented, entry, since>>
allVars == <<vars, maxAge, requestVars, root>>

Labels == {"idle", "expired", "google", "update", "extend", "toolGoogle", "toolUpdate",
           "grantGoogle", "grantRotate"}

SInit ==
    /\ Init
    /\ maxAge \in MaxAges
    /\ pc = [q \in Request |-> "idle"]
    /\ bearer = [q \in Request |-> NoAccess]
    /\ presented = [q \in Request |-> NoRefresh]
    /\ entry = [q \in Request |-> NoEntry]
    /\ since = [q \in Request |-> 0]
    /\ root = [a \in Access |-> NoAccess]

Goto(q, l) == pc' = [pc EXCEPT ![q] = l]

\* The request is answered; its locals are gone.
Answered(q) ==
    /\ pc' = [pc EXCEPT ![q] = "idle"]
    /\ bearer' = [bearer EXCEPT ![q] = NoAccess]
    /\ presented' = [presented EXCEPT ![q] = NoRefresh]
    /\ entry' = [entry EXCEPT ![q] = NoEntry]
    /\ since' = [since EXCEPT ![q] = 0]

\* The request takes a copy of a's entry now.
Reads(q, a) ==
    /\ entry' = [entry EXCEPT ![q] = tokens[a]]
    /\ since' = [since EXCEPT ![q] = now]

\* GenerateToken: credentials nobody has seen.  Which ones does not matter, so
\* one choice stands for all.
CanGenerate == issuedAccess # Access /\ issuedRefresh # Refresh
FreshAccess == CHOOSE a \in Access : a \notin issuedAccess
FreshRefresh == CHOOSE r \in Refresh : r \notin issuedRefresh

-----------------------------------------------------------------------------
(* Authorization code grant: the store call at its end.                    *)
StartSession(c) ==
    /\ CanGenerate
    /\ StoreToken(FreshAccess, NewTokenInfo(FreshRefresh, c, now + GoogleTTL))
    /\ root' = [root EXCEPT ![FreshAccess] = FreshAccess]
    /\ UNCHANGED requestVars

-----------------------------------------------------------------------------
(* MCP request.  A bearer that is unknown (401), or live with a live Google *)
(* token (served), leaves no trace in the state.                           *)

\* GetTokenByAccess answers ErrTokenExpired.
BearerExpired(q, a) ==
    /\ pc[q] = "idle"
    /\ Stored(a)
    /\ ~FoundByAccess(a)
    /\ Goto(q, "expired")
    /\ bearer' = [bearer EXCEPT ![q] = a]
    /\ UNCHANGED <<vars, presented, entry, since, root>>

\* The checks of tryAutoRefresh on the entry it has just read.
MayRenew_NoCap(info) ==
    /\ info.refresh # NoRefresh
    /\ ~(now > info.refreshExpiresAt)

MayRenew_NoWindow(info) ==
    /\ info.refresh # NoRefresh
    /\ maxAge > 0 => ~(now - info.createdAt > maxAge)

MayRenew(info) ==
    /\ info.refresh # NoRefresh
    /\ maxAge > 0 => ~(now - info.createdAt > maxAge)
    /\ ~(now > info.refreshExpiresAt)

\* GetTokenByAccessIncludeExpired: the entry may be gone or renewed by now.
RenewalStarts(q) ==
    /\ pc[q] = "expired"
    /\ Stored(bearer[q])
    /\ MayRenew(tokens[bearer[q]])
    /\ Reads(q, bearer[q])
    /\ Goto(q, "google")
    /\ UNCHANGED <<vars, bearer, presented, root>>

RenewalRefused(q) ==
    /\ pc[q] = "expired"
    /\ Stored(bearer[q]) => ~MayRenew(tokens[bearer[q]])
    /\ Answered(q)
    /\ UNCHANGED <<vars, root>>

\* Google answers; the new expiry is computed at once.
GoogleRenews(q) ==
    /\ pc[q] = "google"
    /\ entry' = [entry EXCEPT ![q].google = now + GoogleTTL, ![q].expiresAt = now + AccessTTL]
    /\ Goto(q, "update")
    /\ UNCHANGED <<vars, bearer, presented, since, root>>

GoogleRefuses(q) ==
    /\ pc[q] \in {"google", "toolGoogle", "grantGoogle"}
    /\ Answered(q)
    /\ UNCHANGED <<vars, root>>

RenewalUpdates(q) ==
    /\ pc[q] = "update"
    /\ UpdateGoogleToken(bearer[q], entry[q].google)
    /\ Goto(q, "extend")
    /\ UNCHANGED <<bearer, presented, entry, since, root>>

\* The entry was rotated away or purged meanwhile: 401.
RenewalTooLate(q) ==
    /\ pc[q] = "update"
    /\ ~Stored(bearer[q])
    /\ Answered(q)
    /\ UNCHANGED <<vars, root>>

\* A failed ExtendTokenExpiry is only logged: the request is served anyway.
RenewalServed(q) ==
    /\ pc[q] = "extend"
    /\ \/ ExtendTokenExpiry(bearer[q], entry[q].expiresAt)
       \/ ~Stored(bearer[q]) /\ UNCHANGED vars
    /\ Answered(q)
    /\ UNCHANGED root

\* The bearer is live, and the tool finds that the Google token of the copy it
\* was given has expired (AutoRefreshTokenSource).
ToolStarts(q, a) ==
    /\ pc[q] = "idle"
    /\ FoundByAccess(a)
    /\ tokens[a].google <= now
    /\ bearer' = [bearer EXCEPT ![q] = a]
    /\ Reads(q, a)
    /\ Goto(q, "toolGoogle")
    /\ UNCHANGED <<vars, presented, root>>

GoogleRefreshes(q) ==
    /\ pc[q] = "toolGoogle"
    /\ entry' = [entry EXCEPT ![q].google = now + GoogleTTL]
    /\ Goto(q, "toolUpdate")
    /\ UNCHANGED <<vars, bearer, presented, since, root>>

\* The store is updated if the entry is still there; the tool goes on anyway.
ToolUpdates(q) ==
    /\ pc[q] = "toolUpdate"
    /\ \/ UpdateGoogleToken(bearer[q], entry[q].google)
       \/ ~Stored(bearer[q]) /\ UNCHANGED vars
    /\ Answered(q)
    /\ UNCHANGED root

-----------------------------------------------------------------------------
(* Refresh token grant.  A refused lookup leaves no trace.                 *)
\* Without the check of the Google token's expiry.
GrantStarts_TrustsGoogleToken(q, r) ==
    /\ pc[q] = "idle"
    /\ FoundByRefresh(r)
    /\ presented' = [presented EXCEPT ![q] = r]
    /\ Reads(q, refreshIndex[r])
    /\ Goto(q, "grantRotate")
    /\ UNCHANGED <<vars, bearer, root>>

\* The access token is taken for the refresh token it belongs to.
GrantStarts_WrongToken(q, r) ==
    /\ pc[q] = "idle"
    /\ FoundByRefresh(r)
    /\ presented' = [presented EXCEPT ![q] = refreshIndex[r]]
    /\ Reads(q, refreshIndex[r])
    /\ Goto(q, IF tokens[refreshIndex[r]].google < now THEN "grantGoogle" ELSE "grantRotate")
    /\ UNCHANGED <<vars, bearer, root>>

GrantStarts(q, r) ==
    /\ pc[q] = "idle"
    /\ FoundByRefresh(r)
    /\ presented' = [presented EXCEPT ![q] = r]
    /\ Reads(q, refreshIndex[r])
    /\ Goto(q, IF tokens[refreshIndex[r]].google < now THEN "grantGoogle" ELSE "grantRotate")
    /\ UNCHANGED <<vars, bearer, root>>

GoogleGrants(q) ==
    /\ pc[q] = "grantGoogle"
    /\ entry' = [entry EXCEPT ![q].google = now + GoogleTTL]
    /\ Goto(q, "grantRotate")
    /\ UNCHANGED <<vars, bearer, presented, since, root>>

\* The successor: fresh credentials, the client and the Google token of the
\* copy.
Successor(q) == NewTokenInfo(FreshRefresh, entry[q].client, entry[q].google)

Inherits(q, a2) == root' = [root EXCEPT ![a2] = root[refreshIndex[presented[q]]]]

\* StoreToken in place of RotateToken: the old pair is not given up.
GrantSucceeds_StoresOnly(q) ==
    /\ pc[q] = "grantRotate"
    /\ CanGenerate
    /\ Rotatable(presented[q])
    /\ StoreToken(FreshAccess, Successor(q))
    /\ Inherits(q, FreshAccess)
    /\ Answered(q)

GrantSucceeds(q) ==
    /\ pc[q] = "grantRotate"
    /\ CanGenerate
    /\ RotateToken(presented[q], FreshAccess, Successor(q))
    /\ Inherits(q, FreshAccess)
    /\ Answered(q)

\* Another grant won, or the window closed while Google was asked.
GrantRefused(q) ==
    /\ pc[q] = "grantRotate"
    /\ ~Rotatable(presented[q])
    /\ Answered(q)
    /\ UNCHANGED <<vars, root>>

-----------------------------------------------------------------------------
Purge == PurgeExpired /\ UNCHANGED <<requestVars, root>>

\* Time passes; no request is in flight for longer than CallBound.
TimePasses ==
    /\ Tick
    /\ \A q \in Request : pc[q] \notin {"idle", "expired"} => now < since[q] + CallBound
    /\ UNCHANGED <<requestVars, root>>

RequestStep(q) ==
    \/ \E a \in Access : BearerExpired(q, a)
    \/ RenewalStarts(q)
    \/ RenewalRefused(q)
    \/ GoogleRenews(q)
    \/ GoogleRefuses(q)
    \/ RenewalUpdates(q)
    \/ RenewalTooLate(q)
    \/ RenewalServed(q)
    \/ \E a \in Access : ToolStarts(q, a)
    \/ GoogleRefreshes(q)
    \/ ToolUpdates(q)
    \/ \E r \in Refresh : GrantStarts(q, r)
    \/ GoogleGrants(q)
    \/ GrantSucceeds(q)
    \/ GrantRefused(q)

SNext ==
    /\ \/ \E c \in Client : StartSession(c)
       \/ \E q \in Request : RequestStep(q)
       \/ Purge
       \/ TimePasses
    /\ UNCHANGED maxAge

SSpec == SInit /\ [][SNext]_allVars

-----------------------------------------------------------------------------
(* Properties.  SessionsProofs shows besides that SSpec implements Spec,   *)
(* the specification of MemoryTokenStore, so its theorems hold here too.   *)

\* Every request variable holds what its declaration says.
SessionTypeOK ==
    /\ TypeOK
    /\ maxAge \in MaxAges
    /\ pc \in [Request -> Labels]
    /\ bearer \in [Request -> Access \cup {NoAccess}]
    /\ presented \in [Request -> Refresh \cup {NoRefresh}]
    /\ entry \in [Request -> TokenInfo \cup {NoEntry}]
    /\ since \in [Request -> Nat]
    /\ root \in [Access -> Access \cup {NoAccess}]

\* A bearer is served, directly or at the end of a renewal.
Servable(a) ==
    FoundByAccess(a) \/ \E q \in Request : pc[q] = "extend" /\ bearer[q] = a

\* Silent renewal is bounded (middleware.go:130): however many requests renew a
\* bearer, and whatever happens between the check of its age and the write of
\* its new expiry, nobody is served with it later than the cap, plus the one
\* lifetime the last renewal granted, plus the time that renewal took.
RenewalChainBounded ==
    maxAge > 0 =>
        \A a \in Access : Stored(a) /\ Servable(a) =>
            now <= tokens[a].createdAt + maxAge + CallBound + AccessTTL

\* With or without the cap, a bearer is not served beyond the refresh window of
\* its entry by more than one lifetime and the duration of a renewal.
WindowBounded ==
    \A a \in Access : Stored(a) /\ Servable(a) =>
        now <= tokens[a].refreshExpiresAt + CallBound + AccessTTL

\* Rotation replaces: of all the credentials one authorization led to, at most
\* one pair is in the store, however many grants and renewals race.
OnePairPerSession ==
    \A a, b \in Access : Stored(a) /\ Stored(b) /\ root[a] = root[b] => a = b

\* A session is never started or continued on a Google token that had already
\* expired when the grant read it, although the grant installs the copy it read
\* and a renewal may have replaced the stored one meanwhile.
GoogleTokenNotStale ==
    \A a \in Access : Stored(a) => tokens[a].createdAt <= tokens[a].google + CallBound

\* ARCHITECTURE.md:58 says that AUTH_AUTO_REFRESH_MAX_AGE "caps the total age of
\* a silently renewed bearer".
DocumentedAgeCap ==
    maxAge > 0 =>
        \A a \in Access : Stored(a) /\ FoundByAccess(a) /\
                          tokens[a].expiresAt > tokens[a].createdAt + AccessTTL =>
            now <= tokens[a].createdAt + maxAge

=============================================================================
