----------------------------- MODULE Deployment -----------------------------
(***************************************************************************)
(* The process of main.go over its restarts.  The environment it is        *)
(* started with decides who may call:                                      *)
(*   OAuth credentials     a session of a user, kept in a file if a path   *)
(*                         is set, in memory otherwise;                    *)
(*   an API key            whoever has the key, as the service account;    *)
(*                         beside OAuth, or alone;                         *)
(*   neither               everybody, but no tool gets a Tag Manager       *)
(*                         client.                                         *)
(* An MCP request goes through auth.Middleware, which puts into its context *)
(* what getClient in gtm/tools.go makes the Tag Manager client of.         *)
(*                                                                         *)
(* Data.  A session stands for its bearer; Sessions has its lifetimes, and *)
(* FileTokenStore what failed writes and crashes do to the file, which is  *)
(* always written here.  A start that fails (credentials that cannot be    *)
(* read, a damaged file, an unknown tool group, a port in use) ends the    *)
(* process before it serves anything and leaves no trace.                  *)
(***************************************************************************)
CONSTANTS
    Session,    \* sessions of OAuth users, each known by its bearer
    ApiKey,     \* values of SERVICE_ACCOUNT_API_KEY
    NoKey,      \* not set
    Junk,       \* a bearer that is neither, or none
    Caller      \* MCP requests that may be under way

ASSUME DeploymentAssumption ==
    /\ NoKey \notin ApiKey
    /\ Junk \notin Session \cup ApiKey
    /\ Session \cap ApiKey = {}

\* ValidateAuth; SERVICE_ACCOUNT_API_KEY; TOKEN_STORE_PATH.
Config == [oauth : BOOLEAN, key : ApiKey \cup {NoKey}, path : BOOLEAN]
Bearer == Session \cup ApiKey \cup {Junk}

VARIABLES
    process,        \* "down", "up", or "stopping" after SIGINT or SIGTERM
    running,        \* the configuration of the process
    stored,         \* the sessions in the token store of the process
    onFile,         \* the sessions in the file
    expired,        \* those whose bearer has expired
    under,          \* the MCP requests: bearer, stage, and what the context has
    begun, over,  \* history: sessions begun; sessions rotated, deleted or lapsed
    begunHere,     \* history: begun by this process
    begunOnFile    \* history: begun with a file

sessionVars == <<stored, onFile, expired, begun, over, begunHere, begunOnFile>>
deployVars == <<process, running, sessionVars, under>>

\* SATokenSourceKey, TokenInfoKey and GoogleProviderKey.  The TokenInfo of the
\* service account has no Google token, so a session stands for one that has.
Context == [source : BOOLEAN, info : Session \cup {NoKey}, provider : BOOLEAN]
Bare == [source |-> FALSE, info |-> NoKey, provider |-> FALSE]
NotUnder == [bearer |-> Junk, stage |-> "idle", ctx |-> Bare]

Serving == process \in {"up", "stopping"}
WithKey == running.key # NoKey

DeployInit ==
    /\ process = "down"
    /\ running \in Config
    /\ stored = {} /\ onFile = {} /\ expired = {}
    /\ begun = {} /\ over = {} /\ begunHere = {} /\ begunOnFile = {}
    /\ under = [q \in Caller |-> NotUnder]

-----------------------------------------------------------------------------
(* The process.                                                            *)

\* The file store is opened whatever the mode.
OpenedStore_InEveryMode(config) == IF config.path THEN onFile ELSE {}

\* The file is not read.
OpenedStore_NotLoaded(config) == {}

\* The store of the mode: the file's, an empty one in memory, or with the key
\* alone an empty one that no route writes to.
OpenedStore(config) == IF config.oauth /\ config.path THEN onFile ELSE {}

Start(config) ==
    /\ process = "down"
    /\ process' = "up"
    /\ running' = config
    /\ stored' = OpenedStore(config)
    /\ begunHere' = {}
    /\ UNCHANGED <<onFile, expired, begun, over, begunOnFile, under>>

Signal ==
    /\ process = "up"
    /\ process' = "stopping"
    /\ UNCHANGED <<running, sessionVars, under>>

\* Shutdown returns when no request is left, or after ten seconds: what is
\* still under way then is cut off.
Stopped ==
    /\ process = "stopping"
    /\ process' = "down"
    /\ stored' = {}
    /\ under' = [q \in Caller |-> NotUnder]
    /\ UNCHANGED <<running, onFile, expired, begun, over, begunHere, begunOnFile>>

Dies ==
    /\ Serving
    /\ process' = "down"
    /\ stored' = {}
    /\ under' = [q \in Caller |-> NotUnder]
    /\ UNCHANGED <<running, onFile, expired, begun, over, begunHere, begunOnFile>>

-----------------------------------------------------------------------------
(* Sessions.                                                               *)

Saved(sessions) == onFile' = IF running.path THEN sessions ELSE onFile

\* /oauth/callback and /token are there with OAuth only: 503 otherwise.
Issues(s) ==
    /\ Serving /\ running.oauth
    /\ s \notin begun
    /\ begun' = begun \cup {s}
    /\ begunHere' = begunHere \cup {s}
    /\ begunOnFile' = IF running.path THEN begunOnFile \cup {s} ELSE begunOnFile
    /\ stored' = stored \cup {s}
    /\ Saved(stored')
    /\ UNCHANGED <<process, running, expired, over, under>>

\* Rotated (its successor is another session), deleted, or past its refresh
\* window: then it is purged, or skipped by load.
Ends(s) ==
    /\ s \in begun \ over
    /\ over' = over \cup {s}
    /\ stored' = stored \ {s}
    /\ onFile' = onFile \ {s}
    /\ UNCHANGED <<process, running, expired, begun, begunHere, begunOnFile, under>>

Expires(s) ==
    /\ s \in begun \ (over \cup expired)
    /\ expired' = expired \cup {s}
    /\ UNCHANGED <<process, running, stored, onFile, begun, over, begunHere,
                   begunOnFile, under>>

-----------------------------------------------------------------------------
(* MCP requests.                                                           *)

\* The service account's source is handed to OAuth users as well.
ContextOf_SourceForAll(b) ==
    IF WithKey /\ b = running.key THEN [Bare EXCEPT !.source = TRUE]
    ELSE [source |-> WithKey, info |-> b, provider |-> running.oauth]

\* The key is compared before the store is asked.
ContextOf(b) ==
    IF WithKey /\ b = running.key THEN [Bare EXCEPT !.source = TRUE]
    ELSE [source |-> FALSE, info |-> b, provider |-> running.oauth]

To(q, b, stage, ctx) == under' = [under EXCEPT ![q] = [bearer |-> b, stage |-> stage, ctx |-> ctx]]

\* A request arrives.  Without OAuth and key there is no middleware; a bearer
\* that is neither the key nor in the store gets 401 and leaves no trace.
Arrives(q, b) ==
    /\ process = "up"
    /\ under[q].stage = "idle"
    /\ \/ /\ ~running.oauth /\ ~WithKey
          /\ To(q, b, "admitted", Bare)
       \/ /\ running.oauth \/ WithKey
          /\ (WithKey /\ b = running.key) \/ b \in stored
          /\ IF b \in stored /\ b \in expired
             THEN To(q, b, "renewing", Bare)
             ELSE To(q, b, "admitted", ContextOf(b))
    /\ UNCHANGED <<process, running, sessionVars>>

\* tryAutoRefresh asks the provider for a new Google token and extends the
\* entry if it is still there.
Renews(q) ==
    LET b == under[q].bearer IN
    /\ under[q].stage = "renewing"
    /\ b \in stored
    /\ To(q, b, "admitted", ContextOf(b))
    /\ expired' = expired \ {b}
    /\ UNCHANGED <<process, running, stored, onFile, begun, over, begunHere, begunOnFile>>

\* Refused by Google, by the cap, or because the entry is gone.
RenewalFails(q) ==
    /\ under[q].stage = "renewing"
    /\ To(q, Junk, "idle", Bare)
    /\ UNCHANGED <<process, running, sessionVars>>

\* getClient: the service account's source comes first, then the user's token.
GetsClient(q) ==
    /\ under[q].stage = "admitted"
    /\ under[q].ctx.source \/ under[q].ctx.info # NoKey
    /\ under' = [under EXCEPT ![q].stage =
                    IF under[q].ctx.source THEN "asServiceAccount" ELSE "asUser"]
    /\ UNCHANGED <<process, running, sessionVars>>

\* The tool needs no client, or is told that it is not authenticated; or the
\* call is over.
Leaves(q) ==
    /\ under[q].stage \in {"admitted", "asServiceAccount", "asUser"}
    /\ To(q, Junk, "idle", Bare)
    /\ UNCHANGED <<process, running, sessionVars>>

-----------------------------------------------------------------------------
DeployNext ==
    \/ \E config \in Config : Start(config)
    \/ Signal \/ Stopped \/ Dies
    \/ \E s \in Session : Issues(s) \/ Ends(s) \/ Expires(s)
    \/ \E q \in Caller :
          \/ \E b \in Bearer : Arrives(q, b)
          \/ Renews(q) \/ RenewalFails(q) \/ GetsClient(q) \/ Leaves(q)

DeploySpec == DeployInit /\ [][DeployNext]_deployVars

-----------------------------------------------------------------------------
(* Properties.                                                             *)

\* Every variable holds what its declaration says.
DeployTypeOK ==
    /\ process \in {"down", "up", "stopping"}
    /\ running \in Config
    /\ begun \subseteq Session /\ over \subseteq begun /\ expired \subseteq begun
    /\ stored \subseteq begun \ over /\ onFile \subseteq begunOnFile \ over
    /\ begunHere \subseteq begun /\ begunOnFile \subseteq begun
    /\ under \in [Caller -> [bearer : Bearer, ctx : Context,
          stage : {"idle", "renewing", "admitted", "asServiceAccount", "asUser"}]]

\* Tag Manager is asked as the service account for the holder of the key of
\* this process and as a user for the holder of that user's bearer, never the
\* one for the other (middleware.go:64); without OAuth and key, for nobody.
ActsForItsBearer ==
    \A q \in Caller :
        /\ under[q].stage = "asServiceAccount" => under[q].bearer = running.key
        /\ under[q].stage = "asUser" =>
              running.oauth /\ under[q].bearer = under[q].ctx.info

\* With the key alone the middleware and getClient are given no provider
\* (main.go:210): in no sequence of modes, with sessions left in the file by an
\* earlier one, does a request come to use it.
NoNilProvider ==
    \A q \in Caller :
        /\ under[q].stage = "renewing" => running.oauth
        /\ under[q].stage = "admitted" /\ ~under[q].ctx.source /\ under[q].ctx.info # NoKey =>
              under[q].ctx.provider

\* Whatever modes the server has been run in meanwhile: with OAuth it knows
\* exactly the sessions it has begun itself and, with a path, those begun with
\* one, as long as they last (main.go:152).
SessionsKept ==
    Serving /\ running.oauth =>
        stored = (begunHere \cup IF running.path THEN begunOnFile ELSE {}) \ over
=============================================================================
