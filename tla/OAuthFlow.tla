----------------------------- MODULE OAuthFlow -----------------------------
(***************************************************************************)
(* The authorization flow of auth/handlers.go and auth/registration.go, up *)
(* to the session it starts: /register, /authorize, the Google consent     *)
(* that comes back to /oauth/callback, and the authorization_code grant at *)
(* /token, over the state, code and client maps of MemoryTokenStore.       *)
(*                                                                         *)
(* Data.  A flow stands for the random Google state, the client's state    *)
(* and the random cookie value that one /authorize generates, so the hash  *)
(* of the cookie is the flow itself and a state row needs no copy of it.   *)
(* A PKCE challenge is the verifier it is the hash of.  A Google code is   *)
(* the browser whose user consented.  A redirect URI is a model value;     *)
(* Place tells which of them are loopback URIs that differ in the port     *)
(* alone.  A client is known by registration, by the document its id is    *)
(* the URL of, or not at all.                                              *)
(***************************************************************************)
EXTENDS Integers, FiniteSets

CONSTANTS
    Browser, Flow, Code, Request, Verifier, Redirect,
    Dynamic,        \* client ids that /register may generate
    Documented,     \* client ids that are metadata document URLs
    Foreign,        \* client ids the server knows nothing of
    Document,       \* redirect URIs in the document of each such client
    Place,          \* host and path of a loopback http redirect URI
    NotLoopback,    \* the Place of any other redirect URI
    NoFlow, NoCode, NoWork, NoClient,
    BaseIsHTTPS,    \* the scheme of BASE_URL
    MaxClients,     \* 1000 in the code
    StateTTL,       \* 10 minutes
    CodeTTL,        \* 5 minutes
    CallBound,      \* bound: the longest Google takes to exchange a code; none in the code
    LastStart,      \* bound: no flow begins later
    MaxTime         \* bound: the clock stops here

Client == Dynamic \cup Documented \cup Foreign
Row == [browser : Browser, client : Client, redirect : Redirect, challenge : Verifier,
        secure : BOOLEAN, createdAt : Nat]
CodeEntry == [flow : Flow, user : Browser, expiresAt : Nat]
Work == [flow : Flow, user : Browser, since : Nat]

ASSUME FlowAssumption ==
    /\ {MaxClients, StateTTL, CodeTTL, CallBound, LastStart, MaxTime} \subseteq Nat
    /\ Document \in [Documented -> SUBSET Redirect]
    /\ BaseIsHTTPS \in BOOLEAN
    /\ NoFlow \notin Flow \cup Row
    /\ NoCode \notin CodeEntry
    /\ NoWork \notin Work
    /\ Dynamic \cap (Documented \cup Foreign) = {}

VARIABLES
    states,     \* the states map: flows that have a row
    row,        \* the AuthState of each flow, kept as history once consumed
    codes,      \* the codes map
    clients,    \* the clients map
    jar,        \* binding cookie of each browser, under each of its two names
    work,       \* callback request -> the flow it exchanges a Google code for
    now,
    registered, \* history: client ids ever generated
    sessions    \* history: sessions started

flowVars == <<states, row, codes, work, sessions>>
clientVars == <<clients, registered>>
vars == <<flowVars, clientVars, jar, now>>

Registration == [redirects : SUBSET Redirect, createdAt : Nat]
Session == [code : Code, flow : Flow, user : Browser, verifier : Verifier, at : Nat]

Init ==
    /\ states = {}
    /\ row = [f \in Flow |-> NoFlow]
    /\ codes = [k \in Code |-> NoCode]
    /\ clients = [c \in Dynamic |-> NoClient]
    /\ jar = [b \in Browser |-> [secure \in BOOLEAN |-> NoFlow]]
    /\ work = [q \in Request |-> NoWork]
    /\ now = 0
    /\ registered = {}
    /\ sessions = {}

Known(c) == c \in Dynamic /\ clients[c] # NoClient

-----------------------------------------------------------------------------
(* Client registration.                                                    *)

\* RegistrationHandler; the id is a fresh GenerateToken(16).
Register(c, redirects) ==
    /\ c \notin registered
    /\ redirects # {}
    /\ clients' = [clients EXCEPT ![c] = [redirects |-> redirects, createdAt |-> now]]
    /\ registered' = registered \cup {c}
    /\ UNCHANGED <<flowVars, jar, now>>

\* redirectURIAllowed: a loopback URI may differ from a listed one in its port.
RedirectAllowed(listed, u) ==
    \/ u \in listed
    \/ Place[u] # NotLoopback /\ \E w \in listed : Place[w] = Place[u]

\* The client check of AuthorizeHandler.
ClientAccepts_IgnoresRegistration(c, u) ==
    c \in Documented => RedirectAllowed(Document[c], u)

ClientAccepts(c, u) ==
    /\ c \in Documented => RedirectAllowed(Document[c], u)
    /\ Known(c) => RedirectAllowed(clients[c].redirects, u)

-----------------------------------------------------------------------------
(* /authorize: the row and the cookie.  issuerHTTPS is the scheme resolved *)
(* from the request; the cookie of an earlier flow under the same name is  *)
(* overwritten.  A client names itself by an id it was given.              *)
Authorize(b, f, c, u, v, issuerHTTPS) ==
    LET secure == BaseIsHTTPS \/ issuerHTTPS IN
    /\ now <= LastStart
    /\ row[f] = NoFlow
    /\ c \in registered \cup Documented \cup Foreign
    /\ ClientAccepts(c, u)
    /\ states' = states \cup {f}
    /\ row' = [row EXCEPT ![f] = [browser |-> b, client |-> c, redirect |-> u,
                                  challenge |-> v, secure |-> secure, createdAt |-> now]]
    /\ jar' = [jar EXCEPT ![b][secure] = f]
    /\ UNCHANGED <<codes, work, now, clientVars, sessions>>

\* A browser drops a cookie: Max-Age, or its user.
CookieGone(b, secure) ==
    /\ jar[b][secure] # NoFlow
    /\ jar' = [jar EXCEPT ![b][secure] = NoFlow]
    /\ UNCHANGED <<flowVars, clientVars, now>>

-----------------------------------------------------------------------------
(* /oauth/callback, reached by browser b with the state of flow f and the  *)
(* Google code its user has consented to.  ConsumeState removes the row    *)
(* whatever the checks after it say.                                       *)

StateLive(f) == ~(now - row[f].createdAt > StateTTL)

BindingMatches(b, f) == jar[b][row[f].secure] = f

CallbackAccepted_NoBinding(q, b, f) ==
    /\ work[q] = NoWork
    /\ f \in states
    /\ states' = states \ {f}
    /\ StateLive(f)
    /\ work' = [work EXCEPT ![q] = [flow |-> f, user |-> b, since |-> now]]
    /\ UNCHANGED <<row, codes, jar, now, clientVars, sessions>>

\* GetState first, and the row deleted only when the code has been stored.
CallbackAccepted_LeavesRow(q, b, f) ==
    /\ work[q] = NoWork
    /\ f \in states
    /\ StateLive(f)
    /\ BindingMatches(b, f)
    /\ work' = [work EXCEPT ![q] = [flow |-> f, user |-> b, since |-> now]]
    /\ UNCHANGED <<states, row, codes, jar, now, clientVars, sessions>>

CallbackAccepted(q, b, f) ==
    /\ work[q] = NoWork
    /\ f \in states
    /\ states' = states \ {f}
    /\ StateLive(f)
    /\ BindingMatches(b, f)
    /\ work' = [work EXCEPT ![q] = [flow |-> f, user |-> b, since |-> now]]
    /\ UNCHANGED <<row, codes, jar, now, clientVars, sessions>>

CallbackRefused(b, f) ==
    /\ f \in states
    /\ states' = states \ {f}
    /\ ~StateLive(f) \/ ~BindingMatches(b, f)
    /\ UNCHANGED <<row, codes, jar, work, now, clientVars, sessions>>

\* Google exchanges its code; the server's own code is stored with the result.
CodeStored(q, k) ==
    /\ work[q] # NoWork
    /\ codes[k] = NoCode
    /\ \A s \in sessions : s.code # k
    /\ codes' = [codes EXCEPT ![k] = [flow |-> work[q].flow, user |-> work[q].user,
                                      expiresAt |-> now + CodeTTL]]
    /\ work' = [work EXCEPT ![q] = NoWork]
    /\ UNCHANGED <<states, row, jar, now, clientVars, sessions>>

ExchangeFails(q) ==
    /\ work[q] # NoWork
    /\ work' = [work EXCEPT ![q] = NoWork]
    /\ UNCHANGED <<states, row, codes, jar, now, clientVars, sessions>>

-----------------------------------------------------------------------------
(* The authorization_code grant.  ConsumeAuthorizationCode removes the     *)
(* code before anything of the request is compared with it; the client id  *)
(* and the redirect URI are compared when the request has them.            *)

CodeLive_Always(entry) == TRUE
CodeLive(entry) == now < entry.expiresAt

CodeGranted(k, v) ==
    /\ codes[k] # NoCode
    /\ codes' = [codes EXCEPT ![k] = NoCode]
    /\ CodeLive(codes[k])
    /\ v = row[codes[k].flow].challenge
    /\ sessions' = sessions \cup {[code |-> k, flow |-> codes[k].flow, user |-> codes[k].user,
                                   verifier |-> v, at |-> now]}
    /\ UNCHANGED <<states, row, jar, work, now, clientVars>>

\* Expired, or the request lacks something: a mistaken or missing verifier, another
\* client or redirect URI.
CodeRefused(k) ==
    /\ codes[k] # NoCode
    /\ codes' = [codes EXCEPT ![k] = NoCode]
    /\ UNCHANGED <<states, row, jar, work, now, clientVars, sessions>>

-----------------------------------------------------------------------------
(* purgeExpired, its loops over states, codes and clients.                 *)

Registered == {c \in Dynamic : Known(c)}

\* The clients that stay: the newest MaxClients, ties broken by map order.
Kept(stay) ==
    /\ stay \subseteq Registered
    /\ Cardinality(stay) = IF Cardinality(Registered) > MaxClients THEN MaxClients
                           ELSE Cardinality(Registered)
    /\ \A c \in Registered \ stay, d \in stay : clients[c].createdAt <= clients[d].createdAt

PurgeExpired_StatesOnly(stay) ==
    /\ Kept(stay)
    /\ states' = {f \in states : StateLive(f)}
    /\ clients' = [c \in Dynamic |-> IF c \in stay THEN clients[c] ELSE NoClient]
    /\ UNCHANGED <<codes, row, jar, work, now, registered, sessions>>

PurgeExpired(stay) ==
    /\ Kept(stay)
    /\ states' = {f \in states : StateLive(f)}
    /\ codes' = [k \in Code |-> IF codes[k] # NoCode /\ CodeLive(codes[k])
                                THEN codes[k] ELSE NoCode]
    /\ clients' = [c \in Dynamic |-> IF c \in stay THEN clients[c] ELSE NoClient]
    /\ UNCHANGED <<row, jar, work, now, registered, sessions>>

\* The server restarts: none of this is on the file of FileTokenStore.
Restart ==
    /\ states' = {}
    /\ codes' = [k \in Code |-> NoCode]
    /\ clients' = [c \in Dynamic |-> NoClient]
    /\ work' = [q \in Request |-> NoWork]
    /\ UNCHANGED <<row, jar, now, registered, sessions>>

TimePasses ==
    /\ now < MaxTime
    /\ \A q \in Request : work[q] # NoWork => now < work[q].since + CallBound
    /\ now' = now + 1
    /\ UNCHANGED <<flowVars, clientVars, jar>>

CallbackReturns(q) == ExchangeFails(q) \/ \E k \in Code : CodeStored(q, k)

Next ==
    \/ \E c \in Dynamic, redirects \in SUBSET Redirect : Register(c, redirects)
    \/ \E b \in Browser, f \in Flow, c \in Client, u \in Redirect, v \in Verifier,
         issuerHTTPS \in BOOLEAN : Authorize(b, f, c, u, v, issuerHTTPS)
    \/ \E b \in Browser, secure \in BOOLEAN : CookieGone(b, secure)
    \/ \E b \in Browser, f \in Flow :
          CallbackRefused(b, f) \/ \E q \in Request : CallbackAccepted(q, b, f)
    \/ \E q \in Request : CallbackReturns(q)
    \/ \E k \in Code : CodeRefused(k) \/ \E v \in Verifier : CodeGranted(k, v)
    \/ \E stay \in SUBSET Dynamic : PurgeExpired(stay)
    \/ Restart
    \/ TimePasses

Spec == Init /\ [][Next]_vars

\* cleanup calls purgeExpired for ever, Google answers or the call fails, and
\* time passes.  Nothing makes a user or a client take a next step.
Fairness ==
    /\ WF_vars(\E stay \in SUBSET Dynamic : PurgeExpired(stay))
    /\ \A q \in Request : WF_vars(CallbackReturns(q))
    /\ WF_vars(TimePasses)

FairSpec == Spec /\ Fairness

-----------------------------------------------------------------------------
(* Properties.                                                             *)

\* Every variable holds what its declaration says, and a flow that is under way
\* has a row.
TypeOK ==
    /\ row \in [Flow -> Row \cup {NoFlow}]
    /\ states \subseteq {f \in Flow : row[f] # NoFlow}
    /\ codes \in [Code -> CodeEntry \cup {NoCode}]
    /\ clients \in [Dynamic -> Registration \cup {NoClient}]
    /\ jar \in [Browser -> [BOOLEAN -> Flow \cup {NoFlow}]]
    /\ work \in [Request -> Work \cup {NoWork}]
    /\ now \in Nat
    /\ registered \in SUBSET Dynamic
    /\ sessions \in SUBSET Session

\* The browser whose user consented at Google is the browser that began the
\* flow (ARCHITECTURE.md:60), and the session goes to the holder of the verifier
\* that flow was begun with, however the steps of several flows and browsers mix.
SessionBelongsToStarter ==
    \A s \in sessions : /\ s.user = row[s.flow].browser
                        /\ s.verifier = row[s.flow].challenge

Rows(f) == states \cap {f}
Exchanges(f) == {q \in Request : work[q] # NoWork /\ work[q].flow = f}
Codes(f) == {k \in Code : codes[k] # NoCode /\ codes[k].flow = f}
Sessions(f) == {s \in sessions : s.flow = f}

\* A flow is in one place at a time: a row waiting for its callback, a callback
\* waiting for Google, a code waiting for its grant, or the one session it
\* leads to.  State and code are single-use (token_store.go:347) although the
\* callback and the grant of one flow may arrive several times at once.
FlowInOnePlace ==
    \A f \in Flow : Cardinality(Rows(f)) + Cardinality(Exchanges(f))
                    + Cardinality(Codes(f)) + Cardinality(Sessions(f)) <= 1

\* A session starts within the life of a state, the time of one exchange and
\* the life of a code from its /authorize; the last instant of a code is dead.
SessionIsPrompt ==
    \A s \in sessions : s.at < row[s.flow].createdAt + StateTTL + CallBound + CodeTTL

\* "If client is registered via DCR, validate against their registered URIs"
\* (handlers.go:91): as long as the client of a flow under way is registered,
\* the redirect URI its code is sent to is one that registration allows,
\* although registrations come and go between /authorize and the callback.
RedirectStaysRegistered ==
    \A f \in Flow : (f \in states \/ Exchanges(f) # {}) /\ Known(row[f].client) =>
        RedirectAllowed(clients[row[f].client].redirects, row[f].redirect)

\* Abandoned flows are reclaimed: no row and no code stays in memory for ever.
AbandonedIsReclaimed ==
    /\ \A f \in Flow : f \in states ~> f \notin states
    /\ \A k \in Code : codes[k] # NoCode ~> codes[k] = NoCode

-----------------------------------------------------------------------------
(* What these steps are to those who sign in.                              *)

\* Which browser and verifier a flow is of, and since when.
Owner == [f \in Flow |-> IF row[f] = NoFlow THEN NoFlow
                         ELSE [browser |-> row[f].browser, challenge |-> row[f].challenge,
                               at |-> row[f].createdAt]]

\* How far a flow has got.
Stage == [f \in Flow |->
    CASE Sessions(f) # {} -> "session"
      [] Sessions(f) = {} /\ Codes(f) # {} -> "coded"
      [] Sessions(f) \cup Codes(f) = {} /\ Exchanges(f) # {} -> "returned"
      [] Sessions(f) \cup Codes(f) \cup Exchanges(f) = {} /\ f \in states -> "pending"
      [] OTHER -> IF row[f] = NoFlow THEN "new" ELSE "over"]

\* Sessions without the code they were granted for.
Started == {[flow |-> s.flow, user |-> s.user, verifier |-> s.verifier, at |-> s.at] :
                s \in sessions}

SignIn == INSTANCE SignIns
              WITH owner <- Owner, stage <- Stage, sessions <- Started, Nobody <- NoFlow

\* State and code are single-use (token_store.go:347): whatever is repeated, crossed,
\* lost or restarted, an authorization goes forward once, in time, and ends in one
\* session of those who began it, or in none.
FlowsGoForward == SignIn!Spec
=============================================================================
