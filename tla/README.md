# gtm-mcp-server in TLA+

Specifications of gtm-mcp-server, an MCP server in Go that lets AI clients edit
Google Tag Manager (GTM) containers, model-checked with TLC; every safety property that
holds of them is also proved with TLAPS. Paths are relative to the repository; a plain `handlers.go` is
`auth/handlers.go`, and a plain `zones.go` or other file of a tool is in `gtm/`.

1. [The system](#the-system)
2. [Modules](#modules)
3. [Runs](#runs)
4. [Fairness](#fairness)
5. [Proofs](#proofs)
6. [Where code and documentation differ](#where-code-and-documentation-differ)
7. [What is not modelled](#what-is-not-modelled)
8. [Plan](#plan)

## The system

One process serves HTTP. An MCP request passes `auth.Middleware`, unless the server
runs open, and reaches the MCP handler, whose tools, prompts and resources call the GTM
API as the user of the session or as the service account. Beside it are the OAuth
endpoints (`/register`, `/authorize`, `/oauth/callback`, `/token`), each behind a rate
limiter, and one cleanup goroutine per store and limiter. All requests run
concurrently; what they share is the token store, the limiters' maps, the metadata
document cache, and, outside the process, the entities of GTM.

| Component | State | Operations | Hard part |
|---|---|---|---|
| `MemoryTokenStore` (`token_store.go`) | `tokens`, `refreshIndex`, `states`, `codes`, `clients` under one RWMutex | store, look up, rotate, delete, extend, update, consume, purge | two maps that must agree; limits compared with `Before` here and `After` there |
| `FileTokenStore` (`file_token_store.go`) | the above, a JSON file, a second lock `saveMu` | the same, then persist; load | memory and file change in different critical sections; failed writes; crashes |
| Silent renewal (`middleware.go`) | locals of a request | `Middleware`, `tryAutoRefresh` | checks an entry, asks Google, writes later; many requests with one bearer |
| Token endpoint (`handlers.go`) | locals of a request | code grant, refresh grant | several grants with one credential, racing renewals |
| Authorization and callback (`handlers.go`, `statebinding.go`) | state rows, codes, browser cookies | `AuthorizeHandler`, `CallbackHandler` | flows of several browsers cross; rows and codes are single-use |
| Client registration (`registration.go`) | `clients`, at most 1000 | `/register`, eviction | eviction under a flow that is under way |
| Metadata documents (`cimd.go`) | cache of at most 256 documents | `Fetch` | eviction and refresh of the cache |
| Google provider (`google.go`) | the token source of one session | exchange, refresh | the source writes the store in the middle of a tool call, while renewals and rotations run |
| Start-up, modes, shutdown (`main.go`, `config`), service account | the configuration of the process, its store, what the context of a request has | start, signal, stop, die; `Middleware`, `getClient` | the same file and the same bearers across modes; as whom GTM is called |
| Tools, prompts, resources (`gtm/*.go`) | none; the entities are in GTM | about a hundred, each a few requests | what happens between the requests of one call; lost answers; cancellation; pages |
| Retry (`errors.go`) | one call | `retryWithBackoff` | repeats what is safe to repeat, and stops |
| Versions (`versions.go`, `tool_version.go`) | none | create, publish | checks the workspace, then acts in another request |
| Entity updates (`mutations.go`, `zones.go`, ...) | none | update, revert, delete | get, merge and PUT of a whole entity that others edit too |
| Trigger conditions (`mutations.go`, `tool_update_trigger.go`) | none | create, update | the same remapping written twice, one after the other, and not the same |
| Rate limiter (`middleware/ratelimit.go`) | buckets per address, capped | allow, cleanup | cleanup between the lookup of a bucket and its use; the map at its cap |

The components call each other directly: handlers call the store; `FileTokenStore`
embeds `MemoryTokenStore`; Google and GTM are reached over HTTP and may fail or lose
an answer. There are no queues and no callbacks. Every handler is a sequence of store
calls, each atomic under the store's lock, or of requests to Google, with unbounded gaps
between them in which everything else runs. Those gaps are what most of the models are
about.

What makes each component correct is listed with its module below. The full list of
hazards, each with its line and its properties, is in `PROJECT.json`.

## Modules

Five specifications say what others implement: `Sessions` extends `MemoryTokenStore` and
is proved to implement its `Spec`; `FileTokenStore` implements `DurableStore`,
`OAuthFlow` implements `SignIns`, `EntityUpdate` implements `EntityEdits`, and
`RateLimiter` implements `AddressBuckets`, all checked and proved. `...Proofs` modules
hold the theorems; `MC...` modules and `.cfg` files are the TLC instances. A definition
with an underscore in its name (`RotateToken_KeepOldEntry`) is a deliberately wrong
variant of the definition before the underscore, kept beside it to show that a
property notices the mistake.

### MemoryTokenStore

The credential maps of `auth/token_store.go`. `tokens` and `refreshIndex` are functions
with `NoToken` and `NoAccess` for absent keys; an entry is a record with the fields of
`TokenInfo` the code decides on. One action per method, each a single step because each
holds the lock from beginning to end. The store does not choose credentials, so
`StoreToken` and `RotateToken` take any that the generator could have drawn, including,
for `RotateToken`, ones that collide with an entry, which `rotationPredecessorLocked`
refuses. `GoogleToken` is the moment its access token expires. `PurgeExpired` is the
pass of the cleanup goroutine.

* `IndexConsistent`: the two maps agree, so a refresh token leads to the entry that
  carries it.
* `SpentIsDead`: a refresh token that was rotated or revoked is not accepted again.
* `DeadStaysDead`: no step makes a dead refresh token acceptable.
* `OnlyRotationOrDeletionEnds`: an open refresh window ends by its own rotation, its
  deletion or the clock, and by nothing else that is done to other sessions.

### Sessions

The requests of `middleware.go`, the refresh grant of `handlers.go` and the token
source of `google.go`, over the store above. Each request has a program counter, and
each store call and each answer from Google is a step of its own. `entry` is the clone
that the store hands out, so it may be stale by the time it is used. `StartSession` is
the store call that ends a code grant. `ToolStarts`, `GoogleRefreshes` and `ToolUpdates`
are `AutoRefreshTokenSource`: a tool call renews the Google token of its session and
writes it under the bearer it was made for, which may have been rotated meanwhile.
`maxAge` is `AUTH_AUTO_REFRESH_MAX_AGE`, chosen at the start and never changed; 0 turns
the cap off.

* `RenewalChainBounded`, `WindowBounded`: racing renewals, each with an expiry it
  computed for itself, do not carry a bearer past the age cap (or, without a cap, the
  refresh window) by more than one lifetime and the time of a renewal.
* `OnePairPerSession`: of all credentials that descend from one authorization, one
  pair at most is in the store.
* `GoogleTokenNotStale`: no session is continued on a Google token that had expired
  when the grant looked at it, although renewals and tool calls replace the stored one.
* `DocumentedAgeCap`: what the documentation says of the cap; see
  [below](#where-code-and-documentation-differ).

### FileTokenStore and DurableStore

The same store with its file and both locks. A pair of credentials that
`MemoryTokenStore` keeps together is one element here and its content a revision
number, since the two maps are settled there. What is split up is what the code splits
up: the change of the memory, taking `saveMu`, the snapshot, the write. `RotateToken`
holds both locks through the write and commits afterwards. A write happens at one
instant (temporary file and rename) or not at all. `Crash` may come between any two
steps; `Restart` is `load`.

`DurableStore` is the contract of a persistent `TokenStore` as its callers and a restart
see it: a memory that each operation changes at one instant, and a file that follows it,
without locks and snapshots. A write may be of what the memory was a while ago, but it
takes no entry back to an earlier revision, drops none that has not been deleted,
replaced or outlived, and brings back no pair that has ended. The mapping hides what
only the locks know: `Visible` is memory without the pair that a rotation holding `mu`
has already taken off the file, `Rotations` are the calls of `RotateToken` before and
after their write, and `Ended` are the pairs no memory, file or call has any more.

* `ReplacedStaysGone`: a replaced pair is on no later file and nobody finds it in memory.
* `AckedSuccessorOnDisk`: a successor the client was told about survives any crash.
* `RevokedStaysGone`: a pair is gone for good once its deletion reported success.
* `QuietFileIsCurrent`: at rest, after a successful write, file and memory agree.
* `StoreIsDurable`: the two locks implement `DurableStore`. A rotation takes effect at
  its write, at once for those who look it up (they wait for `mu`) and for a restart.
* `EveryCallReturns`: the two locks never block each other for ever.

### OAuthFlow and SignIns

From `/register` and `/authorize` to the session, over `states`, `codes` and `clients`.
A flow is the random state, client state and cookie of one `/authorize`, so `jar`, the
cookies of each browser under their two names, holds flows. Callbacks work on a Google
code while others run (`work`). Browsers may reach a callback with the state of any
flow, repeat it, and lose their cookies; the server may restart. `row` keeps a consumed
row as history for the properties; no action but those of the code that still holds the
row reads it.

`SignIns` is what an authorization promises those who begin one: it goes from new to
pending, returned, coded and session, each once and in its time, and ends in one session
of the browser and verifier that began it, or in none. It has no states, codes, cookies
or requests. `Stage` maps a flow to it by the place the flow is in.

* `SessionBelongsToStarter`: who consented at Google is who began the flow, and the
  session goes to the holder of its verifier.
* `FlowInOnePlace`: a flow is a row, an exchange, a code or a session, one at a time.
* `SessionIsPrompt`: the limits of the legs of a flow add up, at the last instant too.
* `RedirectStaysRegistered`: the redirect URI of a flow under way is one its client's
  registration allows, although it is checked at `/authorize` alone and registrations
  are evicted. Of a client that is evicted and not registered again it says nothing: its
  flows go on with the URI they began with.
* `FlowsGoForward`: the maps, cookies and requests implement `SignIns`, so no repeated or
  crossed callback, second grant or restart takes a flow back or leads it to a session
  twice.
* `AbandonedIsReclaimed`: rows and codes of abandoned flows do not stay for ever.

### EntityUpdate and EntityEdits

`EntityEdits` says what an editor of a GTM entity may expect: an edit takes effect once,
on the entity as it then is, and writes the fields of its change. `EntityUpdate` is what
the tools do, for fourteen families of entities: `Get`, a body made of the fetched entity
and the input (one operator per family, because each builds it in its own way), `Put`
with the fingerprint; revert; delete. The inputs of a family are those its tool accepts,
so a field it requires is always given and one it treats alike when empty and when
absent cannot be cleared. The mapping takes as a caller's change the fields the code is
going to write: those of the input and those its family empties when the input omits them
(`Resets`). So the refinement is about when fields are written; which fields should be is
`OmittedFieldsPreserved`, and four families fail it.

* `EditsAreAtomic`: the detailed protocol implements the atomic edits, for the
  families that send the fingerprint: all but templates. An edit made between `Get` and
  `Put` is never undone by a body built from the older entity.
* `AlwaysOptimistic`, `OmittedFieldsPreserved`: what the documentation says of every
  family; see [below](#where-code-and-documentation-differ).

### TriggerConditions

Where the conditions given to `create_trigger` and `update_trigger` end up. Google drops
`autoEventFilter` for clicks, link clicks and form submissions; `CreateTrigger` and
`UpdateTrigger` move it to `filter` when `filter` is empty, and the handler of
`update_trigger`, which runs before `UpdateTrigger`, adds it to the `filter` that is
given. A call is one step: what comes between its requests is the matter of
`EntityUpdate`. `companions` stands for `waitForTags`, its timeout and `checkValidation`;
an update does not add them to a trigger that lacks them, because the handler has emptied
`autoEventFilter` before `mutations.go:267` looks at it.

A list of conditions is a sequence, so that a condition kept twice would be seen.

* `UpdateRemapsAll`: an update that reports the move leaves in `filter` the conditions of
  both lists given, one after the other: the two remappings lose and repeat none.
* `RemappedIsInFilter`: the same promise for both tools; see
  [below](#where-code-and-documentation-differ).

### ToolCalls and ToolTable

A call of any tool, prompt or resource. `ToolCalls` is what they have in common: the
check of the input and of the confirmation, the requests one after the other, each alone
or through `retryWithBackoff`, the lists collected page by page, the answer. `Requests`
gives the requests of each tool; `ToolTable` is this server's table, written method by
method and handler by handler, with the tool groups that `GTM_TOOL_GROUPS` chooses from.
`attempt` is the counter of `retryWithBackoff`, `Send`, `Limits` and `Wake` its loop:
the context is looked at before each attempt and in the wait, and the request carries it
too (`Stop`). When the Google token has expired, the transport of the request asks for
another first (`Refreshes`, `Refreshed`), and this the context does not reach. GTM is
external: it refuses without effect (`Limits`), or fails with or without having carried
out the request (`Breaks`); after a cancellation the request may still be carried out
(`Settles`). `Edit` is everybody else: other calls, other servers,
and people at the GTM web interface. `during` is history.

* `ListsAreWhole`: a list fetched to its end among edits, retries and failures has what
  was there all the time, once, and nothing that never was.
* `AppliedAtMostOnce`: no write of one call is carried out twice.
* `AnswersAreTrue`: success means the write was done, refusal that nothing was.
* `VersionedAfterCheck`: `create_version` makes a version only of a workspace that was
  changed and free of conflicts at a moment of the call; not necessarily the last one.
* `EveryToolReturns`: a call ends if GTM answers each request and the token endpoint
  each refresh, with whatever error.
* `CancelledToolReturns`: once cancelled it ends even if GTM does not answer, but only if
  a refresh it is in does end (`RefreshesEnd`). `google.go:115` refreshes with
  `context.Background()` on the default HTTP client, which has no timeout. Google's tokens
  live about an hour and bearers longer, so this is a step of ordinary calls; if the token
  endpoint accepts the connection and stays silent, the call stays with it, whatever its
  client does. Without the hypothesis TLC finds that behaviour: a call that is refreshing,
  then cancelled, and nothing more. No document promises otherwise, so there is no run for
  it. The token source of the service account refreshes with a context of the process,
  which no call's cancellation reaches either.
* `ListsReturnAll`: what the comments say of the lists that look at one page; see
  [below](#where-code-and-documentation-differ).

What an update makes of the entity it has read is the matter of `EntityUpdate`; a call
here is one list of requests. The module depends on a tool's context being that of the
HTTP request of its call, which is up to the MCP library.

### Deployment

The process of `main.go` over its restarts, each in a mode of its own: OAuth, with a file
or without, with an API key or without; the key alone; open. `ContextOf` is what
`Middleware` puts into the context of a request, `GetsClient` what `getClient` makes of
it. A session is one bearer; how long it lives is the matter of `Sessions`.

* `ActsForItsBearer`: GTM is called as the service account for the holder of this
  process's key and as a user for the holder of that user's bearer.
* `NoNilProvider`: the key-alone mode hands `nil` as the Google provider to the
  middleware; no request comes to use it, whatever sessions an earlier mode has left.
* `SessionsKept`: with OAuth the server knows the sessions it has begun, and with a path
  those begun with the file, whatever modes ran in between.

### RateLimiter and AddressBuckets

The visitors of `middleware/ratelimit.go`: `getVisitor` under the lock, `Allow` on the
bucket after it, and the cleanup that may remove the entry in between, whereupon the
address gets a new, full bucket. `idle` and `age` count ticks since a request was seen
and since a request looked its bucket up. `AddressBuckets` has one bucket per address
that nobody ever removes.

* `OneBucketPerAddress`: the table cannot be told from `AddressBuckets`, so neither
  cleanup nor a full table gives an address more than its rate and burst. This needs
  `Burst <= Rate * (StaleAfter - Stall)`: a bucket fills up before its entry is stale
  even if a request was about to use it. The code's values (20 at 10 per second, 5 at 2
  per second, three minutes) leave that much room for a goroutine stalled for minutes.

### DocumentCache

The cache of `cimd.go`: lookup under the lock, fetch without it, store under it.
`Seconds` is the multiplication `secs * time.Second` with its overflow; `TTL` bounds the
result from above only. `Kept` is what `storeInCache` may keep: expired entries go, then
any entries, in the order of a Go map, until one has room.

* `ServedDocumentIsRecent`: whatever `max-age` a host sends, and although a slow call may
  store an older document over a newer one, no document is served longer after it was
  sent than `cimdMaxTTL` and the time of a call.
* `LiveDocumentsKept`: a live document is lost only when the cache is full of live ones,
  and one at a time.

## Runs

| Run | Instance | What it shows |
|---|---|---|
| `tool_calls` | every handler of `ToolTable`, 1 client, 2 items, pages of any size, 2 retries; 2 sessions, 2 keys, 1 request; 2 callers, 2 pairs and 1 revision of the file store | each request of each tool refused, broken, lost or cancelled, among edits; the modes over any number of restarts; every call returns |
| `list_all` | the same tools, 1 retry | violation: a list is returned without an item that was there all the time |
| `sessions` | 2 requests, 2 pairs, access lifetime 1, window 3, cap 1 or off, calls of at most 1, 6 moments | renewals and tool calls race each other, grants and the purge; chained renewals pass the cap, and without it reach the window, within the instance |
| `documented_age_cap` | the same requests, 3 pairs, cap 2 | violation: a bearer is served past the documented cap |
| `file_store` | 2 callers, 3 pairs, 1 revision | all interleavings of two calls with crashes and failed writes; the third pair is the successor of a successor; refinement of `DurableStore` |
| `oauth_flow` | 2 browsers, flows, codes, requests and verifiers, lifetimes of 1, 4 moments | crossed and repeated flows; refinement of `SignIns` |
| `oauth_flow_clients` | 1 flow, 3 redirect URIs, 2 registrations with room for 1, a metadata client and an unknown one | eviction under a flow; reclamation |
| `entity_update` | 1 entity of any of the 13 families that send the fingerprint, 2 callers, 2 accepted edits; 2 conditions, a link click and a page view | refinement of `EntityEdits`; the two remappings of an update, each list of at most 1 condition |
| `template_update` | the same, templates | violation: an edit made after the Get is lost |
| `partial_update` | the same; variables, clients, transformations, triggers | violation: omitted fields are emptied |
| `trigger_conditions` | the same, triggers | violation: conditions said to be remapped are in no list |
| `tables` | credentials: 3 access and 3 refresh tokens, window of 3, 3 moments; limiter: 3 addresses with room for 2, 2 requests, 4 buckets, rate 1, burst 2, stale after 3, stalls of 1; cache: 3 documents with room for 2, 2 calls, lifetimes 1 and 2, overflow at 5, 4 moments | all orders of calls on three sessions: one that rotates, one it may collide with, one that must not notice; refinement of `AddressBuckets`; the cache at its cap, with every kind of `max-age` |

Two concurrent requests are enough because the code has no step that depends on more
than one other: a request is disturbed by what the store holds, and one other request
together with the purge, the clock and a crash can bring about each of its states.
Two pairs make a rotation; in the stores a third makes the successor a predecessor,
which is where reuse could show. Lifetimes are small numbers with the order they have in
the code (access below cap below window, where the instance has room for it); each
property compares moments at most one apart, so the clock needs to reach one past the
largest sum a property names, and does: in `sessions` window, lifetime and call add up to
5 and the clock ends at 6. The values of `max-age` are none, one below the longest
lifetime, one above it, and two whose product wraps to a negative number.

In `tool_calls` one client is enough, because another call of this server can do nothing
to GTM that `Edit` does not do. Two items make a list of one page, of two, and with one
inserted before or after the place that the token marks; two retries of the code's three
have a first, a middle and a last attempt. `ToolCallsProofs` removes these bounds. In
`Deployment` the second session is the one left by an earlier mode, the second key a key
that was changed.

Three instances hold specifications that share no variable: `MCTables`, `MCToolCalls`,
and `MCEntityUpdate` with the trigger tools. There one runs while the others stay as
they were at the start: the properties of each look at its own variables only, so their
product would show nothing more. No fair step is enabled in a specification that stays
at its start, so the fairness of one demands nothing of another.

The bounds, all of them on counters that have none in the code: `MaxTime`, `LastMoment`,
`MaxRev`, `MaxEdits`, `MaxListed`, `Items`, `LastStart` (no flow begins later, so that the clock can
pass the end of each that did), and three that have a place in the statements they matter
to. `FetchBound`, the longest a fetch of a document takes, is `cimdFetchTimeout`
(`cimd.go:24`). `CallBound`, the longest a request waits for Google, and `Stall`, the
longest a request is between its lookup of a bucket and its use, are limits the code does
not set: it gives no call to Google a deadline. The statements hold for every value of
the two and say how the result depends on it; a call that takes longer than any bound is
outside of them. Deadlock is not checked where the
clock, the edits or the credentials run out.

Symmetry is used in runs of safety and refinement, whose properties name no element, and
only over sets that no definition chooses from with `CHOOSE`; `Sessions` draws fresh
credentials that way and is symmetric in requests only.

## Fairness

`ToolCalls`: weak fairness of the handler's own steps, those of its goroutine: sending
the next request, waking from the wait, returning when the context is done. None of GTM,
of the client or of other editors. What Google must do is stated as a hypothesis of the
property: that no request to GTM stays open for ever (`RequestsEnd`) and no refresh of a
token does (`RefreshesEnd`) in `EveryToolReturns`, the second alone in
`CancelledToolReturns`.

`FileTokenStore`: weak fairness of each caller's steps, because a runnable goroutine is
scheduled and a write returns or fails; strong fairness of taking `saveMu`, because
Go's `sync.Mutex` hands over to a waiter that has starved for a millisecond, so others
do not overtake it for ever. Nothing makes a caller begin a call. A rotation that still
waits for `saveMu` at its beginning counts as under way only once it has the lock.

`OAuthFlow`: weak fairness of `purgeExpired`, which `cleanup` calls from a ticker for
ever; of the return of the exchange; and of time. The code gives the exchange no
deadline, so its return is an assumption on Google; the property needs it because the
clock does not pass `CallBound` over an open exchange (the row is consumed before it, and
an exchange that stays open holds no code). No fairness
of users, browsers or clients: an abandoned flow is one whose next step never comes.

## Proofs

Each `...Proofs` module has one lemma per operation, or per conjunct where an operation
disturbs several; the action properties need only a look at one step from a state of
the invariant.

**`MemoryTokenStoreProofs`**, for any sets of credentials and any lifetimes, under
`StoreAssumption` (distinct null values, lifetimes in `Nat`): `TypeCorrect`,
`IndexAgreement` (`IndexConsistent`), `RefreshTokenSingleUse` (`SpentIsDead`),
`NoResurrection` (`DeadStaysDead`), `OpenWindowKept` (`OnlyRotationOrDeletionEnds`).

The inductive invariant `IInv` adds two facts to the type invariant and to
`IndexConsistent`. `StoredIsIssued` says that an entry's credentials have been issued:
without it a fresh refresh token might already be indexed, and storing it would steal
the index entry of another session. `SpentUnindexed` says that a spent or revoked token
is not in the index, which is `SpentIsDead` without the clock and, unlike that,
preserved by each operation separately. `RemovalInv` serves deletion and purge,
`RewriteInv` the two operations that change a field.

**`SessionsProofs`**, for any number of requests and credentials, any lifetimes, cap and
bound on a call, under `SessionAssumption` besides: `HandlersImplementStore` (every
behaviour of the handlers is one of `MemoryTokenStore!Spec`, so the theorems above hold
under them: `SessionsSpendOnce`, `SessionsIndexAgrees`, `SessionsStayDead` and
`SessionsKeepWindows` carry them over), `SessionTypeCorrect`,
`RenewalBounded` (`RenewalChainBounded`), `RenewalWithinWindow` (`WindowBounded`),
`RotationReplaces` (`OnePairPerSession`) and `GoogleTokenFresh` (`GoogleTokenNotStale`).

The argument is about what a request still knows of an entry it read some time ago. The
entry may be gone; but an access token is never given to a second entry, and neither the
moment of creation nor the refresh window of an entry is rewritten. So if the bearer's
entry is still there, its age and window are those of the copy (`BearerOK`), and the
checks at the start of a renewal hold of it up to the time of a call (`RenewalOK`). The
invariant `SIInv` is the store's `IInv` with these facts for each request.

**`FileTokenStoreProofs`**, for any number of callers and pairs: `TypeCorrect`,
`ReplacedGone`, `SuccessorOnDisk`, `RevokedGone`, `QuietFile`, `ImplementsDurable`
(`StoreIsDurable`), `NoDeadlock`, `BoundedCalls`. The properties speak of
memory and file; the danger is a snapshot on its way from one to the other. The invariant
`FInv` ties the locks to the program counters (`Locks`: whoever snapshots or writes holds
`saveMu`, whoever installs a successor holds `mu`), and says what a snapshot under way
holds: a rotation's is memory but for its own pair (`Installs`), none holds a pair that
was replaced (`Replaced`) or whose deletion was acknowledged (`Revoked`), each holds the
acknowledged successors (`Acked`), and the latest is memory unless somebody is still to
take one (`Fresh`). `PersistDoneFInv` serves the write that succeeds and the one that
fails.

`ImplementsDurable` maps every step to one of `DurableStore`, or to none: taking a lock
and taking a snapshot are none, and the write is where a rotation happens. For that it
needs `Extra`, about where a pair can be and in which order: a pair that was never drawn
is nowhere (`Undrawn`), a successor is with its rotation alone until the write
(`Successors`), the predecessor of a rotation about to write is in memory
(`Predecessors`), a caller that does not write has an empty snapshot (`Snapshots`); the
file is behind the snapshot under way and that behind memory, revision by revision
(`Ordered`), and what is missing from a later one was deleted, replaced or has lapsed
(`Kept`). `EndsHolds` is the last conjunct of its next step, that a pair ends for good.

`NoDeadlock` and `BoundedCalls` are what of `EveryCallReturns` is safety: whenever calls
are under way one of them finds free the lock it wants, and each is at most three steps
from its return, which no other call's step delays. That the steps are taken, and that
no caller starves at `saveMu`, is fairness and stays with TLC.

**`OAuthFlowProofs`**, for any number of browsers, flows, codes, requests and clients and
any lifetimes, under `FlowAssumption`: `BelongsToStarter`, `OnePlace`, `Prompt`,
`RedirectKept`, `FlowTypeCorrect`. Each thing on the way from `/authorize` to a session
still says what its row said: a cookie names a flow of its own browser (`JarInv`), a
callback and a code are for the browser of their row and in its time (`WorkInv`,
`CodeInv`), and `SessionInv` follows. `PlaceInv` is `FlowInOnePlace` pair by pair, the
form in which a step preserves it; `PlacesExclude` counts. `ImplementsSignIns`
(`FlowsGoForward`) reads the stage of a flow off its places (`Staged`), which exclude each
other (`Exclusive`): a step that moves one flow is that flow's step (`OneMoves`), and one
that only drops rows, calls and codes ends flows (`DroppedMaps`). `ClientInv` needs that a
client id is never given twice (`registered`), also after its registration was evicted.

**`ToolCallsProofs`**, for any table of tools that satisfies `ToolAssumption`, any number
of clients, items and retries: `ToolTypeCorrect`, `NoWriteTwice` (`AppliedAtMostOnce`),
`NoFalseAnswer` (`AnswersAreTrue`), `NoVersionUnchecked` (`VersionedAfterCheck`),
`ListsWhole` (`ListsAreWhole`), `NoCallGoesBack`, `BoundedAttempts`. `ToolAssumption` says of the table what the theorems need
and TLC evaluates on `ToolTable`: a call writes with its last request only, fetches a
list to its end only with its last, and looks at the status right before it creates a
version. `TypeInv` adds to the types that only a call with an attempt left waits.
`ProgressInv` says that a call has written nothing while it is under way; `ListInv`, that
what is collected lies before the page token and is all that was there up to it;
`WitnessInv`, that the history of a call under way agrees with what there is. The last
two theorems are what of `EveryToolReturns` is safety: each step that leaves a call under
way takes it to a later request, page, attempt or phase (`Beyond`), also while others
insert into the list it fetches, and there are finitely many of them. That Google answers
and the goroutine runs stays with TLC.

**`DeploymentProofs`**, for any number of sessions, keys and requests and any sequence of
starts, stops and deaths: `DeployTypeCorrect`, `ActsAsItself` (`ActsForItsBearer`),
`ProviderThere` (`NoNilProvider`), `SessionsSurvive` (`SessionsKept`). `FileAgrees` says
what is in the file; `LetIn`, that what the context of a request has is what its bearer
was good for in this process.

**`EntityUpdateProofs`**, for any number of entities, callers, values and edits, and any
conditions:
`TypeCorrect` and `ImplementsEdits` (`EditsAreAtomic`, when no family of the instance is
a template, the hypothesis of the theorem). The invariant beside the types is
`ReadIsCurrent`: a caller whose fingerprint is current holds the current content, so its
PUT is its edit applied to what it replaces. `UpdateRemapped` (`UpdateRemapsAll`) is about
the functions of one input, so its work is done by `UpdateRemaps`, for every trigger,
input and answer and lists of any length; `ConditionAssumption` says that no list of
conditions, nor two joined, is the absent one.

**`TablesProofs`**, for any number of addresses, requests, documents and calls. Of the
limiter `LimiterTypeCorrect` and `ImplementsBuckets` (`OneBucketPerAddress`), for any
rate, burst and lifetime that `LimiterAssumption` allows: an entry is removed only when
its bucket is full again (`FillsWhileIdle`) and no request is about to take a token from
it (`HeldIsInTable`), so a new bucket makes no difference. Of the cache
`CacheTypeCorrect`, `ServesRecent` (`ServedDocumentIsRecent`) and `KeepsLive`
(`LiveDocumentsKept`), for any cap, any lifetimes and wherever the multiplication
overflows.

The type invariants of `Deployment`, `OAuthFlow` and `EntityUpdate` are theorems only
(`DeployTypeCorrect`, `FlowTypeCorrect`, `TypeCorrect`); no run repeats them.

Model-checked only: the four liveness properties `EveryToolReturns`,
`CancelledToolReturns`, `EveryCallReturns` and `AbandonedIsReclaimed`. Liveness under
fairness and anything about `ENABLED` stay with TLC, as do facts that need an induction
over data or a recursive operator; the modules have none of the latter.

## Where code and documentation differ

Shown by a run:

* `documented_age_cap`. ARCHITECTURE.md:58 says that `AUTH_AUTO_REFRESH_MAX_AGE` caps
  the total age of a silently renewed bearer. `middleware.go:136` compares the age when
  a renewal begins and then grants a full lifetime, so a bearer may be served until its
  age is the cap plus one lifetime. `RenewalChainBounded` is the bound that does hold.
* `list_all`. `tags.go:37` says that `ListTags` returns all tags in a workspace, as
  `triggers.go:26` and `variables.go:19` say of theirs. Each sends one request and does
  not look at `NextPageToken`; the lists of zones, folders, workspaces and others do.
  The container resources and the prompts that quote a workspace use the same methods.
* `template_update`. ARCHITECTURE.md:205 says that write operations always use
  fingerprint-based optimistic concurrency. `tool_update_template.go:70` sends no
  fingerprint parameter.
* `partial_update`. ARCHITECTURE.md:133-136 says that an update fetches the entity for
  "field preservation" and overrides only the fields provided; so does the comment at
  `mutations.go:182` of triggers. `UpdateVariable` (`mutations.go:320`), `UpdateClient`
  (`clients.go:70`) and `UpdateTransformation` (`transformations.go:69`) send an object
  made of the input alone, so parameters and notes that it omits, and the folder, are
  emptied, with success reported; `UpdateTrigger` (`mutations.go:230`) keeps the
  parameters and filters, takes `Notes` from the input and leaves the folder out. With
  each of the four kinds alone TLC finds the violation; with tags alone it finds none.
  Templates lose their gallery reference in the same way, of which the description of
  `update_template` warns, so they are not in the run.
* `trigger_conditions`. tool-input-formats.md:37-38 (in `gtm/bestpractices/docs`) says
  that the server remaps the conditions of `autoEventFilter` to `filter`, and so does the
  answer of `create_trigger`. `mutations.go:135` does it only when `filter` is empty;
  given both lists, Google drops the conditions. `update_trigger` merges them.

Read off one place in the code, without a run:

* ARCHITECTURE.md:93, in "Request Lifecycle", puts the rate limiter in front of an MCP
  request. `main.go` gives limiters to the four OAuth endpoints only.
* ARCHITECTURE.md:204 says that every MCP tool call is authenticated. Without OAuth and
  API key the server runs open (`main.go`); there a tool that needs GTM reports that the
  call is not authenticated, and the others answer.
* README.md:189-191 and `tool_update_trigger.go:19` say that omitting `filterJson`
  preserves the filter. When an update of a click, link click or form submission gives
  `autoEventFilterJson`, `tool_update_trigger.go:91` makes the moved conditions the new
  filter, and those stored before are replaced.
* ARCHITECTURE.md:83 says that `mutations.go` owns the remapping of `autoEventFilter` and
  that handlers do not duplicate it. `tool_update_trigger.go:91` does.
* ARCHITECTURE.md:121 says that the service account's token source is used "in both S2S
  and OAuth+SA mode" if present. `middleware.go:64` puts it into the context of the key's
  holder only, which is what `ActsForItsBearer` states.

## What is not modelled

* `resolve.go`, `metadata.go`, `protected_resource.go`: functions of one request and the
  configuration, without state. The scheme they resolve is an input of `Authorize`. That
  a resolver accepts more hosts than the one Google redirects to, whose cookie the
  callback then lacks (`main.go:166`), is outside the model of one host.
* `cmd/tool-schema-report`: a development aid.
* Formatting of answers, wording of errors, the texts of prompts and best practices,
  logging; the rules by which an input is valid, which are one outcome.
* `sync_workspace` answers `Success: false` when Google carried out the synchronization
  and reports an error in it (`tool_workspace_operations.go:96`); in `ToolCalls` that is a
  success, as the request was carried out.
* A zero `RefreshExpiresAt` (`token_store.go:190`, `:273`, `:438`), which makes an entry
  not refreshable: the handlers always set it (`handlers.go:426`, `:495`).
* A renewal in `Sessions` and the exchange of a code carry the context of their request
  (`middleware.go:81`, `handlers.go:233`); their being cut off is one of their failures.
* `MaxBytesMiddleware` and the timeouts of the HTTP server: their effect is a request
  that is refused, or cut off.
* `OptionalMiddleware` and the store's `GetState`, `DeleteState` and `DeleteClient` have
  no caller outside the tests.
* The length of the waits in `retryWithBackoff`, and the ten seconds of the shutdown:
  each may end at any time.
* `PublishVersion` (`versions.go:46`) reads `result.ContainerVersion` without the check
  for nil that `CreateVersion` has. Whether Google ever leaves it out is not in the code.
* A prompt sends its three lists one after the other, so it may quote a workspace as it
  never was; the code promises nothing else.
* A full table of visitors (`ratelimit.go:56`) refuses every new address until an entry
  is three minutes old. The model has that refusal, and no property about it: that a
  limited address is served in the end would need an assumption on arrivals.
* In the file store: a rename that a power loss undoes, since the directory is not
  synced; the model takes the rename as durable.
* `load` (`file_token_store.go:163`) skips an entry whose window has closed although its
  bearer may still be live, renewed just before the window closed.
* The loss of the answer of a refresh grant (`handlers.go:501`): the client holds a spent
  refresh token and its user signs in again. There is no grace period to model.

## Plan

Written, in the order of what matters most to the users of the server, and with the
proofs listed above: `MemoryTokenStore`, `Sessions`, `FileTokenStore`, `OAuthFlow`,
`EntityUpdate`, `TriggerConditions`, `ToolCalls` with `ToolTable`, `Deployment`,
`RateLimiter`, `DocumentCache`, and the contracts `DurableStore` and `SignIns`. What is
left:

1. URL resolution with several hosts, composed with the binding cookie of `OAuthFlow`.
2. Service of a limited address in the end, under a stated assumption on arrivals.
