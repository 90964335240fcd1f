--------------------------- MODULE DocumentCache ---------------------------
(***************************************************************************)
(* The cache of client metadata documents (auth/cimd.go).  Fetch looks the *)
(* client id up under the lock, fetches the document without it, and takes *)
(* the lock again to store it; /authorize requests run Fetch concurrently, *)
(* for the same document too.                                              *)
(*                                                                         *)
(* Data.  A document is known by the moment its host sent it.  A lookup    *)
(* that finds a live entry returns it and leaves no trace.  The check of   *)
(* the host, the limits on the answer and the validation of the document   *)
(* are one outcome: the document is good, or Fetch fails.                  *)
(***************************************************************************)
EXTENDS Integers, FiniteSets

CONSTANTS
    Url,            \* client ids that are document URLs
    Fetcher,        \* concurrent calls of Fetch
    NoUrl, NoDocument,
    MaxEntries,     \* cimdMaxCacheEntries
    DefaultTTL,     \* cimdDefaultTTL
    MaxTTL,         \* cimdMaxTTL
    MaxAges,        \* values of max-age, in ticks; 0 when none can be read
    Wrap,           \* half the range of time.Duration, in ticks
    FetchBound,     \* bound: ticks from the lookup to the store (cimdFetchTimeout)
    LastMoment      \* bound: the clock stops there

ASSUME CacheAssumption ==
    /\ MaxEntries \in Nat \ {0}
    /\ MaxTTL \in Nat /\ DefaultTTL \in 0..MaxTTL
    /\ MaxAges \subseteq Nat
    /\ Wrap \in Nat \ {0}
    /\ FetchBound \in Nat /\ LastMoment \in Nat
    /\ NoUrl \notin Url
    /\ NoDocument \notin [sentAt : Int, expiresAt : Int]

VARIABLES
    clock,
    documents,  \* the cache
    wanted,     \* the document each call wants
    since,      \* when its lookup missed
    answer      \* what it is going to store

cacheVars == <<clock, documents, wanted, since, answer>>

CacheInit ==
    /\ clock = 0
    /\ documents = [u \in Url |-> NoDocument]
    /\ wanted = [f \in Fetcher |-> NoUrl]
    /\ since = [f \in Fetcher |-> 0]
    /\ answer = [f \in Fetcher |-> NoDocument]

Cached == {u \in Url : documents[u] # NoDocument}

Live(u) == u \in Cached /\ clock < documents[u].expiresAt

\* secs * time.Second: a product past the range of time.Duration wraps around.
Seconds(n) == ((n + Wrap) % (2 * Wrap)) - Wrap

\* Without the upper bound.
TTL_Unbounded(maxAge) == IF maxAge > 0 THEN Seconds(maxAge) ELSE DefaultTTL

\* cacheTTLFromResponse.  Only an upper bound is enforced.
TTL(maxAge) ==
    IF maxAge = 0 THEN DefaultTTL
    ELSE IF Seconds(maxAge) > MaxTTL THEN MaxTTL
    ELSE Seconds(maxAge)

-----------------------------------------------------------------------------
Misses(f, u) ==
    /\ wanted[f] = NoUrl
    /\ ~Live(u)
    /\ wanted' = [wanted EXCEPT ![f] = u]
    /\ since' = [since EXCEPT ![f] = clock]
    /\ UNCHANGED <<clock, documents, answer>>

\* The call returns to its handler.
FetchReturns(f) ==
    /\ wanted' = [wanted EXCEPT ![f] = NoUrl]
    /\ since' = [since EXCEPT ![f] = 0]
    /\ answer' = [answer EXCEPT ![f] = NoDocument]

\* The host sends the document; its lifetime counts from its validation, sent
\* or later.
HostAnswers(f, maxAge) ==
    /\ wanted[f] # NoUrl
    /\ answer[f] = NoDocument
    /\ \E sent \in since[f]..clock :
          answer' = [answer EXCEPT ![f] = [sentAt |-> sent, expiresAt |-> clock + TTL(maxAge)]]
    /\ UNCHANGED <<clock, documents, wanted, since>>

FetchFails(f) ==
    /\ wanted[f] # NoUrl
    /\ answer[f] = NoDocument
    /\ FetchReturns(f)
    /\ UNCHANGED <<clock, documents>>

\* One entry too many before anything is evicted.
Kept_OffByOne ==
    LET live == {u \in Url : Live(u)} IN
    {S \in SUBSET live :
        IF Cardinality(live) <= MaxEntries THEN S = live
        ELSE Cardinality(S) = MaxEntries}

\* Expired entries are not dropped first.
Kept_ExpiredToo ==
    {S \in SUBSET Cached :
        IF Cardinality(Cached) < MaxEntries THEN S = Cached
        ELSE Cardinality(S) = MaxEntries - 1}

\* What storeInCache may keep: the live entries, less as many as it takes to
\* make room; which ones go is up to the iteration order of a Go map.
Kept ==
    LET live == {u \in Url : Live(u)} IN
    {S \in SUBSET live :
        IF Cardinality(live) < MaxEntries THEN S = live
        ELSE Cardinality(S) = MaxEntries - 1}

StoresInCache(f) ==
    /\ answer[f] # NoDocument
    /\ \E kept \in Kept :
          documents' = [u \in Url |-> IF u = wanted[f] THEN answer[f]
                                      ELSE IF u \in kept THEN documents[u]
                                      ELSE NoDocument]
    /\ FetchReturns(f)
    /\ UNCHANGED clock

CacheTick ==
    /\ clock < LastMoment
    /\ \A f \in Fetcher : wanted[f] # NoUrl => clock < since[f] + FetchBound
    /\ clock' = clock + 1
    /\ UNCHANGED <<documents, wanted, since, answer>>

CacheNext ==
    \/ \E f \in Fetcher, u \in Url : Misses(f, u)
    \/ \E f \in Fetcher, maxAge \in MaxAges : HostAnswers(f, maxAge)
    \/ \E f \in Fetcher : FetchFails(f) \/ StoresInCache(f)
    \/ CacheTick

CacheSpec == CacheInit /\ [][CacheNext]_cacheVars

-----------------------------------------------------------------------------
(* Properties.                                                             *)

\* Every variable holds what its declaration says, and the cache has no more
\* entries than its cap.
CacheTypeOK ==
    /\ clock \in 0..LastMoment
    /\ documents \in [Url -> [sentAt : Int, expiresAt : Int] \cup {NoDocument}]
    /\ wanted \in [Fetcher -> Url \cup {NoUrl}]
    /\ since \in [Fetcher -> 0..LastMoment]
    /\ answer \in [Fetcher -> [sentAt : Int, expiresAt : Int] \cup {NoDocument}]
    /\ Cardinality(Cached) <= MaxEntries

\* Whatever lifetime a host asks for, and although a slow call may store an older
\* document over a newer one, Fetch never serves a document that its host sent
\* longer ago than the longest lifetime and the duration of a call
\* (cimd.go:234, "a bounded cache TTL").
ServedDocumentIsRecent ==
    \A u \in Url : Live(u) => clock < documents[u].sentAt + MaxTTL + FetchBound

\* A live document is lost only for lack of room: expired entries go first, and
\* one store costs at most one of them (cimd.go:214-222).
LiveDocumentsKept ==
    [][LET lost == {u \in Url : Live(u) /\ documents'[u] = NoDocument} IN
       lost # {} => /\ Cardinality({u \in Url : Live(u)}) >= MaxEntries
                    /\ Cardinality(lost) = 1]_cacheVars
=============================================================================
