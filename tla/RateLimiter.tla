---------------------------- MODULE RateLimiter -----------------------------
(***************************************************************************)
(* The limit on requests per client address (middleware/ratelimit.go) in   *)
(* front of the OAuth endpoints: a table of visitors, each with a token    *)
(* bucket, whose stale entries a goroutine removes.  A request looks its   *)
(* bucket up under the lock and takes a token from it after the unlock.    *)
(*                                                                         *)
(* The bucket, golang.org/x/time/rate, is external: Allow takes a token if *)
(* there is one; the rate fills it up to the burst.  Time moves in ticks.  *)
(* An address is what extractClientIP returns for a request.  A request    *)
(* turned away because the table is full leaves no trace.                  *)
(***************************************************************************)
EXTENDS Integers, FiniteSets

CONSTANTS
    Address, Request,
    Limiter,        \* identities of token buckets
    NoLimiter, NoAddress,
    Rate,           \* tokens per tick
    Burst,
    StaleAfter,     \* ticks without a request before an entry is stale
    MaxVisitors,
    Stall           \* bound: ticks a request may spend between lookup and Allow

\* main.go gives 10 per second with a burst of 20, and 2 with 5; entries live for
\* three minutes (ratelimit.go:77).
ASSUME LimiterAssumption ==
    /\ Rate \in Nat /\ Burst \in Nat /\ StaleAfter \in Nat /\ MaxVisitors \in Nat
    /\ Stall \in 0..StaleAfter
    /\ Burst <= Rate * (StaleAfter - Stall)
    /\ NoLimiter \notin Limiter
    /\ NoAddress \notin Address

VARIABLES
    visitors,   \* the bucket of each address in the table
    idle,       \* ticks since its last request, counted up to StaleAfter + 1
    bucket,     \* tokens in each bucket
    from,       \* the address of each request
    held,       \* the bucket the request has looked up
    age,        \* ticks since it did
    served      \* history: requests served to each address, modulo 2

tableVars == <<visitors, idle>>
requestVars == <<from, held, age>>
limiterVars == <<tableVars, bucket, requestVars, served>>

LimiterInit ==
    /\ visitors = [c \in Address |-> NoLimiter]
    /\ idle = [c \in Address |-> 0]
    /\ bucket = [l \in Limiter |-> Burst]
    /\ from = [q \in Request |-> NoAddress]
    /\ held = [q \in Request |-> NoLimiter]
    /\ age = [q \in Request |-> 0]
    /\ served = [c \in Address |-> 0]

Visited == {c \in Address : visitors[c] # NoLimiter}

Unused(l) == (\A c \in Address : visitors[c] # l) /\ (\A q \in Request : held[q] # l)

LooksUp(q, c, l) ==
    /\ from' = [from EXCEPT ![q] = c]
    /\ held' = [held EXCEPT ![q] = l]
    /\ age' = [age EXCEPT ![q] = 0]

Leaves(q) ==
    /\ from' = [from EXCEPT ![q] = NoAddress]
    /\ held' = [held EXCEPT ![q] = NoLimiter]
    /\ age' = [age EXCEPT ![q] = 0]

-----------------------------------------------------------------------------
\* lastSeen is not written.
KnownVisitor_NotSeen(q, c) ==
    /\ from[q] = NoAddress
    /\ c \in Visited
    /\ LooksUp(q, c, visitors[c])
    /\ UNCHANGED <<visitors, idle, bucket, served>>

\* getVisitor, under the lock.
KnownVisitor(q, c) ==
    /\ from[q] = NoAddress
    /\ c \in Visited
    /\ idle' = [idle EXCEPT ![c] = 0]
    /\ LooksUp(q, c, visitors[c])
    /\ UNCHANGED <<visitors, bucket, served>>

\* A bucket nobody has.  Which one does not matter, so one choice stands for all.
FreshLimiter == CHOOSE l \in Limiter : Unused(l)

NewVisitor(q, c) ==
    /\ from[q] = NoAddress
    /\ c \notin Visited
    /\ Cardinality(Visited) < MaxVisitors
    /\ \E l \in Limiter :
          /\ Unused(l) /\ l = FreshLimiter
          /\ visitors' = [visitors EXCEPT ![c] = l]
          /\ bucket' = [bucket EXCEPT ![l] = Burst]
          /\ LooksUp(q, c, l)
    /\ UNCHANGED <<idle, served>>

\* An empty bucket serves once more.
Allowed_Free(q) ==
    /\ from[q] # NoAddress
    /\ bucket[held[q]] >= 0
    /\ bucket' = [bucket EXCEPT ![held[q]] = @ - 1]
    /\ served' = [served EXCEPT ![from[q]] = 1 - @]
    /\ Leaves(q)
    /\ UNCHANGED tableVars

\* Allow, on the bucket that was looked up.
Allowed(q) ==
    /\ from[q] # NoAddress
    /\ bucket[held[q]] > 0
    /\ bucket' = [bucket EXCEPT ![held[q]] = @ - 1]
    /\ served' = [served EXCEPT ![from[q]] = 1 - @]
    /\ Leaves(q)
    /\ UNCHANGED tableVars

Limited(q) ==
    /\ from[q] # NoAddress
    /\ bucket[held[q]] = 0
    /\ Leaves(q)
    /\ UNCHANGED <<tableVars, bucket, served>>

\* cleanup, under the lock.
Stale(c) == idle[c] > StaleAfter

Cleanup ==
    /\ visitors' = [c \in Address |-> IF Stale(c) THEN NoLimiter ELSE visitors[c]]
    /\ idle' = [c \in Address |-> IF Stale(c) THEN 0 ELSE idle[c]]
    /\ UNCHANGED <<bucket, requestVars, served>>

Filled(n) == IF n + Rate < Burst THEN n + Rate ELSE Burst

Older(c) ==
    IF visitors[c] = NoLimiter THEN 0
    ELSE IF Stale(c) THEN idle[c] ELSE idle[c] + 1

LimiterTick ==
    /\ \A q \in Request : from[q] # NoAddress => age[q] < Stall
    /\ bucket' = [l \in Limiter |-> Filled(bucket[l])]
    /\ idle' = [c \in Address |-> Older(c)]
    /\ age' = [q \in Request |-> IF from[q] = NoAddress THEN 0 ELSE age[q] + 1]
    /\ UNCHANGED <<visitors, from, held, served>>

LimiterNext ==
    \/ \E q \in Request, c \in Address : KnownVisitor(q, c) \/ NewVisitor(q, c)
    \/ \E q \in Request : Allowed(q) \/ Limited(q)
    \/ Cleanup
    \/ LimiterTick

LimiterSpec == LimiterInit /\ [][LimiterNext]_limiterVars

-----------------------------------------------------------------------------
(* Properties.                                                             *)

\* Every variable holds what its declaration says.
LimiterTypeOK ==
    /\ visitors \in [Address -> Limiter \cup {NoLimiter}]
    /\ idle \in [Address -> 0..StaleAfter + 1]
    /\ bucket \in [Limiter -> 0..Burst]
    /\ from \in [Request -> Address \cup {NoAddress}]
    /\ held \in [Request -> Limiter \cup {NoLimiter}]
    /\ age \in [Request -> 0..Stall]
    /\ served \in [Address -> {0, 1}]
    /\ \A q \in Request : from[q] = NoAddress <=> held[q] = NoLimiter

Budget(c) == IF visitors[c] = NoLimiter THEN Burst ELSE bucket[visitors[c]]

Buckets == INSTANCE AddressBuckets WITH budget <- [c \in Address |-> Budget(c)]

\* Removing an entry and making it anew, while requests hold buckets they have
\* looked up, never gives an address more than its rate and burst: the table
\* behaves like one bucket per address that is never forgotten
\* (ratelimit.go:15, :67).
OneBucketPerAddress == Buckets!Spec
=============================================================================
