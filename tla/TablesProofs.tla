---------------------------- MODULE TablesProofs ----------------------------
(***************************************************************************)
(* Proofs about the two bounded tables of the HTTP server.  They share     *)
(* nothing; a lemma about one assumes nothing about the other.             *)
(*                                                                         *)
(* The visitors behave like one bucket per address, for any number of      *)
(* addresses and requests, any rate, burst and lifetime of entries that    *)
(* LimiterAssumption allows.  The type invariant is not enough: an entry   *)
(* may be removed only when its bucket is full again and nobody is about   *)
(* to take a token from it.                                                *)
(*                                                                         *)
(* The document cache keeps its two promises for any number of documents   *)
(* and calls, any cap, any lifetimes asked for and wherever their          *)
(* multiplication overflows.                                               *)
(***************************************************************************)
EXTENDS RateLimiter, DocumentCache, FiniteSetTheorems, TLAPS

(***************************************************************************)
(* The visitors.                                                           *)
(***************************************************************************)
USE LimiterAssumption

\* No bucket belongs to two addresses.
OwnBuckets ==
    \A c, d \in Address : visitors[c] # NoLimiter /\ visitors[c] = visitors[d] => c = d

\* A request holds the bucket that is in the table for its address, and the
\* entry has been seen since.
HeldIsInTable ==
    \A q \in Request : from[q] # NoAddress =>
        visitors[from[q]] = held[q] /\ idle[from[q]] <= age[q]

Gained(n) == Rate * n

\* A bucket has been filling for as long as its entry is idle, less the time a
\* request may take to reach Allow.
FillsWhileIdle ==
    \A c \in Address : visitors[c] # NoLimiter =>
        \/ bucket[visitors[c]] = Burst
        \/ bucket[visitors[c]] >= Gained(idle[c] - Stall)

\* Only entries of the table are idle.
IdleOnlyInTable == \A c \in Address : visitors[c] = NoLimiter => idle[c] = 0

LimiterInv == LimiterTypeOK /\ IdleOnlyInTable /\ OwnBuckets /\ HeldIsInTable /\ FillsWhileIdle

\* Multiplication by the rate, in the two forms the steps need.
LEMMA GainedInt == ASSUME NEW n \in Int PROVE Gained(n) \in Int
BY DEF Gained

LEMMA GainedStep == ASSUME NEW n \in Int PROVE Gained(n + 1) = Gained(n) + Rate
BY DEF Gained

LEMMA GainedNone == ASSUME NEW n \in Int, n <= 0 PROVE Gained(n) <= 0
BY DEF Gained

LEMMA GainedEnough ==
    ASSUME NEW n \in Int, n >= StaleAfter - Stall
    PROVE  Gained(n) >= Burst
<1>1. \E d \in Nat : n = (StaleAfter - Stall) + d
  <2> WITNESS n - (StaleAfter - Stall) \in Nat
  <2> QED OBVIOUS
<1>2. PICK d \in Nat : n = (StaleAfter - Stall) + d
  BY <1>1
<1>3. Rate * ((StaleAfter - Stall) + d) = Rate * (StaleAfter - Stall) + Rate * d
  OBVIOUS
<1>4. Rate * d >= 0
  OBVIOUS
<1>5. Rate * (StaleAfter - Stall) \in Int /\ Rate * d \in Int
  OBVIOUS
<1> QED BY <1>2, <1>3, <1>4, <1>5 DEF Gained

LEMMA FilledBounds == ASSUME NEW n \in 0..Burst PROVE Filled(n) \in 0..Burst
BY DEF Filled

-----------------------------------------------------------------------------
LEMMA LimiterInitHolds == LimiterInit => LimiterInv
BY DEF LimiterInit, LimiterInv, LimiterTypeOK, IdleOnlyInTable, OwnBuckets, HeldIsInTable, FillsWhileIdle

LEMMA LimiterTypeStep == LimiterTypeOK /\ [LimiterNext]_limiterVars => LimiterTypeOK'
<1> SUFFICES ASSUME LimiterTypeOK, [LimiterNext]_limiterVars PROVE LimiterTypeOK'
  OBVIOUS
<1> USE DEF LimiterTypeOK
<1>1. ASSUME NEW q \in Request, NEW c \in Address, KnownVisitor(q, c) PROVE LimiterTypeOK'
  BY <1>1 DEF KnownVisitor, LooksUp, Visited
<1>2. ASSUME NEW q \in Request, NEW c \in Address, NewVisitor(q, c) PROVE LimiterTypeOK'
  BY <1>2 DEF NewVisitor, LooksUp
<1>3. ASSUME NEW q \in Request, Allowed(q) PROVE LimiterTypeOK'
  <2>1. held[q] \in Limiter /\ from[q] \in Address
    BY <1>3 DEF Allowed
  <2> QED BY <1>3, <2>1 DEF Allowed, Leaves, tableVars
<1>4. ASSUME NEW q \in Request, Limited(q) PROVE LimiterTypeOK'
  BY <1>4 DEF Limited, Leaves, tableVars
<1>5. CASE Cleanup
  BY <1>5 DEF Cleanup, requestVars
<1>6. CASE LimiterTick
  <2>1. \A l \in Limiter : bucket'[l] \in 0..Burst
    BY <1>6, FilledBounds DEF LimiterTick
  <2>2. \A c \in Address : idle'[c] \in 0..StaleAfter + 1
    BY <1>6 DEF LimiterTick, Older, Stale
  <2> QED BY <1>6, <2>1, <2>2 DEF LimiterTick
<1>7. CASE UNCHANGED limiterVars
  BY <1>7 DEF limiterVars, tableVars, requestVars
<1> QED BY <1>1, <1>2, <1>3, <1>4, <1>5, <1>6, <1>7 DEF LimiterNext

-----------------------------------------------------------------------------
\* Each action keeps the rest of the invariant.
LEMMA KnownVisitorStep ==
    ASSUME LimiterInv, NEW q \in Request, NEW c \in Address, KnownVisitor(q, c)
    PROVE  (IdleOnlyInTable /\ OwnBuckets /\ HeldIsInTable /\ FillsWhileIdle)'
<1> USE DEF LimiterInv, LimiterTypeOK, KnownVisitor, LooksUp, Visited
<1>1. OwnBuckets'
  BY DEF OwnBuckets
<1>2. HeldIsInTable'
  BY DEF HeldIsInTable
<1>3. FillsWhileIdle'
  <2> SUFFICES ASSUME NEW d \in Address, visitors[d] # NoLimiter
               PROVE  \/ bucket[visitors[d]] = Burst
                      \/ bucket[visitors[d]] >= Gained(idle'[d] - Stall)
    BY DEF FillsWhileIdle
  <2>1. CASE d = c
    <3>1. idle'[d] = 0 /\ Gained(0 - Stall) <= 0 /\ Gained(0 - Stall) \in Int
      BY <2>1, GainedNone, GainedInt
    <3> QED BY <3>1
  <2>2. CASE d # c
    BY <2>2 DEF FillsWhileIdle
  <2> QED BY <2>1, <2>2
<1>0. IdleOnlyInTable'
  BY DEF IdleOnlyInTable
<1> QED BY <1>0, <1>1, <1>2, <1>3

LEMMA NewVisitorStep ==
    ASSUME LimiterInv, NEW q \in Request, NEW c \in Address, NewVisitor(q, c)
    PROVE  (IdleOnlyInTable /\ OwnBuckets /\ HeldIsInTable /\ FillsWhileIdle)'
<1> USE DEF LimiterInv, LimiterTypeOK, LooksUp, Visited
<1>1. PICK l \in Limiter :
          /\ Unused(l)
          /\ visitors' = [visitors EXCEPT ![c] = l]
          /\ bucket' = [bucket EXCEPT ![l] = Burst]
          /\ LooksUp(q, c, l)
  BY DEF NewVisitor
<1>2. /\ from[q] = NoAddress /\ visitors[c] = NoLimiter
      /\ UNCHANGED <<idle, served>>
  BY DEF NewVisitor
<1>3. \A d \in Address : d # c => visitors'[d] = visitors[d] /\ visitors[d] # l
  BY <1>1 DEF Unused
<1>4. visitors'[c] = l /\ bucket'[l] = Burst
  BY <1>1
<1>5. OwnBuckets'
  BY <1>3, <1>4 DEF OwnBuckets
<1>6. HeldIsInTable'
  <2> SUFFICES ASSUME NEW p \in Request, from'[p] # NoAddress
               PROVE  visitors'[from'[p]] = held'[p] /\ idle'[from'[p]] <= age'[p]
    BY DEF HeldIsInTable
  <2>1. CASE p = q
    <3>1. from'[p] = c /\ held'[p] = l /\ age'[p] = 0
      BY <1>1, <2>1
    <3>2. idle[c] = 0
      BY <1>2 DEF IdleOnlyInTable
    <3> QED BY <3>1, <3>2, <1>2, <1>4
  <2>2. CASE p # q
    <3>1. from'[p] = from[p] /\ held'[p] = held[p] /\ age'[p] = age[p]
      BY <1>1, <2>2
    <3>2. from[p] # c
      BY <1>2, <3>1 DEF HeldIsInTable
    <3> QED BY <1>2, <1>3, <3>1, <3>2 DEF HeldIsInTable
  <2> QED BY <2>1, <2>2
<1>7. FillsWhileIdle'
  <2>1. \A d \in Address : d # c => bucket'[visitors'[d]] = bucket[visitors[d]]
    BY <1>1, <1>3
  <2> QED BY <1>2, <1>3, <1>4, <2>1 DEF FillsWhileIdle
<1>0. IdleOnlyInTable'
  BY <1>2, <1>3, <1>4 DEF IdleOnlyInTable
<1> QED BY <1>0, <1>5, <1>6, <1>7

LEMMA AllowedStep ==
    ASSUME LimiterInv, NEW q \in Request, Allowed(q)
    PROVE  (IdleOnlyInTable /\ OwnBuckets /\ HeldIsInTable /\ FillsWhileIdle)'
<1> USE DEF LimiterInv, LimiterTypeOK, Allowed, Leaves, tableVars
<1>1. OwnBuckets'
  BY DEF OwnBuckets
<1>2. HeldIsInTable'
  BY DEF HeldIsInTable
<1>3. FillsWhileIdle'
  <2> DEFINE c == from[q]
  <2>1. /\ c \in Address /\ visitors[c] = held[q] /\ held[q] \in Limiter
        /\ idle[c] <= age[q] /\ age[q] <= Stall /\ idle[c] \in Int
    BY DEF HeldIsInTable
  <2>2. bucket'[held[q]] = bucket[held[q]] - 1
    BY <2>1
  <2>3. Gained(idle[c] - Stall) <= 0 /\ Gained(idle[c] - Stall) \in Int
    BY <2>1, GainedNone, GainedInt
  <2>4. bucket'[visitors[c]] >= Gained(idle[c] - Stall)
    BY <2>1, <2>2, <2>3
  <2>5. \A d \in Address : d # c /\ visitors[d] # NoLimiter =>
            bucket'[visitors[d]] = bucket[visitors[d]]
    BY <2>1 DEF OwnBuckets
  <2> QED BY <2>4, <2>5 DEF FillsWhileIdle
<1>0. IdleOnlyInTable'
  BY DEF IdleOnlyInTable
<1> QED BY <1>0, <1>1, <1>2, <1>3

LEMMA CleanupStep ==
    ASSUME LimiterInv, Cleanup
    PROVE  (IdleOnlyInTable /\ OwnBuckets /\ HeldIsInTable /\ FillsWhileIdle)'
<1> USE DEF LimiterInv, LimiterTypeOK, Cleanup, requestVars, Stale
<1>1. OwnBuckets'
  BY DEF OwnBuckets
<1>2. HeldIsInTable'
  BY DEF HeldIsInTable
<1>3. FillsWhileIdle'
  BY DEF FillsWhileIdle
<1>0. IdleOnlyInTable'
  BY DEF IdleOnlyInTable
<1> QED BY <1>0, <1>1, <1>2, <1>3

LEMMA TickStep ==
    ASSUME LimiterInv, LimiterTick
    PROVE  (IdleOnlyInTable /\ OwnBuckets /\ HeldIsInTable /\ FillsWhileIdle)'
<1> USE DEF LimiterInv, LimiterTypeOK, LimiterTick
<1>1. OwnBuckets'
  BY DEF OwnBuckets
<1>2. HeldIsInTable'
  BY DEF HeldIsInTable, Older, Stale
<1>3. FillsWhileIdle'
  <2> SUFFICES ASSUME NEW d \in Address, visitors[d] # NoLimiter
               PROVE  \/ bucket'[visitors[d]] = Burst
                      \/ bucket'[visitors[d]] >= Gained(idle'[d] - Stall)
    BY DEF FillsWhileIdle
  <2> DEFINE n == bucket[visitors[d]]
  <2>1. n \in 0..Burst /\ idle[d] \in Int /\ bucket'[visitors[d]] = Filled(n)
    OBVIOUS
  <2>2. n = Burst \/ n >= Gained(idle[d] - Stall)
    BY DEF FillsWhileIdle
  <2>4. Gained((idle[d] - Stall) + 1) = Gained(idle[d] - Stall) + Rate
    BY <2>1, GainedStep
  <2>5. idle'[d] = idle[d] \/ idle'[d] = idle[d] + 1
    BY DEF Older
  <2>6. (idle[d] + 1) - Stall = (idle[d] - Stall) + 1
    BY <2>1
  <2>7. Gained(idle[d] - Stall) \in Int
    BY <2>1, GainedInt
  <2>8. CASE n = Burst
    BY <2>1, <2>8 DEF Filled
  <2>9. CASE n # Burst
    <3>1. n >= Gained(idle[d] - Stall)
      BY <2>2, <2>9
    <3>2. Filled(n) = Burst \/ Filled(n) >= n + Rate
      BY <2>1 DEF Filled
    <3>3. Filled(n) \in Int
      BY <2>1, FilledBounds
    <3>4. CASE idle'[d] = idle[d]
      BY <2>1, <2>7, <3>1, <3>2, <3>3, <3>4
    <3>5. CASE idle'[d] = idle[d] + 1
      <4>1. idle'[d] - Stall = (idle[d] - Stall) + 1
        BY <2>6, <3>5
      <4>2. Gained(idle'[d] - Stall) = Gained(idle[d] - Stall) + Rate
        BY <2>4, <4>1
      <4> QED BY <2>1, <2>7, <3>1, <3>2, <3>3, <4>2
    <3> QED BY <2>5, <3>4, <3>5
  <2> QED BY <2>8, <2>9
<1>0. IdleOnlyInTable'
  BY DEF IdleOnlyInTable, Older, Stale
<1> QED BY <1>0, <1>1, <1>2, <1>3
-----------------------------------------------------------------------------
LEMMA LimiterInductive == LimiterInv /\ [LimiterNext]_limiterVars => LimiterInv'
<1> SUFFICES ASSUME LimiterInv, [LimiterNext]_limiterVars
             PROVE  (IdleOnlyInTable /\ OwnBuckets /\ HeldIsInTable /\ FillsWhileIdle)'
  BY LimiterTypeStep DEF LimiterInv
<1>1. ASSUME NEW q \in Request, Limited(q)
      PROVE  (IdleOnlyInTable /\ OwnBuckets /\ HeldIsInTable /\ FillsWhileIdle)'
  <2> USE <1>1 DEF LimiterInv, LimiterTypeOK, Limited, Leaves, tableVars
  <2>1. (IdleOnlyInTable /\ OwnBuckets /\ FillsWhileIdle)'
    BY DEF IdleOnlyInTable, OwnBuckets, FillsWhileIdle
  <2>2. HeldIsInTable'
    BY DEF HeldIsInTable
  <2> QED BY <2>1, <2>2
<1>2. CASE UNCHANGED limiterVars
  BY <1>2 DEF LimiterInv, IdleOnlyInTable, OwnBuckets, HeldIsInTable, FillsWhileIdle,
              limiterVars, tableVars, requestVars
<1> QED
  BY <1>1, <1>2, KnownVisitorStep, NewVisitorStep, AllowedStep, CleanupStep, TickStep
  DEF LimiterNext

\* The inductive invariant holds in every state the limiter reaches.
THEOREM LimiterInvariance == LimiterSpec => []LimiterInv
BY LimiterInitHolds, LimiterInductive, PTL DEF LimiterSpec

\* The variables keep their types; no bucket is below zero or above the burst
\* (ratelimit.go).
THEOREM LimiterTypeCorrect == LimiterSpec => []LimiterTypeOK
<1>1. LimiterInv => LimiterTypeOK
  BY DEF LimiterInv
<1> QED BY <1>1, LimiterInvariance, PTL

-----------------------------------------------------------------------------
\* The steps of the table are steps of one bucket per address, or change
\* nothing there.
LEMMA BudgetInit == LimiterInit => Buckets!Init
BY DEF LimiterInit, Buckets!Init, Budget

LEMMA BudgetKept ==
    ASSUME UNCHANGED served, \A c \in Address : Budget(c)' = Budget(c)
    PROVE  UNCHANGED <<[c \in Address |-> Budget(c)], served>>
OBVIOUS

LEMMA ServesOne ==
    ASSUME LimiterInv, NEW q \in Request, NEW a \in Address, from[q] = a, Allowed(q)
    PROVE  Buckets!Serve(a)
<1> USE DEF LimiterInv, LimiterTypeOK, Allowed, tableVars
<1>1. held[q] \in Limiter /\ visitors[a] = held[q]
  BY DEF HeldIsInTable
<1>2. Budget(a) = bucket[held[q]]
  BY <1>1 DEF Budget
<1>3. Budget(a)' = Budget(a) - 1
  BY <1>1, <1>2 DEF Budget
<1>4. ASSUME NEW d \in Address, d # a PROVE Budget(d)' = Budget(d)
  BY <1>1, <1>4 DEF Budget, OwnBuckets
<1>5. [c \in Address |-> Budget(c)]'
        = [[c \in Address |-> Budget(c)] EXCEPT ![a] = @ - 1]
  BY <1>3, <1>4
<1> QED BY <1>1, <1>2, <1>5 DEF Buckets!Serve

LEMMA TickRefills == ASSUME LimiterInv, LimiterTick PROVE Buckets!Refill
<1> USE DEF LimiterInv, LimiterTypeOK, LimiterTick
<1>1. ASSUME NEW c \in Address PROVE Budget(c)' = Buckets!Refilled(Budget(c))
  BY DEF Budget, Filled, Buckets!Refilled
<1> QED BY <1>1 DEF Buckets!Refill

LEMMA CleanupForgetsNothing ==
    ASSUME LimiterInv, Cleanup, NEW c \in Address
    PROVE  Budget(c)' = Budget(c)
<1> USE DEF LimiterInv, LimiterTypeOK, Cleanup, requestVars
<1>1. CASE visitors[c] # NoLimiter /\ Stale(c)
  <2>1. idle[c] - Stall \in Int /\ idle[c] - Stall >= StaleAfter - Stall
    BY <1>1 DEF Stale
  <2>2. Gained(idle[c] - Stall) >= Burst /\ Gained(idle[c] - Stall) \in Int
    BY <2>1, GainedEnough, GainedInt
  <2>3. bucket[visitors[c]] \in 0..Burst
    BY <1>1
  <2>4. bucket[visitors[c]] = Burst
    BY <1>1, <2>2, <2>3 DEF FillsWhileIdle
  <2> QED BY <1>1, <2>4 DEF Budget
<1>2. CASE visitors[c] = NoLimiter \/ ~Stale(c)
  BY <1>2 DEF Budget
<1> QED BY <1>1, <1>2

LEMMA StepsImplement ==
    LimiterInv /\ [LimiterNext]_limiterVars
        => [Buckets!Next]_<<[c \in Address |-> Budget(c)], served>>
<1> SUFFICES ASSUME LimiterInv, [LimiterNext]_limiterVars
             PROVE  Buckets!Next \/ UNCHANGED <<[c \in Address |-> Budget(c)], served>>
  OBVIOUS
<1>1. ASSUME NEW q \in Request, NEW c \in Address, KnownVisitor(q, c)
      PROVE  UNCHANGED <<[d \in Address |-> Budget(d)], served>>
  BY <1>1, BudgetKept DEF KnownVisitor, Budget
<1>2. ASSUME NEW q \in Request, NEW c \in Address, NewVisitor(q, c)
      PROVE  UNCHANGED <<[d \in Address |-> Budget(d)], served>>
  <2>1. ASSUME NEW d \in Address PROVE Budget(d)' = Budget(d)
    BY <1>2 DEF NewVisitor, Budget, Visited, Unused, LimiterInv, LimiterTypeOK
  <2> QED BY <1>2, <2>1, BudgetKept DEF NewVisitor
<1>3. ASSUME NEW q \in Request, Allowed(q) PROVE Buckets!Next
  <2>1. from[q] \in Address
    BY <1>3 DEF Allowed, LimiterInv, LimiterTypeOK
  <2>2. Buckets!Serve(from[q])
    BY <1>3, <2>1, ServesOne
  <2> QED BY <2>1, <2>2 DEF Buckets!Next
<1>4. ASSUME NEW q \in Request, Limited(q)
      PROVE  UNCHANGED <<[d \in Address |-> Budget(d)], served>>
  BY <1>4, BudgetKept DEF Limited, Budget, tableVars
<1>5. CASE Cleanup
  BY <1>5, CleanupForgetsNothing, BudgetKept DEF Cleanup
<1>6. CASE LimiterTick
  BY <1>6, TickRefills DEF Buckets!Next
<1>7. CASE UNCHANGED limiterVars
  BY <1>7, BudgetKept DEF limiterVars, tableVars, Budget
<1> QED BY <1>1, <1>2, <1>3, <1>4, <1>5, <1>6, <1>7 DEF LimiterNext

\* Whatever entries are removed and made anew, and however requests interleave
\* with that, each address is limited by one bucket that is never forgotten
\* (ratelimit.go:50-86, :131-144).
THEOREM ImplementsBuckets == LimiterSpec => OneBucketPerAddress
BY BudgetInit, StepsImplement, LimiterInvariance, PTL
DEF LimiterSpec, OneBucketPerAddress, Buckets!Spec

(***************************************************************************)
(* The document cache.                                                     *)
(***************************************************************************)
HIDE LimiterAssumption
USE CacheAssumption

Document == [sentAt : Int, expiresAt : Int]

\* The conjuncts of CacheTypeOK about the variables.
Typed ==
    /\ clock \in 0..LastMoment
    /\ documents \in [Url -> Document \cup {NoDocument}]
    /\ wanted \in [Fetcher -> Url \cup {NoUrl}]
    /\ since \in [Fetcher -> 0..LastMoment]
    /\ answer \in [Fetcher -> Document \cup {NoDocument}]

Capped == IsFiniteSet(Cached) /\ Cardinality(Cached) <= MaxEntries

\* A call under way wants a document and has not run for longer than FetchBound.
CallsInTime ==
    \A f \in Fetcher :
        /\ answer[f] # NoDocument => wanted[f] # NoUrl
        /\ wanted[f] # NoUrl => since[f] <= clock /\ clock <= since[f] + FetchBound

ShortLived(d) == d.expiresAt <= d.sentAt + MaxTTL + FetchBound

\* Nothing is stored, or about to be stored, for longer than the cap allows.
LivesAreShort ==
    /\ \A f \in Fetcher : answer[f] # NoDocument => ShortLived(answer[f])
    /\ \A u \in Url : documents[u] # NoDocument => ShortLived(documents[u])

CacheInv == Typed /\ Capped /\ CallsInTime /\ LivesAreShort

\* The lifetime of an entry is never longer than the cap, whether the product
\* overflows or not.
LEMMA TTLBounded == ASSUME NEW n \in MaxAges PROVE TTL(n) \in Int /\ TTL(n) <= MaxTTL
<1>1. n \in Nat /\ n + Wrap \in Int /\ 2 * Wrap \in Nat \ {0}
  OBVIOUS
<1>2. \A a \in Int, b \in Nat \ {0} : a % b \in Int
  OBVIOUS
<1>3. Seconds(n) \in Int
  BY <1>1, <1>2 DEF Seconds
<1> QED BY <1>3 DEF TTL

\* What a store may keep is finite, live, and leaves room for one more.
LEMMA KeptFacts ==
    ASSUME Typed, Capped, NEW kept \in Kept
    PROVE  /\ kept \subseteq {u \in Url : Live(u)}
           /\ IsFiniteSet(kept)
           /\ Cardinality(kept) <= MaxEntries - 1
           /\ Cardinality({u \in Url : Live(u)}) < MaxEntries => kept = {u \in Url : Live(u)}
           /\ Cardinality({u \in Url : Live(u)}) >= MaxEntries => Cardinality(kept) = MaxEntries - 1
<1> DEFINE live == {u \in Url : Live(u)}
<1>1. live \subseteq Cached
  BY DEF Live
<1>2. IsFiniteSet(live) /\ Cardinality(live) <= MaxEntries
  <2>1. IsFiniteSet(live) /\ Cardinality(live) <= Cardinality(Cached)
    BY <1>1, FS_Subset DEF Capped
  <2>2. Cardinality(live) \in Nat /\ Cardinality(Cached) \in Nat
    BY <2>1, FS_CardinalityType DEF Capped
  <2> QED BY <2>1, <2>2 DEF Capped
<1>3. kept \subseteq live
  BY DEF Kept
<1>4. IsFiniteSet(kept) /\ Cardinality(kept) \in Nat /\ Cardinality(live) \in Nat
  BY <1>2, <1>3, FS_Subset, FS_CardinalityType
<1>5. IF Cardinality(live) < MaxEntries THEN kept = live ELSE Cardinality(kept) = MaxEntries - 1
  BY DEF Kept
<1> QED BY <1>3, <1>4, <1>5

-----------------------------------------------------------------------------
LEMMA CacheInitHolds == CacheInit => CacheInv
<1> SUFFICES ASSUME CacheInit PROVE CacheInv
  OBVIOUS
<1> USE DEF CacheInit
<1>1. Typed /\ CallsInTime /\ LivesAreShort
  BY DEF Typed, CallsInTime, LivesAreShort
<1>2. Cached = {}
  BY DEF Cached
<1>3. Capped
  BY <1>2, FS_EmptySet DEF Capped
<1> QED BY <1>1, <1>3 DEF CacheInv

LEMMA TypedStep == CacheInv /\ [CacheNext]_cacheVars => Typed'
<1> SUFFICES ASSUME CacheInv, [CacheNext]_cacheVars PROVE Typed'
  OBVIOUS
<1> USE DEF CacheInv, Typed, Document
<1>1. ASSUME NEW f \in Fetcher, NEW u \in Url, Misses(f, u) PROVE Typed'
  BY <1>1 DEF Misses
<1>2. ASSUME NEW f \in Fetcher, NEW n \in MaxAges, HostAnswers(f, n) PROVE Typed'
  BY <1>2, TTLBounded DEF HostAnswers
<1>3. ASSUME NEW f \in Fetcher, FetchFails(f) PROVE Typed'
  BY <1>3 DEF FetchFails, FetchReturns
<1>4. ASSUME NEW f \in Fetcher, StoresInCache(f) PROVE Typed'
  <2>1. documents' \in [Url -> Document \cup {NoDocument}]
    BY <1>4 DEF StoresInCache
  <2> QED BY <1>4, <2>1 DEF StoresInCache, FetchReturns
<1>5. CASE CacheTick
  BY <1>5 DEF CacheTick
<1>6. CASE UNCHANGED cacheVars
  BY <1>6 DEF cacheVars
<1> QED BY <1>1, <1>2, <1>3, <1>4, <1>5, <1>6 DEF CacheNext

\* What a store leaves in the cache.
LEMMA StoreFacts ==
    ASSUME CacheInv, NEW f \in Fetcher, StoresInCache(f)
    PROVE  \E kept \in Kept :
              /\ Cached' = kept \cup {wanted[f]}
              /\ \A u \in kept : u # wanted[f] => documents'[u] = documents[u]
              /\ documents'[wanted[f]] = answer[f]
              /\ wanted[f] \in Url
<1>1. PICK kept \in Kept :
          documents' = [u \in Url |-> IF u = wanted[f] THEN answer[f]
                                      ELSE IF u \in kept THEN documents[u]
                                      ELSE NoDocument]
  BY DEF StoresInCache
<1>2. answer[f] # NoDocument /\ wanted[f] \in Url
  BY DEF StoresInCache, CacheInv, Typed, CallsInTime
<1>3. kept \subseteq Url /\ \A u \in kept : documents[u] # NoDocument
  BY KeptFacts DEF CacheInv, Live, Cached
<1>4. Cached' = kept \cup {wanted[f]}
  BY <1>1, <1>2, <1>3 DEF Cached
<1> QED BY <1>1, <1>2, <1>3, <1>4

LEMMA CappedStep == CacheInv /\ [CacheNext]_cacheVars => Capped'
<1> SUFFICES ASSUME CacheInv, [CacheNext]_cacheVars PROVE Capped'
  OBVIOUS
<1>1. ASSUME NEW f \in Fetcher, StoresInCache(f) PROVE Capped'
  <2>1. PICK kept \in Kept : Cached' = kept \cup {wanted[f]}
    BY <1>1, StoreFacts
  <2>2. IsFiniteSet(kept) /\ Cardinality(kept) <= MaxEntries - 1
    BY KeptFacts DEF CacheInv
  <2>3. Cardinality(kept) \in Nat
    BY <2>2, FS_CardinalityType
  <2>4. /\ IsFiniteSet(kept \cup {wanted[f]})
        /\ Cardinality(kept \cup {wanted[f]}) <= Cardinality(kept) + 1
    <3>1. /\ IsFiniteSet(kept \cup {wanted[f]})
          /\ Cardinality(kept \cup {wanted[f]})
               = IF wanted[f] \in kept THEN Cardinality(kept) ELSE Cardinality(kept) + 1
      BY <2>2, FS_AddElement, Zenon
    <3> QED BY <2>3, <3>1
  <2>5. Cardinality(kept \cup {wanted[f]}) \in Nat
    BY <2>4, FS_CardinalityType
  <2> QED BY <2>1, <2>2, <2>3, <2>4, <2>5 DEF Capped
<1>2. ASSUME UNCHANGED documents PROVE Capped'
  <2>1. Cached' = Cached
    BY <1>2 DEF Cached
  <2> QED BY <2>1 DEF CacheInv, Capped
<1>3. (\E f \in Fetcher : StoresInCache(f)) \/ UNCHANGED documents
  BY DEF CacheNext, Misses, HostAnswers, FetchFails, CacheTick, cacheVars
<1> QED BY <1>1, <1>2, <1>3

LEMMA CallsStep == CacheInv /\ [CacheNext]_cacheVars => CallsInTime'
<1> SUFFICES ASSUME CacheInv, [CacheNext]_cacheVars PROVE CallsInTime'
  OBVIOUS
<1> USE DEF CacheInv, Typed, CallsInTime
<1>1. ASSUME NEW f \in Fetcher, NEW u \in Url, Misses(f, u) PROVE CallsInTime'
  BY <1>1 DEF Misses
<1>2. ASSUME NEW f \in Fetcher, NEW n \in MaxAges, HostAnswers(f, n) PROVE CallsInTime'
  BY <1>2 DEF HostAnswers
<1>3. ASSUME NEW f \in Fetcher, FetchFails(f) \/ StoresInCache(f) PROVE CallsInTime'
  BY <1>3 DEF FetchFails, StoresInCache, FetchReturns
<1>4. CASE CacheTick
  BY <1>4 DEF CacheTick
<1>5. CASE UNCHANGED cacheVars
  BY <1>5 DEF cacheVars
<1> QED BY <1>1, <1>2, <1>3, <1>4, <1>5 DEF CacheNext

LEMMA LivesStep == CacheInv /\ [CacheNext]_cacheVars => LivesAreShort'
<1> SUFFICES ASSUME CacheInv, [CacheNext]_cacheVars PROVE LivesAreShort'
  OBVIOUS
<1> USE DEF CacheInv, Typed, LivesAreShort
<1>1. ASSUME NEW f \in Fetcher, NEW u \in Url, Misses(f, u) PROVE LivesAreShort'
  BY <1>1 DEF Misses
<1>2. ASSUME NEW f \in Fetcher, NEW n \in MaxAges, HostAnswers(f, n) PROVE LivesAreShort'
  <2>1. PICK sent \in since[f]..clock :
            answer' = [answer EXCEPT ![f] = [sentAt |-> sent, expiresAt |-> clock + TTL(n)]]
    BY <1>2 DEF HostAnswers
  <2>2. clock <= since[f] + FetchBound
    BY <1>2 DEF HostAnswers, CallsInTime
  <2>3. ShortLived([sentAt |-> sent, expiresAt |-> clock + TTL(n)])
    BY <2>1, <2>2, TTLBounded DEF ShortLived
  <2>4. answer'[f] = [sentAt |-> sent, expiresAt |-> clock + TTL(n)]
    BY <2>1
  <2>5. \A g \in Fetcher : g # f => answer'[g] = answer[g]
    BY <2>1
  <2> QED BY <1>2, <2>3, <2>4, <2>5 DEF HostAnswers
<1>3. ASSUME NEW f \in Fetcher, FetchFails(f) PROVE LivesAreShort'
  BY <1>3 DEF FetchFails, FetchReturns
<1>4. ASSUME NEW f \in Fetcher, StoresInCache(f) PROVE LivesAreShort'
  <2>1. \A u \in Url : documents'[u] \in {answer[f], documents[u], NoDocument}
    BY <1>4 DEF StoresInCache
  <2>2. answer[f] # NoDocument
    BY <1>4 DEF StoresInCache
  <2> QED BY <1>4, <2>1, <2>2 DEF StoresInCache, FetchReturns
<1>5. CASE CacheTick
  BY <1>5 DEF CacheTick
<1>6. CASE UNCHANGED cacheVars
  BY <1>6 DEF cacheVars
<1> QED BY <1>1, <1>2, <1>3, <1>4, <1>5, <1>6 DEF CacheNext

LEMMA CacheInductive == CacheInv /\ [CacheNext]_cacheVars => CacheInv'
BY TypedStep, CappedStep, CallsStep, LivesStep DEF CacheInv

\* The inductive invariant holds in every state of the cache.
THEOREM CacheInvariance == CacheSpec => []CacheInv
BY CacheInitHolds, CacheInductive, PTL DEF CacheSpec

-----------------------------------------------------------------------------
\* The variables keep their types and the cache never exceeds its cap
\* (cimd.go:31, :214-232).
THEOREM CacheTypeCorrect == CacheSpec => []CacheTypeOK
<1>1. CacheInv => CacheTypeOK
  BY DEF CacheInv, Typed, Capped, Document, CacheTypeOK
<1> QED BY <1>1, CacheInvariance, PTL

\* No document is served longer after its host sent it than the longest lifetime
\* and the duration of a call, whatever the host asks for (cimd.go:128-204).
THEOREM ServesRecent == CacheSpec => []ServedDocumentIsRecent
<1>1. CacheInv => ServedDocumentIsRecent
  <2> SUFFICES ASSUME CacheInv, NEW u \in Url, Live(u)
               PROVE  clock < documents[u].sentAt + MaxTTL + FetchBound
    BY DEF ServedDocumentIsRecent
  <2>1. documents[u] \in Document /\ clock < documents[u].expiresAt
    BY DEF Live, Cached, CacheInv, Typed
  <2>2. documents[u].expiresAt <= documents[u].sentAt + MaxTTL + FetchBound
    BY DEF CacheInv, LivesAreShort, ShortLived, Live, Cached
  <2> QED BY <2>1, <2>2 DEF Document, CacheInv, Typed
<1> QED BY <1>1, CacheInvariance, PTL

-----------------------------------------------------------------------------
Lost == {u \in Url : Live(u) /\ documents'[u] = NoDocument}

LEMMA StoreLosesOne ==
    ASSUME CacheInv, NEW f \in Fetcher, StoresInCache(f), Lost # {}
    PROVE  /\ Cardinality({u \in Url : Live(u)}) >= MaxEntries
           /\ Cardinality(Lost) = 1
<1> DEFINE live == {u \in Url : Live(u)}
<1>1. PICK kept \in Kept :
          /\ Cached' = kept \cup {wanted[f]}
          /\ \A u \in kept : u # wanted[f] => documents'[u] = documents[u]
          /\ documents'[wanted[f]] = answer[f]
          /\ wanted[f] \in Url
  BY StoreFacts
<1>2. /\ kept \subseteq live
      /\ IsFiniteSet(kept)
      /\ Cardinality(live) < MaxEntries => kept = live
      /\ Cardinality(live) >= MaxEntries => Cardinality(kept) = MaxEntries - 1
  BY KeptFacts DEF CacheInv
<1>3. answer[f] # NoDocument
  BY DEF StoresInCache
<1>4. Lost \subseteq live \ kept
  BY <1>1, <1>2, <1>3 DEF Lost, Live, Cached
<1>5. live \subseteq Cached
  BY DEF Live
<1>6. /\ IsFiniteSet(live) /\ Cardinality(live) \in Nat
      /\ Cardinality(live) <= MaxEntries
  <2>1. IsFiniteSet(live) /\ Cardinality(live) <= Cardinality(Cached)
    BY <1>5, FS_Subset DEF CacheInv, Capped
  <2>2. Cardinality(live) \in Nat /\ Cardinality(Cached) \in Nat
    BY <2>1, FS_CardinalityType DEF CacheInv, Capped
  <2> QED BY <2>1, <2>2 DEF CacheInv, Capped
<1>7. Cardinality(live) >= MaxEntries
  <2>1. kept # live
    BY <1>4
  <2> HIDE DEF live
  <2> QED BY <1>2, <1>6, <2>1
<1>8. Cardinality(kept) = MaxEntries - 1 /\ Cardinality(live) = MaxEntries
  <2> HIDE DEF live
  <2> QED BY <1>2, <1>6, <1>7
<1>9. Cardinality(live \ kept) = 1
  <2> HIDE DEF live
  <2>1. IsFiniteSet(live \ kept)
    BY <1>6, FS_Subset
  <2>2. kept \cup (live \ kept) = live /\ kept \cap (live \ kept) = {}
    BY <1>2
  <2>3. Cardinality(live)
          = Cardinality(kept) + Cardinality(live \ kept) - Cardinality({})
    BY <1>2, <2>1, <2>2, FS_Union
  <2>4. Cardinality({}) = 0 /\ Cardinality(live \ kept) \in Nat
    BY <2>1, FS_EmptySet, FS_CardinalityType
  <2> QED BY <1>8, <2>3, <2>4
<1>10. IsFiniteSet(live \ kept)
  <2> HIDE DEF live
  <2> QED BY <1>6, FS_Subset
<1>11. IsFiniteSet(Lost) /\ Cardinality(Lost) = 1
  <2> HIDE DEF live
  <2>1. IsFiniteSet(Lost) /\ Cardinality(Lost) <= Cardinality(live \ kept)
    BY <1>4, <1>10, FS_Subset
  <2>2. Cardinality(Lost) \in Nat /\ Cardinality(Lost) # 0
    BY <2>1, FS_CardinalityType, FS_EmptySet
  <2> QED BY <1>9, <2>1, <2>2
<1> QED BY <1>7, <1>11

\* A live document is lost only when the cache is full of live documents, and
\* then only one is (cimd.go:214-232).
THEOREM KeepsLive == CacheSpec => LiveDocumentsKept
<1>1. ASSUME CacheInv, [CacheNext]_cacheVars, Lost # {}
      PROVE  /\ Cardinality({u \in Url : Live(u)}) >= MaxEntries
             /\ Cardinality(Lost) = 1
  <2>1. documents' # documents
    BY <1>1 DEF Lost, Live, Cached
  <2>2. \E f \in Fetcher : StoresInCache(f)
    BY <1>1, <2>1 DEF CacheNext, Misses, HostAnswers, FetchFails, CacheTick, cacheVars
  <2> QED BY <1>1, <2>2, StoreLosesOne
<1>2. CacheInv /\ [CacheNext]_cacheVars =>
        [LET lost == {u \in Url : Live(u) /\ documents'[u] = NoDocument} IN
         lost # {} => /\ Cardinality({u \in Url : Live(u)}) >= MaxEntries
                      /\ Cardinality(lost) = 1]_cacheVars
  BY <1>1 DEF Lost
<1> QED BY <1>2, CacheInvariance, PTL DEF CacheSpec, LiveDocumentsKept
=============================================================================
