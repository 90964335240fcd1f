----------------------- MODULE MemoryTokenStoreProofs -----------------------
(***************************************************************************)
(* Theorems about MemoryTokenStore for every set of credentials and every  *)
(* choice of the lifetimes.  IndexConsistent is inductive only together    *)
(* with two facts about history: whatever is stored was once issued, and a *)
(* refresh token that was spent or revoked has no index entry.             *)
(***************************************************************************)
EXTENDS MemoryTokenStore, TLAPS

\* Whatever the maps hold has been handed out before.
StoredIsIssued ==
    \A a \in Access : Stored(a) =>
        /\ a \in issuedAccess
        /\ tokens[a].refresh # NoRefresh => tokens[a].refresh \in issuedRefresh

\* Given-up refresh tokens are not indexed.
SpentUnindexed == \A r \in spent \cup revoked : refreshIndex[r] = NoAccess

IInv == TypeOK /\ IndexConsistent /\ StoredIsIssued /\ SpentUnindexed

-----------------------------------------------------------------------------
(* A new entry is well typed, and an entry is never NoToken.               *)
LEMMA NewTokenInfoType ==
    ASSUME TypeOK, NEW r \in Refresh \cup {NoRefresh}, NEW c \in Client, NEW g \in Nat
    PROVE  NewTokenInfo(r, c, g) \in TokenInfo
BY StoreAssumption DEF TypeOK, NewTokenInfo, TokenInfo

(* The answer "token not found" is not an entry.                            *)
LEMMA NoTokenIsNoEntry == NoToken \notin TokenInfo
BY StoreAssumption DEF TokenInfo

(* A refresh token never issued has no index entry.                        *)
LEMMA FreshUnindexed ==
    ASSUME IInv, NEW r \in Refresh, r \notin issuedRefresh
    PROVE  refreshIndex[r] = NoAccess
<1>1. SUFFICES ASSUME refreshIndex[r] # NoAccess PROVE FALSE
  OBVIOUS
<1>2. refreshIndex[r] \in Access
  BY <1>1 DEF IInv, TypeOK
<1>3. Stored(refreshIndex[r]) /\ tokens[refreshIndex[r]].refresh = r
  BY <1>1 DEF IInv, IndexConsistent
<1>4. QED
  BY <1>2, <1>3, StoreAssumption DEF IInv, StoredIsIssued

-----------------------------------------------------------------------------
(* One lemma per operation: it preserves the invariant.                    *)
(* StoreToken.                                                              *)
LEMMA StoreTokenInv ==
    ASSUME IInv, NEW a \in Access, NEW info \in TokenInfo, StoreToken(a, info)
    PROVE  IInv'
<1> USE NoTokenIsNoEntry, StoreAssumption
<1>1. info.refresh \in Refresh \cup {NoRefresh}
  BY DEF TokenInfo
<1>2. ~Stored(a)
  BY DEF IInv, StoredIsIssued, StoreToken
<1>3. info.refresh \in Refresh => refreshIndex[info.refresh] = NoAccess
  BY FreshUnindexed DEF StoreToken
<1>4. TypeOK'
  BY <1>1 DEF IInv, TypeOK, StoreToken
<1>5. IndexConsistent'
  BY <1>1, <1>2, <1>3 DEF IInv, TypeOK, IndexConsistent, StoreToken, Stored
<1>6. StoredIsIssued'
  BY <1>1 DEF IInv, TypeOK, StoredIsIssued, StoreToken, Stored
<1>7. SpentUnindexed'
  BY <1>1 DEF IInv, TypeOK, SpentUnindexed, StoreToken
<1>8. QED
  BY <1>4, <1>5, <1>6, <1>7 DEF IInv

(* RotateToken: the predecessor goes, the successor comes.                  *)
LEMMA RotateTokenInv ==
    ASSUME IInv, NEW r \in Refresh, NEW a2 \in Access, NEW info \in TokenInfo,
           Offered(a2, info.refresh), RotateToken(r, a2, info)
    PROVE  IInv'
<1> USE NoTokenIsNoEntry, StoreAssumption
<1>1. info.refresh \in Refresh
  BY DEF TokenInfo, RotateToken, SuccessorOK
<1>2. /\ refreshIndex[r] \in Access
      /\ Stored(refreshIndex[r])
      /\ tokens[refreshIndex[r]].refresh = r
  BY DEF RotateToken, Rotatable, IInv, TypeOK
<1>3. ~Stored(a2) /\ refreshIndex[info.refresh] = NoAccess /\ info.refresh # r
  BY DEF RotateToken, SuccessorOK, Rotatable
<1>4. info.refresh \notin issuedRefresh
  BY <1>3 DEF Offered
<1>5. r \in issuedRefresh
  BY <1>2 DEF IInv, StoredIsIssued
<1>6. TypeOK'
  BY <1>1, <1>2, <1>5 DEF IInv, TypeOK, RotateToken
<1>7. IndexConsistent'
  <2> DEFINE old == refreshIndex[r]
  <2>1. /\ tokens' = [tokens EXCEPT ![old] = NoToken, ![a2] = info]
        /\ refreshIndex' = [refreshIndex EXCEPT ![r] = NoAccess, ![info.refresh] = a2]
        /\ old # a2
    BY <1>2, <1>3 DEF RotateToken
  <2>2. ASSUME NEW q \in Refresh, refreshIndex'[q] # NoAccess
        PROVE  Stored(refreshIndex[q])' /\ tokens'[refreshIndex'[q]].refresh = q
    <3>1. CASE q = info.refresh
      BY <1>1, <2>1, <3>1 DEF IInv, TypeOK, Stored
    <3>2. CASE q # info.refresh
      <4>1. q # r /\ refreshIndex'[q] = refreshIndex[q] /\ refreshIndex[q] \in Access
        BY <2>1, <2>2, <3>2 DEF IInv, TypeOK
      <4>2. Stored(refreshIndex[q]) /\ tokens[refreshIndex[q]].refresh = q
        BY <2>2, <4>1 DEF IInv, IndexConsistent
      <4>3. refreshIndex[q] # old /\ refreshIndex[q] # a2
        BY <1>2, <1>3, <4>1, <4>2
      <4>4. QED
        BY <2>1, <4>1, <4>2, <4>3 DEF IInv, TypeOK, Stored
    <3>3. QED
      BY <3>1, <3>2
  <2>3. ASSUME NEW b \in Access, Stored(b)', tokens'[b].refresh # NoRefresh
        PROVE  refreshIndex'[tokens'[b].refresh] = b
    <3>1. CASE b = a2
      BY <1>1, <2>1, <3>1 DEF IInv, TypeOK
    <3>2. CASE b # a2
      <4>1. b # old /\ tokens'[b] = tokens[b] /\ Stored(b)
        BY <2>1, <2>3, <3>2 DEF IInv, TypeOK, Stored
      <4>2. tokens[b].refresh \in Refresh /\ refreshIndex[tokens[b].refresh] = b
        BY <2>3, <4>1 DEF IInv, TypeOK, IndexConsistent, TokenInfo, Stored
      <4>3. tokens[b].refresh # r /\ tokens[b].refresh # info.refresh
        BY <1>3, <4>1, <4>2
      <4>4. QED
        BY <2>1, <4>1, <4>2, <4>3 DEF IInv, TypeOK
    <3>3. QED
      BY <3>1, <3>2
  <2>4. QED
    BY <2>2, <2>3 DEF IndexConsistent
<1>8. StoredIsIssued'
  BY <1>1, <1>2 DEF IInv, TypeOK, StoredIsIssued, RotateToken, Stored
<1>9. SpentUnindexed'
  BY <1>1, <1>3, <1>4 DEF IInv, TypeOK, SpentUnindexed, RotateToken
<1>10. QED
  BY <1>6, <1>7, <1>8, <1>9 DEF IInv

(* DeleteToken and purgeExpired remove a set of entries and their index    *)
(* entries together.                                                       *)
LEMMA RemovalInv ==
    ASSUME IInv, NEW doomed \in SUBSET Access, \A a \in doomed : Stored(a),
           tokens' = Without(doomed), refreshIndex' = Unindexed(refreshIndex, doomed)
    PROVE  /\ tokens' \in [Access -> TokenInfo \cup {NoToken}]
           /\ refreshIndex' \in [Refresh -> Access \cup {NoAccess}]
           /\ IndexConsistent'
           /\ \A r \in Refresh : refreshIndex[r] = NoAccess => refreshIndex'[r] = NoAccess
<1> USE NoTokenIsNoEntry, StoreAssumption
<1>1. tokens' \in [Access -> TokenInfo \cup {NoToken}]
  BY DEF IInv, TypeOK, Without
<1>2. refreshIndex' \in [Refresh -> Access \cup {NoAccess}]
  BY DEF IInv, TypeOK, Unindexed
<1>3. ASSUME NEW r \in Refresh, refreshIndex'[r] # NoAccess
      PROVE  Stored(refreshIndex[r])' /\ tokens'[refreshIndex'[r]].refresh = r
  <2>1. refreshIndex'[r] = refreshIndex[r] /\ ~\E a \in doomed : tokens[a].refresh = r
    BY <1>3 DEF Unindexed
  <2>2. refreshIndex[r] \in Access /\ Stored(refreshIndex[r])
                                   /\ tokens[refreshIndex[r]].refresh = r
    BY <1>3, <2>1 DEF IInv, TypeOK, IndexConsistent
  <2>3. refreshIndex[r] \notin doomed
    BY <2>1, <2>2
  <2>4. QED
    BY <2>1, <2>2, <2>3 DEF Without, Stored
<1>4. ASSUME NEW a \in Access, Stored(a)', tokens'[a].refresh # NoRefresh
      PROVE  refreshIndex'[tokens'[a].refresh] = a
  <2>1. a \notin doomed /\ tokens'[a] = tokens[a] /\ Stored(a)
    BY <1>4 DEF Without, Stored
  <2>2. tokens[a].refresh \in Refresh /\ refreshIndex[tokens[a].refresh] = a
    BY <1>4, <2>1 DEF IInv, TypeOK, IndexConsistent, TokenInfo, Stored
  <2>3. \A b \in doomed : tokens[b].refresh # tokens[a].refresh
    BY <2>1, <2>2 DEF IInv, IndexConsistent
  <2>4. QED
    BY <2>1, <2>2, <2>3 DEF Unindexed
<1>5. IndexConsistent'
  BY <1>3, <1>4 DEF IndexConsistent
<1>6. \A r \in Refresh : refreshIndex[r] = NoAccess => refreshIndex'[r] = NoAccess
  BY DEF Unindexed
<1>7. QED
  BY <1>1, <1>2, <1>5, <1>6

(* DeleteToken.                                                             *)
LEMMA DeleteTokenInv ==
    ASSUME IInv, NEW a \in Access, DeleteToken(a)
    PROVE  IInv'
<1> USE NoTokenIsNoEntry, StoreAssumption
<1>1. /\ tokens' \in [Access -> TokenInfo \cup {NoToken}]
      /\ refreshIndex' \in [Refresh -> Access \cup {NoAccess}]
      /\ IndexConsistent'
      /\ \A r \in Refresh : refreshIndex[r] = NoAccess => refreshIndex'[r] = NoAccess
  <2>1. {a} \in SUBSET Access /\ \A b \in {a} : Stored(b)
    BY DEF DeleteToken
  <2>2. QED
    BY <2>1, RemovalInv DEF DeleteToken
<1>2. TypeOK'
  BY <1>1 DEF IInv, TypeOK, StoredIsIssued, DeleteToken
<1>3. StoredIsIssued'
  BY DEF IInv, StoredIsIssued, DeleteToken, Without, Stored
<1>4. SpentUnindexed'
  <2>1. tokens[a].refresh # NoRefresh =>
           tokens[a].refresh \in Refresh /\ refreshIndex'[tokens[a].refresh] = NoAccess
    BY DEF IInv, TypeOK, TokenInfo, DeleteToken, Unindexed, Stored
  <2>2. QED
    BY <1>1, <2>1 DEF IInv, TypeOK, SpentUnindexed, DeleteToken
<1>5. QED
  BY <1>1, <1>2, <1>3, <1>4 DEF IInv

(* purgeExpired.                                                            *)
LEMMA PurgeExpiredInv ==
    ASSUME IInv, PurgeExpired
    PROVE  IInv'
<1>1. /\ tokens' \in [Access -> TokenInfo \cup {NoToken}]
      /\ refreshIndex' \in [Refresh -> Access \cup {NoAccess}]
      /\ IndexConsistent'
      /\ \A r \in Refresh : refreshIndex[r] = NoAccess => refreshIndex'[r] = NoAccess
  <2>1. Purgeable \in SUBSET Access /\ \A b \in Purgeable : Stored(b)
    BY DEF Purgeable
  <2>2. QED
    BY <2>1, RemovalInv DEF PurgeExpired
<1>2. TypeOK'
  BY <1>1 DEF IInv, TypeOK, PurgeExpired
<1>3. StoredIsIssued'
  BY DEF IInv, StoredIsIssued, PurgeExpired, Without, Stored
<1>4. SpentUnindexed'
  BY <1>1 DEF IInv, TypeOK, SpentUnindexed, PurgeExpired
<1>5. QED
  BY <1>1, <1>2, <1>3, <1>4 DEF IInv

(* UpdateGoogleToken and ExtendTokenExpiry rewrite one field of an entry.  *)
LEMMA RewriteInv ==
    ASSUME IInv, NEW a \in Access, NEW t \in Nat,
           UpdateGoogleToken(a, t) \/ ExtendTokenExpiry(a, t)
    PROVE  IInv'
<1> USE NoTokenIsNoEntry
<1>1. /\ tokens'[a] \in TokenInfo
      /\ tokens'[a].refresh = tokens[a].refresh
      /\ \A b \in Access \ {a} : tokens'[b] = tokens[b]
      /\ Stored(a)
      /\ tokens' \in [Access -> TokenInfo \cup {NoToken}]
  BY DEF IInv, TypeOK, TokenInfo, Stored, UpdateGoogleToken, ExtendTokenExpiry
<1>2. UNCHANGED <<now, refreshIndex, issuedAccess, issuedRefresh, spent, revoked>>
  BY DEF UpdateGoogleToken, ExtendTokenExpiry
<1>3. \A b \in Access : Stored(b)' <=> Stored(b)
  BY <1>1 DEF Stored
<1>4. \A b \in Access : tokens'[b].refresh = tokens[b].refresh
  BY <1>1
<1>5. TypeOK'
  BY <1>1, <1>2 DEF IInv, TypeOK
<1>6. IndexConsistent'
  <2>1. ASSUME NEW r \in Refresh, refreshIndex'[r] # NoAccess
        PROVE  Stored(refreshIndex[r])' /\ tokens'[refreshIndex'[r]].refresh = r
    BY <1>2, <1>3, <1>4, <2>1 DEF IInv, TypeOK, IndexConsistent, Stored
  <2>2. ASSUME NEW b \in Access, Stored(b)', tokens'[b].refresh # NoRefresh
        PROVE  refreshIndex'[tokens'[b].refresh] = b
    BY <1>2, <1>3, <1>4, <2>2 DEF IInv, IndexConsistent
  <2>3. QED
    BY <2>1, <2>2 DEF IndexConsistent
<1>7. StoredIsIssued' /\ SpentUnindexed'
  BY <1>2, <1>3, <1>4 DEF IInv, StoredIsIssued, SpentUnindexed
<1>8. QED
  BY <1>5, <1>6, <1>7 DEF IInv

-----------------------------------------------------------------------------
(* The initial state satisfies the invariant and every step preserves it.  *)
LEMMA InitInv == Init => IInv
BY StoreAssumption DEF Init, IInv, TypeOK, IndexConsistent, StoredIsIssued,
   SpentUnindexed, Stored

(* The step of the induction: one case for each operation.                  *)
LEMMA NextInv == IInv /\ [Next]_vars => IInv'
<1> SUFFICES ASSUME IInv, [Next]_vars PROVE IInv'
  OBVIOUS
<1>a. now \in Nat /\ GoogleExpiry \subseteq Nat
  BY StoreAssumption DEF IInv, TypeOK
<1>1. CASE \E a \in Access, r \in Refresh \cup {NoRefresh}, c \in Client, g \in GoogleExpiry :
              StoreToken(a, NewTokenInfo(r, c, g))
  BY <1>1, <1>a, NewTokenInfoType, StoreTokenInv DEF IInv
<1>2. CASE \E r \in Refresh, a2 \in Access, r2 \in Refresh \cup {NoRefresh}, c \in Client,
            g \in GoogleExpiry :
              Offered(a2, r2) /\ RotateToken(r, a2, NewTokenInfo(r2, c, g))
  <2>1. PICK r \in Refresh, a2 \in Access, r2 \in Refresh \cup {NoRefresh}, c \in Client,
            g \in GoogleExpiry :
              Offered(a2, r2) /\ RotateToken(r, a2, NewTokenInfo(r2, c, g))
    BY <1>2
  <2>2. /\ NewTokenInfo(r2, c, g) \in TokenInfo
        /\ NewTokenInfo(r2, c, g).refresh = r2
    BY <1>a, NewTokenInfoType DEF IInv, NewTokenInfo
  <2>3. QED
    BY <2>1, <2>2, RotateTokenInv
<1>3. CASE \E a \in Access : DeleteToken(a)
  BY <1>3, DeleteTokenInv
<1>4. CASE \E a \in Access, g \in GoogleExpiry : UpdateGoogleToken(a, g)
  BY <1>4, <1>a, RewriteInv
<1>5. CASE \E a \in Access, computedAt \in 0..now : ExtendTokenExpiry(a, computedAt + AccessTTL)
  <2>1. \A t \in 0..now : t + AccessTTL \in Nat
    BY <1>a, StoreAssumption
  <2>2. QED
    BY <1>5, <2>1, RewriteInv
<1>6. CASE PurgeExpired
  BY <1>6, PurgeExpiredInv
<1>7. CASE Tick \/ UNCHANGED vars
  BY <1>7 DEF IInv, TypeOK, IndexConsistent, StoredIsIssued, SpentUnindexed, Stored,
     Tick, vars, storeVars
<1>8. QED
  BY <1>1, <1>2, <1>3, <1>4, <1>5, <1>6, <1>7 DEF Next

(* The strengthened invariant holds in every reachable state of the store.  *)
THEOREM Invariance == Spec => []IInv
BY InitInv, NextInv, PTL DEF Spec

(* Type correctness.                                                       *)
THEOREM TypeCorrect == Spec => []TypeOK
BY Invariance, PTL DEF IInv

(* The two maps of MemoryTokenStore always agree, so a refresh token never *)
(* returns another session's entry.                                        *)
THEOREM IndexAgreement == Spec => []IndexConsistent
BY Invariance, PTL DEF IInv

(* A refresh token is good for one rotation: spent or revoked, it is never *)
(* accepted again.                                                         *)
THEOREM RefreshTokenSingleUse == Spec => []SpentIsDead
<1>1. IInv => SpentIsDead
  BY DEF IInv, SpentUnindexed, SpentIsDead, FoundByRefresh, Rotatable
<1>2. QED
  BY <1>1, Invariance, PTL

-----------------------------------------------------------------------------
(* What one step does to a refresh token that has been issued.             *)
LEMMA IssuedDeadStep ==
    ASSUME IInv, [Next]_vars, NEW r \in issuedRefresh, ~Rotatable(r)
    PROVE  ~Rotatable(r)'
<1> USE NoTokenIsNoEntry, StoreAssumption
<1>r. r \in Refresh /\ refreshIndex[r] \in Access \cup {NoAccess} /\ now \in Nat
  BY DEF IInv, TypeOK
<1>1. ASSUME NEW a \in Access, NEW info \in TokenInfo, StoreToken(a, info)
      PROVE  ~Rotatable(r)'
  <2>1. info.refresh # r /\ refreshIndex'[r] = refreshIndex[r] /\ ~Stored(a)
    BY <1>1, <1>r DEF StoreToken, IInv, TypeOK, StoredIsIssued
  <2>2. QED
    BY <1>1, <1>r, <2>1 DEF StoreToken, Rotatable, Stored, IInv, TypeOK, IndexConsistent
<1>2. ASSUME NEW q \in Refresh, NEW a2 \in Access, NEW info \in TokenInfo,
             Offered(a2, info.refresh), RotateToken(q, a2, info)
      PROVE  ~Rotatable(r)'
  <2>1. info.refresh # r /\ info.refresh \in Refresh
    BY <1>2 DEF Offered, RotateToken, SuccessorOK, TokenInfo
  <2>2. r # q /\ refreshIndex'[r] = refreshIndex[r]
    BY <1>2, <1>r, <2>1 DEF RotateToken, IInv, TypeOK
  <2>3. CASE refreshIndex[r] = NoAccess
    BY <2>2, <2>3 DEF Rotatable
  <2>4. CASE refreshIndex[r] # NoAccess
    <3>1. /\ Stored(refreshIndex[r]) /\ tokens[refreshIndex[r]].refresh = r
          /\ Stored(refreshIndex[q]) /\ tokens[refreshIndex[q]].refresh = q
          /\ ~Stored(a2)
      BY <1>2, <1>r, <2>4 DEF RotateToken, Rotatable, SuccessorOK, IInv, IndexConsistent
    <3>2. refreshIndex[r] # refreshIndex[q] /\ refreshIndex[r] # a2
      BY <2>2, <3>1
    <3>3. tokens'[refreshIndex[r]] = tokens[refreshIndex[r]] /\ now' = now
      BY <1>2, <1>r, <2>4, <3>2 DEF RotateToken, IInv, TypeOK
    <3>4. QED
      BY <2>2, <3>3 DEF Rotatable, Stored
  <2>5. QED
    BY <2>3, <2>4
<1>3. ASSUME NEW doomed \in SUBSET Access, now' = now,
             tokens' = Without(doomed), refreshIndex' = Unindexed(refreshIndex, doomed)
      PROVE  ~Rotatable(r)'
  BY <1>3, <1>r DEF Without, Unindexed, Rotatable, Stored
<1>4. ASSUME NEW a \in Access, NEW t \in Nat,
             UpdateGoogleToken(a, t) \/ ExtendTokenExpiry(a, t)
      PROVE  ~Rotatable(r)'
  <2>1. refreshIndex' = refreshIndex /\ now' = now
    BY <1>4 DEF UpdateGoogleToken, ExtendTokenExpiry
  <2>2. CASE refreshIndex[r] = NoAccess
    BY <2>1, <2>2 DEF Rotatable
  <2>3. CASE refreshIndex[r] \in Access
    <3> DEFINE mine == refreshIndex[r]
    <3>1. CASE a # mine
      <4>1. tokens'[mine] = tokens[mine]
        BY <1>4, <2>3, <3>1 DEF UpdateGoogleToken, ExtendTokenExpiry, IInv, TypeOK
      <4>2. QED
        BY <2>1, <4>1 DEF Rotatable, Stored
    <3>2. CASE a = mine
      <4>1. tokens[mine] # NoToken /\ tokens[mine] \in TokenInfo
        BY <1>4, <2>3, <3>2 DEF UpdateGoogleToken, ExtendTokenExpiry, Stored, IInv, TypeOK
      <4>2. \/ tokens'[mine] = [tokens[mine] EXCEPT !.google = t]
            \/ tokens'[mine] = [tokens[mine] EXCEPT !.expiresAt = t]
        BY <1>4, <2>3, <3>2 DEF UpdateGoogleToken, ExtendTokenExpiry, IInv, TypeOK
      <4>3. /\ tokens'[mine].refresh = tokens[mine].refresh
            /\ tokens'[mine].refreshExpiresAt = tokens[mine].refreshExpiresAt
        BY <4>1, <4>2 DEF TokenInfo
      <4>4. QED
        BY <2>1, <4>1, <4>3 DEF Rotatable, Stored
    <3>3. QED
      BY <3>1, <3>2
  <2>4. QED
    BY <1>r, <2>2, <2>3
<1>5. CASE Tick \/ UNCHANGED vars
  <2>1. tokens' = tokens /\ refreshIndex' = refreshIndex /\ now' \in Nat /\ now <= now'
    BY <1>5, <1>r DEF Tick, vars, storeVars
  <2>2. CASE refreshIndex[r] = NoAccess \/ ~Stored(refreshIndex[r])
    BY <2>1, <2>2 DEF Rotatable, Stored
  <2>3. CASE refreshIndex[r] # NoAccess /\ Stored(refreshIndex[r])
    <3>1. tokens[refreshIndex[r]] \in TokenInfo
      BY <1>r, <2>3 DEF IInv, TypeOK, Stored
    <3>2. tokens[refreshIndex[r]].refreshExpiresAt \in Nat
      BY <3>1 DEF TokenInfo
    <3>3. tokens[refreshIndex[r]].refresh = r
      BY <1>r, <2>3 DEF IInv, IndexConsistent
    <3>4. ~(now < tokens[refreshIndex[r]].refreshExpiresAt)
      BY <2>3, <3>3 DEF Rotatable
    <3>5. ~(now' < tokens'[refreshIndex'[r]].refreshExpiresAt)
      BY <1>r, <2>1, <3>2, <3>4
    <3>6. QED
      BY <3>5 DEF Rotatable
  <2>4. QED
    BY <2>2, <2>3
<1>6. GoogleExpiry \subseteq Nat /\ \A t \in 0..now : t + AccessTTL \in Nat
  BY <1>r
<1>7. \A q \in Refresh \cup {NoRefresh}, c \in Client, g \in GoogleExpiry :
          /\ NewTokenInfo(q, c, g) \in TokenInfo
          /\ NewTokenInfo(q, c, g).refresh = q
  BY <1>6, NewTokenInfoType DEF IInv, NewTokenInfo
<1>8. CASE \E a \in Access, q \in Refresh \cup {NoRefresh}, c \in Client, g \in GoogleExpiry :
              StoreToken(a, NewTokenInfo(q, c, g))
  BY <1>1, <1>7, <1>8
<1>9. CASE \E q \in Refresh, a2 \in Access, r2 \in Refresh \cup {NoRefresh}, c \in Client,
            g \in GoogleExpiry :
              Offered(a2, r2) /\ RotateToken(q, a2, NewTokenInfo(r2, c, g))
  BY <1>2, <1>7, <1>9
<1>10. CASE \E a \in Access : DeleteToken(a)
  <2>1. PICK a \in Access : DeleteToken(a)
    BY <1>10
  <2>2. {a} \in SUBSET Access
    OBVIOUS
  <2>3. QED
    BY <1>3, <2>1, <2>2 DEF DeleteToken
<1>11. CASE PurgeExpired
  BY <1>3, <1>11 DEF PurgeExpired, Purgeable
<1>12. CASE \/ \E a \in Access, g \in GoogleExpiry : UpdateGoogleToken(a, g)
            \/ \E a \in Access, t \in 0..now : ExtendTokenExpiry(a, t + AccessTTL)
  BY <1>4, <1>6, <1>12
<1>13. QED
  BY <1>5, <1>8, <1>9, <1>10, <1>11, <1>12 DEF Next

(* No call brings back an issued refresh token that is no longer accepted. *)
THEOREM NoResurrection == Spec => DeadStaysDead
<1>1. IInv /\ [Next]_vars => [\A r \in issuedRefresh : ~Rotatable(r) => ~Rotatable(r)']_vars
  BY IssuedDeadStep
<1>2. QED
  BY <1>1, Invariance, PTL DEF Spec, DeadStaysDead

-----------------------------------------------------------------------------
(* What one step at one moment does to a refresh token whose window is     *)
(* open: only its own rotation or its deletion ends it.                    *)
LEMMA OpenWindowStep ==
    ASSUME IInv, Next, now' = now, NEW r \in issuedRefresh, Rotatable(r)
    PROVE  Rotatable(r)' \/ r \in spent' \cup revoked'
<1> USE NoTokenIsNoEntry, StoreAssumption
<1> DEFINE mine == refreshIndex[r]
<1>r. /\ r \in Refresh /\ mine \in Access /\ now \in Nat
      /\ Stored(mine) /\ tokens[mine].refresh = r
      /\ now < tokens[mine].refreshExpiresAt
  BY DEF IInv, TypeOK, Rotatable
<1>1. ASSUME refreshIndex'[r] = mine, tokens'[mine] # NoToken, tokens'[mine].refresh = r,
             tokens'[mine].refreshExpiresAt = tokens[mine].refreshExpiresAt
      PROVE  Rotatable(r)'
  BY <1>1, <1>r DEF Rotatable, Stored
<1>2. ASSUME NEW a \in Access, NEW info, StoreToken(a, info)
      PROVE  Rotatable(r)'
  BY <1>1, <1>2, <1>r DEF StoreToken, IInv, TypeOK, StoredIsIssued, Stored
<1>3. ASSUME NEW q \in Refresh, NEW a2 \in Access, NEW info, RotateToken(q, a2, info),
             info.refresh \in Refresh
      PROVE  Rotatable(r)' \/ r \in spent'
  <2>1. CASE q = r
    BY <1>3, <2>1 DEF RotateToken
  <2>2. CASE q # r
    <3>1. /\ refreshIndex[q] \in Access /\ refreshIndex[q] # mine
          /\ info.refresh # r /\ a2 # mine
      BY <1>3, <1>r, <2>2 DEF RotateToken, Rotatable, SuccessorOK, IInv, TypeOK
    <3>2. refreshIndex'[r] = mine /\ tokens'[mine] = tokens[mine]
      BY <1>3, <1>r, <2>2, <3>1 DEF RotateToken, IInv, TypeOK
    <3>3. QED
      BY <1>1, <1>r, <3>2 DEF Stored
  <2>3. QED
    BY <2>1, <2>2
<1>4. ASSUME NEW doomed \in SUBSET Access, \A a \in doomed : Stored(a), mine \notin doomed,
             tokens' = Without(doomed), refreshIndex' = Unindexed(refreshIndex, doomed)
      PROVE  Rotatable(r)'
  <2>1. \A a \in doomed : tokens[a].refresh # r
    BY <1>4, <1>r DEF IInv, IndexConsistent
  <2>2. QED
    BY <1>1, <1>4, <1>r, <2>1 DEF Without, Unindexed, Stored
<1>5. ASSUME NEW a \in Access, DeleteToken(a)
      PROVE  Rotatable(r)' \/ r \in revoked'
  <2>1. CASE a = mine
    BY <1>5, <1>r, <2>1 DEF DeleteToken
  <2>2. CASE a # mine
    <3>1. {a} \in SUBSET Access /\ mine \notin {a} /\ \A b \in {a} : Stored(b)
      BY <1>5, <2>2 DEF DeleteToken
    <3>2. QED
      BY <1>4, <1>5, <3>1 DEF DeleteToken
  <2>3. QED
    BY <2>1, <2>2
<1>6. ASSUME PurgeExpired PROVE Rotatable(r)'
  <2>1. mine \notin Purgeable
    BY <1>r DEF Purgeable, Refreshable
  <2>2. QED
    BY <1>4, <1>6, <2>1 DEF PurgeExpired, Purgeable
<1>7. ASSUME NEW a \in Access, NEW t \in Nat, UpdateGoogleToken(a, t) \/ ExtendTokenExpiry(a, t)
      PROVE  Rotatable(r)'
  <2>1. tokens[mine] \in TokenInfo
    BY <1>r DEF IInv, TypeOK, Stored
  <2>2. CASE UpdateGoogleToken(a, t) /\ a = mine
    <3>1. tokens'[mine] = [tokens[mine] EXCEPT !.google = t] /\ refreshIndex' = refreshIndex
      BY <1>r, <2>2 DEF UpdateGoogleToken, IInv, TypeOK
    <3>2. tokens'[mine] \in TokenInfo
      BY <2>1, <3>1 DEF TokenInfo
    <3>3. QED
      BY <1>1, <1>r, <2>1, <3>1, <3>2 DEF TokenInfo
  <2>3. CASE ExtendTokenExpiry(a, t) /\ a = mine
    <3>1. tokens'[mine] = [tokens[mine] EXCEPT !.expiresAt = t] /\ refreshIndex' = refreshIndex
      BY <1>r, <2>3 DEF ExtendTokenExpiry, IInv, TypeOK
    <3>2. tokens'[mine] \in TokenInfo
      BY <2>1, <3>1 DEF TokenInfo
    <3>3. QED
      BY <1>1, <1>r, <2>1, <3>1, <3>2 DEF TokenInfo
  <2>4. CASE a # mine
    BY <1>1, <1>7, <1>r, <2>4 DEF UpdateGoogleToken, ExtendTokenExpiry, IInv, TypeOK, Stored
  <2>5. QED
    BY <1>7, <2>2, <2>3, <2>4
<1>8. CASE Tick
  BY <1>8, <1>r DEF Tick
<1>9. CASE \E a \in Access, q \in Refresh \cup {NoRefresh}, c \in Client, g \in GoogleExpiry :
              StoreToken(a, NewTokenInfo(q, c, g))
  BY <1>2, <1>9
<1>10. CASE \E q \in Refresh, a2 \in Access, r2 \in Refresh \cup {NoRefresh}, c \in Client,
            g \in GoogleExpiry :
              Offered(a2, r2) /\ RotateToken(q, a2, NewTokenInfo(r2, c, g))
  <2>1. PICK q \in Refresh, a2 \in Access, r2 \in Refresh \cup {NoRefresh}, c \in Client,
            g \in GoogleExpiry :
              RotateToken(q, a2, NewTokenInfo(r2, c, g))
    BY <1>10
  <2>2. NewTokenInfo(r2, c, g).refresh \in Refresh
    BY <2>1 DEF RotateToken, SuccessorOK, NewTokenInfo
  <2>3. QED
    BY <1>3, <2>1, <2>2
<1>11. CASE \/ \E a \in Access, g \in GoogleExpiry : UpdateGoogleToken(a, g)
            \/ \E a \in Access, t \in 0..now : ExtendTokenExpiry(a, t + AccessTTL)
  <2>1. GoogleExpiry \subseteq Nat /\ \A t \in 0..now : t + AccessTTL \in Nat
    BY <1>r
  <2>2. QED
    BY <1>7, <1>11, <2>1
<1>12. QED
  BY <1>5, <1>6, <1>8, <1>9, <1>10, <1>11 DEF Next

(* An open refresh window is ended by nothing but its own rotation or a    *)
(* deletion, whatever other sessions, collisions and the purge do.         *)
THEOREM OpenWindowKept == Spec => OnlyRotationOrDeletionEnds
<1>1. IInv /\ [Next]_vars =>
        [\A r \in issuedRefresh :
            Rotatable(r) /\ ~Rotatable(r)' => r \in spent' \cup revoked' \/ now' > now]_vars
  <2> SUFFICES ASSUME IInv, Next, NEW r \in issuedRefresh, Rotatable(r), ~Rotatable(r)',
                      ~(now' > now)
               PROVE  r \in spent' \cup revoked'
    OBVIOUS
  <2>1. now' = now \/ now' = now + 1
    BY DEF Next, StoreToken, RotateToken, DeleteToken, UpdateGoogleToken, ExtendTokenExpiry,
       PurgeExpired, Tick
  <2>2. now' = now
    BY <2>1 DEF IInv, TypeOK
  <2>3. QED
    BY <2>2, OpenWindowStep
<1>2. QED
  BY <1>1, Invariance, PTL DEF Spec, OnlyRotationOrDeletionEnds

=============================================================================
