--------------------------- MODULE SessionsProofs ---------------------------
(***************************************************************************)
(* Proofs about the handlers of Sessions, for any number of credentials,   *)
(* concurrent requests and any lifetimes: they use the store within its    *)
(* specification, so what MemoryTokenStoreProofs proves of the store holds *)
(* under them, and renewal is bounded.                                     *)
(*                                                                         *)
(* The argument is about what a request still knows of an entry it read    *)
(* some time ago: the entry may have gone, but an access token is never    *)
(* given to another entry, and neither the moment of creation nor the      *)
(* refresh window of an entry is ever rewritten.                           *)
(***************************************************************************)
EXTENDS Sessions, MemoryTokenStoreProofs

Renewing == {"google", "update", "extend"}
InTool == {"toolGoogle", "toolUpdate"}
Granting == {"grantGoogle", "grantRotate"}

RequestsTyped ==
    /\ maxAge \in MaxAges
    /\ now \in 0..MaxTime
    /\ pc \in [Request -> Labels]
    /\ bearer \in [Request -> Access \cup {NoAccess}]
    /\ presented \in [Request -> Refresh \cup {NoRefresh}]
    /\ entry \in [Request -> TokenInfo \cup {NoEntry}]
    /\ since \in [Request -> Nat]
    /\ root \in [Access -> Access \cup {NoAccess}]

\* What holds of each stored entry.
WellTimed(info) ==
    /\ info.google \in GoogleExpiry
    /\ info.createdAt <= now
    /\ info.createdAt <= info.google + CallBound
    /\ info.expiresAt <= info.refreshExpiresAt + CallBound + AccessTTL
    /\ maxAge > 0 => info.expiresAt <= info.createdAt + maxAge + CallBound + AccessTTL

EntriesWellTimed == \A a \in Access : Stored(a) => WellTimed(tokens[a])

\* Of the credentials of one session, one pair is stored.
Roots ==
    /\ \A a \in issuedAccess : root[a] \in issuedAccess
    /\ OnePairPerSession

\* The copy a request works on, taken at most CallBound ago.
CopyOK(q) ==
    pc[q] \in Renewing \cup InTool \cup Granting =>
        /\ entry[q] \in TokenInfo
        /\ entry[q].google \in GoogleExpiry
        /\ entry[q].createdAt <= since[q]
        /\ since[q] <= now
        /\ now <= since[q] + CallBound

\* The bearer is one that was handed out, and its entry, if it is still there,
\* is the one that was copied.
BearerOK(q) ==
    /\ pc[q] \in {"expired"} \cup Renewing \cup InTool => bearer[q] \in issuedAccess
    /\ pc[q] \in Renewing \cup InTool /\ Stored(bearer[q]) =>
          /\ tokens[bearer[q]].createdAt = entry[q].createdAt
          /\ tokens[bearer[q]].refreshExpiresAt = entry[q].refreshExpiresAt

PresentedOK(q) == pc[q] \in Granting => presented[q] \in Refresh

\* What the checks at the start of a renewal established.
RenewalOK(q) ==
    /\ pc[q] \in Renewing =>
          /\ since[q] <= entry[q].refreshExpiresAt
          /\ maxAge > 0 => since[q] <= entry[q].createdAt + maxAge
    /\ pc[q] \in {"update", "extend"} =>
          \E t \in since[q]..now : entry[q].expiresAt = t + AccessTTL

\* The Google token about to be stored was live when the request read its entry.
GoogleOK(q) ==
    pc[q] \in {"update", "extend", "toolUpdate", "grantRotate"} => since[q] <= entry[q].google

RequestOK(q) ==
    CopyOK(q) /\ BearerOK(q) /\ PresentedOK(q) /\ RenewalOK(q) /\ GoogleOK(q)

SIInv ==
    /\ IInv
    /\ RequestsTyped
    /\ EntriesWellTimed
    /\ Roots
    /\ \A q \in Request : RequestOK(q)

-----------------------------------------------------------------------------
\* The credentials a handler generates are new.
LEMMA FreshIsNew ==
    ASSUME TypeOK, CanGenerate
    PROVE  /\ FreshAccess \in Access /\ FreshAccess \notin issuedAccess
           /\ FreshRefresh \in Refresh /\ FreshRefresh \notin issuedRefresh
<1>1. (\E a \in Access : a \notin issuedAccess) /\ (\E r \in Refresh : r \notin issuedRefresh)
  BY DEF TypeOK, CanGenerate
<1> QED BY <1>1 DEF FreshAccess, FreshRefresh

\* Nothing is stored and no request is in flight at the start.
LEMMA SessionInit == SInit => SIInv
<1> SUFFICES ASSUME SInit PROVE SIInv
  OBVIOUS
<1> USE StoreAssumption, SessionAssumption DEF SInit
<1>1. IInv
  BY InitInv
<1>2. RequestsTyped
  BY DEF RequestsTyped, Labels, Init
<1>3. EntriesWellTimed /\ Roots
  BY DEF EntriesWellTimed, Roots, OnePairPerSession, Stored, Init
<1>4. \A q \in Request : RequestOK(q)
  BY DEF RequestOK, CopyOK, BearerOK, PresentedOK, RenewalOK, GoogleOK, Renewing, InTool, Granting
<1> QED BY <1>1, <1>2, <1>3, <1>4 DEF SIInv

-----------------------------------------------------------------------------
(* Every step of a handler is a step of the store, or leaves it alone.     *)

\* A new session is a StoreToken with credentials of the right kind.
LEMMA StartIsNext == ASSUME SIInv, NEW c \in Client, StartSession(c) PROVE Next
<1>1. /\ FreshAccess \in Access /\ FreshRefresh \in Refresh
  BY FreshIsNew DEF SIInv, IInv, StartSession
<1>2. now + GoogleTTL \in GoogleExpiry
  BY SessionAssumption DEF SIInv, RequestsTyped
<1>3. StoreToken(FreshAccess, NewTokenInfo(FreshRefresh, c, now + GoogleTTL))
  BY DEF StartSession
<1> QED BY <1>1, <1>2, <1>3 DEF Next

\* A grant is a RotateToken whose successor was never used before.
LEMMA GrantIsNext == ASSUME SIInv, NEW q \in Request, GrantSucceeds(q) PROVE Next
<1>1. /\ FreshAccess \in Access /\ FreshAccess \notin issuedAccess
      /\ FreshRefresh \in Refresh /\ FreshRefresh \notin issuedRefresh
  BY FreshIsNew DEF SIInv, IInv, GrantSucceeds
<1>2. /\ presented[q] \in Refresh /\ entry[q].google \in GoogleExpiry
      /\ entry[q].client \in Client
  BY DEF SIInv, RequestOK, CopyOK, PresentedOK, GrantSucceeds, Granting, TokenInfo
<1>3. Offered(FreshAccess, FreshRefresh)
  BY <1>1 DEF Offered
<1>4. RotateToken(presented[q], FreshAccess,
                  NewTokenInfo(FreshRefresh, entry[q].client, entry[q].google))
  BY DEF GrantSucceeds, Successor
<1> QED BY <1>1, <1>2, <1>3, <1>4 DEF Next

\* A renewed Google token is an UpdateGoogleToken of a token handed out before.
LEMMA UpdateIsNext ==
    ASSUME SIInv, NEW q \in Request, pc[q] \in {"update", "toolUpdate"},
           UpdateGoogleToken(bearer[q], entry[q].google)
    PROVE  Next
<1>1. bearer[q] \in Access /\ entry[q].google \in GoogleExpiry
  BY DEF SIInv, IInv, TypeOK, RequestOK, CopyOK, BearerOK, Renewing, InTool
<1> QED BY <1>1 DEF Next

\* A renewed expiry was computed at some moment already past.
LEMMA ExtendIsNext ==
    ASSUME SIInv, NEW q \in Request, pc[q] = "extend",
           ExtendTokenExpiry(bearer[q], entry[q].expiresAt)
    PROVE  Next
<1>1. bearer[q] \in Access
  BY DEF SIInv, IInv, TypeOK, RequestOK, BearerOK, Renewing
<1>2. PICK t \in since[q]..now : entry[q].expiresAt = t + AccessTTL
  BY DEF SIInv, RequestOK, RenewalOK
<1>3. t \in 0..now
  BY DEF SIInv, RequestsTyped
<1> QED BY <1>1, <1>2, <1>3 DEF Next

\* All steps of the handlers together.
LEMMA StepsImplement == SIInv /\ [SNext]_allVars => [Next]_vars
<1> SUFFICES ASSUME SIInv, [SNext]_allVars PROVE Next \/ UNCHANGED vars
  OBVIOUS
<1>1. ASSUME NEW q \in Request, RequestStep(q) PROVE Next \/ UNCHANGED vars
  <2>1. CASE GrantSucceeds(q)
    BY <2>1, GrantIsNext
  <2>2. CASE RenewalUpdates(q)
    BY <2>2, UpdateIsNext DEF RenewalUpdates
  <2>3. CASE ToolUpdates(q)
    BY <2>3, UpdateIsNext DEF ToolUpdates
  <2>4. CASE RenewalServed(q)
    BY <2>4, ExtendIsNext DEF RenewalServed
  <2>5. CASE ~(GrantSucceeds(q) \/ RenewalUpdates(q) \/ ToolUpdates(q) \/ RenewalServed(q))
    BY <1>1, <2>5
    DEF RequestStep, BearerExpired, RenewalStarts, RenewalRefused, GoogleRenews, GoogleRefuses,
        RenewalTooLate, ToolStarts, GoogleRefreshes, GrantStarts, GoogleGrants, GrantRefused
  <2> QED BY <2>1, <2>2, <2>3, <2>4, <2>5
<1>2. ASSUME NEW c \in Client, StartSession(c) PROVE Next
  BY <1>2, StartIsNext
<1>3. CASE Purge
  BY <1>3 DEF Purge, Next
<1>4. CASE TimePasses
  BY <1>4 DEF TimePasses, Next
<1>5. CASE UNCHANGED allVars
  BY <1>5 DEF allVars
<1> QED BY <1>1, <1>2, <1>3, <1>4, <1>5 DEF SNext

-----------------------------------------------------------------------------
(* What a step at one moment may do to the entries requests hold copies of. *)
Evolves ==
    /\ now' = now
    /\ maxAge' = maxAge
    /\ issuedAccess \subseteq issuedAccess'
    /\ \A a \in issuedAccess : Stored(a)' =>
          /\ Stored(a)
          /\ tokens'[a].createdAt = tokens[a].createdAt
          /\ tokens'[a].refreshExpiresAt = tokens[a].refreshExpiresAt

Untouched(q) ==
    /\ pc'[q] = pc[q]
    /\ bearer'[q] = bearer[q]
    /\ presented'[q] = presented[q]
    /\ entry'[q] = entry[q]
    /\ since'[q] = since[q]

\* A request that takes no part in the step.
LEMMA OthersKept ==
    ASSUME SIInv, Evolves, NEW q \in Request, Untouched(q)
    PROVE  RequestOK(q)'
<1>1. RequestOK(q)
  BY DEF SIInv
<1>2. CopyOK(q)' /\ PresentedOK(q)' /\ RenewalOK(q)' /\ GoogleOK(q)'
  BY <1>1 DEF RequestOK, CopyOK, PresentedOK, RenewalOK, GoogleOK, Evolves, Untouched
<1>3. BearerOK(q)'
  BY <1>1 DEF RequestOK, BearerOK, Evolves, Untouched
<1> QED BY <1>2, <1>3 DEF RequestOK

\* A request that has been answered.
LEMMA AnsweredOK == ASSUME NEW q \in Request, pc'[q] = "idle" PROVE RequestOK(q)'
BY DEF RequestOK, CopyOK, BearerOK, PresentedOK, RenewalOK, GoogleOK, Renewing, InTool, Granting

\* Entries that are kept, or replaced by ones that are well timed.
LEMMA EntriesKept ==
    ASSUME EntriesWellTimed, now' = now, maxAge' = maxAge,
           \A a \in Access : Stored(a)' => \/ Stored(a) /\ tokens'[a] = tokens[a]
                                           \/ WellTimed(tokens'[a])
    PROVE  EntriesWellTimed'
BY DEF EntriesWellTimed, WellTimed

\* Nothing new is stored.
LEMMA RootsKept ==
    ASSUME Roots, root' = root, issuedAccess' = issuedAccess,
           \A a \in Access : Stored(a)' => Stored(a)
    PROVE  Roots'
BY DEF Roots, OnePairPerSession

\* The locals stay in their ranges.
LEMMA LocalsTyped ==
    ASSUME RequestsTyped, maxAge' = maxAge, now' = now, root' = root,
           NEW q \in Request, NEW l \in Labels, NEW b \in Access \cup {NoAccess},
           NEW p \in Refresh \cup {NoRefresh}, NEW e \in TokenInfo \cup {NoEntry}, NEW s \in Nat,
           pc' = [pc EXCEPT ![q] = l], bearer' = [bearer EXCEPT ![q] = b],
           presented' = [presented EXCEPT ![q] = p], entry' = [entry EXCEPT ![q] = e],
           since' = [since EXCEPT ![q] = s]
    PROVE  /\ RequestsTyped'
           /\ \A x \in Request \ {q} : Untouched(x)
           /\ pc'[q] = l /\ bearer'[q] = b /\ presented'[q] = p /\ entry'[q] = e /\ since'[q] = s
BY DEF RequestsTyped, Untouched

-----------------------------------------------------------------------------
(* Steps that leave the store alone: one request moves, between labels and  *)
(* with locals of the right types.                                         *)
Moves(q, l, b, p, e, s) ==
    /\ pc' = [pc EXCEPT ![q] = l]
    /\ bearer' = [bearer EXCEPT ![q] = b]
    /\ presented' = [presented EXCEPT ![q] = p]
    /\ entry' = [entry EXCEPT ![q] = e]
    /\ since' = [since EXCEPT ![q] = s]

\* Such a step keeps the invariant if the request that moves stays right.
LEMMA MoveInv ==
    ASSUME SIInv, UNCHANGED <<vars, maxAge, root>>,
           NEW q \in Request, NEW l \in Labels, NEW b \in Access \cup {NoAccess},
           NEW p \in Refresh \cup {NoRefresh}, NEW e \in TokenInfo \cup {NoEntry}, NEW s \in Nat,
           Moves(q, l, b, p, e, s), RequestOK(q)'
    PROVE  SIInv'
<1>0. UNCHANGED <<tokens, refreshIndex, now, issuedAccess, issuedRefresh, spent, revoked>>
  BY DEF vars, storeVars
<1>1. IInv'
  BY <1>0, NextInv DEF vars, storeVars, SIInv
<1>2. RequestsTyped' /\ \A x \in Request \ {q} : Untouched(x)
  BY <1>0, LocalsTyped DEF SIInv, Moves
<1>3. EntriesWellTimed'
  BY <1>0, EntriesKept DEF SIInv, Stored
<1>4. Roots'
  BY <1>0, RootsKept DEF SIInv, Stored
<1>5. Evolves
  BY <1>0 DEF Evolves, Stored
<1>6. \A x \in Request : RequestOK(x)'
  BY <1>2, <1>5, OthersKept
<1> QED BY <1>1, <1>2, <1>3, <1>4, <1>6 DEF SIInv

\* The same for a request that is answered.
LEMMA AnsweredInv ==
    ASSUME SIInv, UNCHANGED <<vars, maxAge, root>>, NEW q \in Request, Answered(q)
    PROVE  SIInv'
<1>1. pc'[q] = "idle"
  BY DEF Answered, SIInv, RequestsTyped
<1>2. Moves(q, "idle", NoAccess, NoRefresh, NoEntry, 0)
  BY DEF Answered, Moves
<1> QED BY <1>1, <1>2, AnsweredOK, MoveInv DEF Labels

\* What a request has in its locals now.
LEMMA LocalsNow ==
    ASSUME SIInv, NEW q \in Request
    PROVE  /\ RequestOK(q)
           /\ pc[q] \in Labels /\ bearer[q] \in Access \cup {NoAccess}
           /\ presented[q] \in Refresh \cup {NoRefresh} /\ entry[q] \in TokenInfo \cup {NoEntry}
           /\ since[q] \in Nat /\ now \in Nat /\ now \in 0..MaxTime
           /\ pc = [pc EXCEPT ![q] = pc[q]] /\ bearer = [bearer EXCEPT ![q] = bearer[q]]
           /\ presented = [presented EXCEPT ![q] = presented[q]]
           /\ entry = [entry EXCEPT ![q] = entry[q]] /\ since = [since EXCEPT ![q] = since[q]]
BY DEF SIInv, IInv, TypeOK, RequestsTyped

\* What is known of an entry that can be read.
LEMMA StoredNow ==
    ASSUME SIInv, NEW a \in Access, Stored(a)
    PROVE  /\ tokens[a] \in TokenInfo /\ a \in issuedAccess
           /\ tokens[a].google \in GoogleExpiry /\ tokens[a].google \in Nat
           /\ tokens[a].createdAt \in Nat /\ tokens[a].createdAt <= now
           /\ tokens[a].refreshExpiresAt \in Nat
<1>1. tokens[a] \in TokenInfo /\ a \in issuedAccess
  BY DEF SIInv, IInv, TypeOK, StoredIsIssued, Stored
<1>2. WellTimed(tokens[a])
  BY DEF SIInv, EntriesWellTimed
<1> QED BY <1>1, <1>2 DEF TokenInfo, WellTimed

-----------------------------------------------------------------------------
(* The steps of a request that leave the store alone.                      *)

\* An expired bearer is noted.
LEMMA BearerExpiredInv ==
    ASSUME SIInv, NEW q \in Request, NEW a \in Access, BearerExpired(q, a), maxAge' = maxAge
    PROVE  SIInv'
<1>1. Moves(q, "expired", a, presented[q], entry[q], since[q])
  BY LocalsNow DEF BearerExpired, Goto, Moves
<1>2. pc'[q] = "expired" /\ bearer'[q] = a /\ issuedAccess' = issuedAccess
  BY DEF BearerExpired, Goto, SIInv, RequestsTyped, vars, storeVars
<1>3. a \in issuedAccess
  BY StoredNow DEF BearerExpired
<1>4. RequestOK(q)'
  BY <1>2, <1>3 DEF RequestOK, CopyOK, BearerOK, PresentedOK, RenewalOK, GoogleOK, Renewing,
     InTool, Granting
<1>5. UNCHANGED <<vars, maxAge, root>>
  BY DEF BearerExpired
<1> QED BY <1>1, <1>4, <1>5, LocalsNow, MoveInv DEF Labels

\* The checks of tryAutoRefresh pass, and the request takes its copy.
LEMMA RenewalStartsInv ==
    ASSUME SIInv, NEW q \in Request, RenewalStarts(q), maxAge' = maxAge
    PROVE  SIInv'
<1>0. bearer[q] \in Access /\ Stored(bearer[q]) /\ bearer[q] \in issuedAccess
  BY LocalsNow DEF RenewalStarts, RequestOK, BearerOK, SIInv, IInv, TypeOK
<1>1. Moves(q, "google", bearer[q], presented[q], tokens[bearer[q]], now)
  BY LocalsNow DEF RenewalStarts, Reads, Goto, Moves
<1>2. /\ pc'[q] = "google" /\ bearer'[q] = bearer[q] /\ entry'[q] = tokens[bearer[q]]
      /\ since'[q] = now /\ now' = now /\ tokens' = tokens /\ issuedAccess' = issuedAccess
  BY DEF RenewalStarts, Reads, Goto, SIInv, RequestsTyped, vars, storeVars
<1>3. /\ now <= tokens[bearer[q]].refreshExpiresAt
      /\ maxAge > 0 => now <= tokens[bearer[q]].createdAt + maxAge
  BY <1>0, StoredNow, LocalsNow, SessionAssumption DEF RenewalStarts, MayRenew, SIInv, RequestsTyped
<1>4. CopyOK(q)'
  BY <1>0, <1>2, StoredNow, LocalsNow, SessionAssumption DEF CopyOK
<1>5. BearerOK(q)' /\ PresentedOK(q)' /\ RenewalOK(q)' /\ GoogleOK(q)'
  BY <1>0, <1>2, <1>3 DEF BearerOK, PresentedOK, RenewalOK, GoogleOK, Renewing, InTool, Granting
<1>6. UNCHANGED <<vars, maxAge, root>>
  BY DEF RenewalStarts
<1>7. tokens[bearer[q]] \in TokenInfo
  BY <1>0, StoredNow
<1> QED BY <1>1, <1>4, <1>5, <1>6, <1>7, LocalsNow, MoveInv DEF Labels, RequestOK

\* Google answers a renewal: both new moments are no earlier than the copy.
LEMMA GoogleRenewsInv ==
    ASSUME SIInv, NEW q \in Request, GoogleRenews(q), maxAge' = maxAge
    PROVE  SIInv'
<1> DEFINE e == [entry[q] EXCEPT !.google = now + GoogleTTL, !.expiresAt = now + AccessTTL]
<1>0. /\ entry[q] \in TokenInfo /\ CopyOK(q) /\ BearerOK(q) /\ RenewalOK(q) /\ pc[q] = "google"
      /\ now + GoogleTTL \in GoogleExpiry /\ now + GoogleTTL \in Nat /\ now + AccessTTL \in Nat
  BY LocalsNow, SessionAssumption, StoreAssumption
  DEF GoogleRenews, RequestOK, CopyOK, Renewing
<1>1. /\ e \in TokenInfo /\ e.google = now + GoogleTTL /\ e.expiresAt = now + AccessTTL
      /\ e.createdAt = entry[q].createdAt /\ e.refreshExpiresAt = entry[q].refreshExpiresAt
  BY <1>0 DEF TokenInfo
<1>2. entry' = [entry EXCEPT ![q] = e]
  BY DEF GoogleRenews, SIInv, RequestsTyped
<1> HIDE DEF e
<1>3. Moves(q, "update", bearer[q], presented[q], e, since[q])
  BY <1>2, LocalsNow DEF GoogleRenews, Goto, Moves
<1>4. /\ pc'[q] = "update" /\ bearer'[q] = bearer[q] /\ entry'[q] = e /\ since'[q] = since[q]
      /\ now' = now /\ tokens' = tokens /\ issuedAccess' = issuedAccess
  BY <1>2 DEF GoogleRenews, Goto, SIInv, RequestsTyped, vars, storeVars
<1>5. since[q] <= now + GoogleTTL
  BY <1>0, LocalsNow, SessionAssumption DEF CopyOK, Renewing
<1>6. CopyOK(q)' /\ BearerOK(q)'
  BY <1>0, <1>1, <1>4 DEF CopyOK, BearerOK, Renewing, InTool, Granting, Stored
<1>7. now \in since[q]..now
  BY <1>0, LocalsNow DEF CopyOK, Renewing
<1>8. PresentedOK(q)' /\ RenewalOK(q)' /\ GoogleOK(q)'
  BY <1>0, <1>1, <1>4, <1>5, <1>7 DEF PresentedOK, RenewalOK, GoogleOK, Renewing, Granting
<1>9. UNCHANGED <<vars, maxAge, root>>
  BY DEF GoogleRenews
<1> QED BY <1>1, <1>3, <1>6, <1>8, <1>9, LocalsNow, MoveInv DEF Labels, RequestOK

\* A tool finds the Google token of its copy expired.
LEMMA ToolStartsInv ==
    ASSUME SIInv, NEW q \in Request, NEW a \in Access, ToolStarts(q, a), maxAge' = maxAge
    PROVE  SIInv'
<1>0. Stored(a) /\ tokens[a] \in TokenInfo /\ a \in issuedAccess
  BY StoredNow DEF ToolStarts, FoundByAccess
<1>1. Moves(q, "toolGoogle", a, presented[q], tokens[a], now)
  BY LocalsNow DEF ToolStarts, Reads, Goto, Moves
<1>2. /\ pc'[q] = "toolGoogle" /\ bearer'[q] = a /\ entry'[q] = tokens[a]
      /\ since'[q] = now /\ now' = now /\ tokens' = tokens /\ issuedAccess' = issuedAccess
  BY DEF ToolStarts, Reads, Goto, SIInv, RequestsTyped, vars, storeVars
<1>3. CopyOK(q)'
  BY <1>0, <1>2, StoredNow, LocalsNow, SessionAssumption DEF CopyOK
<1>4. BearerOK(q)' /\ PresentedOK(q)' /\ RenewalOK(q)' /\ GoogleOK(q)'
  BY <1>0, <1>2 DEF BearerOK, PresentedOK, RenewalOK, GoogleOK, Renewing, InTool, Granting
<1>5. UNCHANGED <<vars, maxAge, root>>
  BY DEF ToolStarts
<1> QED BY <1>0, <1>1, <1>3, <1>4, <1>5, LocalsNow, MoveInv DEF Labels, RequestOK

\* Google answers a tool call or a grant.
LEMMA GoogleAnswersInv ==
    ASSUME SIInv, NEW q \in Request, GoogleRefreshes(q) \/ GoogleGrants(q), maxAge' = maxAge
    PROVE  SIInv'
<1> DEFINE e == [entry[q] EXCEPT !.google = now + GoogleTTL]
           l == IF pc[q] = "toolGoogle" THEN "toolUpdate" ELSE "grantRotate"
<1>0. /\ entry[q] \in TokenInfo /\ RequestOK(q) /\ pc[q] \in {"toolGoogle", "grantGoogle"}
      /\ now + GoogleTTL \in GoogleExpiry /\ now + GoogleTTL \in Nat
  BY LocalsNow, SessionAssumption
  DEF GoogleRefreshes, GoogleGrants, RequestOK, CopyOK, InTool, Granting
<1>1. /\ e \in TokenInfo /\ e.google = now + GoogleTTL
      /\ e.createdAt = entry[q].createdAt /\ e.refreshExpiresAt = entry[q].refreshExpiresAt
  BY <1>0 DEF TokenInfo
<1>2. entry' = [entry EXCEPT ![q] = e]
  BY DEF GoogleRefreshes, GoogleGrants, SIInv, RequestsTyped
<1> HIDE DEF e
<1>3. Moves(q, l, bearer[q], presented[q], e, since[q])
  BY <1>2, LocalsNow DEF GoogleRefreshes, GoogleGrants, Goto, Moves
<1>4. /\ pc'[q] = l /\ bearer'[q] = bearer[q] /\ entry'[q] = e /\ since'[q] = since[q]
      /\ presented'[q] = presented[q]
      /\ now' = now /\ tokens' = tokens /\ issuedAccess' = issuedAccess
  BY <1>2 DEF GoogleRefreshes, GoogleGrants, Goto, SIInv, RequestsTyped, vars, storeVars
<1>5. since[q] <= now + GoogleTTL
  BY <1>0, LocalsNow, SessionAssumption DEF RequestOK, CopyOK, InTool, Granting
<1>6. CopyOK(q)' /\ BearerOK(q)'
  BY <1>0, <1>1, <1>4 DEF RequestOK, CopyOK, BearerOK, Renewing, InTool, Granting, Stored
<1>7. PresentedOK(q)' /\ RenewalOK(q)' /\ GoogleOK(q)'
  BY <1>0, <1>1, <1>4, <1>5 DEF RequestOK, PresentedOK, RenewalOK, GoogleOK, Renewing, Granting
<1>8. UNCHANGED <<vars, maxAge, root>>
  BY DEF GoogleRefreshes, GoogleGrants
<1> QED BY <1>1, <1>3, <1>6, <1>7, <1>8, LocalsNow, MoveInv DEF Labels, RequestOK

\* A grant takes its copy; whether its Google token still lives is decided here.
LEMMA GrantStartsInv ==
    ASSUME SIInv, NEW q \in Request, NEW r \in Refresh, GrantStarts(q, r), maxAge' = maxAge
    PROVE  SIInv'
<1> DEFINE a == refreshIndex[r]
           l == IF tokens[a].google < now THEN "grantGoogle" ELSE "grantRotate"
<1>0. a \in Access /\ Stored(a)
  BY DEF GrantStarts, FoundByRefresh, SIInv, IInv, TypeOK
<1>1. Moves(q, l, bearer[q], r, tokens[a], now)
  BY LocalsNow DEF GrantStarts, Reads, Goto, Moves
<1>2. /\ pc'[q] = l /\ presented'[q] = r /\ entry'[q] = tokens[a]
      /\ since'[q] = now /\ now' = now
  BY DEF GrantStarts, Reads, Goto, SIInv, RequestsTyped, vars, storeVars
<1> HIDE DEF a
<1>3. CopyOK(q)' /\ GoogleOK(q)'
  BY <1>0, <1>2, StoredNow, LocalsNow, SessionAssumption DEF CopyOK, GoogleOK
<1>4. BearerOK(q)' /\ PresentedOK(q)' /\ RenewalOK(q)'
  BY <1>2 DEF BearerOK, PresentedOK, RenewalOK, Renewing, InTool, Granting
<1>5. UNCHANGED <<vars, maxAge, root>>
  BY DEF GrantStarts
<1>6. tokens[a] \in TokenInfo
  BY <1>0, StoredNow
<1> QED BY <1>1, <1>3, <1>4, <1>5, <1>6, LocalsNow, MoveInv DEF Labels, RequestOK

-----------------------------------------------------------------------------
(* The steps that change the store.                                        *)

\* What such a step has to establish: the rest follows from the store's own
\* theorem and from what it may do to the entries others hold copies of.
LEMMA StoreStepInv ==
    ASSUME SIInv, SNext, Evolves, RequestsTyped', EntriesWellTimed', Roots',
           \A x \in Request : Untouched(x) \/ RequestOK(x)'
    PROVE  SIInv'
<1>1. IInv'
  BY StepsImplement, NextInv DEF SIInv
<1>2. \A x \in Request : RequestOK(x)'
  BY OthersKept
<1> QED BY <1>1, <1>2 DEF SIInv

\* An entry rewritten in place.
LEMMA Rewritten ==
    ASSUME SIInv, NEW a \in Access, Stored(a), NEW info \in TokenInfo, WellTimed(info),
           info.createdAt = tokens[a].createdAt,
           info.refreshExpiresAt = tokens[a].refreshExpiresAt,
           tokens' = [tokens EXCEPT ![a] = info],
           UNCHANGED <<now, maxAge, issuedAccess, root>>
    PROVE  Evolves /\ EntriesWellTimed' /\ Roots'
<1>1. /\ \A b \in Access \ {a} : tokens'[b] = tokens[b]
      /\ tokens'[a] = info
  BY DEF SIInv, IInv, TypeOK
<1>2. \A b \in Access : Stored(b)' => Stored(b)
  BY <1>1 DEF Stored
<1>3. \A b \in issuedAccess : b \in Access
  BY DEF SIInv, IInv, TypeOK
<1>4. Evolves
  BY <1>1, <1>2, <1>3 DEF Evolves
<1>5. EntriesWellTimed'
  BY <1>1, <1>2, EntriesKept DEF SIInv
<1>6. Roots'
  BY <1>2, RootsKept DEF SIInv
<1> QED BY <1>4, <1>5, <1>6

\* A new entry under an access token that was never handed out, with some other
\* entries possibly removed.
LEMMA Added ==
    ASSUME SIInv, NEW a2 \in Access \ issuedAccess, NEW r \in Refresh, NEW c \in Client,
           NEW g \in GoogleExpiry, now <= g + CallBound,
           tokens'[a2] = NewTokenInfo(r, c, g),
           \A b \in Access \ {a2} : Stored(b)' => Stored(b) /\ tokens'[b] = tokens[b],
           issuedAccess' = issuedAccess \cup {a2}, UNCHANGED <<now, maxAge>>
    PROVE  Evolves /\ EntriesWellTimed'
<1>1. \A b \in issuedAccess : b \in Access \ {a2}
  BY DEF SIInv, IInv, TypeOK
<1>2. Evolves
  BY <1>1 DEF Evolves
<1>3. WellTimed(NewTokenInfo(r, c, g))
  BY StoreAssumption, SessionAssumption, LocalsNow
  DEF WellTimed, NewTokenInfo, SIInv, RequestsTyped
<1>4. EntriesWellTimed'
  BY <1>3, EntriesKept DEF SIInv
<1> QED BY <1>2, <1>4

\* A new session has a root of its own.
LEMMA StartSessionInv ==
    ASSUME SIInv, NEW c \in Client, StartSession(c), maxAge' = maxAge
    PROVE  SIInv'
<1> DEFINE a2 == FreshAccess
           r2 == FreshRefresh
<1>1. a2 \in Access \ issuedAccess /\ r2 \in Refresh
  BY FreshIsNew DEF SIInv, IInv, StartSession
<1> HIDE DEF a2, r2
<1>2. /\ tokens' = [tokens EXCEPT ![a2] = NewTokenInfo(r2, c, now + GoogleTTL)]
      /\ issuedAccess' = issuedAccess \cup {a2}
      /\ root' = [root EXCEPT ![a2] = a2]
      /\ UNCHANGED <<now, requestVars>>
  BY DEF StartSession, StoreToken, a2, r2
<1>3. now + GoogleTTL \in GoogleExpiry /\ now \in Nat /\ now + GoogleTTL \in Nat
      /\ now <= now + GoogleTTL + CallBound
  BY SessionAssumption DEF SIInv, RequestsTyped
<1>4. /\ tokens'[a2] = NewTokenInfo(r2, c, now + GoogleTTL)
      /\ \A b \in Access \ {a2} : tokens'[b] = tokens[b]
  BY <1>1, <1>2 DEF SIInv, IInv, TypeOK
<1>5. Evolves /\ EntriesWellTimed'
  BY <1>1, <1>2, <1>3, <1>4, Added DEF Stored
<1>6. /\ root'[a2] = a2 /\ \A b \in Access \ {a2} : root'[b] = root[b]
      /\ root' \in [Access -> Access \cup {NoAccess}]
  BY <1>1, <1>2 DEF SIInv, RequestsTyped
<1>7. \A b \in Access : Stored(b) => b \in issuedAccess
  BY DEF SIInv, IInv, StoredIsIssued
<1>8. \A b \in Access \ {a2} : Stored(b)' => b \in issuedAccess /\ root[b] # a2 /\ Stored(b)
  BY <1>1, <1>4, <1>7 DEF Stored, SIInv, Roots
<1>9. OnePairPerSession'
  BY <1>6, <1>8 DEF OnePairPerSession, SIInv, Roots
<1>10. Roots'
  BY <1>1, <1>2, <1>6, <1>9 DEF Roots, SIInv, IInv, TypeOK
<1>11. RequestsTyped' /\ \A x \in Request : Untouched(x)
  BY <1>2, <1>6 DEF RequestsTyped, SIInv, requestVars, Untouched
<1>12. SNext
  BY DEF SNext
<1> QED BY <1>5, <1>10, <1>11, <1>12, StoreStepInv

\* What the store holds for the bearer of a request that is about to write to it.
LEMMA BearersEntry ==
    ASSUME SIInv, NEW q \in Request, pc[q] \in {"update", "extend", "toolUpdate"},
           Stored(bearer[q])
    PROVE  /\ bearer[q] \in Access /\ entry[q] \in TokenInfo
           /\ tokens[bearer[q]] \in TokenInfo /\ WellTimed(tokens[bearer[q]])
           /\ tokens[bearer[q]].createdAt = entry[q].createdAt
           /\ tokens[bearer[q]].refreshExpiresAt = entry[q].refreshExpiresAt
<1>1. bearer[q] \in Access /\ entry[q] \in TokenInfo
      /\ tokens[bearer[q]].createdAt = entry[q].createdAt
      /\ tokens[bearer[q]].refreshExpiresAt = entry[q].refreshExpiresAt
  BY LocalsNow DEF RequestOK, CopyOK, BearerOK, Renewing, InTool, SIInv, IInv, TypeOK
<1>2. tokens[bearer[q]] \in TokenInfo
  BY <1>1, StoredNow
<1>3. WellTimed(tokens[bearer[q]])
  BY <1>1 DEF SIInv, EntriesWellTimed
<1> QED BY <1>1, <1>2, <1>3

\* The Google token a renewal or a tool call puts in place.
LEMMA UpdateRewrites ==
    ASSUME SIInv, NEW q \in Request, pc[q] \in {"update", "toolUpdate"},
           UpdateGoogleToken(bearer[q], entry[q].google), UNCHANGED <<maxAge, root>>
    PROVE  Evolves /\ EntriesWellTimed' /\ Roots'
<1> DEFINE a == bearer[q]
           info == [tokens[a] EXCEPT !.google = entry[q].google]
<1>1. Stored(a) /\ tokens' = [tokens EXCEPT ![a] = info]
      /\ UNCHANGED <<now, issuedAccess>>
  BY DEF UpdateGoogleToken
<1>2. /\ a \in Access /\ entry[q] \in TokenInfo /\ tokens[a] \in TokenInfo
      /\ WellTimed(tokens[a])
      /\ tokens[a].createdAt = entry[q].createdAt
      /\ tokens[a].refreshExpiresAt = entry[q].refreshExpiresAt
  BY <1>1, BearersEntry
<1>3. /\ entry[q].google \in GoogleExpiry /\ entry[q].createdAt <= since[q]
      /\ since[q] <= entry[q].google
  BY LocalsNow DEF RequestOK, CopyOK, GoogleOK, Renewing, InTool
<1>4. entry[q].createdAt <= entry[q].google + CallBound
  BY <1>2, <1>3, LocalsNow, SessionAssumption DEF TokenInfo
<1> HIDE DEF a
<1>5. /\ info \in TokenInfo /\ info.google = entry[q].google
      /\ info.createdAt = tokens[a].createdAt /\ info.expiresAt = tokens[a].expiresAt
      /\ info.refreshExpiresAt = tokens[a].refreshExpiresAt
  BY <1>2 DEF TokenInfo
<1> HIDE DEF info
<1>6. WellTimed(info)
  BY <1>2, <1>3, <1>4, <1>5 DEF WellTimed
<1> QED BY <1>1, <1>2, <1>5, <1>6, Rewritten

\* Google's answer is stored and the renewal goes on to the expiry.
LEMMA RenewalUpdatesInv ==
    ASSUME SIInv, NEW q \in Request, RenewalUpdates(q), maxAge' = maxAge
    PROVE  SIInv'
<1>1. /\ pc[q] = "update" /\ UpdateGoogleToken(bearer[q], entry[q].google)
      /\ pc' = [pc EXCEPT ![q] = "extend"]
      /\ UNCHANGED <<bearer, presented, entry, since, root, maxAge>>
  BY DEF RenewalUpdates, Goto
<1>2. Evolves /\ EntriesWellTimed' /\ Roots'
  BY <1>1, UpdateRewrites
<1>3. RequestsTyped' /\ (\A x \in Request \ {q} : Untouched(x)) /\ pc'[q] = "extend"
  BY <1>1, <1>2 DEF RequestsTyped, SIInv, Untouched, Labels, Evolves
<1>4. RequestOK(q)
  BY LocalsNow
<1>5. CopyOK(q)' /\ PresentedOK(q)' /\ RenewalOK(q)' /\ GoogleOK(q)'
  BY <1>1, <1>2, <1>3, <1>4
  DEF RequestOK, CopyOK, PresentedOK, RenewalOK, GoogleOK, Evolves, Renewing, InTool, Granting
<1>6. BearerOK(q)'
  BY <1>1, <1>2, <1>3, <1>4 DEF RequestOK, BearerOK, Evolves, Renewing, InTool
<1>7. SNext
  BY DEF SNext, RequestStep
<1> QED BY <1>2, <1>3, <1>5, <1>6, <1>7, StoreStepInv DEF RequestOK

\* The locals of a request that is answered.
LEMMA AnsweredTyped ==
    ASSUME SIInv, NEW q \in Request, Answered(q), UNCHANGED <<maxAge, now>>,
           root' \in [Access -> Access \cup {NoAccess}]
    PROVE  RequestsTyped' /\ \A x \in Request : Untouched(x) \/ RequestOK(x)'
<1>1. RequestsTyped' /\ (\A x \in Request \ {q} : Untouched(x)) /\ pc'[q] = "idle"
  BY DEF RequestsTyped, SIInv, Untouched, Answered, Labels
<1> QED BY <1>1, AnsweredOK

\* A tool call ends, having stored the Google token or found the entry gone.
LEMMA ToolUpdatesInv ==
    ASSUME SIInv, NEW q \in Request, ToolUpdates(q), maxAge' = maxAge
    PROVE  SIInv'
<1>1. CASE UNCHANGED vars
  BY <1>1, AnsweredInv DEF ToolUpdates
<1>2. CASE UpdateGoogleToken(bearer[q], entry[q].google)
  <2>1. Evolves /\ EntriesWellTimed' /\ Roots'
    BY <1>2, UpdateRewrites DEF ToolUpdates
  <2>2. RequestsTyped' /\ \A x \in Request : Untouched(x) \/ RequestOK(x)'
    BY <2>1, AnsweredTyped DEF ToolUpdates, Evolves, SIInv, RequestsTyped
  <2>3. SNext
    BY DEF SNext, RequestStep
  <2> QED BY <2>1, <2>2, <2>3, StoreStepInv
<1> QED BY <1>1, <1>2 DEF ToolUpdates

\* The expiry a renewal writes was computed while the renewal was in flight, and
\* the checks that allowed it were made at most CallBound before.
LEMMA RenewalServedInv ==
    ASSUME SIInv, NEW q \in Request, RenewalServed(q), maxAge' = maxAge
    PROVE  SIInv'
<1>1. CASE UNCHANGED vars
  BY <1>1, AnsweredInv DEF RenewalServed
<1>2. CASE ExtendTokenExpiry(bearer[q], entry[q].expiresAt)
  <2> DEFINE a == bearer[q]
             info == [tokens[a] EXCEPT !.expiresAt = entry[q].expiresAt]
  <2>1. Stored(a) /\ tokens' = [tokens EXCEPT ![a] = info]
        /\ UNCHANGED <<now, issuedAccess>> /\ pc[q] = "extend"
        /\ Answered(q) /\ UNCHANGED root
    BY <1>2 DEF ExtendTokenExpiry, RenewalServed
  <2>2. /\ a \in Access /\ entry[q] \in TokenInfo /\ tokens[a] \in TokenInfo
        /\ WellTimed(tokens[a])
        /\ tokens[a].createdAt = entry[q].createdAt
        /\ tokens[a].refreshExpiresAt = entry[q].refreshExpiresAt
    BY <2>1, BearersEntry
  <2>3. PICK t \in since[q]..now : entry[q].expiresAt = t + AccessTTL
    BY <2>1, LocalsNow DEF RequestOK, RenewalOK
  <2>4. /\ since[q] <= entry[q].refreshExpiresAt /\ now <= since[q] + CallBound
        /\ maxAge > 0 => since[q] <= entry[q].createdAt + maxAge
    BY <2>1, LocalsNow DEF RequestOK, RenewalOK, CopyOK, Renewing
  <2>5. /\ {t, now, since[q], entry[q].refreshExpiresAt, entry[q].createdAt, CallBound,
            AccessTTL, maxAge} \subseteq Nat
        /\ t <= now
    BY <2>2, <2>3, LocalsNow, SessionAssumption, StoreAssumption
    DEF TokenInfo, SIInv, RequestsTyped
  <2>6. /\ entry[q].expiresAt <= entry[q].refreshExpiresAt + CallBound + AccessTTL
        /\ maxAge > 0 => entry[q].expiresAt <= entry[q].createdAt + maxAge + CallBound + AccessTTL
    BY <2>3, <2>4, <2>5
  <2> HIDE DEF a
  <2>7. /\ info \in TokenInfo /\ info.google = tokens[a].google
        /\ info.createdAt = tokens[a].createdAt /\ info.expiresAt = entry[q].expiresAt
        /\ info.refreshExpiresAt = tokens[a].refreshExpiresAt
    BY <2>2 DEF TokenInfo
  <2> HIDE DEF info
  <2>8. WellTimed(info)
    BY <2>2, <2>6, <2>7 DEF WellTimed
  <2>9. Evolves /\ EntriesWellTimed' /\ Roots'
    BY <2>1, <2>2, <2>7, <2>8, Rewritten
  <2>10. RequestsTyped' /\ \A x \in Request : Untouched(x) \/ RequestOK(x)'
    BY <2>1, <2>9, AnsweredTyped DEF Evolves, SIInv, RequestsTyped
  <2>11. SNext
    BY DEF SNext, RequestStep
  <2> QED BY <2>9, <2>10, <2>11, StoreStepInv
<1> QED BY <1>1, <1>2 DEF RenewalServed

\* The successor takes the place of the pair it replaces.
LEMMA GrantSucceedsInv ==
    ASSUME SIInv, NEW q \in Request, GrantSucceeds(q), maxAge' = maxAge
    PROVE  SIInv'
<1> DEFINE a2 == FreshAccess
           r2 == FreshRefresh
           old == refreshIndex[presented[q]]
           c == entry[q].client
           g == entry[q].google
<1>1. a2 \in Access \ issuedAccess /\ r2 \in Refresh
  BY FreshIsNew DEF SIInv, IInv, GrantSucceeds
<1>2. /\ pc[q] = "grantRotate" /\ Answered(q) /\ old # NoAccess /\ Stored(old)
      /\ tokens' = [tokens EXCEPT ![old] = NoToken, ![a2] = NewTokenInfo(r2, c, g)]
      /\ issuedAccess' = issuedAccess \cup {a2}
      /\ root' = [root EXCEPT ![a2] = root[old]]
      /\ UNCHANGED now
  BY DEF GrantSucceeds, RotateToken, Rotatable, Successor, Inherits
<1>3. /\ c \in Client /\ g \in GoogleExpiry /\ since[q] <= g /\ now <= since[q] + CallBound
      /\ presented[q] \in Refresh /\ entry[q] \in TokenInfo
  BY <1>2, LocalsNow DEF RequestOK, CopyOK, GoogleOK, PresentedOK, Granting, TokenInfo
<1>4. now <= g + CallBound
  BY <1>3, LocalsNow, SessionAssumption DEF TokenInfo
<1>5. old \in Access /\ old \in issuedAccess
  BY <1>2, <1>3 DEF SIInv, IInv, TypeOK, StoredIsIssued
<1> HIDE DEF a2, r2, old, c, g
<1>6. /\ tokens'[a2] = NewTokenInfo(r2, c, g)
      /\ \A b \in Access \ {a2} : tokens'[b] = IF b = old THEN NoToken ELSE tokens[b]
  BY <1>1, <1>2, <1>5 DEF SIInv, IInv, TypeOK
<1>7. \A b \in Access \ {a2} : Stored(b)' => b # old /\ Stored(b) /\ tokens'[b] = tokens[b]
  BY <1>6 DEF Stored
<1>8. Evolves /\ EntriesWellTimed'
  BY <1>1, <1>2, <1>3, <1>4, <1>6, <1>7, Added
<1>9. /\ root'[a2] = root[old] /\ \A b \in Access \ {a2} : root'[b] = root[b]
      /\ root' \in [Access -> Access \cup {NoAccess}]
  BY <1>1, <1>2, <1>5 DEF SIInv, RequestsTyped
<1>10. \A b \in Access \ {a2} : Stored(b)' => root[b] # root[old] /\ Stored(b)
  BY <1>2, <1>5, <1>7 DEF SIInv, Roots, OnePairPerSession
<1>11. OnePairPerSession'
  BY <1>9, <1>10 DEF OnePairPerSession, SIInv, Roots
<1>12. Roots'
  BY <1>1, <1>2, <1>5, <1>9, <1>11 DEF Roots, SIInv, IInv, TypeOK
<1>13. RequestsTyped' /\ \A x \in Request : Untouched(x) \/ RequestOK(x)'
  BY <1>2, <1>9, AnsweredTyped
<1>14. SNext
  BY DEF SNext, RequestStep
<1> QED BY <1>8, <1>12, <1>13, <1>14, StoreStepInv

\* The purge removes entries and changes none.
LEMMA PurgeInv == ASSUME SIInv, Purge, maxAge' = maxAge PROVE SIInv'
<1>1. /\ UNCHANGED <<now, issuedAccess, pc, bearer, presented, entry, since, root>>
      /\ tokens' = Without(Purgeable)
  BY DEF Purge, PurgeExpired, requestVars
<1>2. \A a \in Access : Stored(a)' => Stored(a) /\ tokens'[a] = tokens[a]
  BY <1>1 DEF Without, Stored
<1>3. Evolves
  BY <1>1, <1>2 DEF Evolves, SIInv, IInv, TypeOK
<1>4. EntriesWellTimed'
  BY <1>1, <1>2, EntriesKept DEF SIInv
<1>5. Roots'
  BY <1>1, <1>2, RootsKept DEF SIInv
<1>6. RequestsTyped' /\ \A x \in Request : Untouched(x)
  BY <1>1 DEF RequestsTyped, SIInv, Untouched
<1>7. SNext
  BY DEF SNext
<1> QED BY <1>3, <1>4, <1>5, <1>6, <1>7, StoreStepInv

\* The clock moves only while every copy in flight is younger than CallBound.
LEMMA TimePassesInv == ASSUME SIInv, TimePasses, maxAge' = maxAge PROVE SIInv'
<1>1. /\ now < MaxTime /\ now' = now + 1 /\ tokens' = tokens /\ issuedAccess' = issuedAccess
      /\ UNCHANGED <<pc, bearer, presented, entry, since, root>>
  BY DEF TimePasses, Tick, storeVars, requestVars
<1>2. now \in Nat /\ now' \in 0..MaxTime /\ now <= now'
  BY <1>1, StoreAssumption DEF SIInv, RequestsTyped
<1>3. SNext
  BY DEF SNext
<1>4. IInv'
  BY <1>3, StepsImplement, NextInv DEF SIInv
<1>5. RequestsTyped'
  BY <1>1, <1>2 DEF RequestsTyped, SIInv
<1>6. EntriesWellTimed'
  <2> SUFFICES ASSUME NEW a \in Access, Stored(a) PROVE WellTimed(tokens[a])'
    BY <1>1 DEF EntriesWellTimed, Stored
  <2>1. WellTimed(tokens[a]) /\ tokens[a].createdAt \in Nat
    BY StoredNow DEF SIInv, EntriesWellTimed
  <2> QED BY <1>1, <1>2, <2>1 DEF WellTimed
<1>7. Roots'
  BY <1>1, RootsKept DEF SIInv, Stored
<1>8. ASSUME NEW q \in Request PROVE RequestOK(q)'
  <2>1. RequestOK(q) /\ since[q] \in Nat
    BY LocalsNow
  <2>2. pc[q] \in Renewing \cup InTool \cup Granting => now < since[q] + CallBound
    BY DEF TimePasses, Renewing, InTool, Granting
  <2>3. CopyOK(q)'
    BY <1>1, <1>2, <2>1, <2>2, SessionAssumption DEF RequestOK, CopyOK
  <2>4. BearerOK(q)' /\ PresentedOK(q)' /\ GoogleOK(q)'
    BY <1>1, <2>1 DEF RequestOK, BearerOK, PresentedOK, GoogleOK, Stored
  <2>5. since[q]..now \subseteq since[q]..now'
    BY <1>1, <1>2, <2>1
  <2>6. RenewalOK(q)'
    BY <1>1, <2>1, <2>5 DEF RequestOK, RenewalOK
  <2> QED BY <2>3, <2>4, <2>6 DEF RequestOK
<1> QED BY <1>4, <1>5, <1>6, <1>7, <1>8 DEF SIInv

\* Steps that end a request without a trace in the store.
LEMMA RefusedInv ==
    ASSUME SIInv, NEW q \in Request, maxAge' = maxAge,
           \/ RenewalRefused(q) \/ GoogleRefuses(q) \/ RenewalTooLate(q) \/ GrantRefused(q)
    PROVE  SIInv'
BY AnsweredInv DEF RenewalRefused, GoogleRefuses, RenewalTooLate, GrantRefused

\* The step of the induction.
LEMMA SessionNext == SIInv /\ [SNext]_allVars => SIInv'
<1> SUFFICES ASSUME SIInv, [SNext]_allVars PROVE SIInv'
  OBVIOUS
<1>1. CASE UNCHANGED allVars
  <2>1. UNCHANGED <<tokens, refreshIndex, now, issuedAccess, issuedRefresh, spent, revoked,
                    maxAge, pc, bearer, presented, entry, since, root>>
    BY <1>1 DEF allVars, vars, storeVars, requestVars
  <2>2. IInv'
    BY <1>1, NextInv DEF SIInv, allVars
  <2>3. RequestsTyped' /\ EntriesWellTimed' /\ Roots'
    BY <2>1, EntriesKept, RootsKept DEF SIInv, RequestsTyped, Stored
  <2>4. Evolves /\ \A q \in Request : Untouched(q)
    BY <2>1 DEF Evolves, Untouched, Stored
  <2> QED BY <2>2, <2>3, <2>4, OthersKept DEF SIInv
<1>2. ASSUME NEW q \in Request, RequestStep(q), maxAge' = maxAge PROVE SIInv'
  BY <1>2, BearerExpiredInv, RenewalStartsInv, GoogleRenewsInv, RenewalUpdatesInv,
     RenewalServedInv, ToolStartsInv, GoogleAnswersInv, ToolUpdatesInv, GrantStartsInv,
     GrantSucceedsInv, RefusedInv
  DEF RequestStep
<1>3. CASE SNext
  BY <1>2, <1>3, StartSessionInv, PurgeInv, TimePassesInv DEF SNext
<1> QED BY <1>1, <1>3

-----------------------------------------------------------------------------
\* The strengthened invariant holds in every reachable state of the handlers.
THEOREM SessionInvariance == SSpec => []SIInv
BY SessionInit, SessionNext, PTL DEF SSpec

\* The handlers stay within the contract of the store: what they do, however
\* their store calls interleave, is a behaviour of MemoryTokenStore!Spec.
THEOREM HandlersImplementStore == SSpec => Spec
<1>1. SInit => Init
  BY DEF SInit
<1> QED BY <1>1, SessionInvariance, StepsImplement, PTL DEF SSpec, Spec

\* Under the handlers too, a refresh token given up is never accepted again.
THEOREM SessionsSpendOnce == SSpec => []SpentIsDead
BY HandlersImplementStore, RefreshTokenSingleUse, PTL

\* Under the handlers a refresh token leads to the entry that carries it, however
\* renewals, grants and tool calls race.
THEOREM SessionsIndexAgrees == SSpec => []IndexConsistent
BY HandlersImplementStore, IndexAgreement, PTL

\* No step of a handler makes a dead refresh token acceptable: neither a renewal
\* that writes late nor a tool call that stores a Google token under an old bearer.
THEOREM SessionsStayDead == SSpec => DeadStaysDead
BY HandlersImplementStore, NoResurrection, PTL

\* No handler closes the open window of another session: it ends by its own
\* rotation, its own deletion or the clock.
THEOREM SessionsKeepWindows == SSpec => OnlyRotationOrDeletionEnds
BY HandlersImplementStore, OpenWindowKept, PTL

\* Type correctness of the handlers.
THEOREM SessionTypeCorrect == SSpec => []SessionTypeOK
<1>1. SIInv => SessionTypeOK
  BY DEF SIInv, IInv, RequestsTyped, SessionTypeOK
<1> QED BY <1>1, SessionInvariance, PTL

\* At most one pair of credentials of each session is in the store.
THEOREM RotationReplaces == SSpec => []OnePairPerSession
<1>1. SIInv => OnePairPerSession
  BY DEF SIInv, Roots
<1> QED BY <1>1, SessionInvariance, PTL

\* No session is put on a Google token older than the request that put it there.
THEOREM GoogleTokenFresh == SSpec => []GoogleTokenNotStale
<1>1. SIInv => GoogleTokenNotStale
  BY DEF SIInv, EntriesWellTimed, WellTimed, GoogleTokenNotStale
<1> QED BY <1>1, SessionInvariance, PTL

\* A bearer is served while its entry says so, or once more by the renewal that
\* is about to end.
LEMMA ServedInTime ==
    ASSUME SIInv, NEW a \in Access, Stored(a), Servable(a)
    PROVE  /\ now <= tokens[a].refreshExpiresAt + CallBound + AccessTTL
           /\ maxAge > 0 => now <= tokens[a].createdAt + maxAge + CallBound + AccessTTL
<1>1. /\ {now, CallBound, AccessTTL, maxAge, tokens[a].expiresAt, tokens[a].createdAt,
           tokens[a].refreshExpiresAt} \subseteq Nat
      /\ WellTimed(tokens[a])
  BY StoredNow, SessionAssumption, StoreAssumption
  DEF SIInv, RequestsTyped, EntriesWellTimed, TokenInfo
<1>2. CASE FoundByAccess(a)
  BY <1>1, <1>2 DEF FoundByAccess, WellTimed
<1>3. ASSUME NEW q \in Request, pc[q] = "extend", bearer[q] = a
      PROVE  /\ now <= tokens[a].refreshExpiresAt + CallBound + AccessTTL
             /\ maxAge > 0 => now <= tokens[a].createdAt + maxAge + CallBound + AccessTTL
  <2>1. /\ now <= since[q] + CallBound /\ since[q] <= entry[q].refreshExpiresAt
        /\ maxAge > 0 => since[q] <= entry[q].createdAt + maxAge
        /\ since[q] \in Nat
    BY <1>3, LocalsNow DEF RequestOK, CopyOK, RenewalOK, Renewing
  <2>2. /\ tokens[a].createdAt = entry[q].createdAt
        /\ tokens[a].refreshExpiresAt = entry[q].refreshExpiresAt
    BY <1>3, BearersEntry
  <2> QED BY <1>1, <2>1, <2>2
<1> QED BY <1>2, <1>3 DEF Servable

\* The age of a silently renewed bearer is bounded by the cap, one lifetime and
\* the time one renewal takes, however many renewals race.
THEOREM RenewalBounded == SSpec => []RenewalChainBounded
<1>1. SIInv => RenewalChainBounded
  BY ServedInTime DEF RenewalChainBounded
<1> QED BY <1>1, SessionInvariance, PTL

\* Without a cap too, silent renewal ends with the refresh window.
THEOREM RenewalWithinWindow == SSpec => []WindowBounded
<1>1. SIInv => WindowBounded
  BY ServedInTime DEF WindowBounded
<1> QED BY <1>1, SessionInvariance, PTL

=============================================================================
