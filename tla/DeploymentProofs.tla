-------------------------- MODULE DeploymentProofs --------------------------
(***************************************************************************)
(* Proofs about the modes of the server, for any number of sessions, keys  *)
(* and requests and any sequence of starts, stops and deaths.              *)
(***************************************************************************)
EXTENDS Deployment, TLAPS

USE DeploymentAssumption

\* The file has the sessions begun with it, as long as they last, those of a
\* process with a file among them; a process without OAuth has none.
FileAgrees ==
    /\ onFile = begunOnFile \ over
    /\ Serving /\ ~running.oauth => stored = {}
    /\ Serving /\ running.oauth /\ running.path => begunHere \subseteq begunOnFile

\* A request was let in by the process that serves it.
LetIn(q) ==
    /\ under[q].stage # "idle" => Serving
    /\ under[q].ctx.source => running.key # NoKey /\ under[q].bearer = running.key
    /\ under[q].ctx.info # NoKey =>
          running.oauth /\ under[q].ctx.provider /\ under[q].ctx.info = under[q].bearer
    /\ under[q].stage = "renewing" => running.oauth
    /\ under[q].stage \in {"idle", "renewing"} => under[q].ctx = Bare
    /\ under[q].stage = "renewing" => under[q].bearer \in Session
    /\ under[q].stage = "asServiceAccount" => under[q].ctx.source
    /\ under[q].stage = "asUser" => under[q].ctx.info # NoKey

DeployInv ==
    /\ DeployTypeOK
    /\ SessionsKept
    /\ FileAgrees
    /\ \A q \in Caller : LetIn(q)

-----------------------------------------------------------------------------
LEMMA InitHolds == DeployInit => DeployInv
<1> SUFFICES ASSUME DeployInit PROVE DeployInv
  OBVIOUS
<1>1. NotUnder \in [bearer : Bearer, ctx : Context,
          stage : {"idle", "renewing", "admitted", "asServiceAccount", "asUser"}]
  BY DEF NotUnder, Bare, Bearer, Context
<1>2. DeployTypeOK
  BY <1>1 DEF DeployInit, DeployTypeOK
<1>3. SessionsKept /\ FileAgrees
  BY DEF DeployInit, SessionsKept, FileAgrees, Serving
<1>4. \A q \in Caller : LetIn(q)
  BY DEF DeployInit, LetIn, NotUnder, Bare
<1> QED BY <1>2, <1>3, <1>4 DEF DeployInv

\* All requests are gone.
LEMMA NoneUnder ==
    ASSUME under' = [q \in Caller |-> NotUnder]
    PROVE  /\ \A q \in Caller : LetIn(q)'
           /\ under' \in [Caller -> [bearer : Bearer, ctx : Context,
                stage : {"idle", "renewing", "admitted", "asServiceAccount", "asUser"}]]
<1>1. NotUnder \in [bearer : Bearer, ctx : Context,
          stage : {"idle", "renewing", "admitted", "asServiceAccount", "asUser"}]
  BY DEF NotUnder, Bare, Bearer, Context
<1> QED BY <1>1 DEF LetIn, NotUnder, Bare

\* The process starts, is told to stop, stops or dies.
LEMMA ProcessStep ==
    ASSUME DeployInv,
           (\E config \in Config : Start(config)) \/ Signal \/ Stopped \/ Dies
    PROVE  DeployInv'
<1>1. ASSUME NEW config \in Config, Start(config) PROVE DeployInv'
  <2>1. stored' \subseteq onFile /\ onFile' = onFile
    BY <1>1 DEF Start, OpenedStore
  <2>2. DeployTypeOK'
    BY <1>1, <2>1 DEF DeployInv, DeployTypeOK, FileAgrees, Start
  <2>3. SessionsKept' /\ FileAgrees'
    BY <1>1 DEF DeployInv, FileAgrees, SessionsKept, Start, OpenedStore, Serving
  <2>4. \A q \in Caller : under[q].stage = "idle"
    BY <1>1 DEF DeployInv, LetIn, Start, Serving
  <2>5. ASSUME NEW q \in Caller PROVE LetIn(q)'
    <3>1. under'[q].stage = "idle" /\ under'[q].ctx = Bare
      BY <1>1, <2>4 DEF DeployInv, LetIn, Start
    <3>2. ~Bare.source /\ Bare.info = NoKey
      BY DEF Bare
    <3> QED BY <3>1, <3>2 DEF LetIn
  <2> QED BY <2>2, <2>3, <2>5 DEF DeployInv
<1>2. CASE Signal
  <2>1. DeployTypeOK' /\ SessionsKept' /\ FileAgrees'
    BY <1>2 DEF DeployInv, DeployTypeOK, SessionsKept, FileAgrees, Signal, Serving, sessionVars
  <2>2. \A q \in Caller : LetIn(q)'
    BY <1>2 DEF DeployInv, LetIn, Signal, Serving
  <2> QED BY <2>1, <2>2 DEF DeployInv
<1>3. CASE Stopped \/ Dies
  <2>1. DeployTypeOK'
    BY <1>3, NoneUnder DEF DeployInv, DeployTypeOK, Stopped, Dies
  <2>2. SessionsKept' /\ FileAgrees'
    BY <1>3 DEF DeployInv, SessionsKept, FileAgrees, Stopped, Dies, Serving
  <2>3. \A q \in Caller : LetIn(q)'
    BY <1>3, NoneUnder DEF Stopped, Dies
  <2> QED BY <2>1, <2>2, <2>3 DEF DeployInv
<1> QED BY <1>1, <1>2, <1>3

\* A session begins, ends, or its bearer expires.
LEMMA SessionStep ==
    ASSUME DeployInv, NEW s \in Session, Issues(s) \/ Ends(s) \/ Expires(s)
    PROVE  DeployInv'
<1>1. UNCHANGED <<process, running, under>>
  BY DEF Issues, Ends, Expires
<1>2. \A q \in Caller : LetIn(q)'
  BY <1>1 DEF DeployInv, LetIn, Serving
<1>3. CASE Issues(s)
  <2>1. s \notin over
    BY <1>3 DEF DeployInv, DeployTypeOK, Issues
  <2>2. SessionsKept'
    BY <1>3, <2>1 DEF DeployInv, SessionsKept, Issues, Serving
  <2>3. FileAgrees'
    BY <1>3, <2>1 DEF DeployInv, FileAgrees, SessionsKept, Issues, Saved, Serving
  <2>4. DeployTypeOK'
    BY <1>1, <1>3, <2>1, <2>3 DEF DeployInv, DeployTypeOK, FileAgrees, Issues
  <2> QED BY <1>2, <2>2, <2>3, <2>4 DEF DeployInv
<1>4. CASE Ends(s)
  <2>1. SessionsKept' /\ FileAgrees'
    BY <1>4 DEF DeployInv, FileAgrees, SessionsKept, Ends, Serving
  <2>2. DeployTypeOK'
    BY <1>4 DEF DeployInv, DeployTypeOK, Ends
  <2> QED BY <1>2, <2>1, <2>2 DEF DeployInv
<1>5. CASE Expires(s)
  <2>1. SessionsKept' /\ FileAgrees'
    BY <1>5 DEF DeployInv, FileAgrees, SessionsKept, Expires, Serving
  <2>2. DeployTypeOK'
    BY <1>5 DEF DeployInv, DeployTypeOK, Expires
  <2> QED BY <1>2, <2>1, <2>2 DEF DeployInv
<1> QED BY <1>3, <1>4, <1>5

\* The fate of one request.
LEMMA RequestChanged ==
    ASSUME DeployInv, NEW q \in Caller, NEW b \in Bearer, NEW ctx \in Context,
           NEW stage \in {"idle", "renewing", "admitted", "asServiceAccount", "asUser"},
           UNCHANGED <<process, running, stored, onFile, begun, over, begunHere, begunOnFile>>,
           expired' \subseteq expired,
           under' = [under EXCEPT ![q] = [bearer |-> b, stage |-> stage, ctx |-> ctx]],
           LetIn(q)'
    PROVE  DeployInv'
<1>1. DeployTypeOK'
  BY DEF DeployInv, DeployTypeOK
<1>2. SessionsKept' /\ FileAgrees'
  BY DEF DeployInv, SessionsKept, FileAgrees, Serving
<1>3. \A r \in Caller \ {q} : under'[r] = under[r]
  BY DEF DeployInv, DeployTypeOK
<1>4. \A r \in Caller \ {q} : LetIn(r)'
  BY <1>3 DEF DeployInv, LetIn, Serving
<1> QED BY <1>1, <1>2, <1>4 DEF DeployInv

\* A context made for a bearer that was let in says so.
LEMMA ContextRight ==
    ASSUME running \in Config, NEW b \in Bearer,
           (WithKey /\ b = running.key) \/ (running.oauth /\ b \in Session)
    PROVE  /\ ContextOf(b) \in Context
           /\ ContextOf(b).source => running.key # NoKey /\ b = running.key
           /\ ContextOf(b).info # NoKey =>
                 running.oauth /\ ContextOf(b).provider /\ ContextOf(b).info = b
BY DEF ContextOf, Context, Bare, Config, WithKey

LEMMA BareRight == Bare \in Context /\ ~Bare.source /\ Bare.info = NoKey
BY DEF Bare, Context

LEMMA ArrivesStep ==
    ASSUME DeployInv, NEW q \in Caller, NEW b \in Bearer, Arrives(q, b)
    PROVE  DeployInv'
<1>0. /\ running \in Config /\ q \in DOMAIN under /\ stored \subseteq Session /\ Serving
      /\ Serving' /\ running' = running
      /\ UNCHANGED <<process, running, stored, onFile, expired, begun, over, begunHere,
                     begunOnFile>>
  BY DEF DeployInv, DeployTypeOK, Arrives, Serving, sessionVars
<1>1. b \in stored => running.oauth
  BY <1>0 DEF DeployInv, FileAgrees
<1>2. ASSUME NEW stage \in {"renewing", "admitted"}, NEW ctx \in Context,
             To(q, b, stage, ctx), LetIn(q)'
      PROVE  DeployInv'
  BY <1>0, <1>2, RequestChanged DEF To
<1>3. CASE ~running.oauth /\ ~WithKey
  <2>1. To(q, b, "admitted", Bare)
    BY <1>3 DEF Arrives
  <2>2. LetIn(q)'
    BY <1>0, <2>1, BareRight DEF LetIn, To
  <2> QED BY <1>2, <2>1, <2>2, BareRight
<1>4. CASE running.oauth \/ WithKey
  <2>1. CASE b \in stored /\ b \in expired
    <3>1. To(q, b, "renewing", Bare)
      BY <1>4, <2>1 DEF Arrives
    <3>2. LetIn(q)'
      BY <1>0, <1>1, <2>1, <3>1, BareRight DEF LetIn, To
    <3> QED BY <1>2, <3>1, <3>2, BareRight
  <2>2. CASE ~(b \in stored /\ b \in expired)
    <3>1. To(q, b, "admitted", ContextOf(b))
      BY <1>4, <2>2 DEF Arrives
    <3>2. (WithKey /\ b = running.key) \/ (running.oauth /\ b \in Session)
      BY <1>0, <1>1, <1>4 DEF Arrives
    <3>3. under'[q] = [bearer |-> b, stage |-> "admitted", ctx |-> ContextOf(b)]
      BY <1>0, <3>1 DEF To
    <3>4. LetIn(q)'
      BY <1>0, <3>2, <3>3, ContextRight DEF LetIn
    <3> QED BY <1>0, <1>2, <3>1, <3>2, <3>4, ContextRight
  <2> QED BY <2>1, <2>2
<1> QED BY <1>3, <1>4

LEMMA RequestStep ==
    ASSUME DeployInv, NEW q \in Caller,
           Renews(q) \/ RenewalFails(q) \/ GetsClient(q) \/ Leaves(q)
    PROVE  DeployInv'
<1>0. /\ running \in Config /\ q \in DOMAIN under /\ LetIn(q)
      /\ under[q].bearer \in Bearer /\ under[q].ctx \in Context
      /\ under[q] = [bearer |-> under[q].bearer, stage |-> under[q].stage, ctx |-> under[q].ctx]
      /\ UNCHANGED <<process, running, stored, onFile, begun, over, begunHere, begunOnFile>>
      /\ expired' \subseteq expired
      /\ Junk \in Bearer
  BY DEF DeployInv, DeployTypeOK, Renews, RenewalFails, GetsClient, Leaves, sessionVars, Bearer
<1>1. CASE Renews(q)
  <2> DEFINE b == under[q].bearer
  <2>1. To(q, b, "admitted", ContextOf(b))
    BY <1>1 DEF Renews
  <2>2. running.oauth /\ b \in Session /\ Serving
    BY <1>0, <1>1 DEF LetIn, Renews
  <2>3. under'[q] = [bearer |-> b, stage |-> "admitted", ctx |-> ContextOf(b)]
    BY <1>0, <2>1 DEF To
  <2>4. LetIn(q)'
    BY <1>0, <2>2, <2>3, ContextRight DEF LetIn, Serving
  <2>5. ContextOf(b) \in Context
    BY <1>0, <2>2, ContextRight
  <2> QED BY <1>0, <2>1, <2>4, <2>5, RequestChanged DEF To
<1>2. CASE RenewalFails(q) \/ Leaves(q)
  <2>1. To(q, Junk, "idle", Bare)
    BY <1>2 DEF RenewalFails, Leaves
  <2>2. LetIn(q)'
    BY <1>0, <2>1, BareRight DEF LetIn, To
  <2> QED BY <1>0, <2>1, <2>2, BareRight, RequestChanged DEF To
<1>3. CASE GetsClient(q)
  <2> DEFINE stage == IF under[q].ctx.source THEN "asServiceAccount" ELSE "asUser"
  <2>1. under' = [under EXCEPT ![q] =
                    [bearer |-> under[q].bearer, stage |-> stage, ctx |-> under[q].ctx]]
    <3>1. under' = [under EXCEPT ![q] = [under[q] EXCEPT !.stage = stage]]
      BY <1>3 DEF GetsClient
    <3>2. [under[q] EXCEPT !.stage = stage]
             = [bearer |-> under[q].bearer, stage |-> stage, ctx |-> under[q].ctx]
      BY DEF DeployInv, DeployTypeOK
    <3> QED BY <3>1, <3>2
  <2>2. LetIn(q)'
    BY <1>0, <1>3, <2>1 DEF LetIn, GetsClient, Serving
  <2>3. stage \in {"idle", "renewing", "admitted", "asServiceAccount", "asUser"}
    OBVIOUS
  <2> HIDE DEF stage
  <2> QED BY <1>0, <2>1, <2>2, <2>3, RequestChanged
<1> QED BY <1>1, <1>2, <1>3

LEMMA DeployStep == ASSUME DeployInv, [DeployNext]_deployVars PROVE DeployInv'
<1>1. CASE UNCHANGED deployVars
  BY <1>1 DEF deployVars, sessionVars, DeployInv, DeployTypeOK, SessionsKept, FileAgrees,
              LetIn, Serving
<1>2. CASE DeployNext
  BY <1>2, ProcessStep, SessionStep, ArrivesStep, RequestStep DEF DeployNext
<1> QED BY <1>1, <1>2

LEMMA DeployInvariant == DeploySpec => []DeployInv
BY InitHolds, DeployStep, PTL DEF DeploySpec

\* Every variable of the deployment keeps to its declaration.
THEOREM DeployTypeCorrect == DeploySpec => []DeployTypeOK
<1>1. DeployInv => DeployTypeOK
  BY DEF DeployInv
<1> QED BY <1>1, DeployInvariant, PTL

\* In any sequence of modes, a call acts for whoever holds its bearer.
THEOREM ActsAsItself == DeploySpec => []ActsForItsBearer
<1>1. DeployInv => ActsForItsBearer
  BY DEF DeployInv, LetIn, ActsForItsBearer
<1> QED BY <1>1, DeployInvariant, PTL

\* In any sequence of modes, no request uses a provider that is not there.
THEOREM ProviderThere == DeploySpec => []NoNilProvider
<1>1. DeployInv => NoNilProvider
  BY DEF DeployInv, LetIn, NoNilProvider
<1> QED BY <1>1, DeployInvariant, PTL

\* Other modes, however often they alternate, cost no session that has a file.
THEOREM SessionsSurvive == DeploySpec => []SessionsKept
<1>1. DeployInv => SessionsKept
  BY DEF DeployInv
<1> QED BY <1>1, DeployInvariant, PTL

=============================================================================
