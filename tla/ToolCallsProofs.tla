-------------------------- MODULE ToolCallsProofs --------------------------
(***************************************************************************)
(* Proofs about a call of a tool, for any number of clients and items, any *)
(* number of retries and any table of tools that ToolAssumption allows:    *)
(* types; a write is applied at most once; answers are true; a version is  *)
(* made of a workspace that was fit; lists fetched to the end are whole;   *)
(* a call only goes forward, through a bounded number of attempts.         *)
(***************************************************************************)
EXTENDS ToolCalls, TLAPS

USE ToolAssumption

\* What ToolAssumption says of the plan of every call.
PlanOK(plan) ==
    /\ plan \in Plan
    /\ \A n \in 1..Len(plan) - 1 : plan[n] \in Reading \ {"page"}
    /\ \A n \in 1..Len(plan) : plan[n] = "version" => n > 1 /\ plan[n - 1] = "status"

\* A call that waits has an attempt left.
WaitsToRetry == \A q \in Client : call[q].phase = "waiting" => call[q].attempt < MaxRetries

TypeInv == ToolTypeOK /\ WaitsToRetry

\* The rest of the invariant, for one call c and its history d.
Asked(c) == c.plan[c.at]
Under(c) == c.phase \in {"ready", "refreshing", "sent", "waiting"}
Open(c) == Under(c) \/ c.phase = "abandoned"

\* The history of a call in progress agrees with what is there, p and w.
WitnessOf(c, d, p, w) ==
    Under(c) => /\ d.always \subseteq p
                /\ p \subseteq d.ever
                /\ Fit(w) => d.fit

\* Until a call has its answer its write has not been applied; and the request
\* for a version is only reached past the look at the status.
ProgressOf(c, d) ==
    /\ PlanOK(c.plan)
    /\ Open(c) => /\ c.at \in 1..Len(c.plan)
                  /\ d.applied = 0
                  /\ Asked(c) = "version" => d.fit
    /\ Under(c) => c.answer = "none"
    /\ c.phase = "abandoned" => c.answer = "error"
    /\ c.phase = "idle" => c.answer = "none" /\ d.applied = 0
    /\ d.applied <= 1
    /\ c.answer = "refused" => d.applied = 0
    /\ c.answer = "ok" /\ c.plan # <<>> /\ Asked(c) \in Writing => d.applied = 1
    /\ d.applied > 0 /\ Asked(c) = "version" => d.fit

\* What is listed so far lies at or before the token, and everything there that
\* was present all the time is listed.
ListOf(c, d) ==
    /\ \A i \in Item : c.listed[i] <= 1 /\ (c.listed[i] = 1 => i \in d.ever)
    /\ c.phase # "done" /\ (c.phase = "idle" \/ Asked(c) # "page") =>
          c.listed = NoneListed /\ c.token = 0
    /\ Under(c) /\ Asked(c) = "page" =>
          \A i \in Item :
              /\ c.listed[i] = 1 => i <= c.token
              /\ i \in d.always /\ i <= c.token => c.listed[i] = 1
    /\ c.answer = "ok" /\ c.plan # <<>> /\ Asked(c) = "page" =>
          \A i \in d.always : c.listed[i] = 1

WitnessInv == \A q \in Client : WitnessOf(call[q], during[q], present, workspace)
ProgressInv == \A q \in Client : ProgressOf(call[q], during[q])
ListInv == \A q \in Client : ListOf(call[q], during[q])

ToolInv == TypeInv /\ WitnessInv /\ ProgressInv /\ ListInv

-----------------------------------------------------------------------------
LEMMA NoPlan == PlanOK(<<>>)
BY DEF PlanOK, Plan

LEMMA TablePlan == ASSUME NEW t \in Tool PROVE PlanOK(Requests[t])
BY DEF PlanOK

LEMMA IdleType == Idle \in CallRecord
BY DEF Idle, NoneListed, CallRecord, Plan

LEMMA IdleProgress == ProgressOf(Idle, NothingYet)
<1>1. Idle.plan = <<>> /\ Idle.phase = "idle" /\ Idle.answer = "none"
  BY DEF Idle
<1>2. NothingYet.applied = 0
  BY DEF NothingYet
<1> QED BY <1>1, <1>2, NoPlan DEF ProgressOf, Open, Under

LEMMA IdleList == ASSUME NEW d PROVE ListOf(Idle, d)
<1>1. /\ Idle.phase = "idle" /\ Idle.answer = "none"
      /\ Idle.listed = NoneListed /\ Idle.token = 0
  BY DEF Idle
<1>2. \A i \in Item : NoneListed[i] = 0
  BY DEF NoneListed
<1> QED BY <1>1, <1>2 DEF ListOf, Under

LEMMA InitHolds == ToolInit => ToolInv
<1> SUFFICES ASSUME ToolInit PROVE ToolInv
  OBVIOUS
<1>0. \A q \in Client : call[q] = Idle /\ during[q] = NothingYet
  BY DEF ToolInit
<1>1. TypeInv
  <2>1. NothingYet \in History
    BY DEF NothingYet, History
  <2>2. Idle.phase = "idle"
    BY DEF Idle
  <2> QED BY <2>1, <2>2, IdleType DEF ToolInit, TypeInv, ToolTypeOK, WaitsToRetry
<1>2. WitnessInv
  BY <1>0 DEF WitnessInv, WitnessOf, Under, Idle
<1>3. ProgressInv
  BY <1>0, IdleProgress DEF ProgressInv
<1>4. ListInv
  BY <1>0, IdleList DEF ListInv
<1> QED BY <1>1, <1>2, <1>3, <1>4 DEF ToolInv

-----------------------------------------------------------------------------
(* Types.                                                                  *)

LEMMA AddingType ==
    ASSUME NEW listed \in [Item -> Nat], NEW page PROVE Adding(listed, page) \in [Item -> Nat]
BY DEF Adding

LEMMA ReplacedType ==
    ASSUME TypeInv, NEW q \in Client, NEW c \in CallRecord, call' = [call EXCEPT ![q] = c],
           c.phase = "waiting" => c.attempt < MaxRetries
    PROVE  call' \in [Client -> CallRecord] /\ WaitsToRetry'
BY DEF TypeInv, ToolTypeOK, WaitsToRetry

LEMMA ProceedsType ==
    ASSUME TypeInv, NEW q \in Client, NEW listed \in [Item -> Nat], Proceeds(q, listed)
    PROVE  call' \in [Client -> CallRecord] /\ WaitsToRetry'
<1>1. NoneListed \in [Item -> Nat]
  BY DEF NoneListed
<1>2. call[q] \in CallRecord
  BY DEF TypeInv, ToolTypeOK
<1>3. /\ call[q].at + 1 \in Nat \ {0}
      /\ 0 \in 0..MaxRetries
  BY <1>2 DEF CallRecord
<1>4. CASE IsLast(q)
  <2>1. call' = [call EXCEPT ![q] = [call[q] EXCEPT !.phase = "done", !.answer = "ok",
                                        !.attempt = 0, !.listed = listed]]
    BY <1>4, <1>2 DEF TypeInv, ToolTypeOK, Proceeds, CallRecord
  <2>2. [call[q] EXCEPT !.phase = "done", !.answer = "ok", !.attempt = 0, !.listed = listed]
           \in CallRecord
    BY <1>2, <1>3 DEF CallRecord
  <2> QED BY <2>1, <2>2 DEF TypeInv, ToolTypeOK, WaitsToRetry
<1>5. CASE ~IsLast(q)
  <2>1. call' = [call EXCEPT ![q] = [call[q] EXCEPT !.phase = "ready", !.answer = "none",
                            !.at = call[q].at + 1, !.attempt = 0, !.listed = NoneListed]]
    BY <1>5, <1>2 DEF TypeInv, ToolTypeOK, Proceeds, CallRecord
  <2>2. [call[q] EXCEPT !.phase = "ready", !.answer = "none", !.at = call[q].at + 1,
                        !.attempt = 0, !.listed = NoneListed] \in CallRecord
    BY <1>1, <1>2, <1>3 DEF CallRecord
  <2> QED BY <2>1, <2>2 DEF TypeInv, ToolTypeOK, WaitsToRetry
<1> QED BY <1>4, <1>5

LEMMA GivesUpType ==
    ASSUME TypeInv, NEW q \in Client, GivesUp(q)
    PROVE  call' \in [Client -> CallRecord] /\ WaitsToRetry'
<1>1. NoneListed \in [Item -> Nat]
  BY DEF NoneListed
<1>2. call[q] \in CallRecord
  BY DEF TypeInv, ToolTypeOK
<1>3. call'[q] \in CallRecord /\ call'[q].phase # "waiting"
  BY <1>1, <1>2 DEF TypeInv, ToolTypeOK, GivesUp, CallRecord
<1> QED BY <1>3 DEF TypeInv, ToolTypeOK, WaitsToRetry, GivesUp

LEMMA AppliesType ==
    ASSUME TypeInv, NEW q \in Client, Applies(q)
    PROVE  /\ workspace' \in [changed : BOOLEAN, conflicts : BOOLEAN]
           /\ during' \in [Client -> History]
           /\ present' = present
<1>1. workspace' \in [changed : BOOLEAN, conflicts : BOOLEAN]
  BY DEF TypeInv, ToolTypeOK, Applies
<1>2. ASSUME NEW r \in Client, NEW fit \in BOOLEAN
      PROVE [during[r] EXCEPT !.fit = fit,
                              !.applied = IF r = q THEN @ + 1 ELSE @] \in History
  <2>1. during[r] \in History
    BY DEF TypeInv, ToolTypeOK
  <2>2. (IF r = q THEN during[r].applied + 1 ELSE during[r].applied) \in Nat
    BY <2>1 DEF History
  <2> QED BY <2>1, <2>2 DEF History
<1>3. ASSUME NEW r \in Client
      PROVE  (during[r].fit \/ (InProgress(r) /\ Fit(workspace'))) \in BOOLEAN
  OBVIOUS
<1> QED BY <1>1, <1>2, <1>3 DEF Applies

LEMMA CallsType ==
    ASSUME TypeInv, NEW q \in Client, NEW t \in Tool, NEW given, Calls(q, t, given)
    PROVE  TypeInv'
<1> DEFINE refused == ~Checked(t, given)
           phase == IF ~refused /\ Requests[t] # <<>> THEN "ready" ELSE "done"
           answer == IF refused THEN "refused" ELSE IF Requests[t] = <<>> THEN "ok" ELSE "none"
           c == [Idle EXCEPT !.plan = Requests[t], !.phase = phase, !.answer = answer]
           d == [always |-> present, ever |-> present, fit |-> Fit(workspace), applied |-> 0]
<1>1. c \in CallRecord /\ c.phase # "waiting"
  <2>1. phase \in {"ready", "done"} /\ answer \in {"none", "ok", "refused"}
    OBVIOUS
  <2>2. Requests[t] \in Plan
    OBVIOUS
  <2> HIDE DEF phase, answer
  <2> QED BY <2>1, <2>2, IdleType DEF CallRecord
<1>2. call' = [call EXCEPT ![q] = c]
  BY DEF Calls
<1>3. d \in History
  BY DEF TypeInv, ToolTypeOK, History, Fit
<1>4. during' = [during EXCEPT ![q] = d]
  BY DEF Calls
<1>5. UNCHANGED <<present, workspace>>
  BY DEF Calls, googleVars
<1> HIDE DEF c, d
<1> QED BY <1>1, <1>2, <1>3, <1>4, <1>5 DEF TypeInv, ToolTypeOK, WaitsToRetry

\* What the handler does on its own.
LEMMA ServesType ==
    ASSUME TypeInv, NEW q \in Client, Cancels(q) \/ Serves(q) PROVE TypeInv'
<1>0. UNCHANGED <<present, workspace, during>>
  BY DEF Cancels, Serves, Send, Refreshes, Stop, Wake, googleVars
<1>a. call[q] \in CallRecord /\ NoneListed \in [Item -> Nat]
  BY DEF TypeInv, ToolTypeOK, NoneListed
<1> SUFFICES call' \in [Client -> CallRecord] /\ WaitsToRetry'
  BY <1>0 DEF TypeInv, ToolTypeOK
<1>1. CASE Cancels(q)
  <2>1. [call[q] EXCEPT !.cancelled = TRUE] \in CallRecord
    BY <1>a DEF CallRecord
  <2> QED BY <1>1, <1>a, <2>1 DEF Cancels, TypeInv, ToolTypeOK, WaitsToRetry, CallRecord
<1>2. CASE Send(q)
  <2>1. [call[q] EXCEPT !.phase = "sent"] \in CallRecord
    BY <1>a DEF CallRecord
  <2> QED BY <1>2, <1>a, <2>1 DEF Send, TypeInv, ToolTypeOK, WaitsToRetry, CallRecord
<1>3. CASE Stop(q) /\ call[q].phase = "sent"
  <2>1. [call[q] EXCEPT !.phase = "abandoned", !.answer = "error", !.listed = NoneListed]
           \in CallRecord
    BY <1>a DEF CallRecord
  <2>2. call' = [call EXCEPT ![q] = [call[q] EXCEPT !.phase = "abandoned", !.answer = "error",
                                                   !.listed = NoneListed]]
    BY <1>3 DEF Stop, TypeInv, ToolTypeOK
  <2> QED BY <1>a, <2>1, <2>2, ReplacedType DEF CallRecord
<1>4. CASE Stop(q) /\ call[q].phase # "sent"
  BY <1>4, GivesUpType DEF Stop
<1>5. CASE Wake(q)
  <2>1. call[q].attempt + 1 \in 0..MaxRetries
    BY <1>5, <1>a DEF Wake, TypeInv, WaitsToRetry, CallRecord
  <2>2. [call[q] EXCEPT !.phase = "ready", !.attempt = call[q].attempt + 1] \in CallRecord
    BY <1>a, <2>1 DEF CallRecord
  <2> QED BY <1>5, <1>a, <2>2 DEF Wake, TypeInv, ToolTypeOK, WaitsToRetry, CallRecord
<1>6. CASE Refreshes(q)
  <2>1. [call[q] EXCEPT !.phase = "refreshing"] \in CallRecord
    BY <1>a DEF CallRecord
  <2> QED BY <1>6, <1>a, <2>1 DEF Refreshes, TypeInv, ToolTypeOK, WaitsToRetry, CallRecord
<1> QED BY <1>1, <1>2, <1>3, <1>4, <1>5, <1>6 DEF Serves

LEMMA TakesType == ASSUME TypeInv, NEW q \in Client, Takes(q) PROVE TypeInv'
<1>1. NothingYet \in History /\ Idle.phase = "idle"
  BY DEF NothingYet, History, Idle
<1> QED BY <1>1, IdleType DEF Takes, TypeInv, ToolTypeOK, WaitsToRetry, googleVars

\* The token endpoint answers.
LEMMA RefreshedType == ASSUME TypeInv, NEW q \in Client, Refreshed(q) PROVE TypeInv'
<1>1. call[q] \in CallRecord
  BY DEF TypeInv, ToolTypeOK
<1>2. CASE GivesUp(q)
  BY <1>2, GivesUpType DEF Refreshed, TypeInv, ToolTypeOK, googleVars
<1>3. CASE call' = [call EXCEPT ![q].phase = "sent"]
  <2>1. [call[q] EXCEPT !.phase = "sent"] \in CallRecord
    BY <1>1 DEF CallRecord
  <2>2. call' = [call EXCEPT ![q] = [call[q] EXCEPT !.phase = "sent"]]
    BY <1>3 DEF TypeInv, ToolTypeOK
  <2>3. call' \in [Client -> CallRecord] /\ WaitsToRetry'
    BY <1>1, <2>1, <2>2, ReplacedType DEF CallRecord
  <2> QED BY <2>3 DEF Refreshed, TypeInv, ToolTypeOK, googleVars
<1> QED BY <1>2, <1>3 DEF Refreshed

\* What Google answers to a list or a look.
LEMMA ReadType ==
    ASSUME TypeInv, NEW q \in Client, NEW upto \in 0..Items,
           AnswersPage(q, upto) \/ AnswersFirst(q, upto) \/ AnswersRead(q) \/ AnswersStatus(q)
    PROVE  TypeInv'
<1>0. UNCHANGED <<present, workspace, during>>
  BY DEF AnswersPage, AnswersFirst, AnswersRead, AnswersStatus, googleVars
<1>a. call[q] \in CallRecord /\ NoneListed \in [Item -> Nat] /\ call[q].listed \in [Item -> Nat]
  BY DEF TypeInv, ToolTypeOK, NoneListed, CallRecord
<1> SUFFICES call' \in [Client -> CallRecord] /\ WaitsToRetry'
  BY <1>0 DEF TypeInv, ToolTypeOK
<1>1. CASE AnswersPage(q, upto)
  <2> DEFINE listed == Adding(call[q].listed, Page(call[q].token, upto))
  <2>1. listed \in [Item -> Nat]
    BY <1>a, AddingType
  <2>2. CASE More(upto)
    <3>1. call' = [call EXCEPT ![q] = [call[q] EXCEPT !.phase = "ready", !.attempt = 0,
                                            !.listed = listed, !.token = upto]]
      BY <1>1, <1>a, <2>2 DEF AnswersPage, TypeInv, ToolTypeOK, CallRecord
    <3> HIDE DEF listed
    <3>2. [call[q] EXCEPT !.phase = "ready", !.attempt = 0, !.listed = listed,
                          !.token = upto] \in CallRecord
      <4>1. 0 \in 0..MaxRetries
        OBVIOUS
      <4> QED BY <1>a, <2>1, <4>1 DEF CallRecord
    <3> QED BY <3>1, <3>2, <1>a, ReplacedType DEF CallRecord
  <2>3. CASE ~More(upto)
    BY <1>1, <2>1, <2>3, ProceedsType DEF AnswersPage
  <2> QED BY <2>2, <2>3
<1>2. CASE AnswersFirst(q, upto)
  <2>1. Adding(NoneListed, Page(0, upto)) \in [Item -> Nat]
    BY <1>a, AddingType
  <2> QED BY <1>2, <2>1, ProceedsType DEF AnswersFirst
<1>3. CASE AnswersRead(q)
  BY <1>3, <1>a, ProceedsType DEF AnswersRead
<1>4. CASE AnswersStatus(q)
  <2>1. CASE workspace.changed /\ ~workspace.conflicts
    BY <1>4, <1>a, <2>1, ProceedsType DEF AnswersStatus
  <2>2. CASE ~(workspace.changed /\ ~workspace.conflicts)
    <3>1. [call[q] EXCEPT !.phase = "done", !.answer = "refused"] \in CallRecord
      BY <1>a DEF CallRecord
    <3>2. call' = [call EXCEPT ![q] = [call[q] EXCEPT !.phase = "done", !.answer = "refused"]]
      BY <1>4, <2>2 DEF AnswersStatus, TypeInv, ToolTypeOK
    <3> QED BY <1>a, <3>1, <3>2, ReplacedType DEF CallRecord
  <2> QED BY <2>1, <2>2
<1> QED BY <1>1, <1>2, <1>3, <1>4

\* What Google carries out or refuses.
LEMMA WriteType ==
    ASSUME TypeInv, NEW q \in Client,
           AnswersWrite(q) \/ Limits(q) \/ Breaks(q) \/ Settles(q)
    PROVE  TypeInv'
<1>a. call[q] \in CallRecord /\ call[q].listed \in [Item -> Nat]
  BY DEF TypeInv, ToolTypeOK, CallRecord
<1>1. /\ present' \subseteq Item
      /\ workspace' \in [changed : BOOLEAN, conflicts : BOOLEAN]
      /\ during' \in [Client -> History]
  <2>1. CASE Applies(q)
    BY <2>1, AppliesType DEF TypeInv, ToolTypeOK
  <2>2. CASE UNCHANGED <<present, workspace, during>>
    BY <2>2 DEF TypeInv, ToolTypeOK
  <2> QED BY <2>1, <2>2 DEF AnswersWrite, Limits, Breaks, Settles, googleVars
<1>2. call' \in [Client -> CallRecord] /\ WaitsToRetry'
  <2>1. CASE AnswersWrite(q)
    BY <1>a, <2>1, ProceedsType DEF AnswersWrite
  <2>2. CASE GivesUp(q)
    BY <2>2, GivesUpType
  <2>3. CASE Limits(q) /\ Retries(q)
    <3>1. [call[q] EXCEPT !.phase = "waiting"] \in CallRecord
      BY <1>a DEF CallRecord
    <3>2. call' = [call EXCEPT ![q] = [call[q] EXCEPT !.phase = "waiting"]]
      BY <2>3 DEF Limits, TypeInv, ToolTypeOK
    <3> QED BY <1>a, <2>3, <3>1, <3>2, ReplacedType DEF Retries, CallRecord
  <2>4. CASE Settles(q)
    <3>1. [call[q] EXCEPT !.phase = "done"] \in CallRecord
      BY <1>a DEF CallRecord
    <3> QED BY <1>a, <2>4, <3>1 DEF Settles, TypeInv, ToolTypeOK, WaitsToRetry, CallRecord
  <2> QED BY <2>1, <2>2, <2>3, <2>4 DEF Limits, Breaks
<1> QED BY <1>1, <1>2 DEF TypeInv, ToolTypeOK

LEMMA EditType == ASSUME TypeInv, Edit PROVE TypeInv'
<1>1. /\ present' \subseteq Item
      /\ workspace' \in [changed : BOOLEAN, conflicts : BOOLEAN]
  BY DEF Edit, TypeInv, ToolTypeOK
<1>2. ASSUME NEW r \in Client, NEW fit \in BOOLEAN
      PROVE  [during[r] EXCEPT !.always = @ \cap present', !.ever = @ \cup present',
                               !.fit = fit] \in History
  <2>1. during[r] \in History
    BY DEF TypeInv, ToolTypeOK
  <2> QED BY <1>1, <2>1 DEF History
<1>3. during' \in [Client -> History]
  BY <1>2 DEF Edit, Witnessed, TypeInv, ToolTypeOK
<1> QED BY <1>1, <1>3 DEF Edit, TypeInv, ToolTypeOK, WaitsToRetry

LEMMA TypeStep == ASSUME TypeInv, [ToolNext]_toolVars PROVE TypeInv'
<1>1. CASE UNCHANGED toolVars
  BY <1>1 DEF toolVars, googleVars, TypeInv, ToolTypeOK, WaitsToRetry
<1>2. CASE ToolNext
  BY <1>2, CallsType, ServesType, TakesType, RefreshedType, ReadType, WriteType, EditType
     DEF ToolNext, Answers
<1> QED BY <1>1, <1>2

\* Every variable of every call keeps to its declaration.
THEOREM ToolTypeCorrect == ToolSpec => []ToolTypeOK
<1>1. ToolInit => TypeInv
  BY InitHolds DEF ToolInv
<1>2. TypeInv /\ [ToolNext]_toolVars => TypeInv'
  BY TypeStep
<1>3. TypeInv => ToolTypeOK
  BY DEF TypeInv
<1> QED BY <1>1, <1>2, <1>3, PTL DEF ToolSpec

-----------------------------------------------------------------------------
(* The invariant of one call.                                              *)

\* A history that grew, the writes of the call apart.
Grows(d, e) ==
    /\ e.always \subseteq d.always
    /\ d.ever \subseteq e.ever
    /\ d.fit => e.fit
    /\ e.applied = d.applied

LEMMA ProgressGrows ==
    ASSUME NEW c, NEW d, NEW e, ProgressOf(c, d), d.fit => e.fit, e.applied = d.applied
    PROVE  ProgressOf(c, e)
BY DEF ProgressOf

LEMMA ListGrows ==
    ASSUME NEW c, NEW d, NEW e, ListOf(c, d), Grows(d, e)
    PROVE  ListOf(c, e)
BY DEF ListOf, Grows

\* What a write does to the histories.
LEMMA AppliesGrows ==
    ASSUME TypeInv, NEW q \in Client, Applies(q), NEW r \in Client
    PROVE  /\ r # q => Grows(during[r], during'[r])
           /\ during'[r].always = during[r].always /\ during'[r].ever = during[r].ever
           /\ during[r].fit => during'[r].fit
           /\ during'[q].applied = during[q].applied + 1
           /\ WitnessOf(call[r], during[r], present, workspace) =>
                 WitnessOf(call[r], during'[r], present', workspace')
<1>1. during[r] \in History /\ during[q] \in History
  BY DEF TypeInv, ToolTypeOK
<1>2. /\ during'[r].always = during[r].always /\ during'[r].ever = during[r].ever
      /\ during'[r].fit = (during[r].fit \/ (InProgress(r) /\ Fit(workspace')))
      /\ during'[r].applied = IF r = q THEN during[r].applied + 1 ELSE during[r].applied
  BY <1>1 DEF Applies, History
<1>3. during'[q].applied = during[q].applied + 1
  BY <1>1 DEF Applies, History
<1>4. present' = present
  BY DEF Applies
<1> QED BY <1>2, <1>3, <1>4 DEF Grows, WitnessOf, Under, InProgress

\* A call whose phase does not come to be one in progress keeps its witness.
LEMMA WitnessKept ==
    ASSUME NEW c, NEW d, NEW p, NEW w, WitnessOf(c, d, p, w), NEW e, Under(e) => Under(c)
    PROVE  WitnessOf(e, d, p, w)
BY DEF WitnessOf

LEMMA ProceedsProgress ==
    ASSUME TypeInv, NEW q \in Client, ProgressOf(call[q], during[q]),
           call[q].phase = "sent", NEW listed, Proceeds(q, listed), NEW d,
           d.applied = IF Request(q) \in Writing THEN 1 ELSE 0,
           during[q].fit => d.fit, Request(q) = "status" => d.fit
    PROVE  ProgressOf(call'[q], d) /\ (Under(call'[q]) => Under(call[q]))
<1>1. /\ call[q] \in CallRecord /\ PlanOK(call[q].plan)
      /\ call[q].at \in 1..Len(call[q].plan) /\ Len(call[q].plan) \in Nat
  BY DEF TypeInv, ToolTypeOK, ProgressOf, Open, Under, PlanOK, Plan
<1>2. Under(call[q])
  BY DEF Under
<1>3. CASE IsLast(q)
  <2>1. /\ call'[q].plan = call[q].plan /\ call'[q].at = call[q].at
        /\ call'[q].phase = "done" /\ call'[q].answer = "ok"
    BY <1>1, <1>3 DEF Proceeds, TypeInv, ToolTypeOK, CallRecord
  <2>2. Asked(call[q]) = Request(q) /\ Asked(call'[q]) = Request(q)
    BY <2>1 DEF Asked, Request
  <2> QED BY <1>1, <1>2, <2>1, <2>2 DEF ProgressOf, Open, Under
<1>4. CASE ~IsLast(q)
  <2>1. /\ call'[q].plan = call[q].plan /\ call'[q].at = call[q].at + 1
        /\ call'[q].phase = "ready" /\ call'[q].answer = "none"
    BY <1>1, <1>4 DEF Proceeds, TypeInv, ToolTypeOK, CallRecord
  <2>2. call[q].at \in 1..Len(call[q].plan) - 1 /\ call'[q].at \in 1..Len(call[q].plan)
    BY <1>1, <1>4, <2>1 DEF IsLast
  <2>3. Request(q) \notin Writing
    BY <1>1, <2>2 DEF PlanOK, Request, Reading, Writing
  <2>4. Asked(call'[q]) = "version" => Request(q) = "status"
    BY <1>1, <2>1, <2>2 DEF PlanOK, Request, Asked
  <2> QED BY <1>1, <1>2, <2>1, <2>2, <2>3, <2>4 DEF ProgressOf, Open, Under
<1> QED BY <1>3, <1>4

\* Only the last request of a call is a list to be fetched to its end.
LEMMA PageIsLast ==
    ASSUME TypeInv, NEW q \in Client, ProgressOf(call[q], during[q]), Open(call[q]),
           Request(q) = "page"
    PROVE  IsLast(q)
BY DEF TypeInv, ToolTypeOK, ProgressOf, PlanOK, Plan, Request, IsLast

LEMMA ProceedsList ==
    ASSUME TypeInv, NEW q \in Client, ProgressOf(call[q], during[q]),
           ListOf(call[q], during[q]), call[q].phase = "sent",
           NEW listed, Proceeds(q, listed), NEW d,
           \A i \in Item : listed[i] <= 1 /\ (listed[i] = 1 => i \in d.ever),
           Request(q) = "page" => \A i \in d.always : listed[i] = 1
    PROVE  ListOf(call'[q], d)
<1>1. call[q] \in CallRecord
  BY DEF TypeInv, ToolTypeOK
<1>2. CASE IsLast(q)
  <2>1. /\ call'[q].plan = call[q].plan /\ call'[q].at = call[q].at
        /\ call'[q].phase = "done" /\ call'[q].answer = "ok" /\ call'[q].listed = listed
    BY <1>1, <1>2 DEF Proceeds, TypeInv, ToolTypeOK, CallRecord
  <2>2. Asked(call'[q]) = Request(q)
    BY <2>1 DEF Asked, Request
  <2> QED BY <2>1, <2>2 DEF ListOf, Under
<1>3. CASE ~IsLast(q)
  <2>1. /\ call'[q].phase = "ready" /\ call'[q].answer = "none"
        /\ call'[q].listed = NoneListed /\ call'[q].token = call[q].token
    BY <1>1, <1>3 DEF Proceeds, TypeInv, ToolTypeOK, CallRecord
  <2>2. call[q].token = 0
    BY <1>3, PageIsLast DEF ListOf, Asked, Request, Open, Under
  <2>3. \A i \in Item : NoneListed[i] = 0 /\ ~(i <= 0)
    BY DEF NoneListed, Item
  <2> QED BY <2>1, <2>2, <2>3 DEF ListOf
<1> QED BY <1>2, <1>3

-----------------------------------------------------------------------------
(* Every step keeps the invariant of every call.                           *)

\* A step of one call that leaves Tag Manager and the histories alone.
LEMMA OwnStep ==
    ASSUME ToolInv, NEW q \in Client, UNCHANGED <<googleVars, during>>,
           \A r \in Client \ {q} : call'[r] = call[r],
           Under(call'[q]) => Under(call[q]),
           ProgressOf(call'[q], during[q]), ListOf(call'[q], during[q])
    PROVE  (WitnessInv /\ ProgressInv /\ ListInv)'
<1>1. WitnessInv'
  BY WitnessKept DEF ToolInv, WitnessInv, googleVars
<1>2. ProgressInv' /\ ListInv'
  BY DEF ToolInv, ProgressInv, ListInv
<1> QED BY <1>1, <1>2

\* A step of one call whose write Google carries out.
LEMMA AppliedStep ==
    ASSUME ToolInv, NEW q \in Client, Applies(q),
           \A r \in Client \ {q} : call'[r] = call[r],
           Under(call'[q]) => Under(call[q]),
           ProgressOf(call'[q], during'[q]), ListOf(call'[q], during'[q])
    PROVE  (WitnessInv /\ ProgressInv /\ ListInv)'
<1>1. WitnessInv'
  BY WitnessKept, AppliesGrows DEF ToolInv, WitnessInv
<1>2. ASSUME NEW r \in Client \ {q}
      PROVE  ProgressOf(call'[r], during'[r]) /\ ListOf(call'[r], during'[r])
  BY AppliesGrows, ProgressGrows, ListGrows DEF ToolInv, ProgressInv, ListInv, Grows
<1>3. ProgressInv' /\ ListInv'
  BY <1>2 DEF ProgressInv, ListInv
<1> QED BY <1>1, <1>3

LEMMA CallsStep ==
    ASSUME ToolInv, NEW q \in Client, NEW t \in Tool, NEW given, Calls(q, t, given)
    PROVE  (WitnessInv /\ ProgressInv /\ ListInv)'
<1>0. UNCHANGED <<present, workspace>> /\ TypeInv
  BY DEF Calls, googleVars, ToolInv
<1>1. \A r \in Client \ {q} : call'[r] = call[r] /\ during'[r] = during[r]
  BY <1>0 DEF Calls, TypeInv, ToolTypeOK
<1>2. /\ call'[q].plan = Requests[t] /\ call'[q].at = 1 /\ call'[q].token = 0
      /\ call'[q].listed = NoneListed
      /\ call'[q].phase \in {"ready", "done"}
      /\ call'[q].phase = "ready" => Requests[t] # <<>> /\ call'[q].answer = "none"
      /\ call'[q].answer = "ok" => Requests[t] = <<>>
  BY <1>0 DEF Calls, Idle, TypeInv, ToolTypeOK
<1>3. /\ during'[q].always = present /\ during'[q].ever = present
      /\ during'[q].fit = Fit(workspace) /\ during'[q].applied = 0
  BY <1>0 DEF Calls, TypeInv, ToolTypeOK
<1>4. \A i \in Item : NoneListed[i] = 0 /\ ~(i <= 0)
  BY DEF NoneListed, Item
<1>5. WitnessOf(call'[q], during'[q], present', workspace')
  BY <1>0, <1>3 DEF WitnessOf
<1>6. ProgressOf(call'[q], during'[q])
  <2>1. PlanOK(Requests[t])
    BY TablePlan
  <2>2. Requests[t] # <<>> => 1 \in 1..Len(Requests[t])
    BY <2>1 DEF PlanOK, Plan
  <2>3. Requests[t] # <<>> => Asked(call'[q]) # "version"
    BY <1>2, <2>1, <2>2 DEF PlanOK, Asked
  <2> QED BY <1>2, <1>3, <2>1, <2>2, <2>3 DEF ProgressOf, Open, Under
<1>7. ListOf(call'[q], during'[q])
  BY <1>2, <1>3, <1>4 DEF ListOf, Under
<1> QED BY <1>0, <1>1, <1>5, <1>6, <1>7
        DEF ToolInv, WitnessInv, ProgressInv, ListInv

LEMMA TakesStep ==
    ASSUME ToolInv, NEW q \in Client, Takes(q)
    PROVE  (WitnessInv /\ ProgressInv /\ ListInv)'
<1>0. UNCHANGED <<present, workspace>> /\ TypeInv
  BY DEF Takes, googleVars, ToolInv
<1>1. \A r \in Client \ {q} : call'[r] = call[r] /\ during'[r] = during[r]
  BY <1>0 DEF Takes, TypeInv, ToolTypeOK
<1>2. call'[q] = Idle /\ during'[q] = NothingYet
  BY <1>0 DEF Takes, TypeInv, ToolTypeOK
<1>3. WitnessOf(Idle, NothingYet, present, workspace)
  BY DEF WitnessOf, Under, Idle
<1> QED BY <1>0, <1>1, <1>2, <1>3, IdleProgress, IdleList
        DEF ToolInv, WitnessInv, ProgressInv, ListInv

LEMMA ServesStep ==
    ASSUME ToolInv, NEW q \in Client, Cancels(q) \/ Serves(q)
    PROVE  (WitnessInv /\ ProgressInv /\ ListInv)'
<1>0. TypeInv /\ call[q] \in CallRecord /\ UNCHANGED <<googleVars, during>>
      /\ ProgressOf(call[q], during[q]) /\ ListOf(call[q], during[q])
  BY DEF ToolInv, TypeInv, ToolTypeOK, ProgressInv, ListInv,
         Cancels, Serves, Send, Refreshes, Stop, Wake, googleVars
<1>1. \A r \in Client \ {q} : call'[r] = call[r]
  BY <1>0 DEF Cancels, Serves, Send, Refreshes, Stop, Wake, GivesUp, TypeInv, ToolTypeOK
<1>2. CASE ~Stop(q)
  <2>1. /\ Under(call[q]) /\ Under(call'[q])
        /\ call'[q].plan = call[q].plan /\ call'[q].at = call[q].at
        /\ call'[q].listed = call[q].listed /\ call'[q].token = call[q].token
        /\ call'[q].answer = call[q].answer
    BY <1>0, <1>2 DEF Cancels, Serves, Send, Refreshes, Wake, TypeInv, ToolTypeOK,
                      CallRecord, Under, InProgress
  <2>2. Asked(call'[q]) = Asked(call[q])
    BY <2>1 DEF Asked
  <2>3. ProgressOf(call'[q], during[q]) /\ ListOf(call'[q], during[q])
    BY <1>0, <2>1, <2>2 DEF ProgressOf, ListOf, Open, Under
  <2> QED BY <1>0, <1>1, <2>1, <2>3, OwnStep
<1>3. CASE Stop(q)
  <2>1. /\ Under(call[q])
        /\ call'[q].phase = "done" \/ call'[q].phase = "abandoned"
        /\ call'[q].plan = call[q].plan /\ call'[q].at = call[q].at
        /\ call'[q].token = call[q].token
        /\ call'[q].listed = NoneListed /\ call'[q].answer = "error"
    BY <1>0, <1>3 DEF Stop, GivesUp, TypeInv, ToolTypeOK, CallRecord, Under, InProgress
  <2>2. Asked(call'[q]) = Asked(call[q]) /\ ~Under(call'[q])
    BY <2>1 DEF Asked, Under
  <2>3. \A i \in Item : NoneListed[i] = 0
    BY DEF NoneListed
  <2>4. ProgressOf(call'[q], during[q])
    BY <1>0, <2>1, <2>2 DEF ProgressOf, Open
  <2>5. ListOf(call'[q], during[q])
    BY <1>0, <2>1, <2>2, <2>3 DEF ListOf, Under
  <2> QED BY <1>0, <1>1, <2>2, <2>4, <2>5, OwnStep
<1> QED BY <1>2, <1>3

\* The refresh is no request of the call's, so it changes no more than its phase.
LEMMA RefreshedStep ==
    ASSUME ToolInv, NEW q \in Client, Refreshed(q)
    PROVE  (WitnessInv /\ ProgressInv /\ ListInv)'
<1>0. TypeInv /\ call[q] \in CallRecord /\ UNCHANGED <<googleVars, during>>
      /\ ProgressOf(call[q], during[q]) /\ ListOf(call[q], during[q])
  BY DEF ToolInv, TypeInv, ToolTypeOK, ProgressInv, ListInv, Refreshed
<1>1. /\ Under(call[q])
      /\ \A r \in Client \ {q} : call'[r] = call[r]
      /\ call'[q].plan = call[q].plan /\ call'[q].at = call[q].at
      /\ call'[q].token = call[q].token
  BY <1>0 DEF Refreshed, GivesUp, TypeInv, ToolTypeOK, CallRecord, Under
<1>2. Asked(call'[q]) = Asked(call[q])
  BY <1>1 DEF Asked
<1>3. CASE call' = [call EXCEPT ![q].phase = "sent"]
  <2>1. /\ call'[q].phase = "sent" /\ Under(call'[q])
        /\ call'[q].listed = call[q].listed /\ call'[q].answer = call[q].answer
    BY <1>0, <1>3 DEF TypeInv, ToolTypeOK, CallRecord, Under
  <2>2. ProgressOf(call'[q], during[q]) /\ ListOf(call'[q], during[q])
    BY <1>0, <1>1, <1>2, <2>1 DEF ProgressOf, ListOf, Open, Under
  <2> QED BY <1>0, <1>1, <2>2, OwnStep
<1>4. CASE GivesUp(q)
  <2>1. /\ call'[q].phase = "done" /\ call'[q].answer = "error"
        /\ call'[q].listed = NoneListed
    BY <1>0, <1>4 DEF GivesUp, TypeInv, ToolTypeOK, CallRecord
  <2>2. \A i \in Item : NoneListed[i] = 0
    BY DEF NoneListed
  <2>3. ~Under(call'[q]) /\ ProgressOf(call'[q], during[q])
    BY <1>0, <1>1, <1>2, <2>1 DEF ProgressOf, Open, Under
  <2>4. ListOf(call'[q], during[q])
    BY <1>2, <2>1, <2>2, <2>3 DEF ListOf
  <2> QED BY <1>0, <1>1, <2>3, <2>4, OwnStep
<1> QED BY <1>3, <1>4 DEF Refreshed

\* The page extends the list up to its own end.
LEMMA PageStep ==
    ASSUME ToolInv, NEW q \in Client, NEW upto \in 0..Items, AnswersPage(q, upto)
    PROVE  (WitnessInv /\ ProgressInv /\ ListInv)'
<1> DEFINE listed == Adding(call[q].listed, Page(call[q].token, upto))
<1>0. TypeInv /\ call[q] \in CallRecord /\ UNCHANGED <<googleVars, during>>
      /\ ProgressOf(call[q], during[q]) /\ ListOf(call[q], during[q])
      /\ WitnessOf(call[q], during[q], present, workspace)
  BY DEF ToolInv, TypeInv, ToolTypeOK, ProgressInv, ListInv, WitnessInv,
         AnswersPage, googleVars
<1>1. /\ call[q].phase = "sent" /\ Request(q) = "page"
      /\ Under(call[q]) /\ Asked(call[q]) = "page"
  BY DEF AnswersPage, Under, Asked, Request
<1>2. \A r \in Client \ {q} : call'[r] = call[r]
  BY <1>0 DEF AnswersPage, Proceeds, TypeInv, ToolTypeOK
<1>3. /\ during[q].always \subseteq present /\ present \subseteq during[q].ever
      /\ during[q].always \subseteq Item /\ present \subseteq Item
  BY <1>0, <1>1 DEF WitnessOf, TypeInv, ToolTypeOK, History
<1>4. call[q].listed \in [Item -> Nat] /\ call[q].token \in 0..Items
  BY <1>0 DEF CallRecord
<1>5. ASSUME NEW i \in Item
      PROVE  /\ listed[i] = IF i \in present /\ call[q].token < i /\ i <= upto
                            THEN call[q].listed[i] + 1 ELSE call[q].listed[i]
             /\ call[q].listed[i] \in {0, 1}
             /\ call[q].listed[i] = 1 => i <= call[q].token /\ i \in during[q].ever
             /\ i \in during[q].always /\ i <= call[q].token => call[q].listed[i] = 1
  BY <1>0, <1>1, <1>4 DEF Adding, Page, ListOf
<1>6. ASSUME NEW i \in Item
      PROVE  listed[i] <= 1 /\ (listed[i] = 1 => i \in during[q].ever)
  BY <1>3, <1>4, <1>5 DEF Item
<1>7. CASE More(upto)
  <2>1. /\ Under(call'[q]) /\ call'[q].phase = "ready" /\ call'[q].answer = call[q].answer
        /\ call'[q].plan = call[q].plan /\ call'[q].at = call[q].at
        /\ call'[q].listed = listed /\ call'[q].token = upto
    BY <1>0, <1>7 DEF AnswersPage, TypeInv, ToolTypeOK, CallRecord, Under
  <2>2. Asked(call'[q]) = "page"
    BY <1>1, <2>1 DEF Asked
  <2>3. ProgressOf(call'[q], during[q])
    BY <1>0, <1>1, <2>1, <2>2 DEF ProgressOf, Open, Under, Writing
  <2>4. call[q].token <= upto
    BY DEF AnswersPage, OnePage
  <2>5. ASSUME NEW i \in Item
        PROVE  /\ listed[i] = 1 => i <= upto
               /\ i \in during[q].always /\ i <= upto => listed[i] = 1
    <3>1. i \in Int /\ upto \in Int /\ call[q].token \in Int
      BY <1>4 DEF Item
    <3>2. i \in during[q].always => i \in present
      BY <1>3
    <3> HIDE DEF listed
    <3>3. CASE i <= call[q].token
      BY <1>5, <2>4, <3>1, <3>2, <3>3
    <3>4. CASE ~(i <= call[q].token)
      BY <1>5, <2>4, <3>1, <3>2, <3>4
    <3> QED BY <3>3, <3>4
  <2>6. call'[q].answer = "none"
    BY <1>0, <1>1, <2>1 DEF ProgressOf
  <2> HIDE DEF listed
  <2>7. ListOf(call'[q], during[q])
    BY <1>6, <2>1, <2>2, <2>5, <2>6 DEF ListOf
  <2> QED BY <1>0, <1>1, <1>2, <2>3, <2>7, OwnStep
<1>8. CASE ~More(upto)
  <2>1. Proceeds(q, listed)
    BY <1>8 DEF AnswersPage
  <2>2. ASSUME NEW i \in during[q].always PROVE listed[i] = 1
    <3>1. i \in Item /\ i \in present
      BY <1>3
    <3>2. i \in Int /\ upto \in Int /\ call[q].token \in Int /\ i <= upto
      BY <1>4, <1>8, <3>1 DEF Item, More
    <3>3. /\ listed[i] = IF call[q].token < i THEN call[q].listed[i] + 1 ELSE call[q].listed[i]
          /\ call[q].listed[i] \in {0, 1}
          /\ call[q].listed[i] = 1 => i <= call[q].token
          /\ i <= call[q].token => call[q].listed[i] = 1
      BY <1>5, <3>1, <3>2
    <3> HIDE DEF listed
    <3>4. CASE i <= call[q].token
      BY <3>2, <3>3, <3>4
    <3>5. CASE ~(i <= call[q].token)
      BY <3>2, <3>3, <3>5
    <3> QED BY <3>4, <3>5
  <2>3. during[q].applied = 0
    BY <1>0, <1>1 DEF ProgressOf, Open
  <2> HIDE DEF listed
  <2>4. ProgressOf(call'[q], during[q]) /\ (Under(call'[q]) => Under(call[q]))
    BY <1>0, <1>1, <2>1, <2>3, ProceedsProgress DEF Writing
  <2>5. ListOf(call'[q], during[q])
    BY <1>0, <1>1, <1>6, <2>1, <2>2, ProceedsList
  <2> QED BY <1>0, <1>2, <2>4, <2>5, OwnStep
<1> QED BY <1>7, <1>8

\* A list cut to its first page, and the other reads.
LEMMA ReadStep ==
    ASSUME ToolInv, NEW q \in Client, NEW upto \in 0..Items,
           AnswersFirst(q, upto) \/ AnswersRead(q) \/ AnswersStatus(q)
    PROVE  (WitnessInv /\ ProgressInv /\ ListInv)'
<1>0. TypeInv /\ call[q] \in CallRecord /\ UNCHANGED <<googleVars, during>>
      /\ ProgressOf(call[q], during[q]) /\ ListOf(call[q], during[q])
      /\ WitnessOf(call[q], during[q], present, workspace)
  BY DEF ToolInv, TypeInv, ToolTypeOK, ProgressInv, ListInv, WitnessInv,
         AnswersFirst, AnswersRead, AnswersStatus, googleVars
<1>1. /\ call[q].phase = "sent" /\ Under(call[q]) /\ during[q].applied = 0
      /\ Request(q) \in {"first", "read", "peek", "status"}
  BY <1>0 DEF AnswersFirst, AnswersRead, AnswersStatus, Under, Open, ProgressOf
<1>2. \A r \in Client \ {q} : call'[r] = call[r]
  BY <1>0 DEF AnswersFirst, AnswersRead, AnswersStatus, Proceeds, TypeInv, ToolTypeOK
<1>3. Request(q) \notin Writing /\ Request(q) # "page"
  BY <1>1 DEF Writing
<1>4. call[q].listed = NoneListed
  BY <1>0, <1>1, <1>3 DEF ListOf, Asked, Request
<1>5. ASSUME NEW listed, Proceeds(q, listed), Request(q) = "status" => during[q].fit,
             \A i \in Item : listed[i] <= 1 /\ (listed[i] = 1 => i \in during[q].ever)
      PROVE  (WitnessInv /\ ProgressInv /\ ListInv)'
  <2>1. ProgressOf(call'[q], during[q]) /\ (Under(call'[q]) => Under(call[q]))
    BY <1>0, <1>1, <1>3, <1>5, ProceedsProgress
  <2>2. ListOf(call'[q], during[q])
    BY <1>0, <1>1, <1>3, <1>5, ProceedsList
  <2> QED BY <1>0, <1>2, <2>1, <2>2, OwnStep
<1>6. \A i \in Item : NoneListed[i] = 0
  BY DEF NoneListed
<1>7. CASE AnswersFirst(q, upto)
  <2> DEFINE listed == Adding(NoneListed, Page(0, upto))
  <2>1. \A i \in Item : listed[i] = IF i \in Page(0, upto) THEN 1 ELSE 0
    BY <1>6 DEF Adding
  <2>2. Page(0, upto) \subseteq during[q].ever
    BY <1>0, <1>1 DEF Page, WitnessOf
  <2>3. Proceeds(q, listed) /\ Request(q) # "status"
    BY <1>7 DEF AnswersFirst
  <2> HIDE DEF listed
  <2> QED BY <1>5, <2>1, <2>2, <2>3
<1>8. CASE AnswersRead(q)
  BY <1>4, <1>5, <1>6, <1>8 DEF AnswersRead
<1>9. CASE AnswersStatus(q) /\ workspace.changed /\ ~workspace.conflicts
  <2>1. during[q].fit
    BY <1>0, <1>1, <1>9 DEF WitnessOf, Fit
  <2> QED BY <1>4, <1>5, <1>6, <1>9, <2>1 DEF AnswersStatus
<1>10. CASE AnswersStatus(q) /\ ~(workspace.changed /\ ~workspace.conflicts)
  <2>1. /\ call'[q].phase = "done" /\ call'[q].answer = "refused"
        /\ call'[q].plan = call[q].plan /\ call'[q].at = call[q].at
        /\ call'[q].listed = call[q].listed
    BY <1>0, <1>10 DEF AnswersStatus, TypeInv, ToolTypeOK, CallRecord
  <2>2. ~Under(call'[q])
    BY <2>1 DEF Under
  <2>3. ProgressOf(call'[q], during[q])
    BY <1>0, <1>1, <2>1 DEF ProgressOf, Open, Under
  <2>4. ListOf(call'[q], during[q])
    BY <1>4, <1>6, <2>1, <2>2 DEF ListOf
  <2> QED BY <1>0, <1>2, <2>2, <2>3, <2>4, OwnStep
<1> QED BY <1>7, <1>8, <1>9, <1>10

\* A refusal, the loss of an answer, a write carried out.
LEMMA WriteStep ==
    ASSUME ToolInv, NEW q \in Client,
           AnswersWrite(q) \/ Limits(q) \/ Breaks(q) \/ Settles(q)
    PROVE  (WitnessInv /\ ProgressInv /\ ListInv)'
<1>0. TypeInv /\ call[q] \in CallRecord /\ during[q] \in History
      /\ ProgressOf(call[q], during[q]) /\ ListOf(call[q], during[q])
      /\ WitnessOf(call[q], during[q], present, workspace)
  BY DEF ToolInv, TypeInv, ToolTypeOK, ProgressInv, ListInv, WitnessInv
<1>1. call[q].phase \in {"sent", "abandoned"} /\ Open(call[q]) /\ during[q].applied = 0
  BY <1>0 DEF AnswersWrite, Limits, Breaks, Settles, Open, Under, ProgressOf
<1>2. \A r \in Client \ {q} : call'[r] = call[r]
  BY <1>0 DEF AnswersWrite, Limits, Breaks, Settles, Proceeds, GivesUp, TypeInv, ToolTypeOK
<1>3. \A i \in Item : NoneListed[i] = 0
  BY DEF NoneListed
<1>4. CASE AnswersWrite(q)
  <2>1. /\ Applies(q) /\ Proceeds(q, call[q].listed) /\ call[q].phase = "sent"
        /\ Request(q) \in Writing /\ Request(q) \notin {"page", "status"}
    BY <1>4 DEF AnswersWrite, Applies, Writing
  <2>2. /\ during'[q].applied = IF Request(q) \in Writing THEN 1 ELSE 0
        /\ during[q].fit => during'[q].fit
        /\ Request(q) = "status" => during'[q].fit
        /\ during'[q].always = during[q].always /\ during'[q].ever = during[q].ever
    BY <1>0, <1>1, <2>1, AppliesGrows
  <2>3. ProgressOf(call'[q], during'[q]) /\ (Under(call'[q]) => Under(call[q]))
    BY <1>0, <2>1, <2>2, ProceedsProgress
  <2>4. call[q].listed = NoneListed
    BY <1>0, <2>1 DEF ListOf, Asked, Request
  <2>5. ListOf(call'[q], during'[q])
    <3>1. \A i \in Item : call[q].listed[i] <= 1 /\ call[q].listed[i] # 1
      BY <1>3, <2>4
    <3> QED BY <1>0, <2>1, <3>1, ProceedsList
  <2> QED BY <1>2, <2>1, <2>3, <2>5, AppliedStep
<1>5. CASE Limits(q) /\ Retries(q)
  <2>1. /\ Under(call[q]) /\ Under(call'[q]) /\ call'[q].phase = "waiting"
        /\ call'[q].plan = call[q].plan /\ call'[q].at = call[q].at
        /\ call'[q].listed = call[q].listed /\ call'[q].token = call[q].token
        /\ call'[q].answer = call[q].answer
    BY <1>0, <1>5 DEF Limits, TypeInv, ToolTypeOK, CallRecord, Under
  <2>2. Asked(call'[q]) = Asked(call[q])
    BY <2>1 DEF Asked
  <2>3. ProgressOf(call'[q], during[q])
    <3>1. call'[q].answer = "none" /\ Open(call[q])
      BY <1>0, <2>1 DEF ProgressOf, Open
    <3> QED BY <1>0, <1>1, <2>1, <2>2, <3>1 DEF ProgressOf
  <2>4. ListOf(call'[q], during[q])
    <3>1. call[q].phase # "done" /\ call[q].phase # "idle"
      BY <1>1
    <3> QED BY <1>0, <2>1, <2>2, <3>1 DEF ListOf
  <2> QED BY <2>4, <1>2, <1>5, <2>1, <2>3, OwnStep DEF Limits
<1>6. CASE (Limits(q) /\ ~Retries(q)) \/ Breaks(q) \/ Settles(q)
  <2>1. /\ call'[q].phase = "done" /\ call'[q].answer = "error"
        /\ call'[q].plan = call[q].plan /\ call'[q].at = call[q].at
        /\ call'[q].listed = NoneListed \/ call'[q].listed = call[q].listed
    BY <1>0, <1>6
       DEF Limits, Breaks, Settles, GivesUp, TypeInv, ToolTypeOK, CallRecord, ProgressOf
  <2>2. ~Under(call'[q]) /\ ~Open(call'[q]) /\ Asked(call'[q]) = Asked(call[q])
    BY <2>1 DEF Under, Open, Asked
  <2>3. \A d : /\ d.applied <= 1
               /\ during[q].fit => d.fit
               => ProgressOf(call'[q], d)
    BY <1>0, <1>1, <2>1, <2>2 DEF ProgressOf
  <2>4. \A d : d.ever = during[q].ever => ListOf(call'[q], d)
    BY <1>0, <1>3, <2>1, <2>2 DEF ListOf
  <2>5. CASE Applies(q)
    <3>1. /\ during'[q].applied = 1
          /\ during[q].fit => during'[q].fit
          /\ during'[q].ever = during[q].ever
      BY <1>0, <1>1, <2>5, AppliesGrows
    <3> QED BY <1>2, <2>2, <2>3, <2>4, <2>5, <3>1, AppliedStep
  <2>6. CASE UNCHANGED <<googleVars, during>>
    <3>1. during[q].applied <= 1
      BY <1>1
    <3> QED BY <1>2, <2>2, <2>3, <2>4, <2>6, <3>1, OwnStep
  <2> QED BY <1>6, <2>5, <2>6 DEF Limits, Breaks, Settles
<1> QED BY <1>4, <1>5, <1>6

LEMMA EditStep ==
    ASSUME ToolInv, Edit
    PROVE  (WitnessInv /\ ProgressInv /\ ListInv)'
<1> SUFFICES ASSUME NEW r \in Client
             PROVE  /\ WitnessOf(call'[r], during'[r], present', workspace')
                    /\ ProgressOf(call'[r], during'[r])
                    /\ ListOf(call'[r], during'[r])
  BY DEF WitnessInv, ProgressInv, ListInv
<1>0. TypeInv /\ call[r] \in CallRecord /\ during[r] \in History /\ call' = call
      /\ ProgressOf(call[r], during[r]) /\ ListOf(call[r], during[r])
      /\ WitnessOf(call[r], during[r], present, workspace)
  BY DEF ToolInv, TypeInv, ToolTypeOK, ProgressInv, ListInv, WitnessInv, Edit
<1>1. CASE Under(call[r])
  <2>1. /\ during'[r].always = during[r].always \cap present'
        /\ during'[r].ever = during[r].ever \cup present'
        /\ during'[r].fit = (during[r].fit \/ Fit(workspace'))
        /\ during'[r].applied = during[r].applied
    BY <1>0, <1>1 DEF Edit, Witnessed, InProgress, Under, History
  <2>2. Grows(during[r], during'[r])
    BY <2>1 DEF Grows
  <2>3. WitnessOf(call[r], during'[r], present', workspace')
    BY <2>1 DEF WitnessOf
  <2> QED BY <1>0, <2>1, <2>2, <2>3, ProgressGrows, ListGrows DEF Grows
<1>2. CASE ~Under(call[r])
  <2>1. during'[r] = during[r]
    BY <1>2 DEF Edit, Witnessed, InProgress, Under
  <2>2. WitnessOf(call[r], during'[r], present', workspace')
    BY <1>2 DEF WitnessOf
  <2> QED BY <1>0, <2>1, <2>2
<1> QED BY <1>1, <1>2

LEMMA ToolStep == ASSUME ToolInv, [ToolNext]_toolVars PROVE ToolInv'
<1>1. TypeInv'
  BY TypeStep DEF ToolInv
<1>2. CASE UNCHANGED toolVars
  BY <1>1, <1>2 DEF toolVars, googleVars, ToolInv, WitnessInv, ProgressInv, ListInv
<1>3. CASE ToolNext
  <2>1. (WitnessInv /\ ProgressInv /\ ListInv)'
    BY <1>3, CallsStep, TakesStep, ServesStep, RefreshedStep, PageStep, ReadStep,
       WriteStep, EditStep DEF ToolNext, Answers
  <2> QED BY <1>1, <2>1 DEF ToolInv
<1> QED BY <1>2, <1>3

LEMMA ToolInvariant == ToolSpec => []ToolInv
BY InitHolds, ToolStep, PTL DEF ToolSpec

\* However often requests are retried, answers lost and calls cancelled, no
\* write of one call is carried out twice.
THEOREM NoWriteTwice == ToolSpec => []AppliedAtMostOnce
<1>1. ToolInv => AppliedAtMostOnce
  BY DEF ToolInv, ProgressInv, ProgressOf, AppliedAtMostOnce
<1> QED BY <1>1, ToolInvariant, PTL

\* Success means that the write was done, refusal that nothing was.
THEOREM NoFalseAnswer == ToolSpec => []AnswersAreTrue
<1>1. ToolInv => AnswersAreTrue
  BY DEF ToolInv, ProgressInv, ProgressOf, AnswersAreTrue, Asked, Request
<1> QED BY <1>1, ToolInvariant, PTL

\* A version is made only of a workspace that was fit for it during the call.
THEOREM NoVersionUnchecked == ToolSpec => []VersionedAfterCheck
<1>1. ToolInv => VersionedAfterCheck
  BY DEF ToolInv, ProgressInv, ProgressOf, VersionedAfterCheck, Asked, Request
<1> QED BY <1>1, ToolInvariant, PTL

\* Lists fetched to their end miss nothing, repeat nothing and invent nothing.
THEOREM ListsWhole == ToolSpec => []ListsAreWhole
<1>1. ToolInv => ListsAreWhole
  BY DEF ToolInv, ListInv, ListOf, ListsAreWhole, Asked, Request
<1> QED BY <1>1, ToolInvariant, PTL


-----------------------------------------------------------------------------
(* What of EveryToolReturns is safety: a call under way never goes back.   *)

PhaseOrder(phase) ==
    CASE phase = "ready" -> 0 [] phase = "refreshing" -> 1
      [] phase = "sent" -> 2 [] phase = "waiting" -> 3

\* Call record d is further on than c: a later request, or a later page of the same,
\* or a later attempt at it, or a later moment of that.
Beyond(c, d) ==
    /\ d.plan = c.plan /\ d.at >= c.at
    /\ d.at = c.at =>
          /\ d.token >= c.token
          /\ d.token = c.token =>
                /\ d.attempt >= c.attempt
                /\ d.attempt = c.attempt => PhaseOrder(d.phase) > PhaseOrder(c.phase)

\* A step that leaves a call under way takes it forward, cancels it, or is of another.
CallsGoForward ==
    \A q \in Client : InProgress(q) /\ InProgress(q)' =>
        \/ call'[q] = call[q]
        \/ ~call[q].cancelled /\ call'[q] = [call[q] EXCEPT !.cancelled = TRUE]
        \/ Beyond(call[q], call'[q])

\* The requests, pages and attempts there are for it to go through.
CallsAreBounded ==
    \A q \in Client : InProgress(q) =>
        /\ call[q].at \in 1..Len(call[q].plan)
        /\ call[q].token \in 0..Items
        /\ call[q].attempt \in 0..MaxRetries

OnlyCall(q) == \A r \in Client \ {q} : call'[r] = call[r]

LEMMA OneGoesForward ==
    ASSUME NEW q \in Client, OnlyCall(q),
           InProgress(q) /\ InProgress(q)' =>
               \/ call'[q] = call[q]
               \/ ~call[q].cancelled /\ call'[q] = [call[q] EXCEPT !.cancelled = TRUE]
               \/ Beyond(call[q], call'[q])
    PROVE  CallsGoForward
BY DEF CallsGoForward, OnlyCall

LEMMA ProceedsForward ==
    ASSUME TypeInv, NEW q \in Client, NEW listed, Proceeds(q, listed)
    PROVE  CallsGoForward
<1>1. call \in [Client -> CallRecord] /\ call[q] \in CallRecord
  BY DEF TypeInv, ToolTypeOK
<1>2. CASE IsLast(q)
  <2>1. OnlyCall(q) /\ call'[q].phase = "done"
    BY <1>1, <1>2 DEF Proceeds, OnlyCall
  <2> QED BY <2>1, OneGoesForward DEF InProgress
<1>3. CASE ~IsLast(q)
  <2>1. OnlyCall(q) /\ call'[q].at = call[q].at + 1 /\ call'[q].plan = call[q].plan
    BY <1>1, <1>3 DEF Proceeds, OnlyCall
  <2>2. call[q].at \in Nat
    BY <1>1 DEF CallRecord
  <2>3. Beyond(call[q], call'[q])
    BY <2>1, <2>2 DEF Beyond
  <2> QED BY <2>1, <2>3, OneGoesForward
<1> QED BY <1>2, <1>3

LEMMA GivesUpForward == ASSUME TypeInv, NEW q \in Client, GivesUp(q) PROVE CallsGoForward
<1>1. call \in [Client -> CallRecord] /\ call[q] \in CallRecord
  BY DEF TypeInv, ToolTypeOK
<1>2. OnlyCall(q) /\ call'[q].phase = "done"
  BY <1>1 DEF GivesUp, OnlyCall
<1> QED BY <1>2, OneGoesForward DEF InProgress

LEMMA ServesForward ==
    ASSUME TypeInv, NEW q \in Client, Cancels(q) \/ Serves(q)
    PROVE  CallsGoForward
<1>1. call \in [Client -> CallRecord] /\ call[q] \in CallRecord
  BY DEF TypeInv, ToolTypeOK
<1>2. call[q].attempt \in Nat /\ call[q].at \in Nat /\ call[q].token \in Nat
  BY <1>1 DEF CallRecord
<1>3. CASE Cancels(q)
  <2>1. OnlyCall(q) /\ call'[q] = [call[q] EXCEPT !.cancelled = TRUE]
    BY <1>1, <1>3 DEF Cancels, OnlyCall
  <2> QED BY <1>3, <2>1, OneGoesForward DEF Cancels
<1>4. CASE Send(q)
  <2>1. /\ OnlyCall(q)
        /\ call'[q].plan = call[q].plan
        /\ call'[q].at = call[q].at
        /\ call'[q].token = call[q].token
        /\ call'[q].attempt = call[q].attempt /\ call'[q].phase = "sent"
    BY <1>1, <1>4 DEF Send, OnlyCall
  <2>2. Beyond(call[q], call'[q])
    BY <1>2, <1>4, <2>1 DEF Beyond, PhaseOrder, Send
  <2> QED BY <2>1, <2>2, OneGoesForward
<1>5. CASE Stop(q)
  <2>1. CASE call[q].phase = "sent"
    <3>1. call' = [call EXCEPT ![q].phase = "abandoned", ![q].answer = "error",
                               ![q].listed = NoneListed]
      BY <1>5, <2>1 DEF Stop
    <3>2. OnlyCall(q) /\ call'[q].phase = "abandoned"
      BY <1>1, <3>1 DEF OnlyCall
    <3> QED BY <3>2, OneGoesForward DEF InProgress
  <2>2. CASE call[q].phase # "sent"
    BY <1>5, <2>2, GivesUpForward DEF Stop
  <2> QED BY <2>1, <2>2
<1>6. CASE Wake(q)
  <2>1. /\ OnlyCall(q)
        /\ call'[q].plan = call[q].plan
        /\ call'[q].at = call[q].at
        /\ call'[q].token = call[q].token
        /\ call'[q].attempt = call[q].attempt + 1
    BY <1>1, <1>6 DEF Wake, OnlyCall
  <2>2. Beyond(call[q], call'[q])
    BY <1>2, <2>1 DEF Beyond
  <2> QED BY <2>1, <2>2, OneGoesForward
<1>7. CASE Refreshes(q)
  <2>1. /\ OnlyCall(q)
        /\ call'[q].plan = call[q].plan
        /\ call'[q].at = call[q].at
        /\ call'[q].token = call[q].token
        /\ call'[q].attempt = call[q].attempt /\ call'[q].phase = "refreshing"
    BY <1>1, <1>7 DEF Refreshes, OnlyCall
  <2>2. Beyond(call[q], call'[q])
    BY <1>2, <1>7, <2>1 DEF Beyond, PhaseOrder, Refreshes
  <2> QED BY <2>1, <2>2, OneGoesForward
<1> QED BY <1>3, <1>4, <1>5, <1>6, <1>7 DEF Serves

LEMMA PageForward ==
    ASSUME TypeInv, NEW q \in Client, NEW upto \in 0..Items, AnswersPage(q, upto)
    PROVE  CallsGoForward
<1> DEFINE listed == Adding(call[q].listed, Page(call[q].token, upto))
<1>1. call \in [Client -> CallRecord] /\ call[q] \in CallRecord
  BY DEF TypeInv, ToolTypeOK
<1>2. call[q].token \in Nat /\ call[q].at \in Nat /\ upto \in Nat
  BY <1>1 DEF CallRecord
<1>3. CASE More(upto)
  <2>1. call[q].token < upto
    <3>1. Page(call[q].token, upto) # {}
      BY <1>3 DEF AnswersPage, OnePage
    <3>2. PICK i \in present : call[q].token < i /\ i <= upto
      BY <3>1 DEF Page
    <3>3. i \in Nat
      BY DEF TypeInv, ToolTypeOK, Item
    <3> QED BY <1>2, <3>2, <3>3
  <2>2. /\ OnlyCall(q)
        /\ call'[q].plan = call[q].plan
        /\ call'[q].at = call[q].at
        /\ call'[q].token = upto
    <3> HIDE DEF listed
    <3>1. call' = [call EXCEPT ![q].phase = "ready", ![q].attempt = 0,
                               ![q].listed = listed, ![q].token = upto]
      BY <1>3 DEF AnswersPage, listed
    <3> QED BY <1>1, <3>1 DEF OnlyCall
  <2>3. Beyond(call[q], call'[q])
    BY <1>2, <2>1, <2>2 DEF Beyond
  <2> QED BY <2>2, <2>3, OneGoesForward
<1>4. CASE ~More(upto)
  <2>1. Proceeds(q, listed)
    BY <1>4 DEF AnswersPage
  <2> QED BY <2>1, ProceedsForward
<1> QED BY <1>3, <1>4

LEMMA AnswersForward == ASSUME TypeInv, NEW q \in Client, Answers(q) PROVE CallsGoForward
<1>1. call \in [Client -> CallRecord] /\ call[q] \in CallRecord
  BY DEF TypeInv, ToolTypeOK
<1>2. ASSUME NEW upto \in 0..Items, AnswersPage(q, upto) \/ AnswersFirst(q, upto)
      PROVE  CallsGoForward
  BY <1>2, PageForward, ProceedsForward DEF AnswersFirst
<1>3. CASE AnswersRead(q)
  BY <1>3, ProceedsForward DEF AnswersRead
<1>4. CASE AnswersStatus(q)
  <2>1. CASE workspace.changed /\ ~workspace.conflicts
    BY <1>4, <2>1, ProceedsForward DEF AnswersStatus
  <2>2. CASE ~(workspace.changed /\ ~workspace.conflicts)
    <3>1. call' = [call EXCEPT ![q].phase = "done", ![q].answer = "refused"]
      BY <1>4, <2>2 DEF AnswersStatus
    <3>2. OnlyCall(q) /\ call'[q].phase = "done"
      BY <1>1, <3>1 DEF OnlyCall
    <3> QED BY <3>2, OneGoesForward DEF InProgress
  <2> QED BY <2>1, <2>2
<1>5. CASE AnswersWrite(q)
  BY <1>5, ProceedsForward DEF AnswersWrite
<1>6. CASE Limits(q)
  <2>1. CASE Retries(q)
    <3>1. call' = [call EXCEPT ![q].phase = "waiting"]
      BY <1>6, <2>1 DEF Limits
    <3>2. OnlyCall(q) /\ call'[q] = [call[q] EXCEPT !.phase = "waiting"]
      BY <1>1, <3>1 DEF OnlyCall
    <3>3. call[q].attempt \in Nat /\ call[q].at \in Nat /\ call[q].token \in Nat
      BY <1>1 DEF CallRecord
    <3>4. Beyond(call[q], call'[q])
      BY <1>1, <1>6, <3>2, <3>3 DEF Beyond, PhaseOrder, Limits, CallRecord
    <3> QED BY <3>2, <3>4, OneGoesForward
  <2>2. CASE ~Retries(q)
    BY <1>6, <2>2, GivesUpForward DEF Limits
  <2> QED BY <2>1, <2>2
<1>7. CASE Breaks(q)
  BY <1>7, GivesUpForward DEF Breaks
<1>8. CASE Refreshed(q)
  <2>1. CASE call' = [call EXCEPT ![q].phase = "sent"]
    <3>1. /\ OnlyCall(q)
          /\ call'[q].plan = call[q].plan
          /\ call'[q].at = call[q].at
          /\ call'[q].token = call[q].token
          /\ call'[q].attempt = call[q].attempt /\ call'[q].phase = "sent"
      BY <1>1, <2>1 DEF OnlyCall
    <3>2. call[q].attempt \in Nat /\ call[q].at \in Nat /\ call[q].token \in Nat
      BY <1>1 DEF CallRecord
    <3>3. Beyond(call[q], call'[q])
      BY <1>8, <3>1, <3>2 DEF Beyond, PhaseOrder, Refreshed
    <3> QED BY <3>1, <3>3, OneGoesForward
  <2> QED BY <1>8, <2>1, GivesUpForward DEF Refreshed
<1>9. CASE Settles(q)
  <2>1. OnlyCall(q) /\ call'[q].phase = "done"
    BY <1>1, <1>9 DEF Settles, OnlyCall
  <2> QED BY <2>1, OneGoesForward DEF InProgress
<1> QED BY <1>2, <1>3, <1>4, <1>5, <1>6, <1>7, <1>9, <1>8 DEF Answers

LEMMA StepForward == TypeInv /\ [ToolNext]_toolVars => CallsGoForward
<1> SUFFICES ASSUME TypeInv, [ToolNext]_toolVars PROVE CallsGoForward
  OBVIOUS
<1>1. ASSUME NEW q \in Client, NEW t \in Tool, NEW given, Calls(q, t, given)
      PROVE  CallsGoForward
  <2>1. OnlyCall(q)
    BY <1>1 DEF Calls, OnlyCall, TypeInv, ToolTypeOK
  <2> QED BY <1>1, <2>1, OneGoesForward DEF Calls, InProgress
<1>2. ASSUME NEW q \in Client, Takes(q) PROVE CallsGoForward
  <2>1. OnlyCall(q)
    BY <1>2 DEF Takes, OnlyCall, TypeInv, ToolTypeOK
  <2> QED BY <1>2, <2>1, OneGoesForward DEF Takes, InProgress
<1>3. CASE Edit \/ UNCHANGED toolVars
  BY <1>3 DEF Edit, toolVars, CallsGoForward
<1> QED BY <1>1, <1>2, <1>3, ServesForward, AnswersForward DEF ToolNext

\* A call goes through its requests, the pages of a list and the attempts at each
\* (errors.go:22) in order and never back, however long others insert into the list;
\* so it takes no more steps than there are requests, pages and attempts.
THEOREM NoCallGoesBack == ToolSpec => [][CallsGoForward]_toolVars
BY ToolInvariant, StepForward, PTL DEF ToolInv, ToolSpec

THEOREM BoundedAttempts == ToolSpec => []CallsAreBounded
<1>1. ToolInv => CallsAreBounded
  BY DEF ToolInv, TypeInv, ToolTypeOK, CallRecord, ProgressInv, ProgressOf, Open, Under,
         InProgress, CallsAreBounded
<1> QED BY <1>1, ToolInvariant, PTL
=============================================================================
