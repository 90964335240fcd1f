------------------------------ MODULE ToolCalls ------------------------------
(***************************************************************************)
(* A call of a tool, a prompt or a resource of gtm/: the handler checks    *)
(* its input, then sends requests to Tag Manager one after the other, each *)
(* alone or through retryWithBackoff, and answers.  Which requests a tool  *)
(* sends is the constant Requests; ToolTable gives it for this server.     *)
(*                                                                         *)
(* Tag Manager is external, modelled as the code uses it: a request it     *)
(* refuses with 403 or 429 has no effect, any other failure may be the     *)
(* loss of an answer after the effect; a list has an order, and a page     *)
(* token is a position in that order, so that what is inserted or deleted  *)
(* meanwhile shifts nothing.  Everybody else's edits are Edit.             *)
(*                                                                         *)
(* Data.  An item stands for a tag, trigger, version...; its number is its *)
(* place in the order.  Wording, and the value of the wait between two     *)
(* attempts, are left out.                                                 *)
(***************************************************************************)
EXTENDS Integers, Sequences

CONSTANTS
    Client,         \* MCP requests that may be under way
    Tool,           \* the tools, prompts and resources registered
    Requests,       \* the requests each of them sends, in order
    NeedsConfirm,   \* those that do nothing without confirm: true
    Items,          \* bound: entities of a workspace
    MaxRetries      \* 3 at every call of retryWithBackoff

Item == 1..Items

\* "page": one page of a list fetched to its end; "first": the first page of a
\* list; "status": the workspace status that create_version looks at; "enable":
\* a write inside retryWithBackoff; "peek": a Get outside of it.
Reading == {"page", "first", "read", "peek", "status"}
Writing == {"write", "enable", "version"}
Plan == Seq(Reading \cup Writing)

\* The calls of retryWithBackoff.
Retryable == {"page", "first", "read", "status", "enable"}

ASSUME ToolAssumption ==
    /\ Requests \in [Tool -> Plan]
    /\ \A t \in Tool : \A n \in 1..Len(Requests[t]) - 1 :
          Requests[t][n] \in Reading \ {"page"}
    /\ \A t \in Tool : \A n \in 1..Len(Requests[t]) :
          Requests[t][n] = "version" => n > 1 /\ Requests[t][n - 1] = "status"
    /\ NeedsConfirm \subseteq Tool
    /\ Items \in Nat
    /\ MaxRetries \in Nat

VARIABLES
    present,    \* the items in the workspace
    workspace,  \* whether it has changes, and conflicts with the latest version
    call,       \* each client's call: what it is to send and where it stands
    during      \* history of that call: the items that were there all the time,
                \* and those at some time; whether the workspace was once fit to
                \* be versioned; how often Google applied a write of it

googleVars == <<present, workspace>>
toolVars == <<googleVars, call, during>>

NoneListed == [i \in Item |-> 0]
Idle == [plan |-> <<>>, at |-> 1, phase |-> "idle", attempt |-> 0, token |-> 0,
         listed |-> NoneListed, answer |-> "none", cancelled |-> FALSE]
NothingYet == [always |-> {}, ever |-> {}, fit |-> FALSE, applied |-> 0]

ToolInit ==
    /\ present \in SUBSET Item
    /\ workspace \in [changed : BOOLEAN, conflicts : BOOLEAN]
    /\ call = [q \in Client |-> Idle]
    /\ during = [q \in Client |-> NothingYet]

-----------------------------------------------------------------------------
Request(q) == call[q].plan[call[q].at]
IsLast(q) == call[q].at = Len(call[q].plan)
InProgress(q) == call[q].phase \in {"ready", "refreshing", "sent", "waiting"}

\* A workspace that create_version should make a version of.
Fit(w) == w.changed /\ ~w.conflicts

\* retryWithBackoff tries again after a refusal for the rate, and only then.
Retries_OnceMore(q) == Request(q) \in Retryable /\ call[q].attempt <= MaxRetries
Retries(q) == Request(q) \in Retryable /\ call[q].attempt < MaxRetries

\* An error is returned alone: the pages fetched before it are dropped.
GivesUp(q) ==
    call' = [call EXCEPT ![q].phase = "done", ![q].answer = "error",
                         ![q].listed = NoneListed]

\* The request was answered: the next one is due, or the answer of the call.
\* Each list of a call is collected on its own; the last one is watched.
Proceeds(q, listed) ==
    call' = [call EXCEPT ![q].phase = IF IsLast(q) THEN "done" ELSE "ready",
                         ![q].answer = IF IsLast(q) THEN "ok" ELSE "none",
                         ![q].at = IF IsLast(q) THEN @ ELSE @ + 1,
                         ![q].attempt = 0,
                         ![q].listed = IF IsLast(q) THEN listed ELSE NoneListed]

\* What the calls in progress live to see.
Witnessed ==
    during' = [q \in Client |->
        IF InProgress(q)
        THEN [during[q] EXCEPT !.always = @ \cap present', !.ever = @ \cup present',
                               !.fit = @ \/ Fit(workspace')]
        ELSE during[q]]

-----------------------------------------------------------------------------
\* The input is complete, lacks the confirmation, or is refused for a missing
\* or malformed value or for want of a Google token.
Checked(t, given) == given = "complete" \/ (given = "unconfirmed" /\ t \notin NeedsConfirm)

\* A call arrives and its input is checked.
Calls(q, t, given) ==
    /\ call[q].phase = "idle"
    /\ call' = [call EXCEPT ![q] =
            [Idle EXCEPT
                !.plan = Requests[t],
                !.phase = IF Checked(t, given) /\ Requests[t] # <<>> THEN "ready" ELSE "done",
                !.answer = IF ~Checked(t, given) THEN "refused"
                           ELSE IF Requests[t] = <<>> THEN "ok" ELSE "none"]]
    /\ during' = [during EXCEPT ![q] = [always |-> present, ever |-> present,
                                        fit |-> Fit(workspace), applied |-> 0]]
    /\ UNCHANGED googleVars

\* The client leaves or cancels: ctx is done.
Cancels(q) ==
    /\ InProgress(q)
    /\ ~call[q].cancelled
    /\ call' = [call EXCEPT ![q].cancelled = TRUE]
    /\ UNCHANGED <<googleVars, during>>

Send(q) ==
    /\ call[q].phase = "ready"
    /\ ~call[q].cancelled
    /\ call' = [call EXCEPT ![q].phase = "sent"]
    /\ UNCHANGED <<googleVars, during>>

\* The Google token has expired: the transport of the request asks for another
\* first (AutoRefreshTokenSource.Token, or the service account's source).
Refreshes(q) ==
    /\ call[q].phase = "ready"
    /\ ~call[q].cancelled
    /\ call' = [call EXCEPT ![q].phase = "refreshing"]
    /\ UNCHANGED <<googleVars, during>>

\* The request itself does not carry ctx.
Stop_KeepsRequest(q) ==
    /\ call[q].cancelled
    /\ call[q].phase \in {"ready", "waiting"}
    /\ GivesUp(q)
    /\ UNCHANGED <<googleVars, during>>

\* ctx is done before a request, in the wait between two, or during one: then
\* the call returns and what Google does with the request stays open.  A refresh
\* has a context of its own, so that it goes on.
Stop(q) ==
    /\ call[q].cancelled
    /\ InProgress(q)
    /\ call[q].phase # "refreshing"
    /\ IF call[q].phase = "sent"
       THEN call' = [call EXCEPT ![q].phase = "abandoned", ![q].answer = "error",
                                 ![q].listed = NoneListed]
       ELSE GivesUp(q)
    /\ UNCHANGED <<googleVars, during>>

\* The attempts are not counted.
Wake_Uncounted(q) ==
    /\ call[q].phase = "waiting"
    /\ call' = [call EXCEPT ![q].phase = "ready"]
    /\ UNCHANGED <<googleVars, during>>

\* The wait after a refusal is over.
Wake(q) ==
    /\ call[q].phase = "waiting"
    /\ call' = [call EXCEPT ![q].phase = "ready", ![q].attempt = @ + 1]
    /\ UNCHANGED <<googleVars, during>>

\* The client takes the answer.
Takes(q) ==
    /\ call[q].phase = "done"
    /\ call' = [call EXCEPT ![q] = Idle]
    /\ during' = [during EXCEPT ![q] = NothingYet]
    /\ UNCHANGED googleVars

-----------------------------------------------------------------------------
(* What Google does with a request.                                        *)

\* The refresh fails, or the request goes out with the new token; it does not
\* if the call was cancelled meanwhile.
Refreshed(q) ==
    /\ call[q].phase = "refreshing"
    /\ \/ GivesUp(q)
       \/ ~call[q].cancelled /\ call' = [call EXCEPT ![q].phase = "sent"]
    /\ UNCHANGED <<googleVars, during>>

\* The page that follows the token, up to some item.
Page(token, upto) == {i \in present : token < i /\ i <= upto}
More(upto) == \E i \in present : i > upto
OnePage(token, upto) ==
    /\ token <= upto
    /\ Page(token, upto) = {} => ~More(upto)

Adding(listed, page) == [i \in Item |-> IF i \in page THEN listed[i] + 1 ELSE listed[i]]

\* The token of the response is not handed to the next request.
AnswersPage_NoToken(q, upto) ==
    LET listed == Adding(call[q].listed, Page(0, upto)) IN
    /\ call[q].phase = "sent"
    /\ Request(q) = "page"
    /\ OnePage(0, upto)
    /\ IF More(upto)
       THEN call' = [call EXCEPT ![q].phase = "ready", ![q].attempt = 0,
                                 ![q].listed = listed]
       ELSE Proceeds(q, listed)
    /\ UNCHANGED <<googleVars, during>>

\* A page of a list that is fetched until there is no next page.
AnswersPage(q, upto) ==
    LET listed == Adding(call[q].listed, Page(call[q].token, upto)) IN
    /\ call[q].phase = "sent"
    /\ Request(q) = "page"
    /\ OnePage(call[q].token, upto)
    /\ IF More(upto)
       THEN call' = [call EXCEPT ![q].phase = "ready", ![q].attempt = 0,
                                 ![q].listed = listed, ![q].token = upto]
       ELSE Proceeds(q, listed)
    /\ UNCHANGED <<googleVars, during>>

\* The only page asked for: a token in the response is not looked at.
AnswersFirst(q, upto) ==
    /\ call[q].phase = "sent"
    /\ Request(q) = "first"
    /\ OnePage(0, upto)
    /\ Proceeds(q, Adding(NoneListed, Page(0, upto)))
    /\ UNCHANGED <<googleVars, during>>

AnswersRead(q) ==
    /\ call[q].phase = "sent"
    /\ Request(q) \in {"read", "peek"}
    /\ Proceeds(q, call[q].listed)
    /\ UNCHANGED <<googleVars, during>>

\* Only the changes are looked at.
AnswersStatus_Conflicting(q) ==
    /\ call[q].phase = "sent"
    /\ Request(q) = "status"
    /\ IF workspace.changed THEN Proceeds(q, call[q].listed)
       ELSE call' = [call EXCEPT ![q].phase = "done", ![q].answer = "refused"]
    /\ UNCHANGED <<googleVars, during>>

\* create_version goes on only if the workspace has changes and no conflict.
AnswersStatus(q) ==
    /\ call[q].phase = "sent"
    /\ Request(q) = "status"
    /\ IF workspace.changed /\ ~workspace.conflicts THEN Proceeds(q, call[q].listed)
       ELSE call' = [call EXCEPT ![q].phase = "done", ![q].answer = "refused"]
    /\ UNCHANGED <<googleVars, during>>

\* Google carries out the request: the workspace has a change, or its changes
\* have become a version.
Applies(q) ==
    /\ Request(q) \in Writing
    /\ workspace' = [workspace EXCEPT !.changed = Request(q) # "version"]
    /\ during' = [r \in Client |->
            [during[r] EXCEPT !.fit = @ \/ (InProgress(r) /\ Fit(workspace')),
                              !.applied = IF r = q THEN @ + 1 ELSE @]]
    /\ UNCHANGED present

\* A synchronization that Google reports as failed is an answer like any other.
AnswersWrite(q) ==
    /\ call[q].phase = "sent"
    /\ Applies(q)
    /\ Proceeds(q, call[q].listed)

\* 403 or 429.
Limits(q) ==
    /\ call[q].phase = "sent"
    /\ IF Retries(q) THEN call' = [call EXCEPT ![q].phase = "waiting"] ELSE GivesUp(q)
    /\ UNCHANGED <<googleVars, during>>

\* Any other error is taken for a refusal too.
Breaks_Retried(q) ==
    /\ call[q].phase = "sent"
    /\ IF Retries(q) THEN call' = [call EXCEPT ![q].phase = "waiting"] ELSE GivesUp(q)
    /\ Applies(q) \/ UNCHANGED <<googleVars, during>>

\* The error is not looked at.
Breaks_Ignored(q) ==
    /\ call[q].phase = "sent"
    /\ Proceeds(q, call[q].listed)
    /\ Applies(q) \/ UNCHANGED <<googleVars, during>>

\* Any other error, one of them the loss of the answer.
Breaks(q) ==
    /\ call[q].phase = "sent"
    /\ GivesUp(q)
    /\ Applies(q) \/ UNCHANGED <<googleVars, during>>

\* The request of a call that was cancelled meanwhile is carried out or not.
Settles(q) ==
    /\ call[q].phase = "abandoned"
    /\ call' = [call EXCEPT ![q].phase = "done"]
    /\ Applies(q) \/ UNCHANGED <<googleVars, during>>

\* Somebody inserts or deletes an item, edits the workspace or another one of
\* the container, or resolves a conflict.
Edit ==
    /\ \/ \E i \in Item : present' \in {present \cup {i}, present \ {i}} \ {present}
          /\ workspace' = [workspace EXCEPT !.changed = TRUE]
       \/ /\ workspace' \in [changed : BOOLEAN, conflicts : BOOLEAN] \ {workspace}
          /\ UNCHANGED present
    /\ Witnessed
    /\ UNCHANGED call

-----------------------------------------------------------------------------
Serves(q) == Send(q) \/ Refreshes(q) \/ Stop(q) \/ Wake(q)

Answers(q) ==
    \/ \E upto \in 0..Items : AnswersPage(q, upto) \/ AnswersFirst(q, upto)
    \/ Refreshed(q) \/ AnswersRead(q) \/ AnswersStatus(q) \/ AnswersWrite(q)
    \/ Limits(q) \/ Breaks(q) \/ Settles(q)

ToolNext ==
    \/ \E q \in Client :
          \/ \E t \in Tool, given \in {"complete", "unconfirmed", "invalid"} : Calls(q, t, given)
          \/ Cancels(q) \/ Serves(q) \/ Answers(q) \/ Takes(q)
    \/ Edit

ToolSpec == ToolInit /\ [][ToolNext]_toolVars

\* The handler's own steps are taken by its goroutine.
ToolFairness == \A q \in Client : WF_toolVars(Serves(q))

-----------------------------------------------------------------------------
(* Properties.                                                             *)

CallRecord ==
    [plan : Plan, at : Nat \ {0},
     phase : {"idle", "ready", "refreshing", "sent", "waiting", "abandoned", "done"},
     attempt : 0..MaxRetries, token : 0..Items, listed : [Item -> Nat],
     answer : {"none", "ok", "error", "refused"}, cancelled : BOOLEAN]
History == [always : SUBSET Item, ever : SUBSET Item, fit : BOOLEAN, applied : Nat]

\* Every variable holds what its declaration says.
ToolTypeOK ==
    /\ present \subseteq Item
    /\ workspace \in [changed : BOOLEAN, conflicts : BOOLEAN]
    /\ call \in [Client -> CallRecord]
    /\ during \in [Client -> History]

\* "Paged" lists (zones.go:55, folders.go:31, environments.go:39, ...): whatever is
\* inserted or deleted while the pages are fetched, retried or cut off, the
\* answer has every item that was there from the call to its return, none of
\* them twice, and none that was never there.
ListsAreWhole ==
    \A q \in Client :
        /\ \A i \in Item : call[q].listed[i] <= 1
                           /\ (call[q].listed[i] = 1 => i \in during[q].ever)
        /\ call[q].answer = "ok" /\ call[q].plan # <<>> /\ Request(q) = "page" =>
              \A i \in during[q].always : call[q].listed[i] = 1

\* Neither a retry (errors.go:22) nor a lost answer makes Google carry out the
\* write of one call twice: create_tag does not leave two tags.
AppliedAtMostOnce == \A q \in Client : during[q].applied <= 1

\* A call that reports success has done its write, one that was refused has
\* done nothing (tool_version.go:104, tool_delete_tag.go:27).
AnswersAreTrue ==
    \A q \in Client :
        /\ call[q].answer = "ok" /\ call[q].plan # <<>> /\ Request(q) \in Writing =>
              during[q].applied = 1
        /\ call[q].answer = "refused" => during[q].applied = 0

\* create_version reads the status in one request and creates the version in
\* another (tool_version.go:54): the version may hold a conflict, but only one
\* that came up after a moment of the same call without any.
VersionedAfterCheck ==
    \A q \in Client :
        during[q].applied > 0 /\ Request(q) = "version" => during[q].fit

\* What the code leaves to Google: that Tag Manager does not keep a request for
\* ever, and that the token endpoint does not keep a refresh.
RequestsEnd == \A q \in Client : []<>(call[q].phase # "sent")
RefreshesEnd == \A q \in Client : []<>(call[q].phase # "refreshing")

\* If both are answered, with whatever error, every call returns.
EveryToolReturns ==
    RequestsEnd /\ RefreshesEnd => \A q \in Client : InProgress(q) ~> ~InProgress(q)

\* A cancelled call returns even if Tag Manager never answers its request.  A refresh
\* under way must end: google.go:115 gives it neither the call's context nor a deadline.
CancelledToolReturns ==
    RefreshesEnd =>
        \A q \in Client : InProgress(q) /\ call[q].cancelled ~> ~InProgress(q)

\* "ListTags returns all tags in a workspace" (tags.go:37), as ListTriggers and
\* ListVariables say of theirs.
ListsReturnAll ==
    \A q \in Client :
        call[q].answer = "ok" /\ call[q].plan # <<>> /\ Request(q) = "first" =>
            \A i \in during[q].always : call[q].listed[i] = 1
=============================================================================
