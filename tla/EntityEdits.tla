----------------------------- MODULE EntityEdits -----------------------------
(***************************************************************************)
(* What the update tools of gtm/ promise of a Google Tag Manager entity    *)
(* that several people edit: each request takes effect once, on the entity *)
(* as it is at that moment, and writes the fields of its change and no     *)
(* other, or is refused and changes nothing.                               *)
(***************************************************************************)
CONSTANTS
    Entity, Caller, Field, Value,
    Gone,       \* the entity does not exist
    NoChange    \* the caller has no request pending

Content == [Field -> Value]

\* What a request is going to do: new values for some fields, or the whole content
\* of the container's current version, where the entity may not exist.
Change == (UNION {[S -> Value] : S \in SUBSET Field}) \cup {Gone}
Pending == [entity : Entity, change : Change]

VARIABLES content, pending

vars == <<content, pending>>

Init ==
    /\ content \in [Entity -> Content]
    /\ pending = [q \in Caller |-> NoChange]

Overridden(old, change) ==
    [f \in Field |-> IF f \in DOMAIN change THEN change[f] ELSE old[f]]

Outcome(old, change) == IF change = Gone THEN Gone ELSE Overridden(old, change)

\* The caller asks for a change.
Ask(q) ==
    /\ pending[q] = NoChange
    /\ pending'[q] \in Pending
    /\ pending' = [pending EXCEPT ![q] = pending'[q]]
    /\ UNCHANGED content

Apply(q) ==
    LET e == pending[q].entity IN
    /\ pending[q] # NoChange
    /\ content[e] # Gone
    /\ content' = [content EXCEPT ![e] = Outcome(@, pending[q].change)]
    /\ pending' = [pending EXCEPT ![q] = NoChange]

Refuse(q) ==
    /\ pending[q] # NoChange
    /\ pending' = [pending EXCEPT ![q] = NoChange]
    /\ UNCHANGED content

\* Somebody else edits or removes the entity.
Elsewhere(e) ==
    /\ content[e] # Gone
    /\ content'[e] \in Content \cup {Gone}
    /\ content' = [content EXCEPT ![e] = content'[e]]
    /\ UNCHANGED pending

Next ==
    \/ \E q \in Caller : Ask(q) \/ Apply(q) \/ Refuse(q)
    \/ \E e \in Entity : Elsewhere(e)

Spec == Init /\ [][Next]_vars
=============================================================================
