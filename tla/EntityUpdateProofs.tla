------------------------- MODULE EntityUpdateProofs -------------------------
(***************************************************************************)
(* EntityUpdate implements EntityEdits when every kind of entity sends the *)
(* fingerprint: Get and PUT are one atomic edit, for any number of         *)
(* entities, callers, values and edits.  The argument is that a caller     *)
(* whose fingerprint is current holds the current content (ReadIsCurrent), *)
(* so the body it puts is its change applied to what it replaces.          *)
(***************************************************************************)
EXTENDS EntityUpdate, TriggerConditions, TLAPS

\* A fingerprint that a caller holds at its PUT is not ahead of the entity's, and
\* where the two agree nothing was edited since the Get.
ReadIsCurrent ==
    \A q \in Caller : call[q] # NoCall /\ call[q].step = "put" =>
        /\ readPrint[q] <= fingerprint[call[q].entity]
        /\ Current(q, call[q].entity) => read[q] = content[call[q].entity]

IInv == TypeOK /\ ReadIsCurrent

-----------------------------------------------------------------------------
(* A call that is under way is a call, of an entity of some kind.          *)
LEMMA CallTyped ==
    ASSUME TypeOK, NEW q \in Caller, call[q] # NoCall
    PROVE  /\ call[q] \in Call
           /\ call[q].entity \in Entity
           /\ call[q].input \in Input
           /\ kind[call[q].entity] \in Kind
BY DEF TypeOK, Call

(* A content gives every field.                                            *)
LEMMA ContentIsInput == Content \subseteq Input
BY DEF Content, Input

(* An accepted input gives fields.                                         *)
LEMMA AcceptingIsInput ==
    ASSUME NEW given \in SUBSET SUBSET Field, NEW clearable
    PROVE  Accepting(given, clearable) \subseteq Input
BY DEF Accepting, Input

LEMMA InputsAreInput == ASSUME NEW k \in Kind PROVE Inputs[k] \subseteq Input
<1>1. /\ SUBSET {"name", "body", "notes"} \in SUBSET SUBSET Field
      /\ Named({"body", "notes"}) \in SUBSET SUBSET Field
      /\ SomeOf({"name", "body", "notes"}) \in SUBSET SUBSET Field
      /\ SomeOf({"name", "body"}) \in SUBSET SUBSET Field
      /\ SomeOf({"name", "notes"}) \in SUBSET SUBSET Field
      /\ {{"name"}} \in SUBSET SUBSET Field
  BY DEF Named, SomeOf, Field
<1>2. /\ TagInputs \subseteq Input /\ TriggerInputs \subseteq Input
      /\ VariableInputs \subseteq Input /\ ClientInputs \subseteq Input
      /\ TransformationInputs \subseteq Input /\ TemplateInputs \subseteq Input
      /\ ZoneInputs \subseteq Input /\ EnvironmentInputs \subseteq Input
  BY <1>1, AcceptingIsInput DEF TagInputs, TriggerInputs, VariableInputs, ClientInputs,
     TransformationInputs, TemplateInputs, ZoneInputs, EnvironmentInputs
<1>3. /\ GtagConfigInputs \subseteq Input /\ FolderInputs \subseteq Input
      /\ WorkspaceInputs \subseteq Input /\ VersionInputs \subseteq Input
      /\ ContainerInputs \subseteq Input /\ AccountInputs \subseteq Input
  BY <1>1, AcceptingIsInput DEF GtagConfigInputs, FolderInputs, WorkspaceInputs,
     VersionInputs, ContainerInputs, AccountInputs
<1>4. k \in Family
  BY UpdateAssumption
<1>5. QED
  BY <1>2, <1>3, <1>4 DEF Inputs, Family

(* An input with further fields emptied is an input.                       *)
LEMMA ChangeIsInput ==
    ASSUME NEW input \in Input, NEW resets \in SUBSET Field
    PROVE  [f \in DOMAIN input \cup resets |->
                IF f \in DOMAIN input THEN input[f] ELSE Empty] \in Input
<1>1. PICK S \in SUBSET Field : input \in [S -> Value]
  BY DEF Input
<1>2. [f \in DOMAIN input \cup resets |->
           IF f \in DOMAIN input THEN input[f] ELSE Empty] \in [S \cup resets -> Value]
  BY <1>1, UpdateAssumption
<1>3. S \cup resets \in SUBSET Field
  BY <1>1
<1>4. QED
  BY <1>2, <1>3 DEF Input

(* The body of an update is a content.                                     *)
LEMMA BodyIsContent ==
    ASSUME NEW k \in Kind, NEW current \in Content, NEW input \in Input
    PROVE  Body(k, current, input) \in Content
<1>1. \A fields \in SUBSET Field : Emptied(fields, current) \in Content
  BY UpdateAssumption DEF Emptied, Content
<1>2. \A old \in Content : Overridden(old, input) \in Content
  BY DEF Overridden, Content, Input
<1>3. Emptied({"notes", "rest"}, current) \in Content /\ Emptied({"body", "notes", "rest"}, current) \in Content
  BY <1>1 DEF Field
<1>4. Body(k, current, input) \in
        {Overridden(current, input),
         Overridden(Emptied({"notes", "rest"}, current), input),
         Overridden(Emptied({"body", "notes", "rest"}, current), input)}
  BY UpdateAssumption DEF Body, Family, TagBody, TriggerBody, VariableBody, ClientBody,
     TransformationBody, TemplateBody, ZoneBody, EnvironmentBody, GtagConfigBody, FolderBody,
     WorkspaceBody, VersionBody, ContainerBody, AccountBody
<1>5. QED
  BY <1>2, <1>3, <1>4

-----------------------------------------------------------------------------
(* An accepted change keeps what ReadIsCurrent says of the other callers.  *)
LEMMA AcceptedInv ==
    ASSUME IInv, NEW e \in Entity, NEW c \in Content \cup {Gone}, Accepted(e, c)
    PROVE  /\ kind' \in [Entity -> Kind] /\ base' \in [Entity -> Content \cup {Gone}]
           /\ content' \in [Entity -> Content \cup {Gone}]
           /\ fingerprint' \in [Entity -> 0..MaxEdits]
           /\ \A q \in Caller : call[q] # NoCall /\ call[q].step = "put" =>
                /\ readPrint[q] <= fingerprint'[call[q].entity]
                /\ readPrint[q] = fingerprint'[call[q].entity] =>
                      read[q] = content'[call[q].entity]
<1>1. /\ kind' \in [Entity -> Kind] /\ base' \in [Entity -> Content \cup {Gone}]
      /\ content' \in [Entity -> Content \cup {Gone}]
      /\ fingerprint' \in [Entity -> 0..MaxEdits]
  BY UpdateAssumption DEF IInv, TypeOK, Accepted
<1>2. ASSUME NEW q \in Caller, call[q] # NoCall, call[q].step = "put"
      PROVE  /\ readPrint[q] <= fingerprint'[call[q].entity]
             /\ readPrint[q] = fingerprint'[call[q].entity] =>
                      read[q] = content'[call[q].entity]
  <2> DEFINE d == call[q].entity
  <2>1. d \in Entity
    BY <1>2, CallTyped DEF IInv
  <2>2. readPrint[q] <= fingerprint[d] /\ (readPrint[q] = fingerprint[d] => read[q] = content[d])
    BY <1>2 DEF IInv, ReadIsCurrent, Current
  <2>3. readPrint[q] \in Nat /\ fingerprint[d] \in Nat
    BY <2>1, UpdateAssumption DEF IInv, TypeOK
  <2>4. CASE d = e
    BY <2>1, <2>2, <2>3, <2>4 DEF IInv, TypeOK, Accepted
  <2>5. CASE d # e
    BY <2>1, <2>2, <2>5 DEF IInv, TypeOK, Accepted
  <2>6. QED
    BY <2>4, <2>5
<1>3. QED
  BY <1>1, <1>2

(* A caller that returns has nothing left to keep.                         *)
LEMMA ReturnsInv ==
    ASSUME TypeOK, NEW q \in Caller, Returns(q)
    PROVE  /\ call' \in [Caller -> Call \cup {NoCall}]
           /\ read' \in [Caller -> Content]
           /\ readPrint' \in [Caller -> 0..MaxEdits]
           /\ \A p \in Caller : call'[p] # NoCall =>
                call'[p] = call[p] /\ read'[p] = read[p] /\ readPrint'[p] = readPrint[p]
BY UpdateAssumption DEF TypeOK, Returns, NotFetched, Content

LEMMA InitInv == Init => IInv
<1> SUFFICES ASSUME Init PROVE IInv
  OBVIOUS
<1> DEFINE Uniform == {[f \in Field |-> v] : v \in Value \ {Empty}}
<1>1. Uniform \subseteq Content
  BY DEF Content
<1>2. NotFetched \in Content
  BY UpdateAssumption DEF NotFetched, Content
<1>3. TypeOK
  <2>1. base \in [Entity -> Content \cup {Gone}] /\ content \in [Entity -> Content \cup {Gone}]
    <3>1. base \in [Entity -> Uniform \cup {Gone}] /\ content \in [Entity -> Uniform]
      BY DEF Init
    <3>2. QED
      BY <1>1, <3>1
  <2>2. 0 \in 0..MaxEdits
    BY UpdateAssumption
  <2>3. QED
    BY <1>2, <2>1, <2>2 DEF Init, TypeOK
<1>4. ReadIsCurrent
  BY DEF Init, ReadIsCurrent
<1>5. QED
  BY <1>3, <1>4 DEF IInv

(* The step of the induction: one case for each action.                    *)
LEMMA NextInv == IInv /\ [Next]_vars => IInv'
<1> SUFFICES ASSUME IInv, [Next]_vars PROVE IInv'
  OBVIOUS
<1>1. ASSUME NEW q \in Caller, NEW e \in Entity, NEW op \in {"update", "revert"},
             NEW input \in Input, Calls(q, e, op, input)
      PROVE  IInv'
  <2>1. [op |-> op, entity |-> e, input |-> input, step |-> "get"] \in Call
    BY DEF Call
  <2>2. TypeOK'
    BY <1>1, <2>1 DEF IInv, TypeOK, Calls, entityVars
  <2>3. ASSUME NEW p \in Caller, call'[p] # NoCall, call'[p].step = "put"
        PROVE  p # q /\ call'[p] = call[p]
    BY <1>1, <2>3 DEF IInv, TypeOK, Calls
  <2>4. ReadIsCurrent'
    BY <1>1, <2>3 DEF IInv, ReadIsCurrent, Current, Calls, entityVars
  <2>5. QED
    BY <2>2, <2>4 DEF IInv
<1>2. ASSUME NEW q \in Caller, Get(q)
      PROVE  IInv'
  <2> DEFINE e == call[q].entity
  <2>1. call[q] \in Call /\ e \in Entity
    BY <1>2, CallTyped DEF IInv, Get
  <2>2. [call[q] EXCEPT !.step = "put"] \in Call
    BY <2>1 DEF Call
  <2>3. call' = [call EXCEPT ![q] = [call[q] EXCEPT !.step = "put"]]
    BY <1>2 DEF Get
  <2>4. content[e] \in Content /\ fingerprint[e] \in 0..MaxEdits
    BY <1>2, <2>1 DEF IInv, TypeOK, Get
  <2>5. TypeOK'
    BY <1>2, <2>2, <2>3, <2>4 DEF IInv, TypeOK, Get, entityVars
  <2>6. ASSUME NEW p \in Caller, call'[p] # NoCall, call'[p].step = "put"
        PROVE  /\ readPrint'[p] <= fingerprint[call'[p].entity]
               /\ readPrint'[p] = fingerprint[call'[p].entity] =>
                     read'[p] = content[call'[p].entity]
    <3>1. CASE p = q
      <4>1. call'[q].entity = e
        BY <2>1, <2>3 DEF IInv, TypeOK, Call
      <4>2. readPrint'[q] = fingerprint[e] /\ read'[q] = content[e]
        BY <1>2 DEF IInv, TypeOK, Get
      <4>3. QED
        BY <3>1, <4>1, <4>2, <2>4, UpdateAssumption
    <3>2. CASE p # q
      BY <1>2, <2>3, <2>6, <3>2 DEF IInv, TypeOK, ReadIsCurrent, Current, Get
    <3>3. QED
      BY <3>1, <3>2
  <2>7. ReadIsCurrent'
    BY <1>2, <2>6 DEF ReadIsCurrent, Current, Get, entityVars
  <2>8. QED
    BY <2>5, <2>7 DEF IInv
<1>3. ASSUME NEW q \in Caller, NEW e \in Entity, NEW c \in Content \cup {Gone},
             Accepted(e, c), Returns(q)
      PROVE  IInv'
  <2>1. TypeOK'
    BY <1>3, AcceptedInv, ReturnsInv DEF IInv, TypeOK
  <2>2. ReadIsCurrent'
    BY <1>3, AcceptedInv, ReturnsInv DEF IInv, ReadIsCurrent, Current
  <2>3. QED
    BY <2>1, <2>2 DEF IInv
<1>4. ASSUME NEW q \in Caller, Put(q)
      PROVE  IInv'
  <2>1. call[q].entity \in Entity /\ call[q].input \in Input /\ kind[call[q].entity] \in Kind
    BY <1>4, CallTyped DEF IInv, Put
  <2>2. Body(kind[call[q].entity], read[q], call[q].input) \in Content
    BY <2>1, BodyIsContent DEF IInv, TypeOK
  <2>3. QED
    BY <1>3, <1>4, <2>1, <2>2 DEF Put
<1>5. ASSUME NEW q \in Caller, Revert(q)
      PROVE  IInv'
  <2>1. call[q].entity \in Entity
    BY <1>5, CallTyped DEF IInv, Revert
  <2>2. base[call[q].entity] \in Content \cup {Gone}
    BY <2>1 DEF IInv, TypeOK
  <2>3. QED
    BY <1>3, <1>5, <2>1, <2>2 DEF Revert
<1>6. ASSUME NEW q \in Caller, Fails(q)
      PROVE  IInv'
  <2>1. TypeOK'
    BY <1>6, ReturnsInv DEF IInv, TypeOK, Fails, entityVars
  <2>2. ReadIsCurrent'
    BY <1>6, ReturnsInv DEF IInv, ReadIsCurrent, Current, Fails, entityVars
  <2>3. QED
    BY <2>1, <2>2 DEF IInv
<1>7. ASSUME NEW e \in Entity, NEW c \in Content \cup {Gone}, Accepted(e, c), UNCHANGED callVars
      PROVE  IInv'
  <2>1. TypeOK'
    BY <1>7, AcceptedInv DEF IInv, TypeOK, callVars
  <2>2. ReadIsCurrent'
    BY <1>7, AcceptedInv DEF IInv, ReadIsCurrent, Current, callVars
  <2>3. QED
    BY <2>1, <2>2 DEF IInv
<1>8. ASSUME NEW e \in Entity, NEW f \in Field, NEW v \in Value, Elsewhere(e, [g \in {f} |-> v])
      PROVE  IInv'
  <2> DEFINE c == [g \in Field |-> IF g \in DOMAIN [h \in {f} |-> v] THEN [h \in {f} |-> v][g]
                                   ELSE content[e][g]]
  <2>1. content[e] \in Content
    BY <1>8 DEF IInv, TypeOK, Elsewhere
  <2>2. c \in Content
    BY <2>1 DEF Content
  <2>3. Accepted(e, c) /\ UNCHANGED callVars
    BY <1>8 DEF Elsewhere
  <2>4. QED
    BY <1>7, <2>2, <2>3
<1>9. ASSUME NEW e \in Entity, Delete(e)
      PROVE  IInv'
  BY <1>7, <1>9 DEF Delete
<1>10. CASE UNCHANGED vars
  <2>1. TypeOK'
    BY <1>10 DEF IInv, TypeOK, vars, entityVars, callVars
  <2>2. ReadIsCurrent'
    BY <1>10 DEF IInv, ReadIsCurrent, Current, vars, entityVars, callVars
  <2>3. QED
    BY <2>1, <2>2 DEF IInv
<1>11. \A e \in Entity : Inputs[kind[e]] \subseteq Input
  BY InputsAreInput DEF IInv, TypeOK
<1>12. NoInput \in Input
  BY DEF NoInput, Input
<1>13. QED
  BY <1>1, <1>2, <1>4, <1>5, <1>6, <1>8, <1>9, <1>10, <1>11, <1>12 DEF Next

(* The invariant holds in every reachable state.                           *)
THEOREM Invariance == Spec => []IInv
BY InitInv, NextInv, PTL DEF Spec

(* Type correctness.                                                       *)
THEOREM TypeCorrect == Spec => []TypeOK
BY Invariance, PTL DEF IInv

-----------------------------------------------------------------------------
(* The refinement.  Under the mapping of EntityUpdate a call is pending    *)
(* from Calls to Returns.                                                  *)

(* A caller is idle in both specifications at once, and what a call is     *)
(* about to do is a change EntityEdits knows.                              *)
LEMMA IntentType ==
    ASSUME TypeOK, NEW q \in Caller
    PROVE  /\ call[q] = NoCall => Intent(q) = NoCall
           /\ call[q] # NoCall => /\ Intent(q) \in [entity : Entity, change : Input \cup {Gone}]
                                  /\ Intent(q) # NoCall
                                  /\ Intent(q).entity = call[q].entity
<1>1. CASE call[q] = NoCall
  BY <1>1 DEF Intent
<1>2. CASE call[q] # NoCall
  <2> DEFINE e == call[q].entity
             input == call[q].input
             change == IF call[q].op = "revert" THEN base[e]
                       ELSE [f \in DOMAIN input \cup Resets(kind[e]) |->
                                IF f \in DOMAIN input THEN input[f] ELSE Empty]
  <2>1. e \in Entity /\ input \in Input
    BY <1>2, CallTyped
  <2>2. Resets(kind[e]) \subseteq Field
    BY DEF Resets, Field
  <2>3. [f \in DOMAIN input \cup Resets(kind[e]) |->
            IF f \in DOMAIN input THEN input[f] ELSE Empty] \in Input
    BY <2>1, <2>2, ChangeIsInput
  <2>4. base[e] \in Input \cup {Gone}
    BY <2>1, ContentIsInput DEF TypeOK
  <2>5. change \in Input \cup {Gone}
    BY <2>3, <2>4
  <2>6. Intent(q) = [entity |-> e, change |-> change]
    BY <1>2 DEF Intent
  <2> HIDE DEF change
  <2>7. QED
    BY <1>2, <2>1, <2>5, <2>6, UpdateAssumption
<1>3. QED
  BY <1>1, <1>2

(* Applied to the content it was built from, the body of an update is the  *)
(* caller's change.                                                        *)
LEMMA BodyIsChange ==
    ASSUME NEW k \in Kind, NEW current \in Content, NEW input \in Input
    PROVE  Body(k, current, input) =
             Atomic!Overridden(current,
                [f \in DOMAIN input \cup Resets(k) |->
                    IF f \in DOMAIN input THEN input[f] ELSE Empty])
<1>1. k \in Family
  BY UpdateAssumption
<1>2. CASE k \notin {"trigger", "variable", "client", "transformation", "template"}
  <2>1. Body(k, current, input) = Overridden(current, input)
    BY <1>1, <1>2 DEF Body, Family, TagBody, ZoneBody, EnvironmentBody, GtagConfigBody,
       FolderBody, WorkspaceBody, VersionBody, ContainerBody, AccountBody
  <2>2. Resets(k) = {}
    BY <1>2 DEF Resets
  <2>3. QED
    BY <2>1, <2>2 DEF Overridden, Atomic!Overridden
<1>3. CASE k \in {"variable", "client", "transformation"}
  <2>1. Body(k, current, input) = Overridden(Emptied({"body", "notes", "rest"}, current), input)
    BY <1>3 DEF Body, VariableBody, ClientBody, TransformationBody
  <2>2. Resets(k) = {"body", "notes", "rest"}
    BY <1>3 DEF Resets
  <2>3. QED
    BY <2>1, <2>2 DEF Emptied, Overridden, Atomic!Overridden, Field
<1>4. CASE k = "trigger"
  BY <1>4 DEF Body, Resets, TriggerBody, Emptied, Overridden, Atomic!Overridden, Field
<1>5. CASE k = "template"
  BY <1>5 DEF Body, Resets, TemplateBody, Emptied, Overridden, Atomic!Overridden, Field
<1>6. QED
  BY <1>1, <1>2, <1>3, <1>4, <1>5

\* What each caller has pending.
Intents == [q \in Caller |-> Intent(q)]

(* A step that leaves the entities alone leaves alone what each caller     *)
(* whose call it does not change has pending.                              *)
LEMMA IntentKept ==
    ASSUME NEW p, call'[p] = call[p], UNCHANGED <<kind, base>>
    PROVE  Intent(p)' = Intent(p)
BY DEF Intent

(* A caller that returns has nothing pending any more.                     *)
LEMMA ReturnsPending ==
    ASSUME TypeOK, NEW q \in Caller, Returns(q), UNCHANGED <<kind, base>>
    PROVE  Intents' = [Intents EXCEPT ![q] = NoCall]
<1>1. Intent(q)' = NoCall
  BY DEF Intent, Returns, TypeOK
<1>2. \A p \in Caller \ {q} : Intent(p)' = Intent(p)
  BY IntentKept DEF Returns, TypeOK
<1>3. QED
  BY <1>1, <1>2 DEF Intents

(* The initial states map to initial states.                               *)
LEMMA InitMaps == Init => Atomic!Init
<1> SUFFICES ASSUME Init PROVE Atomic!Init
  OBVIOUS
<1> DEFINE Uniform == {[f \in Field |-> v] : v \in Value \ {Empty}}
<1>1. Uniform \subseteq Content
  BY DEF Content
<1>2. content \in [Entity -> Uniform]
  BY DEF Init
<1>3. content \in [Entity -> Content]
  BY <1>1, <1>2
<1>4. [q \in Caller |-> Intent(q)] = [q \in Caller |-> NoCall]
  BY DEF Init, Intent
<1>5. QED
  BY <1>3, <1>4 DEF Atomic!Init, Atomic!Content, Content

(* Every step maps to a step of EntityEdits or to none.                    *)
LEMMA NextMaps ==
    ASSUME Kind \subseteq Protected, IInv, [Next]_vars
    PROVE  [Atomic!Next]_(Atomic!vars)
<1> USE DEF Intents
<1>0. TypeOK
  BY DEF IInv
<1>1. ASSUME NEW q \in Caller, NEW e \in Entity, NEW op \in {"update", "revert"},
             NEW input \in Input, Calls(q, e, op, input)
      PROVE  Atomic!Ask(q)
  <2>1. Intents[q] = NoCall
    BY <1>0, <1>1, IntentType DEF Calls
  <2>2. call'[q] # NoCall
    <3>1. [op |-> op, entity |-> e, input |-> input, step |-> "get"] \in Call
      BY DEF Call
    <3>2. QED
      BY <1>0, <1>1, <3>1, UpdateAssumption DEF Calls, TypeOK
  <2>3. Intents'[q] \in [entity : Entity, change : Input \cup {Gone}]
    <3> DEFINE change == [f \in DOMAIN input \cup Resets(kind[e]) |->
                             IF f \in DOMAIN input THEN input[f] ELSE Empty]
    <3>1. call'[q] = [op |-> op, entity |-> e, input |-> input, step |-> "get"]
      BY <1>0, <1>1 DEF Calls, TypeOK
    <3>2. kind' = kind /\ base' = base
      BY <1>1 DEF Calls, entityVars
    <3>3. Intent(q)' = [entity |-> e, change |-> IF op = "revert" THEN base[e] ELSE change]
      BY <2>2, <3>1, <3>2 DEF Intent
    <3>4. base[e] \in Input \cup {Gone}
      BY <1>0, ContentIsInput DEF TypeOK
    <3>5. change \in Input
      <4>1. Resets(kind[e]) \subseteq Field
        BY DEF Resets, Field
      <4>2. QED
        BY <4>1, ChangeIsInput
    <3> HIDE DEF change
    <3>6. QED
      BY <3>3, <3>4, <3>5
  <2>4. \A p \in Caller \ {q} : Intent(p)' = Intent(p)
    BY <1>0, <1>1, IntentKept DEF Calls, TypeOK, entityVars
  <2>5. Intents' = [Intents EXCEPT ![q] = Intents'[q]]
    BY <2>4
  <2>6. UNCHANGED content
    BY <1>1 DEF Calls, entityVars
  <2>7. Intents'[q] \in Atomic!Pending
    <3>1. Atomic!Change = Input \cup {Gone}
      BY DEF Atomic!Change, Input
    <3>2. Atomic!Pending = [entity : Entity, change : Input \cup {Gone}]
      BY <3>1 DEF Atomic!Pending
    <3>3. QED
      BY <2>3, <3>2
  <2>8. QED
    BY <2>1, <2>5, <2>6, <2>7 DEF Atomic!Ask
<1>2. ASSUME NEW q \in Caller, Get(q)
      PROVE  UNCHANGED Atomic!vars
  <2>1. call' = [call EXCEPT ![q] = [call[q] EXCEPT !.step = "put"]]
    BY <1>2 DEF Get
  <2>2. call[q] \in Call /\ [call[q] EXCEPT !.step = "put"] \in Call
    BY <1>0, <1>2, CallTyped DEF Get, Call
  <2>3. /\ call'[q] # NoCall /\ call[q] # NoCall
        /\ call'[q].entity = call[q].entity
        /\ call'[q].op = call[q].op
        /\ call'[q].input = call[q].input
    BY <1>0, <2>1, <2>2, UpdateAssumption DEF TypeOK, Call
  <2>4. Intent(q)' = Intent(q)
    BY <1>2, <2>3 DEF Intent, Get, entityVars
  <2>5. \A p \in Caller \ {q} : Intent(p)' = Intent(p)
    BY <1>0, <1>2, <2>1, IntentKept DEF Get, TypeOK, entityVars
  <2>6. QED
    BY <1>2, <2>4, <2>5 DEF Atomic!vars, Get, entityVars
<1>3. ASSUME NEW q \in Caller, Put(q)
      PROVE  Atomic!Apply(q)
  <2> DEFINE e == call[q].entity
             change == [f \in DOMAIN call[q].input \cup Resets(kind[e]) |->
                           IF f \in DOMAIN call[q].input THEN call[q].input[f] ELSE Empty]
  <2>1. /\ call[q] \in Call /\ e \in Entity /\ call[q].input \in Input /\ kind[e] \in Kind
        /\ call[q] # NoCall /\ call[q].op = "update"
    BY <1>0, <1>3, CallTyped DEF Put
  <2>2. read[q] = content[e] /\ content[e] # Gone
    BY <1>3, <2>1 DEF IInv, ReadIsCurrent, Put
  <2>3. Intents[q] # NoCall /\ Intents[q].entity = e /\ Intents[q].change = change
    <3>1. Intents[q] # NoCall /\ Intents[q].entity = e
      BY <1>0, <2>1, IntentType
    <3>2. Intent(q) = [entity |-> e, change |-> change]
      BY <2>1 DEF Intent
    <3>3. QED
      BY <3>1, <3>2
  <2>4. change # Gone
    <3>1. Resets(kind[e]) \subseteq Field
      BY DEF Resets, Field
    <3>2. change \in Input
      BY <2>1, <3>1, ChangeIsInput
    <3>3. QED
      BY <3>2, UpdateAssumption
  <2>5. Body(kind[e], read[q], call[q].input) = Atomic!Overridden(content[e], change)
    <3>1. read[q] \in Content
      BY <1>0 DEF TypeOK
    <3>2. QED
      BY <2>1, <2>2, <3>1, BodyIsChange
  <2>6. content' = [content EXCEPT ![e] = Atomic!Overridden(content[e], change)]
    BY <1>3, <2>5 DEF Put, Accepted
  <2>7. Intents' = [Intents EXCEPT ![q] = NoCall]
    BY <1>0, <1>3, ReturnsPending DEF Put, Accepted
  <2> HIDE DEF change
  <2>8. QED
    BY <2>2, <2>3, <2>4, <2>6, <2>7 DEF Atomic!Apply, Atomic!Outcome
<1>4. ASSUME NEW q \in Caller, Revert(q)
      PROVE  Atomic!Apply(q)
  <2> DEFINE e == call[q].entity
  <2>1. call[q] # NoCall /\ e \in Entity /\ content[e] # Gone /\ call[q].op = "revert"
    BY <1>0, <1>4, CallTyped DEF Revert
  <2>2. Intents[q] # NoCall /\ Intents[q].entity = e /\ Intents[q].change = base[e]
    <3>1. Intents[q] # NoCall /\ Intents[q].entity = e
      BY <1>0, <2>1, IntentType
    <3>2. Intent(q) = [entity |-> e, change |-> base[e]]
      BY <2>1 DEF Intent
    <3>3. QED
      BY <3>1, <3>2
  <2>3. base[e] = Atomic!Outcome(content[e], base[e])
    <3>1. CASE base[e] = Gone
      BY <3>1 DEF Atomic!Outcome
    <3>2. CASE base[e] # Gone
      <4>1. base[e] \in Content
        BY <1>0, <2>1, <3>2 DEF TypeOK
      <4>2. Atomic!Overridden(content[e], base[e]) = base[e]
        BY <4>1 DEF Atomic!Overridden, Content
      <4>3. QED
        BY <3>2, <4>2 DEF Atomic!Outcome
    <3>3. QED
      BY <3>1, <3>2
  <2>4. content' = [content EXCEPT ![e] = Atomic!Outcome(content[e], base[e])]
    BY <1>4, <2>3 DEF Revert, Accepted
  <2>5. Intents' = [Intents EXCEPT ![q] = NoCall]
    BY <1>0, <1>4, ReturnsPending DEF Revert, Accepted
  <2>6. QED
    BY <2>1, <2>2, <2>4, <2>5 DEF Atomic!Apply
<1>5. ASSUME NEW q \in Caller, Fails(q)
      PROVE  Atomic!Refuse(q)
  <2>1. Intents[q] # NoCall
    BY <1>0, <1>5, IntentType DEF Fails
  <2>2. Intents' = [Intents EXCEPT ![q] = NoCall]
    BY <1>0, <1>5, ReturnsPending DEF Fails, entityVars
  <2>3. QED
    BY <1>5, <2>1, <2>2 DEF Atomic!Refuse, Fails, entityVars
<1>6. ASSUME NEW e \in Entity, NEW c \in Content \cup {Gone}, content[e] # Gone,
             Accepted(e, c), UNCHANGED callVars
      PROVE  Atomic!Elsewhere(e)
  <2>1. Intents' = Intents
    BY <1>6, IntentKept DEF Accepted, callVars
  <2>2. content' = [content EXCEPT ![e] = c] /\ content'[e] = c
    BY <1>0, <1>6 DEF Accepted, TypeOK
  <2>3. QED
    BY <1>6, <2>1, <2>2 DEF Atomic!Elsewhere, Atomic!Content, Content
<1>7. ASSUME NEW e \in Entity, NEW f \in Field, NEW v \in Value, Elsewhere(e, [g \in {f} |-> v])
      PROVE  Atomic!Elsewhere(e)
  <2> DEFINE c == [g \in Field |-> IF g \in DOMAIN [h \in {f} |-> v] THEN [h \in {f} |-> v][g]
                                   ELSE content[e][g]]
  <2>1. content[e] \in Content
    BY <1>0, <1>7 DEF TypeOK, Elsewhere
  <2>2. c \in Content
    BY <2>1 DEF Content
  <2>3. Accepted(e, c) /\ UNCHANGED callVars /\ content[e] # Gone
    BY <1>7 DEF Elsewhere
  <2>4. QED
    BY <1>6, <2>2, <2>3
<1>8. ASSUME NEW e \in Entity, Delete(e)
      PROVE  Atomic!Elsewhere(e)
  BY <1>6, <1>8 DEF Delete
<1>9. CASE UNCHANGED vars
  <2>1. Intents' = Intents
    BY <1>9, IntentKept DEF vars, entityVars, callVars
  <2>2. QED
    BY <1>9, <2>1 DEF Atomic!vars, vars, entityVars
<1>10. \A e \in Entity : Inputs[kind[e]] \subseteq Input
  BY InputsAreInput DEF IInv, TypeOK
<1>11. NoInput \in Input
  BY DEF NoInput, Input
<1>12. QED
  BY <1>1, <1>2, <1>3, <1>4, <1>5, <1>7, <1>8, <1>9, <1>10, <1>11 DEF Next, Atomic!Next

(* Get, merge and PUT with the fingerprint implement atomic edits: whatever *)
(* is edited between the requests of a tool, no edit is undone by a body    *)
(* built from the older entity.                                             *)
THEOREM ImplementsEdits == Kind \subseteq Protected => (Spec => EditsAreAtomic)
<1> SUFFICES ASSUME Kind \subseteq Protected PROVE Spec => EditsAreAtomic
  OBVIOUS
<1>1. IInv /\ [Next]_vars => [Atomic!Next]_(Atomic!vars)
  BY NextMaps
<1>2. QED
  BY <1>1, InitMaps, Invariance, PTL DEF Spec, EditsAreAtomic, Atomic!Spec

-----------------------------------------------------------------------------
(* TriggerConditions.                                                      *)

\* The two remappings of an update, one after the other: the handler's leaves
\* nothing for that of mutations.go, and the filter is what was given.
LEMMA UpdateRemaps ==
    ASSUME NEW input \in TriggerInput, UpdateTrigger(input)
    PROVE  UpdateRemapsAll'
<1> DEFINE passed == Merged(input)
<1>1. answer' = [op |-> "update", filter |-> Listed(input.filter),
                 autoEvent |-> Listed(input.autoEvent),
                 remapped |-> input.type \in ClickType /\ Some(input.autoEvent)]
      BY DEF UpdateTrigger, Answers
<1>2. CASE ~(input.type \in ClickType /\ Some(input.autoEvent))
      BY <1>1, <1>2 DEF UpdateRemapsAll
<1>3. CASE input.type \in ClickType /\ Some(input.autoEvent)
  <2>1. /\ input.filter \in Given /\ input.autoEvent \in Given \ {Omitted}
        /\ Listed(input.filter) \in List
    <3>1. input.filter \in Given /\ input.autoEvent \in Given \ {Omitted}
          BY <1>3 DEF TriggerInput, Some
    <3>2. <<>> \in List
      <4>1. <<>> \in [1..0 -> Condition] OBVIOUS
      <4>2. 0 \in 0..MaxListed BY ConditionAssumption
      <4> QED BY <4>1, <4>2 DEF List
    <3> QED BY <3>1, <3>2 DEF Given, Listed
  <2>2. /\ passed.filter = Listed(input.filter) \o input.autoEvent
        /\ passed.autoEvent = Omitted
        BY <1>3 DEF Merged, TriggerInput
  <2>3. Remapped(passed) = passed BY <2>2 DEF Remapped, Some
  <2>4. passed.filter # Omitted BY <2>1, <2>2, ConditionAssumption DEF Given
  <2>5. trigger'.filter = passed.filter
        BY <2>3, <2>4 DEF UpdateTrigger, StoredByGoogle, Preserved
  <2> QED BY <1>1, <2>1, <2>2, <2>5 DEF UpdateRemapsAll, Listed, Given
<1> QED BY <1>2, <1>3

\* An update of a trigger that says it has remapped leaves in the filter the
\* conditions of both lists, each as often as given (tool_update_trigger.go:88),
\* whatever conditions both lists hold and however many.
THEOREM UpdateRemapped == TriggerSpec => []UpdateRemapsAll
<1>1. TriggerInit => UpdateRemapsAll BY DEF TriggerInit, UpdateRemapsAll
<1>2. UpdateRemapsAll /\ [TriggerNext]_triggerVars => UpdateRemapsAll'
  <2> SUFFICES ASSUME UpdateRemapsAll, [TriggerNext]_triggerVars PROVE UpdateRemapsAll'
      OBVIOUS
  <2>1. ASSUME NEW input \in TriggerInput, CreateTrigger(input) PROVE UpdateRemapsAll'
        BY <2>1 DEF CreateTrigger, Answers, UpdateRemapsAll
  <2>2. CASE DeleteTrigger BY <2>2 DEF DeleteTrigger, UpdateRemapsAll
  <2>3. CASE UNCHANGED triggerVars BY <2>3 DEF triggerVars, UpdateRemapsAll
  <2> QED BY <2>1, <2>2, <2>3, UpdateRemaps DEF TriggerNext
<1> QED BY <1>1, <1>2, PTL DEF TriggerSpec
=============================================================================
