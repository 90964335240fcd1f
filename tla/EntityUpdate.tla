---------------------------- MODULE EntityUpdate ----------------------------
(***************************************************************************)
(* How the update, revert and delete tools of gtm/ change an entity of     *)
(* Google Tag Manager: Get the entity, build the new body from it and from *)
(* the input, PUT the whole body with the fingerprint that Get returned.   *)
(* Between the two requests anybody may edit the entity.                   *)
(*                                                                         *)
(* The Tag Manager API is external, modelled as the code uses it: a PUT    *)
(* replaces every field ("The GTM API uses PUT (full replacement)",        *)
(* mutations.go:50), each accepted change gives the entity a fingerprint   *)
(* of its own, and a request whose fingerprint parameter is not the        *)
(* current one is refused with 409.  A request may fail at any point, and  *)
(* an answer may be lost after the request took effect.                    *)
(*                                                                         *)
(* Data.  "name" stands for the name and the type, "body" for the          *)
(* parameters, filters, trigger ids, boundary, links or template code,     *)
(* "notes" for the notes or the description, "rest" for the fields of the  *)
(* entity the tool's input cannot name (its folder, a gallery reference).  *)
(***************************************************************************)
EXTENDS Integers

CONSTANTS
    Entity, Caller,
    Kind,       \* kinds of entity in this instance
    Value,      \* values of a field
    Empty,      \* the value of a field that a body leaves out
    Gone,       \* the entity does not exist
    NoCall,     \* a caller without a tool call
    MaxEdits    \* bound: accepted changes of one entity

Family == {"tag", "trigger", "variable", "client", "transformation", "template", "zone",
           "environment", "gtagConfig", "folder", "workspace", "version", "container",
           "account"}
Field == {"name", "body", "notes", "rest"}
Content == [Field -> Value]

\* The input of a tool gives some of the fields.
Input == UNION {[S -> Value] : S \in SUBSET Field}
NoInput == [f \in {} |-> Empty]
Call == [op : {"update", "revert"}, entity : Entity, input : Input, step : {"get", "put"}]

ASSUME UpdateAssumption ==
    /\ Kind \subseteq Family
    /\ Empty \in Value
    /\ Gone \notin Input
    /\ NoCall \notin Call
    /\ NoCall \notin [entity : Entity, change : Input \cup {Gone}]
    /\ MaxEdits \in Nat

VARIABLES
    kind,           \* kind of each entity; never changes
    base,           \* the entity in the container's current version; never changes
    content,        \* the entity in the workspace
    fingerprint,    \* of that content
    call,           \* the tool call of each caller
    read,           \* the entity it has fetched
    readPrint       \* and the fingerprint of that

entityVars == <<kind, base, content, fingerprint>>
callVars == <<call, read, readPrint>>
vars == <<entityVars, callVars>>

(* The inputs each tool accepts.  Where an empty value cannot be told from *)
(* an omitted one it counts as omitted; elsewhere it clears the field.     *)

Accepting(given, clearable) ==
    {input \in UNION {[S -> Value] : S \in given} :
        \A f \in DOMAIN input \ clearable : input[f] # Empty}

Named(others) == {{"name"} \cup S : S \in SUBSET others}
SomeOf(fields) == (SUBSET fields) \ {{}}

TagInputs == Accepting(SUBSET {"name", "body", "notes"}, {"body"})
TriggerInputs == Accepting(Named({"body", "notes"}), {"body"})
VariableInputs == Accepting(Named({"body", "notes"}), {})
ClientInputs == Accepting(Named({"body", "notes"}), {})
TransformationInputs == Accepting(Named({"body", "notes"}), {})
TemplateInputs == Accepting(SomeOf({"name", "body"}), {})
ZoneInputs == Accepting(SomeOf({"name", "body", "notes"}), {"body", "notes"})
EnvironmentInputs == Accepting(SomeOf({"name", "body", "notes"}), {"body", "notes"})
GtagConfigInputs == Accepting(SomeOf({"name", "body"}), {"body"})
FolderInputs == Accepting(SomeOf({"name", "notes"}), {"notes"})
WorkspaceInputs == Accepting(SomeOf({"name", "notes"}), {"notes"})
VersionInputs == Accepting(SomeOf({"name", "notes"}), {"name", "notes"})
ContainerInputs == Accepting({{"name"}}, {})
AccountInputs == Accepting({{"name"}}, {})

Inputs == [tag |-> TagInputs, trigger |-> TriggerInputs, variable |-> VariableInputs,
           client |-> ClientInputs, transformation |-> TransformationInputs,
           template |-> TemplateInputs, zone |-> ZoneInputs,
           environment |-> EnvironmentInputs, gtagConfig |-> GtagConfigInputs,
           folder |-> FolderInputs, workspace |-> WorkspaceInputs,
           version |-> VersionInputs, container |-> ContainerInputs,
           account |-> AccountInputs]

NotFetched == [f \in Field |-> Empty]

Init ==
    /\ kind \in [Entity -> Kind]
    /\ base \in [Entity -> {[f \in Field |-> v] : v \in Value \ {Empty}} \cup {Gone}]
    /\ content \in [Entity -> {[f \in Field |-> v] : v \in Value \ {Empty}}]
    /\ fingerprint = [e \in Entity |-> 0]
    /\ call = [q \in Caller |-> NoCall]
    /\ read = [q \in Caller |-> NotFetched]
    /\ readPrint = [q \in Caller |-> 0]

-----------------------------------------------------------------------------
(* The bodies: a copy of the fetched entity, or a new object with some of  *)
(* its fields, overridden by the input.                                    *)

Overridden(current, input) ==
    [f \in Field |-> IF f \in DOMAIN input THEN input[f] ELSE current[f]]

Emptied(fields, current) ==
    [f \in Field |-> IF f \in fields THEN Empty ELSE current[f]]

\* The fetched entity, or an object with all of its fields that a PUT can set.
TagBody(current, input) == Overridden(current, input)
ZoneBody(current, input) == Overridden(current, input)
EnvironmentBody(current, input) == Overridden(current, input)
GtagConfigBody(current, input) == Overridden(current, input)
FolderBody(current, input) == Overridden(current, input)
WorkspaceBody(current, input) == Overridden(current, input)
VersionBody(current, input) == Overridden(current, input)
ContainerBody(current, input) == Overridden(current, input)
AccountBody(current, input) == Overridden(current, input)

\* A new object that copies some of the fetched fields.
TriggerBody(current, input) == Overridden(Emptied({"notes", "rest"}, current), input)
TemplateBody(current, input) == Overridden(Emptied({"notes", "rest"}, current), input)

\* A new object from the input alone.
VariableBody(current, input) == Overridden(Emptied({"body", "notes", "rest"}, current), input)
ClientBody(current, input) == Overridden(Emptied({"body", "notes", "rest"}, current), input)
TransformationBody(current, input) ==
    Overridden(Emptied({"body", "notes", "rest"}, current), input)

Body(k, current, input) ==
    CASE k = "tag" -> TagBody(current, input)
      [] k = "trigger" -> TriggerBody(current, input)
      [] k = "variable" -> VariableBody(current, input)
      [] k = "client" -> ClientBody(current, input)
      [] k = "transformation" -> TransformationBody(current, input)
      [] k = "template" -> TemplateBody(current, input)
      [] k = "zone" -> ZoneBody(current, input)
      [] k = "environment" -> EnvironmentBody(current, input)
      [] k = "gtagConfig" -> GtagConfigBody(current, input)
      [] k = "folder" -> FolderBody(current, input)
      [] k = "workspace" -> WorkspaceBody(current, input)
      [] k = "version" -> VersionBody(current, input)
      [] k = "container" -> ContainerBody(current, input)
      [] k = "account" -> AccountBody(current, input)

\* Kinds whose Update call passes current.Fingerprint as the URL parameter.
Protected_None == {}
Protected == Family \ {"template"}

\* Kinds that revert_workspace_entity and revert_folder know.
Revertible == {"client", "tag", "template", "transformation", "trigger", "variable", "zone",
               "folder"}

\* Google accepts a request for e that carries this caller's fingerprint.
Current(q, e) == readPrint[q] = fingerprint[e]

-----------------------------------------------------------------------------
Returns(q) ==
    /\ call' = [call EXCEPT ![q] = NoCall]
    /\ read' = [read EXCEPT ![q] = NotFetched]
    /\ readPrint' = [readPrint EXCEPT ![q] = 0]

Accepted(e, new) ==
    /\ fingerprint[e] < MaxEdits
    /\ content' = [content EXCEPT ![e] = new]
    /\ fingerprint' = [fingerprint EXCEPT ![e] = @ + 1]
    /\ UNCHANGED <<kind, base>>

\* A tool is called: "update" with its input, or "revert".
Calls(q, e, op, input) ==
    /\ call[q] = NoCall
    /\ call' = [call EXCEPT ![q] = [op |-> op, entity |-> e, input |-> input, step |-> "get"]]
    /\ UNCHANGED <<entityVars, read, readPrint>>

Get(q) ==
    LET e == call[q].entity IN
    /\ call[q] # NoCall
    /\ call[q].step = "get"
    /\ content[e] # Gone
    /\ read' = [read EXCEPT ![q] = content[e]]
    /\ readPrint' = [readPrint EXCEPT ![q] = fingerprint[e]]
    /\ call' = [call EXCEPT ![q].step = "put"]
    /\ UNCHANGED entityVars

Put(q) ==
    LET e == call[q].entity IN
    /\ call[q] # NoCall
    /\ call[q].step = "put"
    /\ call[q].op = "update"
    /\ content[e] # Gone
    /\ kind[e] \in Protected => Current(q, e)
    /\ Accepted(e, Body(kind[e], read[q], call[q].input))
    /\ Returns(q)

\* Every kind's Revert call passes the fingerprint.
Revert(q) ==
    LET e == call[q].entity IN
    /\ call[q] # NoCall
    /\ call[q].step = "put"
    /\ call[q].op = "revert"
    /\ content[e] # Gone
    /\ Current(q, e)
    /\ Accepted(e, base[e])
    /\ Returns(q)

\* The Get or the PUT fails: 404, 409, a rate limit past its retries, a network
\* error.  After a PUT that took effect only the answer is lost, which is Put.
Fails(q) ==
    /\ call[q] # NoCall
    /\ Returns(q)
    /\ UNCHANGED entityVars

\* Somebody else: another user, the Tag Manager UI, a delete tool.
Elsewhere(e, input) ==
    /\ content[e] # Gone
    /\ Accepted(e, [f \in Field |-> IF f \in DOMAIN input THEN input[f] ELSE content[e][f]])
    /\ UNCHANGED callVars

Delete(e) ==
    /\ content[e] # Gone
    /\ Accepted(e, Gone)
    /\ UNCHANGED callVars

Next ==
    \/ \E q \in Caller, e \in Entity :
          \/ \E input \in Inputs[kind[e]] : Calls(q, e, "update", input)
          \/ kind[e] \in Revertible /\ Calls(q, e, "revert", NoInput)
    \/ \E q \in Caller : Get(q) \/ Put(q) \/ Revert(q) \/ Fails(q)
    \/ \E e \in Entity :
          \/ \E f \in Field, v \in Value : Elsewhere(e, [g \in {f} |-> v])
          \/ Delete(e)

Spec == Init /\ [][Next]_vars

-----------------------------------------------------------------------------
(* Properties.                                                             *)

\* Every variable holds what its declaration says.
TypeOK ==
    /\ kind \in [Entity -> Kind]
    /\ base \in [Entity -> Content \cup {Gone}]
    /\ content \in [Entity -> Content \cup {Gone}]
    /\ fingerprint \in [Entity -> 0..MaxEdits]
    /\ read \in [Caller -> Content]
    /\ readPrint \in [Caller -> 0..MaxEdits]
    /\ call \in [Caller -> Call \cup {NoCall}]

\* The fields an update of this kind empties when the input omits them, which is
\* not what the documents promise (OmittedFieldsPreserved).
Resets(k) ==
    CASE k = "trigger" -> {"notes", "rest"}
      [] k \in {"variable", "client", "transformation"} -> {"body", "notes", "rest"}
      [] k = "template" -> {"notes", "rest"}
      [] OTHER -> {}

\* What the call is going to do to its entity, in the terms of EntityEdits: the
\* fields that the code writes, asked for or not.  EditsAreAtomic is thus about when
\* they are written, and OmittedFieldsPreserved about which.
Intent(q) ==
    IF call[q] = NoCall THEN NoCall
    ELSE LET e == call[q].entity
             input == call[q].input IN
         [entity |-> e,
          change |-> IF call[q].op = "revert" THEN base[e]
                     ELSE [f \in DOMAIN input \cup Resets(kind[e]) |->
                              IF f \in DOMAIN input THEN input[f] ELSE Empty]]

Atomic == INSTANCE EntityEdits WITH NoChange <- NoCall, pending <- [q \in Caller |-> Intent(q)]

\* ARCHITECTURE.md:81, README.md:335: because of the fingerprint, Get and PUT act as one
\* atomic edit.  An edit made between them is not undone by a body built from the
\* older entity: the tool writes its fields onto the entity as it then is, or is
\* refused (EntityEdits).  Which fields it writes is not restricted here.
EditsAreAtomic == Atomic!Spec

\* "GTM write operations always use fingerprint-based optimistic concurrency"
\* (ARCHITECTURE.md:205): an update that goes through replaces the very content
\* its body was built from.
AlwaysOptimistic ==
    [][\A q \in Caller : \A e \in Entity :
          call[q] # NoCall /\ call[q].entity = e /\ call[q].op = "update"
          /\ call'[q] = NoCall /\ content'[e] # content[e] =>
              read[q] = content[e]]_vars

\* "Fetch current entity (for updates [...] field preservation)", "Merge input onto
\* current (only override provided fields)" (ARCHITECTURE.md:133, :136), and of
\* triggers "Fields not provided in input are preserved" (mutations.go:182): an
\* update leaves the fields that its input omits as they are.
OmittedFieldsPreserved ==
    [][\A q \in Caller : \A e \in Entity :
          call[q] # NoCall /\ call[q].entity = e /\ call[q].op = "update"
          /\ call'[q] = NoCall /\ content'[e] # content[e] =>
              \A f \in Field \ DOMAIN call[q].input : content'[e][f] = content[e][f]]_vars
=============================================================================
