------------------------- MODULE TriggerConditions --------------------------
(***************************************************************************)
(* What create_trigger and update_trigger do with the lists of conditions  *)
(* of a trigger.  For clicks, link clicks and form submissions Google      *)
(* drops autoEventFilter without a word (external; tool_update_trigger.go  *)
(* :84), so the server moves those conditions to filter: CreateTrigger and *)
(* UpdateTrigger do it in one way, the handler of update_trigger, which    *)
(* runs before UpdateTrigger, in another.                                  *)
(*                                                                         *)
(* Data.  A list of conditions is a sequence, so that one kept twice or    *)
(* lost is seen; an input list may also be Omitted (nil), which differs    *)
(* from empty in an update.  The companion fields are waitForTags,         *)
(* waitForTagsTimeout and checkValidation.  A call is one step here:       *)
(* EntityUpdate is about what may come in between.  A refused call leaves  *)
(* no trace.                                                               *)
(***************************************************************************)
EXTENDS Integers, Sequences, Functions

CONSTANTS
    Condition,
    MaxListed,      \* bound: conditions in a list of the input
    TriggerType,    \* types of trigger in this instance
    Omitted,        \* a list the input does not have
    NoTrigger, NoAnswer

\* Lists of conditions in an input.
List == UNION {[1..n -> Condition] : n \in 0..MaxListed}

ASSUME ConditionAssumption ==
    /\ MaxListed \in Nat
    /\ Omitted \notin List
    /\ \A list, more \in List : list \o more # Omitted

ClickType == {"linkClick", "formSubmission", "click"}

VARIABLES
    trigger,    \* the trigger in the workspace
    answer      \* to the last call: the lists given, and whether it says "remapped"

triggerVars == <<trigger, answer>>

Given == {Omitted} \cup List
TriggerInput == [type : TriggerType, filter : Given, autoEvent : Given, customEvent : Given]

Some(list) == list \notin {Omitted, <<>>}
Listed(list) == IF list = Omitted THEN <<>> ELSE list

TriggerInit == trigger = NoTrigger /\ answer = NoAnswer

-----------------------------------------------------------------------------
\* Google's copy of the trigger it is sent.
StoredByGoogle(t) == IF t.type \in ClickType THEN [t EXCEPT !.autoEvent = <<>>] ELSE t

\* The remapping of mutations.go: only into an empty filter.
Remapped(input) ==
    IF input.type \in ClickType /\ Some(input.autoEvent) /\ ~Some(input.filter)
    THEN [input EXCEPT !.filter = input.autoEvent, !.autoEvent = Omitted]
    ELSE input

Answers(op, input) ==
    answer' = [op |-> op, filter |-> Listed(input.filter),
               autoEvent |-> Listed(input.autoEvent),
               remapped |-> input.type \in ClickType /\ Some(input.autoEvent)]

NeedsCompanions(input) == input.type \in ClickType /\ Some(input.autoEvent)

CreateTrigger(input) ==
    LET sent == Remapped(input) IN
    /\ trigger = NoTrigger
    /\ trigger' = StoredByGoogle(
          [type |-> input.type, filter |-> Listed(sent.filter),
           autoEvent |-> Listed(sent.autoEvent), customEvent |-> Listed(input.customEvent),
           companions |-> NeedsCompanions(input)])
    /\ Answers("create", input)

\* The conditions are not added to a filter that is given.
Merged_IntoEmptyOnly(input) ==
    IF input.type \in ClickType /\ Some(input.autoEvent)
    THEN [input EXCEPT !.filter = IF Some(input.filter) THEN input.filter ELSE input.autoEvent,
                       !.autoEvent = Omitted]
    ELSE input

\* The remapping of the handler of update_trigger: added to the filter.
Merged(input) ==
    IF input.type \in ClickType /\ Some(input.autoEvent)
    THEN [input EXCEPT !.filter = Listed(input.filter) \o input.autoEvent,
                       !.autoEvent = Omitted]
    ELSE input

Preserved(list, current) == IF list = Omitted THEN current ELSE list

UpdateTrigger(input) ==
    LET passed == Merged(input)
        sent == Remapped(passed) IN
    /\ trigger # NoTrigger
    /\ trigger' = StoredByGoogle(
          [type |-> input.type, filter |-> Preserved(sent.filter, trigger.filter),
           autoEvent |-> Preserved(sent.autoEvent, trigger.autoEvent),
           customEvent |-> Preserved(input.customEvent, trigger.customEvent),
           companions |-> trigger.companions \/ NeedsCompanions(passed)])
    /\ Answers("update", input)

DeleteTrigger ==
    /\ trigger # NoTrigger
    /\ trigger' = NoTrigger
    /\ answer' = NoAnswer

TriggerNext ==
    \/ \E input \in TriggerInput : CreateTrigger(input) \/ UpdateTrigger(input)
    \/ DeleteTrigger

TriggerSpec == TriggerInit /\ [][TriggerNext]_triggerVars

-----------------------------------------------------------------------------
(* Properties.                                                             *)

\* An update that says it has remapped leaves in the filter the conditions it was
\* given, those of both lists: none lost, none kept twice, although two places of
\* the code move them one after the other and disagree on a filter that is given
\* too (tool_update_trigger.go:88, mutations.go:194).  It also says that the filter
\* stored before is replaced, given or not.
UpdateRemapsAll ==
    answer # NoAnswer /\ answer.op = "update" /\ answer.remapped =>
        trigger.filter = answer.filter \o answer.autoEvent

\* "the server remaps those conditions to `filter`" (tool-input-formats.md:38): the
\* conditions an answer says were remapped are in the filter.
RemappedIsInFilter ==
    answer # NoAnswer /\ answer.remapped =>
        Range(answer.autoEvent) \subseteq Range(trigger.filter)
=============================================================================
