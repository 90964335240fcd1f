--------------------------- MODULE MCEntityUpdate ---------------------------
(* TLC instance of the tools that change entities: EntityUpdate, and the    *)
(* trigger tools of TriggerConditions.  They share no variable, so it is    *)
(* enough that each runs while the other stays as it was at the start, and  *)
(* that the trigger tools run from one of EntityUpdate's initial states.    *)
EXTENDS EntityUpdate, TriggerConditions, TLC

ToolsInit == Init /\ TriggerInit

OneStart == Init /\ \A e \in Entity : kind[e] = "trigger" /\ base[e] = Gone

ToolsNext ==
    \/ TriggerInit /\ Next /\ UNCHANGED triggerVars
    \/ OneStart /\ TriggerNext /\ UNCHANGED vars

ToolsSpec == ToolsInit /\ [][ToolsNext]_<<vars, triggerVars>>

Symmetry == Permutations(Caller)
=============================================================================
