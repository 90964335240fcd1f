----------------------------- MODULE MCToolCalls -----------------------------
(* TLC instance of the tools: ToolCalls with every handler of ToolTable,    *)
(* beside the process that serves them and the calls of its file store.     *)
(* The three share nothing, so it is enough that each runs while the others *)
(* stay as they were at the start (one such start): no fair step is enabled *)
(* there.                                                                   *)
EXTENDS ToolCalls, Deployment, FileTokenStore, TLC

Table == INSTANCE ToolTable

Handlers == Table!Registered({"all"})
Served == DOMAIN Handlers
Sent == [t \in Served |-> Handlers[t].requests]
Confirming == {t \in Served : Handlers[t].confirm}

CallsInit == ToolInit /\ DeployInit /\ Init

OneStart == ToolInit /\ present = {} /\ ~workspace.changed /\ ~workspace.conflicts
OneConfig == DeployInit /\ running = [oauth |-> FALSE, key |-> NoKey, path |-> FALSE]

CallsNext ==
    \/ OneConfig /\ Init /\ ToolNext /\ UNCHANGED <<deployVars, vars>>
    \/ OneStart /\ Init /\ DeployNext /\ UNCHANGED <<toolVars, vars>>
    \/ OneStart /\ OneConfig /\ Next /\ UNCHANGED <<toolVars, deployVars>>

CallsSpec ==
    /\ CallsInit /\ [][CallsNext]_<<toolVars, deployVars, vars>>
    /\ ToolFairness /\ Fairness
=============================================================================
