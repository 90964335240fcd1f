------------------------------- MODULE SignIns -------------------------------
(***************************************************************************)
(* What an authorization promises those who begin one: it goes forward     *)
(* through its stages, each of them once and in its time, and ends in one  *)
(* session or in none.  The session is of the browser and the verifier     *)
(* that began it.  There are no state rows, codes, cookies or requests     *)
(* here: nothing that one could repeat, exchange or lose.                  *)
(***************************************************************************)
EXTENDS Integers

CONSTANTS Browser, Verifier, Flow, Nobody, StateTTL, CallBound, CodeTTL

VARIABLES
    owner,      \* who began each flow, and when
    stage,
    sessions,
    now

vars == <<owner, stage, sessions, now>>

Init ==
    /\ owner = [f \in Flow |-> Nobody]
    /\ stage = [f \in Flow |-> "new"]
    /\ sessions = {}
    /\ now = 0

Moves(f, from, to) ==
    /\ stage[f] = from
    /\ stage' = [stage EXCEPT ![f] = to]

Age(f) == now - owner[f].at

-----------------------------------------------------------------------------
\* /authorize sends the browser to Google.
Begin(f, b, v) ==
    /\ Moves(f, "new", "pending")
    /\ owner' = [owner EXCEPT ![f] = [browser |-> b, challenge |-> v, at |-> now]]
    /\ UNCHANGED <<sessions, now>>

\* The browser is back from Google.
Return(f) ==
    /\ Moves(f, "pending", "returned")
    /\ Age(f) <= StateTTL
    /\ UNCHANGED <<owner, sessions, now>>

\* Its client gets a code.
Answer(f) ==
    /\ Moves(f, "returned", "coded")
    /\ Age(f) <= StateTTL + CallBound
    /\ UNCHANGED <<owner, sessions, now>>

\* The client spends it.
Grant(f) ==
    /\ Moves(f, "coded", "session")
    /\ Age(f) < StateTTL + CallBound + CodeTTL
    /\ sessions' = sessions \cup {[flow |-> f, user |-> owner[f].browser,
                                   verifier |-> owner[f].challenge, at |-> now]}
    /\ UNCHANGED <<owner, now>>

\* Refused, failed, purged or lost in a restart, for good.
Ends(gone) ==
    /\ \A f \in gone : stage[f] \in {"pending", "returned", "coded"}
    /\ stage' = [f \in Flow |-> IF f \in gone THEN "over" ELSE stage[f]]
    /\ UNCHANGED <<owner, sessions, now>>

TimePasses ==
    /\ now' = now + 1
    /\ UNCHANGED <<owner, stage, sessions>>

Next ==
    \/ \E f \in Flow, b \in Browser, v \in Verifier : Begin(f, b, v)
    \/ \E f \in Flow : Return(f) \/ Answer(f) \/ Grant(f)
    \/ \E gone \in SUBSET Flow : Ends(gone)
    \/ TimePasses

Spec == Init /\ [][Next]_vars
=============================================================================
