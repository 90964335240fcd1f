---------------------------- MODULE DurableStore ----------------------------
(***************************************************************************)
(* What a persistent TokenStore promises those who call it                 *)
(* (token_store.go:72): a memory that its operations change at one instant *)
(* each, and a file that follows it.  There are no locks and no snapshots  *)
(* here: a write may be of what the memory was a while ago, but it never   *)
(* takes an entry of the file back to an earlier revision, drops one that  *)
(* has not been deleted, replaced or outlived, or brings back a pair that  *)
(* has ended.  A rotation is one change of both, and is acknowledged when  *)
(* its successor is on the file.                                           *)
(***************************************************************************)
EXTENDS Integers

CONSTANTS Pair, NoEntry

VARIABLES
    up,         \* the process is running
    memory,     \* what a lookup finds: pair -> revision
    file,       \* what a restart finds: pair -> revision
    lapsed,     \* pairs whose refresh window has closed
    issued,     \* pairs that were drawn
    claimed,    \* rotations that found their predecessor valid: <<old, successor>>
    written,    \* rotations on the file and not acknowledged yet
    replaced,   \* predecessors of the rotations on the file
    acked,      \* successors whose caller was told so
    revoking,   \* pairs whose deletion was asked for
    revoked,    \* pairs whose caller was told they are deleted
    ended       \* pairs that never come back

stores == <<memory, file>>
rotations == <<claimed, written, replaced, acked>>
deletions == <<revoking, revoked>>
vars == <<up, stores, lapsed, issued, rotations, deletions, ended>>

Store == [Pair -> Nat \cup {NoEntry}]
EmptyStore == [k \in Pair |-> NoEntry]
In(store, k) == store[k] # NoEntry

Init ==
    /\ up = TRUE
    /\ memory = EmptyStore /\ file = EmptyStore
    /\ lapsed = {} /\ issued = {} /\ ended = {}
    /\ claimed = {} /\ written = {} /\ replaced = {} /\ acked = {}
    /\ revoking = {} /\ revoked = {}

\* A pair ends once, and is then neither in memory nor on the file; so does one
\* that was replaced, one whose deletion was confirmed and one that left the file.
Ends ==
    /\ ended \subseteq ended'
    /\ replaced' \cup revoked' \cup {k \in Pair : In(file, k) /\ ~In(file', k)} \subseteq ended'
    /\ \A k \in ended' : ~In(memory', k) /\ ~In(file', k)

-----------------------------------------------------------------------------
\* A credential is drawn.
Draw(k) ==
    /\ k \notin issued
    /\ issued' = issued \cup {k}
    /\ UNCHANGED <<up, stores, lapsed, rotations, deletions>>

StoreToken(k) ==
    /\ up
    /\ k \notin issued
    /\ issued' = issued \cup {k}
    /\ memory' = [memory EXCEPT ![k] = 0]
    /\ UNCHANGED <<up, file, lapsed, rotations, deletions>>

UpdateEntry(k) ==
    /\ In(memory, k)
    /\ memory' = [memory EXCEPT ![k] = @ + 1]
    /\ UNCHANGED <<up, file, lapsed, issued, rotations, deletions>>

\* The client does not know the successor of a rotation that is under way.
DeleteToken(k) ==
    /\ up
    /\ k \in issued
    /\ \A r \in claimed \cup written : r[2] # k
    /\ memory' = [memory EXCEPT ![k] = NoEntry]
    /\ revoking' = revoking \cup {k}
    /\ UNCHANGED <<up, file, lapsed, issued, rotations, revoked>>

Purge(gone) ==
    /\ memory' = [k \in Pair |-> IF k \in gone THEN NoEntry ELSE memory[k]]
    /\ UNCHANGED <<up, file, lapsed, issued, rotations, deletions>>

\* The file becomes what the memory was, now or a while ago.
Follows ==
    /\ up
    /\ file' \in Store
    /\ \A k \in Pair :
          /\ In(file, k) => In(file', k) \/ k \in revoking \cup lapsed
          /\ In(file, k) /\ In(file', k) => file'[k] >= file[k]
          /\ In(memory, k) /\ In(file', k) => file'[k] <= memory[k]
    /\ UNCHANGED <<up, memory, lapsed, issued, rotations, revoking>>

Save == Follows /\ UNCHANGED revoked

\* The write of a deletion, which is confirmed.
SaveDeletion(k) ==
    /\ Follows
    /\ k \in revoking
    /\ revoked' = revoked \cup {k}

-----------------------------------------------------------------------------
Claim(old, successor) ==
    /\ In(memory, old)
    /\ old \notin lapsed
    /\ successor \in issued \ (revoking \cup ended)
    /\ ~In(memory, successor) /\ ~In(file, successor)
    /\ claimed' = claimed \cup {<<old, successor>>}
    /\ UNCHANGED <<up, stores, lapsed, issued, written, replaced, acked, deletions>>

\* Of the rotations of one pair one at most gets here: the next does not find it.
Replace(old, successor) ==
    /\ In(memory, old)
    /\ memory' = [memory EXCEPT ![old] = NoEntry]
    /\ file' = [memory EXCEPT ![old] = NoEntry, ![successor] = 0]
    /\ claimed' = claimed \ {<<old, successor>>}
    /\ written' = written \cup {<<old, successor>>}
    /\ replaced' = replaced \cup {old}
    /\ UNCHANGED <<up, lapsed, issued, acked, deletions>>

GiveUp(old, successor) ==
    /\ claimed' = claimed \ {<<old, successor>>}
    /\ UNCHANGED <<up, stores, lapsed, issued, written, replaced, acked, deletions>>

Acknowledge(old, successor) ==
    /\ In(file, successor)
    /\ memory' = [memory EXCEPT ![successor] = 0]
    /\ written' = written \ {<<old, successor>>}
    /\ acked' = acked \cup {successor}
    /\ UNCHANGED <<up, file, lapsed, issued, claimed, replaced, deletions>>

-----------------------------------------------------------------------------
Crash ==
    /\ up' = FALSE
    /\ memory' = EmptyStore
    /\ claimed' = {} /\ written' = {}
    /\ UNCHANGED <<file, lapsed, issued, replaced, acked, deletions>>

Restart ==
    /\ ~up
    /\ up' = TRUE
    /\ memory' = [k \in Pair |-> IF k \in lapsed THEN NoEntry ELSE file[k]]
    /\ UNCHANGED <<file, lapsed, issued, rotations, deletions>>

Lapse(k) ==
    /\ lapsed' = lapsed \cup {k}
    /\ UNCHANGED <<up, stores, issued, rotations, deletions>>

\* Nobody is left who would store the pair.
Forget == UNCHANGED <<up, stores, lapsed, issued, rotations, deletions>>

Next ==
    /\ \/ \E k \in Pair :
              \/ Draw(k) \/ StoreToken(k) \/ UpdateEntry(k) \/ DeleteToken(k)
              \/ SaveDeletion(k) \/ Lapse(k)
       \/ \E old, successor \in Pair : Claim(old, successor)
       \/ \E r \in claimed : Replace(r[1], r[2]) \/ GiveUp(r[1], r[2])
       \/ \E r \in written : Acknowledge(r[1], r[2])
       \/ \E gone \in SUBSET lapsed : Purge(gone)
       \/ Save \/ Crash \/ Restart \/ Forget
    /\ Ends

Spec == Init /\ [][Next]_vars
=============================================================================
