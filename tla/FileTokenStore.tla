--------------------------- MODULE FileTokenStore ---------------------------
(***************************************************************************)
(* FileTokenStore (auth/file_token_store.go): the in-memory store, the     *)
(* JSON file, and the two locks between them.  The memory change of an     *)
(* operation and the write of the file are separate critical sections, so  *)
(* requests interleave between them; RotateToken alone holds both locks    *)
(* until the file has been replaced.                                       *)
(*                                                                         *)
(* Data.  A member of Pair is one access token together with its refresh   *)
(* token: MemoryTokenStore shows that the index keeps the two together.    *)
(* The content of an entry is a revision number that UpdateGoogleToken and *)
(* ExtendTokenExpiry advance.  Time is the set `lapsed` of pairs whose     *)
(* refresh window has closed.  writeSnapshot writes a temporary file and   *)
(* renames it over the old one, so it takes effect at one instant or not   *)
(* at all; the rename is taken to survive a crash of the process.          *)
(***************************************************************************)
EXTENDS Integers

CONSTANTS
    Proc,       \* concurrent callers (HTTP requests)
    Pair,       \* credential pairs
    NoPair,     \* an argument an operation does not have
    NoEntry,    \* the map or the file has no entry for a pair
    Free,       \* no caller holds the lock
    MaxRev      \* bound: revisions of one entry

ASSUME FileStoreAssumption ==
    /\ MaxRev \in Nat
    /\ NoEntry \notin Nat
    /\ NoPair \notin Pair
    /\ Free \notin Proc

VARIABLES
    mem,        \* MemoryTokenStore.tokens: pair -> revision
    disk,       \* the file: pair -> revision
    saveMu,     \* holder of saveMu
    mu,         \* holder of mu across steps (only RotateToken)
    pc,         \* where each caller is
    arg,        \* the pair each caller's operation is about
    new,        \* the successor a rotation installs
    snap,       \* the content each caller is about to write
    up,         \* the process is running
    lapsed,     \* pairs whose refresh window has closed
    issued,     \* history: pairs handed out by GenerateToken
    replaced,   \* history: pairs a rotation has taken off the file
    acked,      \* history: successors whose rotation returned nil
    revoking,   \* history: pairs DeleteToken has been called for
    revoked,    \* history: pairs whose DeleteToken returned nil
    unsaved     \* history: the last persist failed

fileVars == <<mem, disk>>
lockVars == <<saveMu, mu>>
callVars == <<pc, arg, new, snap>>
history == <<issued, replaced, acked, revoking, revoked, unsaved>>
vars == <<fileVars, lockVars, callVars, up, lapsed, history>>

Store == [Pair -> Nat \cup {NoEntry}]
EmptyStore == [k \in Pair |-> NoEntry]
In(store, k) == store[k] # NoEntry

Labels == {"idle", "persist", "persistDelete", "snapshot", "snapshotDelete", "write",
           "writeDelete", "rotate", "rotateWrite", "rotateCommit"}

Init ==
    /\ mem = EmptyStore
    /\ disk = EmptyStore
    /\ saveMu = Free
    /\ mu = Free
    /\ pc = [p \in Proc |-> "idle"]
    /\ arg = [p \in Proc |-> NoPair]
    /\ new = [p \in Proc |-> NoPair]
    /\ snap = [p \in Proc |-> EmptyStore]
    /\ up = TRUE
    /\ lapsed = {}
    /\ issued = {}
    /\ replaced = {}
    /\ acked = {}
    /\ revoking = {}
    /\ revoked = {}
    /\ unsaved = FALSE

-----------------------------------------------------------------------------
(* Memory changes.  A caller that waits for mu has done nothing yet, so    *)
(* taking mu, changing the map and releasing mu is one step.               *)

\* Caller p begins an operation about pair k and goes on at label l.
Begin(p, k, l) ==
    /\ up
    /\ pc[p] = "idle"
    /\ pc' = [pc EXCEPT ![p] = l]
    /\ arg' = [arg EXCEPT ![p] = k]

StoreToken(p, k) ==
    /\ Begin(p, k, "persist")
    /\ mu = Free
    /\ k \notin issued
    /\ mem' = [mem EXCEPT ![k] = 0]
    /\ issued' = issued \cup {k}
    /\ UNCHANGED <<disk, lockVars, new, snap, up, lapsed, replaced, acked, revoking,
                   revoked, unsaved>>

\* UpdateGoogleToken and ExtendTokenExpiry on an entry that exists; on one
\* that does not they return ErrTokenNotFound and change nothing.
UpdateEntry(p, k) ==
    /\ Begin(p, k, "persist")
    /\ mu = Free
    /\ In(mem, k)
    /\ mem[k] < MaxRev
    /\ mem' = [mem EXCEPT ![k] = @ + 1]
    /\ UNCHANGED <<disk, lockVars, new, snap, up, lapsed, history>>

\* Nobody knows the successor of a rotation that has not returned.
DeleteToken(p, k) ==
    /\ Begin(p, k, "persistDelete")
    /\ mu = Free
    /\ k \in issued
    /\ \A q \in Proc : new[q] # k
    /\ mem' = [mem EXCEPT ![k] = NoEntry]
    /\ revoking' = revoking \cup {k}
    /\ UNCHANGED <<disk, lockVars, new, snap, up, lapsed, issued, replaced, acked, revoked,
                   unsaved>>

\* purgeExpired: entries past their window (and past their access expiry,
\* which is left to chance here).  It does not write the file.
PurgeExpired(gone) ==
    /\ up
    /\ mu = Free
    /\ mem' = [k \in Pair |-> IF k \in gone THEN NoEntry ELSE mem[k]]
    /\ UNCHANGED <<disk, lockVars, callVars, up, lapsed, history>>

-----------------------------------------------------------------------------
(* persist: saveMu, then a snapshot under mu.RLock, then the write.        *)

\* persist without saveMu.
PersistLock_NoSaveMu(p) ==
    /\ pc[p] \in {"persist", "persistDelete"}
    /\ pc' = [pc EXCEPT ![p] = IF @ = "persist" THEN "snapshot" ELSE "snapshotDelete"]
    /\ UNCHANGED <<fileVars, lockVars, arg, new, snap, up, lapsed, history>>

PersistLock(p) ==
    /\ pc[p] \in {"persist", "persistDelete"}
    /\ saveMu = Free
    /\ saveMu' = p
    /\ pc' = [pc EXCEPT ![p] = IF @ = "persist" THEN "snapshot" ELSE "snapshotDelete"]
    /\ UNCHANGED <<fileVars, mu, arg, new, snap, up, lapsed, history>>

Snapshot(p) ==
    /\ pc[p] \in {"snapshot", "snapshotDelete"}
    /\ mu = Free
    /\ snap' = [snap EXCEPT ![p] = mem]
    /\ pc' = [pc EXCEPT ![p] = IF @ = "snapshot" THEN "write" ELSE "writeDelete"]
    /\ UNCHANGED <<fileVars, lockVars, arg, new, up, lapsed, history>>

PersistReturns(p) ==
    /\ saveMu' = Free
    /\ pc' = [pc EXCEPT ![p] = "idle"]
    /\ arg' = [arg EXCEPT ![p] = NoPair]
    /\ snap' = [snap EXCEPT ![p] = EmptyStore]

\* writeSnapshot succeeds; DeleteToken returns nil.
WriteFile(p) ==
    /\ pc[p] \in {"write", "writeDelete"}
    /\ disk' = snap[p]
    /\ PersistReturns(p)
    /\ revoked' = IF pc[p] = "writeDelete" THEN revoked \cup {arg[p]} ELSE revoked
    /\ unsaved' = FALSE
    /\ UNCHANGED <<mem, mu, new, up, lapsed, issued, replaced, acked, revoking>>

\* writeSnapshot fails: persistBestEffort logs it, DeleteToken returns it.
WriteFileFails_ReportedAsDone(p) ==
    /\ pc[p] \in {"write", "writeDelete"}
    /\ PersistReturns(p)
    /\ revoked' = IF pc[p] = "writeDelete" THEN revoked \cup {arg[p]} ELSE revoked
    /\ unsaved' = TRUE
    /\ UNCHANGED <<fileVars, mu, new, up, lapsed, issued, replaced, acked, revoking>>

WriteFileFails(p) ==
    /\ pc[p] \in {"write", "writeDelete"}
    /\ PersistReturns(p)
    /\ unsaved' = TRUE
    /\ UNCHANGED <<fileVars, mu, new, up, lapsed, issued, replaced, acked, revoking,
                   revoked>>

-----------------------------------------------------------------------------
(* RotateToken: saveMu, then mu, both held through the write of the file.  *)

\* With a successor that GenerateToken did not draw.
RotateLock_NotGenerated(p, k, k2) ==
    /\ Begin(p, k, "rotate")
    /\ k \in issued
    /\ k2 \notin issued
    /\ saveMu = Free
    /\ saveMu' = p
    /\ new' = [new EXCEPT ![p] = k2]
    /\ UNCHANGED <<fileVars, mu, snap, up, lapsed, history>>

RotateLock(p, k, k2) ==
    /\ Begin(p, k, "rotate")
    /\ k \in issued
    /\ k2 \notin issued
    /\ saveMu = Free
    /\ saveMu' = p
    /\ new' = [new EXCEPT ![p] = k2]
    /\ issued' = issued \cup {k2}
    /\ UNCHANGED <<fileVars, mu, snap, up, lapsed, replaced, acked, revoking, revoked, unsaved>>

\* rotationPredecessorLocked
Rotatable(k) == In(mem, k) /\ k \notin lapsed

RotateReturns(p) ==
    /\ saveMu' = Free
    /\ mu' = Free
    /\ pc' = [pc EXCEPT ![p] = "idle"]
    /\ arg' = [arg EXCEPT ![p] = NoPair]
    /\ new' = [new EXCEPT ![p] = NoPair]
    /\ snap' = [snap EXCEPT ![p] = EmptyStore]

RotateRefused_KeepsSaveMu(p) ==
    /\ pc[p] = "rotate"
    /\ mu = Free
    /\ ~Rotatable(arg[p])
    /\ pc' = [pc EXCEPT ![p] = "idle"]
    /\ arg' = [arg EXCEPT ![p] = NoPair]
    /\ new' = [new EXCEPT ![p] = NoPair]
    /\ UNCHANGED <<fileVars, lockVars, snap, up, lapsed, history>>

\* The predecessor is unknown, replaced meanwhile or out of its window.
RotateRefused(p) ==
    /\ pc[p] = "rotate"
    /\ mu = Free
    /\ ~Rotatable(arg[p])
    /\ RotateReturns(p)
    /\ UNCHANGED <<fileVars, up, lapsed, history>>

\* The snapshot holds every entry but the predecessor, and the successor.
RotateSnapshot_KeepsPredecessor(p) ==
    /\ pc[p] = "rotate"
    /\ mu = Free
    /\ Rotatable(arg[p])
    /\ mu' = p
    /\ snap' = [snap EXCEPT ![p] = [mem EXCEPT ![new[p]] = 0]]
    /\ pc' = [pc EXCEPT ![p] = "rotateWrite"]
    /\ UNCHANGED <<fileVars, saveMu, arg, new, up, lapsed, history>>

RotateSnapshot(p) ==
    /\ pc[p] = "rotate"
    /\ mu = Free
    /\ Rotatable(arg[p])
    /\ mu' = p
    /\ snap' = [snap EXCEPT ![p] = [mem EXCEPT ![arg[p]] = NoEntry, ![new[p]] = 0]]
    /\ pc' = [pc EXCEPT ![p] = "rotateWrite"]
    /\ UNCHANGED <<fileVars, saveMu, arg, new, up, lapsed, history>>

RotateWrite(p) ==
    /\ pc[p] = "rotateWrite"
    /\ disk' = snap[p]
    /\ pc' = [pc EXCEPT ![p] = "rotateCommit"]
    /\ replaced' = replaced \cup {arg[p]}
    /\ unsaved' = FALSE
    /\ UNCHANGED <<mem, lockVars, arg, new, snap, up, lapsed, issued, acked, revoking, revoked>>

\* A failed write that is treated like one of persistBestEffort's.
RotateWriteFails_Commits(p) ==
    /\ pc[p] = "rotateWrite"
    /\ pc' = [pc EXCEPT ![p] = "rotateCommit"]
    /\ replaced' = replaced \cup {arg[p]}
    /\ unsaved' = TRUE
    /\ UNCHANGED <<fileVars, lockVars, arg, new, snap, up, lapsed, issued, acked, revoking,
                   revoked>>

\* The write fails: neither index is touched and the caller gets an error.
RotateWriteFails(p) ==
    /\ pc[p] = "rotateWrite"
    /\ RotateReturns(p)
    /\ UNCHANGED <<fileVars, up, lapsed, history>>

\* commitRotationLocked, and RotateToken returns nil.
RotateCommit(p) ==
    /\ pc[p] = "rotateCommit"
    /\ mem' = [mem EXCEPT ![arg[p]] = NoEntry, ![new[p]] = 0]
    /\ acked' = acked \cup {new[p]}
    /\ RotateReturns(p)
    /\ UNCHANGED <<disk, up, lapsed, issued, replaced, revoking, revoked, unsaved>>

-----------------------------------------------------------------------------
(* Crashes, restarts and the passing of time.                              *)

\* The process dies anywhere; what it holds in memory is gone.
Crash ==
    /\ up
    /\ up' = FALSE
    /\ mem' = EmptyStore
    /\ saveMu' = Free
    /\ mu' = Free
    /\ pc' = [p \in Proc |-> "idle"]
    /\ arg' = [p \in Proc |-> NoPair]
    /\ new' = [p \in Proc |-> NoPair]
    /\ snap' = [p \in Proc |-> EmptyStore]
    /\ UNCHANGED <<disk, lapsed, history>>

Loaded == [k \in Pair |-> IF k \in lapsed THEN NoEntry ELSE disk[k]]

\* NewFileTokenStore: load skips the entries whose window has closed.
Restart ==
    /\ ~up
    /\ up' = TRUE
    /\ mem' = Loaded
    /\ unsaved' = FALSE
    /\ UNCHANGED <<disk, lockVars, callVars, lapsed, issued, replaced, acked, revoking, revoked>>

Lapse(k) ==
    /\ k \in issued \ lapsed
    /\ lapsed' = lapsed \cup {k}
    /\ UNCHANGED <<fileVars, lockVars, callVars, up, history>>

-----------------------------------------------------------------------------
CallStep(p) ==
    \/ PersistLock(p)
    \/ Snapshot(p)
    \/ WriteFile(p)
    \/ WriteFileFails(p)
    \/ RotateRefused(p)
    \/ RotateSnapshot(p)
    \/ RotateWrite(p)
    \/ RotateWriteFails(p)
    \/ RotateCommit(p)

Next ==
    \/ \E p \in Proc, k \in Pair :
          \/ StoreToken(p, k)
          \/ UpdateEntry(p, k)
          \/ DeleteToken(p, k)
          \/ \E k2 \in Pair : RotateLock(p, k, k2)
    \/ \E p \in Proc : CallStep(p)
    \/ \E gone \in SUBSET {k \in lapsed : In(mem, k)} : gone # {} /\ PurgeExpired(gone)
    \/ Crash
    \/ Restart
    \/ \E k \in Pair : Lapse(k)

Spec == Init /\ [][Next]_vars

\* A scheduled goroutine runs on, and a blocked Lock of a sync.Mutex is not
\* overtaken for ever (its starvation mode).
Fairness ==
    \A p \in Proc : WF_vars(CallStep(p)) /\ SF_vars(PersistLock(p))

FairSpec == Spec /\ Fairness

-----------------------------------------------------------------------------
(* Properties.                                                             *)

\* Every variable holds what its declaration says.
TypeOK ==
    /\ mem \in Store
    /\ disk \in Store
    /\ saveMu \in Proc \cup {Free}
    /\ mu \in Proc \cup {Free}
    /\ pc \in [Proc -> Labels]
    /\ arg \in [Proc -> Pair \cup {NoPair}]
    /\ new \in [Proc -> Pair \cup {NoPair}]
    /\ snap \in [Proc -> Store]
    /\ up \in BOOLEAN
    /\ lapsed \in SUBSET issued
    /\ issued \in SUBSET Pair
    /\ replaced \in SUBSET issued
    /\ acked \in SUBSET issued
    /\ revoking \in SUBSET issued
    /\ revoked \in SUBSET revoking
    /\ unsaved \in BOOLEAN

\* A pair that a rotation has replaced is on no later file, and nobody who can
\* take mu finds it in memory: neither a slow snapshot of another request nor a
\* crash and restart brings a rotated-out session back.
ReplacedStaysGone ==
    \A k \in replaced : ~In(disk, k) /\ (mu = Free => ~In(mem, k))

\* "Persistent stores commit before acknowledging success" (token_store.go:83):
\* a successor whose rotation was acknowledged is on the file until it is itself
\* replaced, deleted or out of its window, whatever crashes or writes fail.
AckedSuccessorOnDisk ==
    \A k \in acked \ (replaced \cup revoking \cup lapsed) : In(disk, k)

\* "A revoked token that stays on disk is valid again after a restart, so this
\* is the one path where a persist failure must reach the caller"
\* (file_token_store.go:75): after DeleteToken returned nil the pair is neither
\* in memory nor on the file.
RevokedStaysGone == \A k \in revoked : ~In(disk, k) /\ ~In(mem, k)

\* When no call is under way and the last write succeeded, the file holds what
\* memory holds, purged entries aside: no write of an older snapshot overtakes
\* a newer one.
QuietFileIsCurrent ==
    up /\ ~unsaved /\ (\A p \in Proc : pc[p] = "idle") =>
        \A k \in Pair \ lapsed : disk[k] = mem[k]

\* Every call returns (or the process dies): the two locks are taken in one
\* order and released on every path.
EveryCallReturns == \A p \in Proc : pc[p] # "idle" ~> pc[p] = "idle"

-----------------------------------------------------------------------------
(* The abstract store that this one implements.                            *)

\* What a lookup finds: it waits for mu, so not what a rotation is about to drop.
Visible == [k \in Pair |-> IF k \in replaced THEN NoEntry ELSE mem[k]]

Rotations(label) == {<<arg[p], new[p]>> : p \in {q \in Proc : pc[q] = label}}

\* In neither store, and nothing that is under way would put it there.
Nowhere(k) ==
    /\ ~In(mem, k) /\ ~In(disk, k)
    /\ \A p \in Proc : ~In(snap[p], k) /\ new[p] # k

Ended == {k \in issued : k \in replaced \/ Nowhere(k)}

Durable == INSTANCE DurableStore
               WITH memory <- Visible, file <- disk, claimed <- Rotations("rotateWrite"),
                    written <- Rotations("rotateCommit"), ended <- Ended

\* "Only one caller may succeed; persistent stores commit before acknowledging
\* success" (token_store.go:82): whatever the locks let interleave, callers and
\* restarts see the store of DurableStore.
StoreIsDurable == Durable!Spec
=============================================================================
