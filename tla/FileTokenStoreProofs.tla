------------------------ MODULE FileTokenStoreProofs ------------------------
(***************************************************************************)
(* The safety properties of FileTokenStore, for any number of callers and  *)
(* pairs: no interleaving of memory changes, snapshots, failed writes and  *)
(* crashes brings a replaced or revoked pair back or loses a successor.    *)
(*                                                                         *)
(* The locks are the program counters seen from the other side (Locks); so *)
(* there is one snapshot under way at most, and the invariant says what it *)
(* may hold, and what it may lack of the memory. From it follow the        *)
(* durable store of DurableStore, that no call waits for ever on a lock    *)
(* and that each call takes a bounded number of steps.                     *)
(***************************************************************************)
EXTENDS FileTokenStore, TLAPS

Pending == {"persist", "persistDelete", "snapshot", "snapshotDelete"}
Writing == {"write", "writeDelete"}
Deleting == {"persistDelete", "snapshotDelete", "writeDelete"}
Installing == {"rotateWrite", "rotateCommit"}
Rotating == {"rotate"} \cup Installing
Saving == {"snapshot", "snapshotDelete"} \cup Writing \cup Rotating

\* Who holds which lock; a process that is down has neither calls nor memory.
Locks ==
    /\ \A p \in Proc : pc[p] \in Saving <=> saveMu = p
    /\ \A p \in Proc : pc[p] \in Installing <=> mu = p
    /\ ~up => mem = EmptyStore /\ \A p \in Proc : pc[p] = "idle"

\* The arguments of a rotation and of a deletion.
Calls ==
    /\ \A p \in Proc : pc[p] \in Rotating =>
          /\ arg[p] \in issued
          /\ new[p] \in issued \ (replaced \cup acked \cup revoking)
          /\ arg[p] # new[p]
    /\ \A p \in Proc : pc[p] \notin Rotating => new[p] = NoPair
    /\ \A p \in Proc : pc[p] \in Deleting => arg[p] \in revoking

\* A rotation that holds mu knows what the memory will be; once it has written,
\* so does the file.
Installed(p) == [mem EXCEPT ![arg[p]] = NoEntry, ![new[p]] = 0]
Installs ==
    \A p \in Proc :
        /\ pc[p] \in Installing => snap[p] = Installed(p)
        /\ pc[p] = "rotateCommit" => disk = snap[p] /\ arg[p] \in replaced

\* A replaced pair is on no file and no snapshot; in memory only until the commit.
Replaced ==
    \A k \in replaced :
        /\ ~In(disk, k)
        /\ In(mem, k) => \E p \in Proc : pc[p] = "rotateCommit" /\ arg[p] = k
        /\ \A p \in Proc : pc[p] \in Writing => ~In(snap[p], k)

\* An acknowledged successor is in memory, on the file and on each snapshot.
Lasting == acked \ (replaced \cup revoking \cup lapsed)
Acked ==
    \A k \in Lasting :
        /\ In(disk, k)
        /\ up => In(mem, k)
        /\ \A p \in Proc : pc[p] \in Writing => In(snap[p], k)

\* A deleted pair is not in memory, nor on a snapshot taken since.
Revoked ==
    /\ \A k \in revoked :
          /\ ~In(disk, k) /\ ~In(mem, k)
          /\ \A p \in Proc : pc[p] \in Writing => ~In(snap[p], k)
    /\ \A p \in Proc :
          /\ pc[p] \in Deleting => ~In(mem, arg[p])
          /\ pc[p] = "writeDelete" => ~In(snap[p], arg[p])

\* If nobody is about to take a snapshot, the one under way is of the memory; if
\* there is none either, the file is, unless a write failed.
Agrees(store) == \A k \in Pair \ lapsed : store[k] = mem[k]
Fresh ==
    (\A p \in Proc : pc[p] \notin Pending) =>
        /\ \A p \in Proc : pc[p] \in Writing => Agrees(snap[p])
        /\ up /\ ~unsaved /\ (\A p \in Proc : pc[p] \notin Writing \cup {"rotateCommit"}) =>
              Agrees(disk)

FInv == TypeOK /\ Locks /\ Calls /\ Installs /\ Replaced /\ Acked /\ Revoked /\ Fresh

USE FileStoreAssumption
USE DEF Pending, Writing, Deleting, Installing, Rotating, Saving, Labels

-----------------------------------------------------------------------------
LEMMA InitFInv == Init => FInv
<1> SUFFICES ASSUME Init PROVE FInv
    OBVIOUS
<1>1. EmptyStore \in Store /\ \A k \in Pair : ~In(EmptyStore, k)
      BY DEF Store, EmptyStore, In
<1>2. \A p \in Proc : pc[p] = "idle" BY DEF Init
<1>3. TypeOK BY <1>1 DEF Init, TypeOK
<1>4. Locks BY <1>2 DEF Init, Locks
<1>5. Calls BY <1>2 DEF Init, Calls
<1>6. Installs BY <1>2 DEF Init, Installs
<1>7. Replaced BY <1>2 DEF Init, Replaced
<1>8. Acked BY <1>2 DEF Init, Acked, Lasting
<1>9. Revoked BY <1>2 DEF Init, Revoked
<1>10. Fresh BY <1>2 DEF Init, Fresh, Agrees
<1> QED BY <1>3, <1>4, <1>5, <1>6, <1>7, <1>8, <1>9, <1>10 DEF FInv

LEMMA StutterFInv == FInv /\ UNCHANGED vars => FInv'
BY DEF vars, fileVars, lockVars, callVars, history, FInv, TypeOK, Locks, Calls, Installs,
       Installed, Replaced, Acked, Lasting, Revoked, Fresh, Agrees, In

\* Two callers do not save at once.
LEMMA OneSaves ==
    ASSUME Locks, NEW p \in Proc, NEW q \in Proc, pc[p] \in Saving, pc[q] \in Saving
    PROVE  p = q
BY DEF Locks

\* While mu is free nobody installs.
LEMMA NobodyInstalls ==
    ASSUME Locks, mu = Free
    PROVE  \A p \in Proc : pc[p] \notin Installing
BY DEF Locks

-----------------------------------------------------------------------------
(* Memory changes.                                                         *)

LEMMA StoreTokenFInv ==
    ASSUME FInv, NEW p \in Proc, NEW k \in Pair, StoreToken(p, k)
    PROVE  FInv'
<1> USE DEF FInv
<1>1. /\ up /\ pc[p] = "idle" /\ mu = Free /\ k \notin issued
      /\ pc' = [pc EXCEPT ![p] = "persist"] /\ arg' = [arg EXCEPT ![p] = k]
      /\ mem' = [mem EXCEPT ![k] = 0] /\ issued' = issued \cup {k}
      /\ UNCHANGED <<disk, saveMu, mu, new, snap, up, lapsed, replaced, acked, revoking,
                     revoked, unsaved>>
      BY DEF StoreToken, Begin, lockVars
<1>2. \A q \in Proc : pc'[q] = (IF q = p THEN "persist" ELSE pc[q])
                      /\ arg'[q] = (IF q = p THEN k ELSE arg[q])
      BY <1>1 DEF TypeOK
<1>3. \A j \in Pair : mem'[j] = IF j = k THEN 0 ELSE mem[j]
      BY <1>1 DEF TypeOK, Store
<1>4. \A q \in Proc : pc[q] \notin Installing BY <1>1, NobodyInstalls
<1>5. TypeOK' BY <1>1 DEF TypeOK, Store
<1>6. Locks' BY <1>1, <1>2 DEF Locks
<1>7. Calls' BY <1>1, <1>2 DEF Calls
<1>8. Installs' BY <1>1, <1>2, <1>4 DEF Installs
<1>9. Replaced' BY <1>1, <1>2, <1>3, <1>4 DEF Replaced, In, TypeOK
<1>10. Acked' BY <1>1, <1>2, <1>3 DEF Acked, Lasting, In, TypeOK
<1>11. Revoked'
  <2>1. \A j \in revoking : j # k BY <1>1 DEF TypeOK
  <2>2. \A q \in Proc : pc[q] \in Deleting => arg[q] \in revoking BY DEF Calls
  <2> QED BY <2>1, <2>2, <1>1, <1>2, <1>3 DEF Revoked, In, TypeOK
<1>12. Fresh' BY <1>2 DEF Fresh
<1> QED BY <1>5, <1>6, <1>7, <1>8, <1>9, <1>10, <1>11, <1>12

LEMMA UpdateEntryFInv ==
    ASSUME FInv, NEW p \in Proc, NEW k \in Pair, UpdateEntry(p, k)
    PROVE  FInv'
<1> USE DEF FInv
<1>1. /\ up /\ pc[p] = "idle" /\ mu = Free /\ In(mem, k)
      /\ pc' = [pc EXCEPT ![p] = "persist"] /\ arg' = [arg EXCEPT ![p] = k]
      /\ mem' = [mem EXCEPT ![k] = mem[k] + 1]
      /\ UNCHANGED <<disk, saveMu, mu, new, snap, up, lapsed, issued, replaced, acked, revoking,
                     revoked, unsaved>>
      BY DEF UpdateEntry, Begin, lockVars, history
<1>2. \A q \in Proc : pc'[q] = (IF q = p THEN "persist" ELSE pc[q])
                      /\ arg'[q] = (IF q = p THEN k ELSE arg[q])
      BY <1>1 DEF TypeOK
<1>3. \A j \in Pair : In(mem, j)' <=> In(mem, j)
  <2>1. mem[k] \in Nat BY <1>1 DEF TypeOK, Store, In
  <2> QED BY <2>1, <1>1 DEF TypeOK, Store, In
<1>4. \A q \in Proc : pc[q] \notin Installing BY <1>1, NobodyInstalls
<1>5. TypeOK' BY <1>1 DEF TypeOK, Store, In
<1>6. Locks' BY <1>1, <1>2 DEF Locks
<1>7. Calls' BY <1>1, <1>2 DEF Calls
<1>8. Installs' BY <1>1, <1>2, <1>4 DEF Installs
<1>9. \A q \in Proc, j \in Pair : (In(disk, j)' <=> In(disk, j))
                                  /\ (In(snap[q], j)' <=> In(snap[q], j))
      BY <1>1 DEF In
<1>10. Replaced' BY <1>1, <1>2, <1>3, <1>4, <1>9 DEF Replaced, TypeOK
<1>11. Acked' BY <1>1, <1>2, <1>3, <1>9 DEF Acked, Lasting, TypeOK
<1>12. Revoked'
  <2>1. \A q \in Proc : pc'[q] \in Deleting => q # p /\ arg[q] \in Pair
        BY <1>2 DEF Calls, TypeOK
  <2> QED BY <2>1, <1>1, <1>2, <1>3, <1>9 DEF Revoked, TypeOK
<1>13. Fresh' BY <1>2 DEF Fresh
<1> QED BY <1>5, <1>6, <1>7, <1>8, <1>10, <1>11, <1>12, <1>13

LEMMA DeleteTokenFInv ==
    ASSUME FInv, NEW p \in Proc, NEW k \in Pair, DeleteToken(p, k)
    PROVE  FInv'
<1> USE DEF FInv
<1>1. /\ up /\ pc[p] = "idle" /\ mu = Free /\ k \in issued /\ \A q \in Proc : new[q] # k
      /\ pc' = [pc EXCEPT ![p] = "persistDelete"] /\ arg' = [arg EXCEPT ![p] = k]
      /\ mem' = [mem EXCEPT ![k] = NoEntry] /\ revoking' = revoking \cup {k}
      /\ UNCHANGED <<disk, saveMu, mu, new, snap, up, lapsed, issued, replaced, acked,
                     revoked, unsaved>>
      BY DEF DeleteToken, Begin, lockVars
<1>2. \A q \in Proc : pc'[q] = (IF q = p THEN "persistDelete" ELSE pc[q])
                      /\ arg'[q] = (IF q = p THEN k ELSE arg[q])
      BY <1>1 DEF TypeOK
<1>3. \A j \in Pair : mem'[j] = IF j = k THEN NoEntry ELSE mem[j]
      BY <1>1 DEF TypeOK, Store
<1>4. \A q \in Proc : pc[q] \notin Installing BY <1>1, NobodyInstalls
<1>5. TypeOK' BY <1>1 DEF TypeOK, Store
<1>6. Locks' BY <1>1, <1>2 DEF Locks
<1>7. Calls' BY <1>1, <1>2 DEF Calls
<1>8. Installs' BY <1>1, <1>2, <1>4 DEF Installs
<1>9. Replaced' BY <1>1, <1>2, <1>3, <1>4 DEF Replaced, In, TypeOK
<1>10. Acked' BY <1>1, <1>2, <1>3 DEF Acked, Lasting, In, TypeOK
<1>11. Revoked'
  <2>1. \A q \in Proc : pc[q] \in Deleting => arg[q] \in Pair BY DEF Calls, TypeOK
  <2> QED BY <2>1, <1>1, <1>2, <1>3 DEF Revoked, In, TypeOK
<1>12. Fresh' BY <1>2 DEF Fresh
<1> QED BY <1>5, <1>6, <1>7, <1>8, <1>9, <1>10, <1>11, <1>12

LEMMA PurgeFInv ==
    ASSUME FInv, NEW gone \in SUBSET {k \in lapsed : In(mem, k)}, PurgeExpired(gone)
    PROVE  FInv'
<1> USE DEF FInv
<1>1. /\ up /\ mu = Free
      /\ mem' = [k \in Pair |-> IF k \in gone THEN NoEntry ELSE mem[k]]
      /\ UNCHANGED <<disk, saveMu, mu, pc, arg, new, snap, up, lapsed, issued, replaced, acked,
                     revoking, revoked, unsaved>>
      BY DEF PurgeExpired, lockVars, callVars, history
<1>2. \A k \in Pair : /\ In(mem, k)' => In(mem, k)
                      /\ k \notin lapsed => mem'[k] = mem[k]
      BY <1>1 DEF In
<1>3. \A q \in Proc : pc[q] \notin Installing BY <1>1, NobodyInstalls
<1>4. TypeOK' BY <1>1 DEF TypeOK, Store
<1>5. Locks' /\ Calls' BY <1>1 DEF Locks, Calls
<1>6. Installs' BY <1>1, <1>3 DEF Installs
<1>7. \A q \in Proc, j \in Pair : (In(disk, j)' <=> In(disk, j))
                                  /\ (In(snap[q], j)' <=> In(snap[q], j))
      BY <1>1 DEF In
<1>8. Replaced' BY <1>1, <1>2, <1>3, <1>7 DEF Replaced, TypeOK
<1>9. Acked' BY <1>1, <1>2, <1>7 DEF Acked, Lasting, In, TypeOK
<1>10. Revoked'
  <2>1. \A q \in Proc : pc[q] \in Deleting => arg[q] \in Pair BY DEF Calls, TypeOK
  <2> QED BY <2>1, <1>1, <1>2, <1>7 DEF Revoked, TypeOK
<1>11. Fresh' BY <1>1, <1>2 DEF Fresh, Agrees
<1> QED BY <1>4, <1>5, <1>6, <1>8, <1>9, <1>10, <1>11

-----------------------------------------------------------------------------
(* persist.                                                                *)

LEMMA PersistLockFInv ==
    ASSUME FInv, NEW p \in Proc, PersistLock(p)
    PROVE  FInv'
<1> USE DEF FInv
<1> DEFINE l == IF pc[p] = "persist" THEN "snapshot" ELSE "snapshotDelete"
<1>1. /\ pc[p] \in {"persist", "persistDelete"} /\ saveMu = Free /\ saveMu' = p
      /\ pc' = [pc EXCEPT ![p] = l]
      /\ UNCHANGED <<mem, disk, mu, arg, new, snap, up, lapsed, issued, replaced, acked, revoking,
                     revoked, unsaved>>
      BY DEF PersistLock, fileVars, history
<1>2. \A q \in Proc : pc'[q] = IF q = p THEN l ELSE pc[q] BY <1>1 DEF TypeOK
<1>3. l \in {"snapshot", "snapshotDelete"} /\ (l = "snapshotDelete" => pc[p] = "persistDelete")
      BY <1>1
<1> HIDE DEF l
<1>4. TypeOK' BY <1>1, <1>3 DEF TypeOK
<1>5. Locks' BY <1>1, <1>2, <1>3 DEF Locks
<1>6. Calls' BY <1>1, <1>2, <1>3 DEF Calls
<1>7. Installs' BY <1>1, <1>2, <1>3 DEF Installs, Installed
<1>8. Replaced' BY <1>1, <1>2, <1>3 DEF Replaced, In
<1>9. Acked' BY <1>1, <1>2, <1>3 DEF Acked, Lasting, In
<1>10. Revoked' BY <1>1, <1>2, <1>3 DEF Revoked, In
<1>11. Fresh' BY <1>2, <1>3 DEF Fresh
<1> QED BY <1>4, <1>5, <1>6, <1>7, <1>8, <1>9, <1>10, <1>11

LEMMA SnapshotFInv ==
    ASSUME FInv, NEW p \in Proc, Snapshot(p)
    PROVE  FInv'
<1> USE DEF FInv
<1> DEFINE l == IF pc[p] = "snapshot" THEN "write" ELSE "writeDelete"
<1>1. /\ pc[p] \in {"snapshot", "snapshotDelete"} /\ mu = Free
      /\ snap' = [snap EXCEPT ![p] = mem] /\ pc' = [pc EXCEPT ![p] = l]
      /\ UNCHANGED <<mem, disk, saveMu, mu, arg, new, up, lapsed, issued, replaced, acked,
                     revoking, revoked, unsaved>>
      BY DEF Snapshot, fileVars, lockVars, history
<1>2. \A q \in Proc : pc'[q] = (IF q = p THEN l ELSE pc[q])
                      /\ snap'[q] = (IF q = p THEN mem ELSE snap[q])
      BY <1>1 DEF TypeOK
<1>3. l \in Writing /\ (l = "writeDelete" => pc[p] = "snapshotDelete") BY <1>1
<1>4. up BY <1>1 DEF Locks
<1>5. \A q \in Proc : pc[q] \notin Installing BY <1>1, NobodyInstalls
<1>6. \A q \in Proc : q # p => pc[q] \notin Saving BY <1>1, OneSaves
<1> HIDE DEF l
<1>7. TypeOK' BY <1>1, <1>3 DEF TypeOK
<1>8. Locks' BY <1>1, <1>2, <1>3 DEF Locks
<1>9. Calls' BY <1>1, <1>2, <1>3 DEF Calls
<1>10. Installs' BY <1>1, <1>2, <1>3, <1>5 DEF Installs
<1>11. Replaced' BY <1>1, <1>2, <1>3, <1>5 DEF Replaced, In
<1>12. Acked' BY <1>1, <1>2, <1>3, <1>4 DEF Acked, Lasting, In
<1>13. Revoked' BY <1>1, <1>2, <1>3, <1>6 DEF Revoked, In
<1>14. Fresh' BY <1>1, <1>2, <1>3, <1>6 DEF Fresh, Agrees
<1> QED BY <1>7, <1>8, <1>9, <1>10, <1>11, <1>12, <1>13, <1>14

\* What WriteFile and WriteFileFails have in common.
LEMMA PersistDoneFInv ==
    ASSUME FInv, NEW p \in Proc, pc[p] \in Writing, PersistReturns(p),
           disk' = snap[p] \/ (disk' = disk /\ unsaved' = TRUE),
           \/ revoked' = revoked
           \/ pc[p] = "writeDelete" /\ disk' = snap[p] /\ revoked' = revoked \cup {arg[p]},
           unsaved' \in BOOLEAN,
           UNCHANGED <<mem, mu, new, up, lapsed, issued, replaced, acked, revoking>>
    PROVE  FInv'
<1> USE DEF FInv
<1>1. /\ saveMu' = Free /\ pc' = [pc EXCEPT ![p] = "idle"]
      /\ arg' = [arg EXCEPT ![p] = NoPair] /\ snap' = [snap EXCEPT ![p] = EmptyStore]
      BY DEF PersistReturns
<1>2. \A q \in Proc : pc'[q] = (IF q = p THEN "idle" ELSE pc[q])
                      /\ arg'[q] = (IF q = p THEN NoPair ELSE arg[q])
                      /\ snap'[q] = (IF q = p THEN EmptyStore ELSE snap[q])
      BY <1>1 DEF TypeOK
<1>3. \A q \in Proc : q # p => pc[q] \notin Saving BY OneSaves
<1>4. snap[p] \in Store /\ EmptyStore \in Store BY DEF TypeOK, Store, EmptyStore
<1>5. pc[p] = "writeDelete" => arg[p] \in revoking BY DEF Calls
<1>6. TypeOK' BY <1>1, <1>4, <1>5 DEF TypeOK
<1>7. Locks' BY <1>1, <1>2, <1>3 DEF Locks
<1>8. Calls' BY <1>1, <1>2 DEF Calls
<1>9. Installs' BY <1>2, <1>3 DEF Installs
<1>10. Replaced' BY <1>2, <1>3 DEF Replaced, In
<1>11. Acked' BY <1>2, <1>3 DEF Acked, Lasting, In
<1>12. Revoked'
  <2>1. \A k \in revoked' : ~In(mem, k) /\ (In(disk, k)' => FALSE)
        BY <1>5 DEF Revoked, In
  <2> QED BY <2>1, <1>2, <1>3 DEF Revoked, In
<1>13. Fresh'
  <2> SUFFICES ASSUME \A q \in Proc : pc'[q] \notin Pending, ~unsaved'
               PROVE  Agrees(disk)'
      BY <1>2, <1>3 DEF Fresh
  <2>1. \A q \in Proc : pc[q] \notin Pending BY <1>2
  <2> QED BY <2>1 DEF Fresh, Agrees
<1> QED BY <1>6, <1>7, <1>8, <1>9, <1>10, <1>11, <1>12, <1>13

LEMMA WriteFileFInv ==
    ASSUME FInv, NEW p \in Proc, WriteFile(p) \/ WriteFileFails(p)
    PROVE  FInv'
<1>1. CASE WriteFile(p)
  <2>1. /\ pc[p] \in Writing /\ PersistReturns(p) /\ disk' = snap[p] /\ unsaved' = FALSE
        /\ UNCHANGED <<mem, mu, new, up, lapsed, issued, replaced, acked, revoking>>
        BY <1>1 DEF WriteFile
  <2>2. \/ revoked' = revoked
        \/ pc[p] = "writeDelete" /\ disk' = snap[p] /\ revoked' = revoked \cup {arg[p]}
        BY <1>1 DEF WriteFile
  <2>3. unsaved' \in BOOLEAN BY <2>1
  <2> QED BY <2>1, <2>2, <2>3, PersistDoneFInv
<1>2. CASE WriteFileFails(p)
  <2>1. /\ pc[p] \in Writing /\ PersistReturns(p) /\ disk' = disk /\ unsaved' = TRUE
        /\ UNCHANGED <<mem, mu, new, up, lapsed, issued, replaced, acked, revoking, revoked>>
        BY <1>2 DEF WriteFileFails, fileVars
  <2>2. unsaved' \in BOOLEAN /\ unsaved' = TRUE BY <2>1
  <2>3. revoked' = revoked BY <2>1
  <2> QED BY <2>1, <2>2, <2>3, PersistDoneFInv
<1> QED BY <1>1, <1>2

-----------------------------------------------------------------------------
(* RotateToken.                                                            *)

LEMMA RotateLockFInv ==
    ASSUME FInv, NEW p \in Proc, NEW k \in Pair, NEW k2 \in Pair, RotateLock(p, k, k2)
    PROVE  FInv'
<1> USE DEF FInv
<1>1. /\ up /\ pc[p] = "idle" /\ k \in issued /\ k2 \notin issued /\ saveMu = Free /\ saveMu' = p
      /\ pc' = [pc EXCEPT ![p] = "rotate"] /\ arg' = [arg EXCEPT ![p] = k]
      /\ new' = [new EXCEPT ![p] = k2] /\ issued' = issued \cup {k2}
      /\ UNCHANGED <<mem, disk, mu, snap, up, lapsed, replaced, acked, revoking, revoked, unsaved>>
      BY DEF RotateLock, Begin, fileVars
<1>2. \A q \in Proc : pc'[q] = (IF q = p THEN "rotate" ELSE pc[q])
                      /\ arg'[q] = (IF q = p THEN k ELSE arg[q])
                      /\ new'[q] = (IF q = p THEN k2 ELSE new[q])
      BY <1>1 DEF TypeOK
<1>3. \A q \in Proc : pc[q] \notin Saving BY <1>1 DEF Locks
<1>4. TypeOK' BY <1>1 DEF TypeOK
<1>5. Locks' BY <1>1, <1>2 DEF Locks
<1>6. k2 \notin replaced \cup acked \cup revoking BY <1>1 DEF TypeOK
<1>7. Calls' BY <1>1, <1>2, <1>3, <1>6 DEF Calls
<1>8. Installs' BY <1>2, <1>3 DEF Installs
<1>9. Replaced' BY <1>1, <1>2, <1>3 DEF Replaced, In
<1>10. Acked' BY <1>1, <1>2, <1>3 DEF Acked, Lasting, In
<1>11. Revoked' BY <1>1, <1>2, <1>3 DEF Revoked, In
<1>12. Fresh' BY <1>1, <1>2, <1>3 DEF Fresh, Agrees
<1> QED BY <1>4, <1>5, <1>7, <1>8, <1>9, <1>10, <1>11, <1>12

\* RotateRefused and RotateWriteFails: the rotation ends and nothing has changed.
LEMMA RotateGivenUpFInv ==
    ASSUME FInv, NEW p \in Proc, RotateRefused(p) \/ RotateWriteFails(p)
    PROVE  FInv'
<1> USE DEF FInv
<1>1. /\ pc[p] \in {"rotate", "rotateWrite"} /\ (pc[p] = "rotate" => mu = Free)
      /\ saveMu' = Free /\ mu' = Free /\ pc' = [pc EXCEPT ![p] = "idle"]
      /\ arg' = [arg EXCEPT ![p] = NoPair] /\ new' = [new EXCEPT ![p] = NoPair]
      /\ snap' = [snap EXCEPT ![p] = EmptyStore]
      /\ UNCHANGED <<mem, disk, up, lapsed, issued, replaced, acked, revoking, revoked, unsaved>>
      BY DEF RotateRefused, RotateWriteFails, RotateReturns, fileVars, history
<1>2. \A q \in Proc : pc'[q] = (IF q = p THEN "idle" ELSE pc[q])
                      /\ arg'[q] = (IF q = p THEN NoPair ELSE arg[q])
                      /\ new'[q] = (IF q = p THEN NoPair ELSE new[q])
                      /\ snap'[q] = (IF q = p THEN EmptyStore ELSE snap[q])
      BY <1>1 DEF TypeOK
<1>3. \A q \in Proc : q # p => pc[q] \notin Saving BY <1>1, OneSaves
<1>4. TypeOK' BY <1>1 DEF TypeOK, Store, EmptyStore
<1>5. Locks' BY <1>1, <1>2, <1>3 DEF Locks
<1>6. Calls' BY <1>1, <1>2 DEF Calls
<1>7. Installs' BY <1>2, <1>3 DEF Installs
<1>8. Replaced' BY <1>1, <1>2, <1>3 DEF Replaced, In
<1>9. Acked' BY <1>1, <1>2, <1>3 DEF Acked, Lasting, In
<1>10. Revoked' BY <1>1, <1>2, <1>3 DEF Revoked, In
<1>11. Fresh' BY <1>1, <1>2, <1>3 DEF Fresh, Agrees
<1> QED BY <1>4, <1>5, <1>6, <1>7, <1>8, <1>9, <1>10, <1>11

LEMMA RotateSnapshotFInv ==
    ASSUME FInv, NEW p \in Proc, RotateSnapshot(p)
    PROVE  FInv'
<1> USE DEF FInv
<1>1. /\ pc[p] = "rotate" /\ mu = Free /\ mu' = p
      /\ snap' = [snap EXCEPT ![p] = Installed(p)] /\ pc' = [pc EXCEPT ![p] = "rotateWrite"]
      /\ UNCHANGED <<mem, disk, saveMu, arg, new, up, lapsed, issued, replaced, acked, revoking,
                     revoked, unsaved>>
      BY DEF RotateSnapshot, Installed, fileVars, history
<1>2. \A q \in Proc : pc'[q] = (IF q = p THEN "rotateWrite" ELSE pc[q])
                      /\ snap'[q] = (IF q = p THEN Installed(p) ELSE snap[q])
      BY <1>1 DEF TypeOK
<1>3. \A q \in Proc : pc[q] \notin Installing BY <1>1, NobodyInstalls
<1>4. \A q \in Proc : q # p => pc[q] \notin Saving BY <1>1, OneSaves
<1>5. Installed(p) \in Store BY DEF Installed, TypeOK, Store
<1>6. TypeOK' BY <1>1, <1>5 DEF TypeOK
<1>7. Locks' BY <1>1, <1>2, <1>3 DEF Locks
<1>8. Calls' BY <1>1, <1>2 DEF Calls
<1>9. Installs'
  <2>1. Installed(p)' = Installed(p) BY <1>1 DEF Installed
  <2> QED BY <2>1, <1>2, <1>3 DEF Installs
<1>10. Replaced' BY <1>1, <1>2, <1>3, <1>4 DEF Replaced, In
<1>11. Acked' BY <1>1, <1>2, <1>4 DEF Acked, Lasting, In
<1>12. Revoked' BY <1>1, <1>2, <1>4 DEF Revoked, In
<1>13. Fresh' BY <1>1, <1>2, <1>4 DEF Fresh, Agrees
<1> QED BY <1>6, <1>7, <1>8, <1>9, <1>10, <1>11, <1>12, <1>13

\* What the memory is to be, entry by entry.
LEMMA InstalledEntries ==
    ASSUME FInv, NEW p \in Proc, pc[p] \in Rotating
    PROVE  /\ arg[p] \in Pair /\ new[p] \in Pair /\ arg[p] # new[p]
           /\ Installed(p) \in Store
           /\ \A k \in Pair : Installed(p)[k] = IF k = new[p] THEN 0
                                                ELSE IF k = arg[p] THEN NoEntry ELSE mem[k]
<1>1. arg[p] \in Pair /\ new[p] \in Pair /\ arg[p] # new[p] BY DEF FInv, Calls, TypeOK
<1> QED BY <1>1 DEF FInv, TypeOK, Installed, Store

LEMMA RotateWriteFInv ==
    ASSUME FInv, NEW p \in Proc, RotateWrite(p)
    PROVE  FInv'
<1> USE DEF FInv
<1>1. /\ pc[p] = "rotateWrite" /\ disk' = snap[p] /\ pc' = [pc EXCEPT ![p] = "rotateCommit"]
      /\ replaced' = replaced \cup {arg[p]} /\ unsaved' = FALSE
      /\ UNCHANGED <<mem, saveMu, mu, arg, new, snap, up, lapsed, issued, acked, revoking, revoked>>
      BY DEF RotateWrite, lockVars
<1>2. \A q \in Proc : pc'[q] = IF q = p THEN "rotateCommit" ELSE pc[q] BY <1>1 DEF TypeOK
<1>3. \A q \in Proc : q # p => pc[q] \notin Saving BY <1>1, OneSaves
<1>4. disk' = Installed(p) BY <1>1 DEF Installs
<1>5. /\ arg[p] \in Pair /\ new[p] \in Pair /\ arg[p] # new[p]
      /\ \A k \in Pair : disk'[k] = IF k = new[p] THEN 0
                                    ELSE IF k = arg[p] THEN NoEntry ELSE mem[k]
      BY <1>1, <1>4, InstalledEntries
<1>6. arg[p] \in issued /\ new[p] \in issued \ (replaced \cup acked \cup revoking)
      BY <1>1 DEF Calls
<1>7. TypeOK' BY <1>1, <1>6 DEF TypeOK
<1>8. Locks' BY <1>1, <1>2 DEF Locks
<1>9. Calls' BY <1>1, <1>2, <1>3, <1>5 DEF Calls
<1>10. Installs' BY <1>1, <1>2, <1>3 DEF Installs, Installed
<1>11. \A k \in replaced : In(mem, k) => k = arg[p] BY <1>1, <1>3 DEF Replaced
<1>12. Replaced' BY <1>1, <1>2, <1>3, <1>5, <1>6, <1>11 DEF Replaced, In, TypeOK
<1>13. Acked'
  <2>1. up BY <1>1 DEF Locks
  <2>2. \A k \in Lasting : In(mem, k) /\ k \in Pair BY <2>1 DEF Acked, Lasting, TypeOK
  <2>3. \A k \in Lasting' : k \in Lasting /\ k # arg[p] BY <1>1 DEF Lasting
  <2> QED BY <2>2, <2>3, <1>1, <1>2, <1>3, <1>5 DEF Acked, In
<1>14. Revoked'
  <2>1. \A k \in revoked : k \in Pair /\ k # new[p] BY <1>6 DEF TypeOK
  <2> QED BY <2>1, <1>1, <1>2, <1>3, <1>5 DEF Revoked, In
<1>15. Fresh' BY <1>1, <1>2, <1>3 DEF Fresh
<1> QED BY <1>7, <1>8, <1>9, <1>10, <1>12, <1>13, <1>14, <1>15

LEMMA RotateCommitFInv ==
    ASSUME FInv, NEW p \in Proc, RotateCommit(p)
    PROVE  FInv'
<1> USE DEF FInv
<1>1. /\ pc[p] = "rotateCommit" /\ mem' = Installed(p) /\ acked' = acked \cup {new[p]}
      /\ saveMu' = Free /\ mu' = Free /\ pc' = [pc EXCEPT ![p] = "idle"]
      /\ arg' = [arg EXCEPT ![p] = NoPair] /\ new' = [new EXCEPT ![p] = NoPair]
      /\ snap' = [snap EXCEPT ![p] = EmptyStore]
      /\ UNCHANGED <<disk, up, lapsed, issued, replaced, revoking, revoked, unsaved>>
      BY DEF RotateCommit, RotateReturns, Installed
<1>2. \A q \in Proc : pc'[q] = (IF q = p THEN "idle" ELSE pc[q])
                      /\ arg'[q] = (IF q = p THEN NoPair ELSE arg[q])
                      /\ new'[q] = (IF q = p THEN NoPair ELSE new[q])
                      /\ snap'[q] = (IF q = p THEN EmptyStore ELSE snap[q])
      BY <1>1 DEF TypeOK
<1>3. \A q \in Proc : q # p => pc[q] \notin Saving BY <1>1, OneSaves
<1>4. disk = Installed(p) /\ arg[p] \in replaced BY <1>1 DEF Installs
<1>5. /\ arg[p] \in Pair /\ new[p] \in Pair /\ arg[p] # new[p] /\ Installed(p) \in Store
      /\ \A k \in Pair : mem'[k] = IF k = new[p] THEN 0
                                   ELSE IF k = arg[p] THEN NoEntry ELSE mem[k]
      BY <1>1, InstalledEntries
<1>6. new[p] \in issued \ (replaced \cup acked \cup revoking) BY <1>1 DEF Calls
<1>7. up BY <1>1 DEF Locks
<1>8. TypeOK' BY <1>1, <1>5, <1>6 DEF TypeOK, Store, EmptyStore
<1>9. Locks' BY <1>1, <1>2, <1>3, <1>7 DEF Locks
<1>10. Calls' BY <1>1, <1>2, <1>3 DEF Calls
<1>11. Installs' BY <1>2, <1>3 DEF Installs
<1>12. \A k \in replaced : In(mem, k) => k = arg[p] BY <1>1, <1>3 DEF Replaced
<1>13. Replaced'
  <2>1. \A k \in replaced : k \in Pair /\ k # new[p] BY <1>6 DEF TypeOK
  <2>2. \A k \in replaced : ~In(mem', k) BY <2>1, <1>5, <1>12 DEF In
  <2> QED BY <2>2, <1>1, <1>2, <1>3 DEF Replaced, In
<1>14. Acked'
  <2>1. \A k \in Lasting' : k \in Pair /\ k # arg[p] /\ (k \in Lasting \/ k = new[p])
        BY <1>1, <1>4, <1>5 DEF Lasting, TypeOK
  <2>2. \A k \in Lasting' : In(mem', k) BY <2>1, <1>5, <1>7 DEF Acked, In
  <2> QED BY <2>2, <1>1, <1>2, <1>3, <1>4 DEF Acked, In
<1>15. Revoked'
  <2>1. \A k \in revoking : k \in Pair /\ k # new[p] BY <1>6 DEF TypeOK
  <2>2. \A k \in revoking : ~In(mem, k) => ~In(mem', k) BY <2>1, <1>5 DEF In
  <2>3. \A q \in Proc : pc[q] \in Deleting => arg[q] \in revoking BY DEF Calls
  <2>4. revoked \subseteq revoking BY DEF TypeOK
  <2> QED BY <2>2, <2>3, <2>4, <1>1, <1>2, <1>3 DEF Revoked, In
<1>16. Fresh' BY <1>1, <1>2, <1>3, <1>4 DEF Fresh, Agrees
<1> QED BY <1>8, <1>9, <1>10, <1>11, <1>13, <1>14, <1>15, <1>16

-----------------------------------------------------------------------------
(* Crashes, restarts and the passing of time.                              *)

LEMMA CrashFInv == FInv /\ Crash => FInv'
<1> SUFFICES ASSUME FInv, Crash PROVE FInv' OBVIOUS
<1> USE DEF FInv
<1>1. /\ up' = FALSE /\ mem' = EmptyStore /\ saveMu' = Free /\ mu' = Free
      /\ pc' = [q \in Proc |-> "idle"] /\ arg' = [q \in Proc |-> NoPair]
      /\ new' = [q \in Proc |-> NoPair] /\ snap' = [q \in Proc |-> EmptyStore]
      /\ UNCHANGED <<disk, lapsed, issued, replaced, acked, revoking, revoked, unsaved>>
      BY DEF Crash, history
<1>2. TypeOK' BY <1>1 DEF TypeOK, Store, EmptyStore
<1>3. Locks' /\ Calls' /\ Installs' BY <1>1 DEF Locks, Calls, Installs
<1>4. \A k \in Pair : ~In(mem', k) BY <1>1 DEF In, EmptyStore
<1>5. Replaced' BY <1>1, <1>4 DEF Replaced, In, TypeOK
<1>6. Acked' BY <1>1 DEF Acked, Lasting, In
<1>7. Revoked' BY <1>1, <1>4 DEF Revoked, In, TypeOK
<1>8. Fresh' BY <1>1 DEF Fresh
<1> QED BY <1>2, <1>3, <1>5, <1>6, <1>7, <1>8

LEMMA RestartFInv == FInv /\ Restart => FInv'
<1> SUFFICES ASSUME FInv, Restart PROVE FInv' OBVIOUS
<1> USE DEF FInv
<1>1. /\ ~up /\ up' = TRUE /\ mem' = Loaded /\ unsaved' = FALSE
      /\ UNCHANGED <<disk, saveMu, mu, pc, arg, new, snap, lapsed, issued, replaced, acked,
                     revoking, revoked>>
      BY DEF Restart, lockVars, callVars
<1>2. \A q \in Proc : pc[q] = "idle" BY <1>1 DEF Locks
<1>3. \A k \in Pair : mem'[k] = IF k \in lapsed THEN NoEntry ELSE disk[k] BY <1>1 DEF Loaded
<1>4. TypeOK' BY <1>1 DEF TypeOK, Store, Loaded
<1>5. Locks' /\ Calls' /\ Installs' BY <1>1, <1>2 DEF Locks, Calls, Installs
<1>6. Replaced' BY <1>1, <1>2, <1>3 DEF Replaced, In, TypeOK
<1>7. Acked' BY <1>1, <1>2, <1>3 DEF Acked, Lasting, In, TypeOK
<1>8. Revoked' BY <1>1, <1>2, <1>3 DEF Revoked, In, TypeOK
<1>9. Fresh' BY <1>1, <1>2, <1>3 DEF Fresh, Agrees
<1> QED BY <1>4, <1>5, <1>6, <1>7, <1>8, <1>9

LEMMA LapseFInv ==
    ASSUME FInv, NEW k \in Pair, Lapse(k)
    PROVE  FInv'
<1> USE DEF FInv
<1>1. /\ k \in issued /\ lapsed' = lapsed \cup {k}
      /\ UNCHANGED <<mem, disk, saveMu, mu, pc, arg, new, snap, up, issued, replaced, acked,
                     revoking, revoked, unsaved>>
      BY DEF Lapse, fileVars, lockVars, callVars, history
<1>2. TypeOK' BY <1>1 DEF TypeOK
<1>3. Locks' /\ Calls' BY <1>1 DEF Locks, Calls
<1>4. Installs' BY <1>1 DEF Installs, Installed
<1>5. Replaced' /\ Revoked' BY <1>1 DEF Replaced, Revoked, In
<1>6. Acked' BY <1>1 DEF Acked, Lasting, In
<1>7. Fresh' BY <1>1 DEF Fresh, Agrees
<1> QED BY <1>2, <1>3, <1>4, <1>5, <1>6, <1>7

-----------------------------------------------------------------------------
LEMMA CallStepFInv ==
    ASSUME FInv, NEW p \in Proc, CallStep(p)
    PROVE  FInv'
BY PersistLockFInv, SnapshotFInv, WriteFileFInv, RotateGivenUpFInv, RotateSnapshotFInv,
   RotateWriteFInv, RotateCommitFInv DEF CallStep

LEMMA StepFInv == FInv /\ [Next]_vars => FInv'
<1> SUFFICES ASSUME FInv, [Next]_vars PROVE FInv' OBVIOUS
<1>1. CASE \E p \in Proc, k \in Pair :
              \/ StoreToken(p, k) \/ UpdateEntry(p, k) \/ DeleteToken(p, k)
              \/ \E k2 \in Pair : RotateLock(p, k, k2)
      BY <1>1, StoreTokenFInv, UpdateEntryFInv, DeleteTokenFInv, RotateLockFInv
<1>2. CASE \E p \in Proc : CallStep(p) BY <1>2, CallStepFInv
<1>3. CASE \E gone \in SUBSET {k \in lapsed : In(mem, k)} : gone # {} /\ PurgeExpired(gone)
      BY <1>3, PurgeFInv
<1>4. CASE Crash \/ Restart \/ \E k \in Pair : Lapse(k)
      BY <1>4, CrashFInv, RestartFInv, LapseFInv
<1>5. CASE UNCHANGED vars BY <1>5, StutterFInv
<1> QED BY <1>1, <1>2, <1>3, <1>4, <1>5 DEF Next

LEMMA SpecFInv == Spec => []FInv
BY InitFInv, StepFInv, PTL DEF Spec

-----------------------------------------------------------------------------
\* Every variable keeps its type, and the histories nest as they should.
THEOREM TypeCorrect == Spec => []TypeOK
BY SpecFInv, PTL DEF FInv

\* Neither a slow snapshot nor a crash brings a rotated-out session back
\* (file_token_store.go:104).
THEOREM ReplacedGone == Spec => []ReplacedStaysGone
<1>1. FInv => ReplacedStaysGone BY DEF FInv, Locks, Replaced, ReplacedStaysGone
<1> QED BY <1>1, SpecFInv, PTL

\* A rotation that was acknowledged survives crashes and failed writes
\* (token_store.go:83).
THEOREM SuccessorOnDisk == Spec => []AckedSuccessorOnDisk
<1>1. FInv => AckedSuccessorOnDisk BY DEF FInv, Acked, Lasting, AckedSuccessorOnDisk
<1> QED BY <1>1, SpecFInv, PTL

\* DeleteToken that returned nil is final (file_token_store.go:75).
THEOREM RevokedGone == Spec => []RevokedStaysGone
<1>1. FInv => RevokedStaysGone BY DEF FInv, Revoked, RevokedStaysGone
<1> QED BY <1>1, SpecFInv, PTL

\* No older snapshot overtakes a newer one on the way to the file
\* (file_token_store.go:183).
THEOREM QuietFile == Spec => []QuietFileIsCurrent
<1>1. FInv => QuietFileIsCurrent BY DEF FInv, Fresh, Agrees, QuietFileIsCurrent
<1> QED BY <1>1, SpecFInv, PTL

-----------------------------------------------------------------------------
(* What of EveryCallReturns is safety: the calls never all wait for each   *)
(* other, and each is a bounded number of steps from its return.  That the *)
(* steps are taken is fairness, and left to TLC.                           *)

\* The lock that the next step of a call needs is free.
Unblocked(p) ==
    /\ pc[p] \in {"persist", "persistDelete"} => saveMu = Free
    /\ pc[p] \in {"snapshot", "snapshotDelete", "rotate"} => mu = Free

\* Whenever calls are under way, one of them can go on.
SomeCallGoesOn ==
    (\E p \in Proc : pc[p] # "idle") => \E p \in Proc : pc[p] # "idle" /\ Unblocked(p)

StepsLeft(label) ==
    CASE label = "idle" -> 0
      [] label \in {"write", "writeDelete", "rotateCommit"} -> 1
      [] label \in {"snapshot", "snapshotDelete", "rotateWrite"} -> 2
      [] label \in {"persist", "persistDelete", "rotate"} -> 3

\* A step of a call brings it nearer to its return and no other further away.
CallsAdvance ==
    \A p \in Proc : CallStep(p) =>
        /\ StepsLeft(pc'[p]) < StepsLeft(pc[p])
        /\ \A q \in Proc \ {p} : pc'[q] = pc[q]

LEMMA HolderUnblocked ==
    ASSUME FInv, NEW p \in Proc, saveMu = p
    PROVE  Unblocked(p)
<1>1. mu \in Proc => pc[mu] \in Saving BY DEF FInv, Locks
<1>2. mu \in Proc => mu = p BY <1>1 DEF FInv, Locks
<1> QED BY <1>2 DEF FInv, Locks, TypeOK, Unblocked

\* "Always acquire saveMu before mu" (file_token_store.go:106): whoever holds
\* saveMu finds mu free when it wants it, so no set of calls waits in a circle.
THEOREM NoDeadlock == Spec => []SomeCallGoesOn
<1>1. FInv => SomeCallGoesOn
  <2> SUFFICES ASSUME FInv, NEW p \in Proc, pc[p] # "idle"
               PROVE  \E q \in Proc : pc[q] # "idle" /\ Unblocked(q)
    BY DEF SomeCallGoesOn
  <2>1. CASE saveMu = Free
    <3>1. pc[p] \notin Saving BY <2>1 DEF FInv, Locks
    <3> QED BY <2>1, <3>1 DEF FInv, TypeOK, Unblocked
  <2>2. CASE saveMu \in Proc
    <3>1. pc[saveMu] # "idle" BY <2>2 DEF FInv, Locks
    <3> QED BY <2>2, <3>1, HolderUnblocked
  <2> QED BY <2>1, <2>2 DEF FInv, TypeOK
<1> QED BY <1>1, SpecFInv, PTL

\* Every path of persist and of RotateToken ends: three steps at most, and no
\* step of another call sets one back.
THEOREM BoundedCalls == Spec => [][CallsAdvance]_vars
<1>1. FInv => CallsAdvance
  <2> SUFFICES ASSUME FInv, NEW p \in Proc, CallStep(p)
               PROVE  /\ StepsLeft(pc'[p]) < StepsLeft(pc[p])
                      /\ \A q \in Proc \ {p} : pc'[q] = pc[q]
    BY DEF CallsAdvance
  <2>1. pc \in [Proc -> Labels] BY DEF FInv, TypeOK
  <2>2. CASE PersistLock(p) BY <2>1, <2>2 DEF PersistLock, StepsLeft
  <2>3. CASE Snapshot(p) BY <2>1, <2>3 DEF Snapshot, StepsLeft
  <2>4. CASE WriteFile(p) \/ WriteFileFails(p)
    BY <2>1, <2>4 DEF WriteFile, WriteFileFails, PersistReturns, StepsLeft
  <2>5. CASE RotateRefused(p) BY <2>1, <2>5 DEF RotateRefused, RotateReturns, StepsLeft
  <2>6. CASE RotateSnapshot(p) BY <2>1, <2>6 DEF RotateSnapshot, StepsLeft
  <2>7. CASE RotateWrite(p) BY <2>1, <2>7 DEF RotateWrite, StepsLeft
  <2>8. CASE RotateWriteFails(p)
    BY <2>1, <2>8 DEF RotateWriteFails, RotateReturns, StepsLeft
  <2>9. CASE RotateCommit(p) BY <2>1, <2>9 DEF RotateCommit, RotateReturns, StepsLeft
  <2> QED BY <2>2, <2>3, <2>4, <2>5, <2>6, <2>7, <2>8, <2>9 DEF CallStep
<1> QED BY <1>1, SpecFInv, PTL

-----------------------------------------------------------------------------
(* The store of DurableStore.  What the mapping needs beside FInv: where a *)
(* pair can be found at all, and in which order the file, a snapshot under *)
(* way and the memory are.                                                 *)

\* A pair that was not drawn is nowhere, and a rotation's successor is only in
\* its snapshot and, once it is written, on the file.
Undrawn ==
    \A k \in Pair \ issued :
        ~In(mem, k) /\ ~In(disk, k) /\ \A p \in Proc : ~In(snap[p], k)
Successors ==
    \A p \in Proc :
        /\ pc[p] \in Rotating => ~In(mem, new[p])
        /\ pc[p] \in {"rotate", "rotateWrite"} => ~In(disk, new[p])

\* Since it found it there, a rotation keeps others from its predecessor.
Predecessors == \A p \in Proc : pc[p] = "rotateWrite" => In(mem, arg[p])

Snapshots == \A p \in Proc : pc[p] \notin Writing \cup Installing => snap[p] = EmptyStore

\* The file is no newer than a snapshot, and a snapshot no newer than the memory.
Lags(s, t) == \A k \in Pair : In(s, k) /\ In(t, k) => s[k] <= t[k]
Ordered ==
    /\ Lags(disk, mem)
    /\ \A p \in Proc : pc[p] \in Writing => Lags(disk, snap[p]) /\ Lags(snap[p], mem)

\* What the memory has lost of the file, or of a snapshot, was deleted or purged.
Excused == revoking \cup lapsed
KeptOnFile ==
    \A k \in Pair \ Excused : In(disk, k) =>
        In(mem, k) \/ \E p \in Proc : pc[p] = "rotateCommit" /\ new[p] = k
KeptInSnapshot ==
    \A p \in Proc : pc[p] \in Writing =>
        /\ \A k \in Pair : In(disk, k) /\ ~In(snap[p], k) => k \in Excused /\ ~In(mem, k)
        /\ \A k \in Pair \ Excused : In(snap[p], k) => In(mem, k)
Kept == (up => KeptOnFile) /\ KeptInSnapshot

Extra == Undrawn /\ Successors /\ Predecessors /\ Snapshots /\ Ordered /\ Kept

LEMMA InitExtra == Init => Extra
<1> SUFFICES ASSUME Init PROVE Extra OBVIOUS
<1>1. \A k \in Pair : ~In(EmptyStore, k) BY DEF EmptyStore, In
<1>2. \A p \in Proc : pc[p] = "idle" BY DEF Init
<1>3. \A p \in Proc : snap[p] = EmptyStore BY DEF Init, EmptyStore
<1> QED BY <1>1, <1>2, <1>3 DEF Init, Extra, Undrawn, Successors, Predecessors, Snapshots,
                                Ordered, Lags, Kept, KeptOnFile, KeptInSnapshot

LEMMA StutterExtra == Extra /\ UNCHANGED vars => Extra'
BY DEF vars, fileVars, lockVars, callVars, history, Extra, Undrawn, Successors, Predecessors,
       Snapshots, Ordered, Lags, Kept, KeptOnFile, KeptInSnapshot, Excused, In

LEMMA StoreTokenExtra ==
    ASSUME FInv, Extra, NEW p \in Proc, NEW k \in Pair, StoreToken(p, k)
    PROVE  Extra'
<1> USE DEF FInv, Extra
<1>1. /\ up /\ pc[p] = "idle" /\ mu = Free /\ k \notin issued
      /\ pc' = [pc EXCEPT ![p] = "persist"]
      /\ mem' = [mem EXCEPT ![k] = 0] /\ issued' = issued \cup {k}
      /\ UNCHANGED <<disk, new, snap, up, lapsed, revoking>>
      BY DEF StoreToken, Begin, lockVars
<1>2. \A q \in Proc : pc'[q] = IF q = p THEN "persist" ELSE pc[q] BY <1>1 DEF TypeOK
<1>3. \A j \in Pair : mem'[j] = IF j = k THEN 0 ELSE mem[j] BY <1>1 DEF TypeOK, Store
<1>4. ~In(disk, k) /\ \A q \in Proc : ~In(snap[q], k) BY <1>1 DEF Undrawn
<1>5. Undrawn' BY <1>1, <1>3 DEF Undrawn, In
<1>6. Successors'
  <2>1. \A q \in Proc : pc[q] \in Rotating => new[q] \in Pair /\ new[q] # k
        BY <1>1 DEF Calls, TypeOK
  <2> QED BY <2>1, <1>1, <1>2, <1>3 DEF Successors, In
<1>7. Snapshots' BY <1>1, <1>2 DEF Snapshots
<1>8. Ordered' BY <1>1, <1>2, <1>3, <1>4 DEF Ordered, Lags, In
<1>9. Kept' BY <1>1, <1>2, <1>3, <1>4 DEF Kept, KeptOnFile, KeptInSnapshot, Excused, In
<1>10. Predecessors' BY <1>1, <1>2, NobodyInstalls DEF Predecessors
<1> QED BY <1>10, <1>5, <1>6, <1>7, <1>8, <1>9

LEMMA UpdateEntryExtra ==
    ASSUME FInv, Extra, NEW p \in Proc, NEW k \in Pair, UpdateEntry(p, k)
    PROVE  Extra'
<1> USE DEF FInv, Extra
<1>1. /\ pc[p] = "idle" /\ mu = Free /\ In(mem, k) /\ pc' = [pc EXCEPT ![p] = "persist"]
      /\ mem' = [mem EXCEPT ![k] = mem[k] + 1]
      /\ UNCHANGED <<disk, new, snap, up, lapsed, issued, revoking>>
      BY DEF UpdateEntry, Begin, lockVars, history
<1>2. \A q \in Proc : pc'[q] = IF q = p THEN "persist" ELSE pc[q] BY <1>1 DEF TypeOK
<1>3. /\ mem[k] \in Nat
      /\ \A j \in Pair : mem'[j] = IF j = k THEN mem[k] + 1 ELSE mem[j]
      BY <1>1 DEF TypeOK, Store, In
<1>4. \A j \in Pair : mem'[j] = NoEntry <=> mem[j] = NoEntry BY <1>1, <1>3 DEF In
<1>5. Undrawn' BY <1>1, <1>4 DEF Undrawn, In
<1>6. Successors'
  <2>1. \A q \in Proc : pc[q] \in Rotating => new[q] \in Pair BY DEF Calls, TypeOK
  <2> QED BY <2>1, <1>1, <1>2, <1>4 DEF Successors, In
<1>7. Snapshots' BY <1>1, <1>2 DEF Snapshots
<1>8. Ordered'
  <2>1. \A q \in Proc : disk \in Store /\ snap[q] \in Store BY DEF TypeOK
  <2>2. \A s \in Store : Lags(s, mem) => Lags(s, mem')
        BY <1>3, <1>4 DEF Lags, In, Store
  <2> QED BY <2>1, <2>2, <1>1, <1>2 DEF Ordered, Lags, In
<1>9. Kept' BY <1>1, <1>2, <1>4 DEF Kept, KeptOnFile, KeptInSnapshot, Excused, In
<1>10. Predecessors' BY <1>1, <1>2, NobodyInstalls DEF Predecessors
<1> QED BY <1>10, <1>5, <1>6, <1>7, <1>8, <1>9

LEMMA DeleteTokenExtra ==
    ASSUME FInv, Extra, NEW p \in Proc, NEW k \in Pair, DeleteToken(p, k)
    PROVE  Extra'
<1> USE DEF FInv, Extra
<1>1. /\ pc[p] = "idle" /\ mu = Free /\ pc' = [pc EXCEPT ![p] = "persistDelete"]
      /\ mem' = [mem EXCEPT ![k] = NoEntry] /\ revoking' = revoking \cup {k}
      /\ UNCHANGED <<disk, new, snap, up, lapsed, issued>>
      BY DEF DeleteToken, Begin, lockVars
<1>2. \A q \in Proc : pc'[q] = IF q = p THEN "persistDelete" ELSE pc[q] BY <1>1 DEF TypeOK
<1>3. \A j \in Pair : mem'[j] = IF j = k THEN NoEntry ELSE mem[j] BY <1>1 DEF TypeOK, Store
<1>4. Undrawn' BY <1>1, <1>3 DEF Undrawn, In
<1>5. Successors'
  <2>1. \A q \in Proc : pc[q] \in Rotating => new[q] \in Pair BY DEF Calls, TypeOK
  <2> QED BY <2>1, <1>1, <1>2, <1>3 DEF Successors, In
<1>6. Snapshots' BY <1>1, <1>2 DEF Snapshots
<1>7. Ordered' BY <1>1, <1>2, <1>3 DEF Ordered, Lags, In
<1>8. Kept' BY <1>1, <1>2, <1>3 DEF Kept, KeptOnFile, KeptInSnapshot, Excused, In
<1>9. Predecessors' BY <1>1, <1>2, NobodyInstalls DEF Predecessors
<1> QED BY <1>9, <1>4, <1>5, <1>6, <1>7, <1>8

LEMMA PurgeExtra ==
    ASSUME FInv, Extra, NEW gone \in SUBSET {k \in lapsed : In(mem, k)}, PurgeExpired(gone)
    PROVE  Extra'
<1> USE DEF FInv, Extra
<1>1. /\ mu = Free /\ mem' = [k \in Pair |-> IF k \in gone THEN NoEntry ELSE mem[k]]
      /\ UNCHANGED <<disk, pc, new, snap, up, lapsed, issued, revoking>>
      BY DEF PurgeExpired, lockVars, callVars, history
<1>2. \A k \in Pair : mem'[k] = IF k \in gone THEN NoEntry ELSE mem[k] BY <1>1
<1>3. Undrawn' BY <1>1, <1>2 DEF Undrawn, In
<1>4. Successors'
  <2>1. \A q \in Proc : pc[q] \in Rotating => new[q] \in Pair BY DEF Calls, TypeOK
  <2> QED BY <2>1, <1>1, <1>2 DEF Successors, In
<1>5. Snapshots' BY <1>1 DEF Snapshots
<1>6. Ordered' BY <1>1, <1>2 DEF Ordered, Lags, In
<1>7. Kept' BY <1>1, <1>2 DEF Kept, KeptOnFile, KeptInSnapshot, Excused, In
<1>8. Predecessors' BY <1>1, NobodyInstalls DEF Predecessors
<1> QED BY <1>8, <1>3, <1>4, <1>5, <1>6, <1>7

LEMMA PersistLockExtra ==
    ASSUME FInv, Extra, NEW p \in Proc, PersistLock(p)
    PROVE  Extra'
<1> USE DEF FInv, Extra
<1> DEFINE l == IF pc[p] = "persist" THEN "snapshot" ELSE "snapshotDelete"
<1>1. /\ pc[p] \in {"persist", "persistDelete"} /\ pc' = [pc EXCEPT ![p] = l]
      /\ UNCHANGED <<mem, disk, arg, new, snap, up, lapsed, issued, revoking>>
      BY DEF PersistLock, fileVars, history
<1>2. \A q \in Proc : pc'[q] = IF q = p THEN l ELSE pc[q] BY <1>1 DEF TypeOK
<1>3. l \in {"snapshot", "snapshotDelete"} OBVIOUS
<1> HIDE DEF l
<1>4. Undrawn' BY <1>1 DEF Undrawn, In
<1>5. Successors' BY <1>1, <1>2, <1>3 DEF Successors, In
<1>6. Snapshots' BY <1>1, <1>2, <1>3 DEF Snapshots
<1>7. Ordered' BY <1>1, <1>2, <1>3 DEF Ordered, Lags, In
<1>8. Kept' BY <1>1, <1>2, <1>3 DEF Kept, KeptOnFile, KeptInSnapshot, Excused, In
<1>9. Predecessors' BY <1>1, <1>2, <1>3 DEF Predecessors, In
<1> QED BY <1>9, <1>4, <1>5, <1>6, <1>7, <1>8

LEMMA SnapshotExtra ==
    ASSUME FInv, Extra, NEW p \in Proc, Snapshot(p)
    PROVE  Extra'
<1> USE DEF FInv, Extra
<1> DEFINE l == IF pc[p] = "snapshot" THEN "write" ELSE "writeDelete"
<1>1. /\ pc[p] \in {"snapshot", "snapshotDelete"} /\ mu = Free
      /\ snap' = [snap EXCEPT ![p] = mem] /\ pc' = [pc EXCEPT ![p] = l]
      /\ UNCHANGED <<mem, disk, arg, new, up, lapsed, issued, revoking>>
      BY DEF Snapshot, fileVars, lockVars, history
<1>2. \A q \in Proc : pc'[q] = (IF q = p THEN l ELSE pc[q])
                      /\ snap'[q] = (IF q = p THEN mem ELSE snap[q])
      BY <1>1 DEF TypeOK
<1>3. l \in Writing OBVIOUS
<1>4. up BY <1>1 DEF Locks
<1>5. \A q \in Proc : pc[q] \notin Installing BY <1>1, NobodyInstalls
<1>6. \A q \in Proc : q # p => pc[q] \notin Saving BY <1>1, OneSaves
<1> HIDE DEF l
<1>7. Undrawn' BY <1>1, <1>2 DEF Undrawn, In
<1>8. Successors' BY <1>1, <1>2, <1>3 DEF Successors, In
<1>9. Snapshots' BY <1>1, <1>2, <1>3 DEF Snapshots
<1>10. Ordered'
  <2>1. \A k \in Pair : In(mem, k) => mem[k] <= mem[k] BY DEF TypeOK, Store, In
  <2> QED BY <2>1, <1>1, <1>2, <1>3, <1>6 DEF Ordered, Lags, In
<1>11. Kept'
  <2>1. \A k \in Pair \ Excused : In(disk, k) => In(mem, k)
        BY <1>4, <1>5 DEF Kept, KeptOnFile
  <2> QED BY <2>1, <1>1, <1>2, <1>3, <1>6 DEF Kept, KeptOnFile, KeptInSnapshot, Excused, In
<1>12. Predecessors' BY <1>1, <1>2, <1>3 DEF Predecessors, In
<1> QED BY <1>12, <1>7, <1>8, <1>9, <1>10, <1>11

LEMMA PersistDoneExtra ==
    ASSUME FInv, Extra, NEW p \in Proc, WriteFile(p) \/ WriteFileFails(p)
    PROVE  Extra'
<1> USE DEF FInv, Extra
<1>1. /\ pc[p] \in Writing /\ pc' = [pc EXCEPT ![p] = "idle"]
      /\ snap' = [snap EXCEPT ![p] = EmptyStore]
      /\ UNCHANGED <<mem, new, up, lapsed, issued, revoking>>
      BY DEF WriteFile, WriteFileFails, PersistReturns, fileVars
<1>2. disk' = snap[p] \/ disk' = disk BY DEF WriteFile, WriteFileFails, fileVars
<1>3. \A q \in Proc : pc'[q] = (IF q = p THEN "idle" ELSE pc[q])
                      /\ snap'[q] = (IF q = p THEN EmptyStore ELSE snap[q])
      BY <1>1 DEF TypeOK
<1>4. \A q \in Proc : q # p => pc[q] \notin Saving BY <1>1, OneSaves
<1>5. Undrawn'
  <2>1. \A k \in Pair : ~In(EmptyStore, k) BY DEF EmptyStore, In
  <2> QED BY <2>1, <1>1, <1>2, <1>3 DEF Undrawn, In
<1>6. Successors' BY <1>1, <1>3, <1>4 DEF Successors
<1>7. Snapshots' BY <1>1, <1>3 DEF Snapshots, EmptyStore
<1>8. Ordered' BY <1>1, <1>2, <1>3, <1>4 DEF Ordered, Lags, In
<1>9. Kept' BY <1>1, <1>2, <1>3, <1>4 DEF Kept, KeptOnFile, KeptInSnapshot, Excused, In
<1>10. Predecessors' BY <1>3, <1>4 DEF Predecessors
<1> QED BY <1>10, <1>5, <1>6, <1>7, <1>8, <1>9

LEMMA RotateLockExtra ==
    ASSUME FInv, Extra, NEW p \in Proc, NEW k \in Pair, NEW k2 \in Pair, RotateLock(p, k, k2)
    PROVE  Extra'
<1> USE DEF FInv, Extra
<1>1. /\ pc[p] = "idle" /\ k2 \notin issued /\ saveMu = Free
      /\ pc' = [pc EXCEPT ![p] = "rotate"] /\ new' = [new EXCEPT ![p] = k2]
      /\ issued' = issued \cup {k2}
      /\ UNCHANGED <<mem, disk, snap, up, lapsed, revoking>>
      BY DEF RotateLock, Begin, fileVars
<1>2. \A q \in Proc : pc'[q] = (IF q = p THEN "rotate" ELSE pc[q])
                      /\ new'[q] = (IF q = p THEN k2 ELSE new[q])
      BY <1>1 DEF TypeOK
<1>3. \A q \in Proc : pc[q] \notin Saving BY <1>1 DEF Locks
<1>4. Undrawn' BY <1>1 DEF Undrawn, In
<1>5. Successors' BY <1>1, <1>2, <1>3 DEF Successors, Undrawn, In
<1>6. Snapshots' BY <1>1, <1>2 DEF Snapshots
<1>7. Ordered' BY <1>1, <1>2, <1>3 DEF Ordered, Lags, In
<1>8. Kept' BY <1>1, <1>2, <1>3 DEF Kept, KeptOnFile, KeptInSnapshot, Excused, In
<1>9. Predecessors' BY <1>2, <1>3 DEF Predecessors
<1> QED BY <1>9, <1>4, <1>5, <1>6, <1>7, <1>8

LEMMA RotateGivenUpExtra ==
    ASSUME FInv, Extra, NEW p \in Proc, RotateRefused(p) \/ RotateWriteFails(p)
    PROVE  Extra'
<1> USE DEF FInv, Extra
<1>1. /\ pc[p] \in {"rotate", "rotateWrite"}
      /\ pc' = [pc EXCEPT ![p] = "idle"] /\ new' = [new EXCEPT ![p] = NoPair]
      /\ snap' = [snap EXCEPT ![p] = EmptyStore]
      /\ UNCHANGED <<mem, disk, up, lapsed, issued, revoking>>
      BY DEF RotateRefused, RotateWriteFails, RotateReturns, fileVars, history
<1>2. \A q \in Proc : pc'[q] = (IF q = p THEN "idle" ELSE pc[q])
                      /\ new'[q] = (IF q = p THEN NoPair ELSE new[q])
                      /\ snap'[q] = (IF q = p THEN EmptyStore ELSE snap[q])
      BY <1>1 DEF TypeOK
<1>3. \A q \in Proc : q # p => pc[q] \notin Saving BY <1>1, OneSaves
<1>4. Undrawn'
  <2>1. \A k \in Pair : ~In(EmptyStore, k) BY DEF EmptyStore, In
  <2> QED BY <2>1, <1>1, <1>2 DEF Undrawn, In
<1>5. Successors' BY <1>1, <1>2, <1>3 DEF Successors
<1>6. Snapshots' BY <1>1, <1>2 DEF Snapshots, EmptyStore
<1>7. Ordered' BY <1>1, <1>2, <1>3 DEF Ordered, Lags, In
<1>8. Kept' BY <1>1, <1>2, <1>3 DEF Kept, KeptOnFile, KeptInSnapshot, Excused, In
<1>9. Predecessors' BY <1>2, <1>3 DEF Predecessors
<1> QED BY <1>9, <1>4, <1>5, <1>6, <1>7, <1>8

LEMMA RotateSnapshotExtra ==
    ASSUME FInv, Extra, NEW p \in Proc, RotateSnapshot(p)
    PROVE  Extra'
<1> USE DEF FInv, Extra
<1>1. /\ pc[p] = "rotate" /\ In(mem, arg[p]) /\ pc' = [pc EXCEPT ![p] = "rotateWrite"]
      /\ snap' = [snap EXCEPT ![p] = Installed(p)]
      /\ UNCHANGED <<mem, disk, arg, new, up, lapsed, issued, revoking>>
      BY DEF RotateSnapshot, Rotatable, Installed, fileVars, history
<1>2. \A q \in Proc : pc'[q] = (IF q = p THEN "rotateWrite" ELSE pc[q])
                      /\ snap'[q] = (IF q = p THEN Installed(p) ELSE snap[q])
      BY <1>1 DEF TypeOK
<1>3. /\ new[p] \in issued
      /\ \A k \in Pair : Installed(p)[k] = IF k = new[p] THEN 0
                                           ELSE IF k = arg[p] THEN NoEntry ELSE mem[k]
      BY <1>1, InstalledEntries DEF Calls
<1>4. Undrawn'
  <2>1. \A k \in Pair \ issued : ~In(Installed(p), k) BY <1>3 DEF Undrawn, In
  <2> QED BY <2>1, <1>1, <1>2 DEF Undrawn, In
<1>5. Successors' BY <1>1, <1>2 DEF Successors, In
<1>6. Snapshots' BY <1>1, <1>2 DEF Snapshots
<1>7. Ordered' BY <1>1, <1>2 DEF Ordered, Lags, In
<1>8. Kept' BY <1>1, <1>2 DEF Kept, KeptOnFile, KeptInSnapshot, Excused, In
<1>9. Predecessors' BY <1>1, <1>2 DEF Predecessors, In
<1> QED BY <1>9, <1>4, <1>5, <1>6, <1>7, <1>8

LEMMA RotateWriteExtra ==
    ASSUME FInv, Extra, NEW p \in Proc, RotateWrite(p)
    PROVE  Extra'
<1> USE DEF FInv, Extra
<1>1. /\ pc[p] = "rotateWrite" /\ pc' = [pc EXCEPT ![p] = "rotateCommit"]
      /\ disk' = Installed(p)
      /\ UNCHANGED <<mem, new, snap, up, lapsed, issued, revoking>>
      BY DEF RotateWrite, Installs, lockVars
<1>2. \A q \in Proc : pc'[q] = IF q = p THEN "rotateCommit" ELSE pc[q] BY <1>1 DEF TypeOK
<1>3. \A q \in Proc : q # p => pc[q] \notin Saving BY <1>1, OneSaves
<1>4. /\ new[p] \in issued /\ ~In(mem, new[p])
      /\ \A k \in Pair : disk'[k] = IF k = new[p] THEN 0
                                    ELSE IF k = arg[p] THEN NoEntry ELSE mem[k]
      BY <1>1, InstalledEntries DEF Calls, Successors
<1>5. Undrawn' BY <1>1, <1>4 DEF Undrawn, In
<1>6. Successors' BY <1>1, <1>2, <1>3 DEF Successors, In
<1>7. Snapshots' BY <1>1, <1>2 DEF Snapshots
<1>8. Ordered'
  <2>1. \A k \in Pair : In(mem, k) => mem[k] <= mem[k] BY DEF TypeOK, Store, In
  <2>2. \A k \in Pair : In(disk', k) /\ In(mem, k) => disk'[k] <= mem[k] BY <2>1, <1>4 DEF In
  <2> QED BY <2>2, <1>1, <1>2, <1>3 DEF Ordered, Lags, In
<1>9. Kept' BY <1>1, <1>2, <1>3, <1>4 DEF Kept, KeptOnFile, KeptInSnapshot, Excused, In
<1>10. Predecessors' BY <1>2, <1>3 DEF Predecessors
<1> QED BY <1>10, <1>5, <1>6, <1>7, <1>8, <1>9

LEMMA RotateCommitExtra ==
    ASSUME FInv, Extra, NEW p \in Proc, RotateCommit(p)
    PROVE  Extra'
<1> USE DEF FInv, Extra
<1>1. /\ pc[p] = "rotateCommit" /\ pc' = [pc EXCEPT ![p] = "idle"]
      /\ mem' = Installed(p) /\ disk = Installed(p)
      /\ new' = [new EXCEPT ![p] = NoPair] /\ snap' = [snap EXCEPT ![p] = EmptyStore]
      /\ UNCHANGED <<disk, up, lapsed, issued, revoking>>
      BY DEF RotateCommit, RotateReturns, Installs, Installed
<1>2. \A q \in Proc : pc'[q] = (IF q = p THEN "idle" ELSE pc[q])
                      /\ new'[q] = (IF q = p THEN NoPair ELSE new[q])
                      /\ snap'[q] = (IF q = p THEN EmptyStore ELSE snap[q])
      BY <1>1 DEF TypeOK
<1>3. \A q \in Proc : q # p => pc[q] \notin Saving BY <1>1, OneSaves
<1>4. Undrawn'
  <2>1. \A k \in Pair : ~In(EmptyStore, k) BY DEF EmptyStore, In
  <2> QED BY <2>1, <1>1, <1>2 DEF Undrawn, In
<1>5. Successors' BY <1>2, <1>3 DEF Successors
<1>6. Snapshots' BY <1>1, <1>2 DEF Snapshots, EmptyStore
<1>7. Ordered'
  <2>1. \A k \in Pair : In(disk, k) => disk[k] <= disk[k] BY DEF TypeOK, Store, In
  <2> QED BY <2>1, <1>1, <1>2, <1>3 DEF Ordered, Lags, In
<1>8. Kept' BY <1>1, <1>2, <1>3 DEF Kept, KeptOnFile, KeptInSnapshot, Excused, In
<1>9. Predecessors' BY <1>2, <1>3 DEF Predecessors
<1> QED BY <1>9, <1>4, <1>5, <1>6, <1>7, <1>8

LEMMA CrashExtra == FInv /\ Extra /\ Crash => Extra'
<1> SUFFICES ASSUME FInv, Extra, Crash PROVE Extra' OBVIOUS
<1> USE DEF FInv, Extra
<1>1. /\ up' = FALSE /\ mem' = EmptyStore /\ pc' = [q \in Proc |-> "idle"]
      /\ new' = [q \in Proc |-> NoPair]
      /\ UNCHANGED <<disk, lapsed, issued, revoking>>
      BY DEF Crash, history
<1>2. \A q \in Proc : snap'[q] = EmptyStore BY DEF Crash, EmptyStore
<1>3. \A k \in Pair : ~In(EmptyStore, k) BY DEF EmptyStore, In
<1>4. \A q \in Proc : pc'[q] = "idle" BY <1>1
<1>5. Undrawn' BY <1>1, <1>2, <1>3 DEF Undrawn, In
<1>6. Successors' BY <1>4 DEF Successors
<1>7. Snapshots' BY <1>2 DEF Snapshots, EmptyStore
<1>8. Ordered' BY <1>1, <1>3, <1>4 DEF Ordered, Lags, In
<1>9. Kept' BY <1>1, <1>4 DEF Kept, KeptInSnapshot
<1>10. Predecessors' BY <1>4 DEF Predecessors
<1> QED BY <1>10, <1>5, <1>6, <1>7, <1>8, <1>9

LEMMA RestartExtra == FInv /\ Extra /\ Restart => Extra'
<1> SUFFICES ASSUME FInv, Extra, Restart PROVE Extra' OBVIOUS
<1> USE DEF FInv, Extra
<1>1. /\ ~up /\ up' = TRUE /\ mem' = Loaded
      /\ UNCHANGED <<disk, pc, new, snap, lapsed, issued, revoking>>
      BY DEF Restart, lockVars, callVars
<1>2. \A q \in Proc : pc[q] = "idle" BY <1>1 DEF Locks
<1>3. \A k \in Pair : mem'[k] = IF k \in lapsed THEN NoEntry ELSE disk[k] BY <1>1 DEF Loaded
<1>4. Undrawn' BY <1>1, <1>3 DEF Undrawn, In
<1>5. Successors' /\ Snapshots' BY <1>1, <1>2 DEF Successors, Snapshots
<1>6. Ordered'
  <2>1. \A k \in Pair : In(disk, k) => disk[k] <= disk[k] BY DEF TypeOK, Store, In
  <2> QED BY <2>1, <1>1, <1>2, <1>3 DEF Ordered, Lags, In
<1>7. Kept' BY <1>1, <1>2, <1>3 DEF Kept, KeptOnFile, KeptInSnapshot, Excused, In
<1>8. Predecessors' BY <1>1, <1>2 DEF Predecessors
<1> QED BY <1>8, <1>4, <1>5, <1>6, <1>7

LEMMA LapseExtra ==
    ASSUME FInv, Extra, NEW k \in Pair, Lapse(k)
    PROVE  Extra'
<1> USE DEF FInv, Extra
<1>1. /\ lapsed' = lapsed \cup {k}
      /\ UNCHANGED <<mem, disk, pc, arg, new, snap, up, issued, revoking>>
      BY DEF Lapse, fileVars, lockVars, callVars, history
<1>2. Undrawn' /\ Successors' BY <1>1 DEF Undrawn, Successors, In
<1>3. Snapshots' /\ Ordered' BY <1>1 DEF Snapshots, Ordered, Lags, In
<1>4. Kept' BY <1>1 DEF Kept, KeptOnFile, KeptInSnapshot, Excused, In
<1>5. Predecessors' BY <1>1 DEF Predecessors, In
<1> QED BY <1>5, <1>2, <1>3, <1>4

LEMMA StepExtra == FInv /\ Extra /\ [Next]_vars => Extra'
<1> SUFFICES ASSUME FInv, Extra, [Next]_vars PROVE Extra' OBVIOUS
<1>1. CASE \E p \in Proc, k \in Pair :
              \/ StoreToken(p, k) \/ UpdateEntry(p, k) \/ DeleteToken(p, k)
              \/ \E k2 \in Pair : RotateLock(p, k, k2)
      BY <1>1, StoreTokenExtra, UpdateEntryExtra, DeleteTokenExtra, RotateLockExtra
<1>2. CASE \E p \in Proc : CallStep(p)
      BY <1>2, PersistLockExtra, SnapshotExtra, PersistDoneExtra, RotateGivenUpExtra,
         RotateSnapshotExtra, RotateWriteExtra, RotateCommitExtra DEF CallStep
<1>3. CASE \E gone \in SUBSET {k \in lapsed : In(mem, k)} : gone # {} /\ PurgeExpired(gone)
      BY <1>3, PurgeExtra
<1>4. CASE Crash \/ Restart \/ \E k \in Pair : Lapse(k)
      BY <1>4, CrashExtra, RestartExtra, LapseExtra
<1>5. CASE UNCHANGED vars BY <1>5, StutterExtra
<1> QED BY <1>1, <1>2, <1>3, <1>4, <1>5 DEF Next

LEMMA SpecExtra == Spec => [](FInv /\ Extra)
<1>1. Init => FInv /\ Extra BY InitFInv, InitExtra
<1>2. FInv /\ Extra /\ [Next]_vars => (FInv /\ Extra)' BY StepFInv, StepExtra
<1> QED BY <1>1, <1>2, PTL DEF Spec

-----------------------------------------------------------------------------
(* Every step is a step of DurableStore.  RotateWrite is where a rotation  *)
(* takes effect, for the file and, because it holds mu, for lookups.       *)

DInv == FInv /\ Extra

\* Nothing under way would bring back a pair that was replaced or revoked.
EndedIsGone ==
    /\ replaced \cup revoked \subseteq Ended
    /\ \A k \in Ended : ~In(disk, k) /\ ~In(Visible, k)

LEMMA EndedGone == DInv => EndedIsGone
<1> SUFFICES ASSUME DInv PROVE EndedIsGone OBVIOUS
<1> USE DEF DInv, FInv, Extra
<1>1. \A k \in Pair : k \notin replaced => Visible[k] = mem[k] BY DEF Visible
<1>2. \A k \in Pair : k \in replaced => Visible[k] = NoEntry BY DEF Visible
<1>3. \A k \in Ended : ~In(disk, k) /\ ~In(Visible, k)
      BY <1>1, <1>2 DEF Ended, Nowhere, Replaced, TypeOK, In
<1>4. ASSUME NEW k \in revoked PROVE Nowhere(k)
  <2>1. ~In(disk, k) /\ ~In(mem, k) /\ k \in Pair BY <1>4 DEF Revoked, TypeOK
  <2>2. ASSUME NEW q \in Proc PROVE new[q] # k
    <3>1. CASE pc[q] \in Rotating BY <3>1, <1>4 DEF Calls, TypeOK
    <3>2. CASE pc[q] \notin Rotating BY <3>2, <2>1 DEF Calls
    <3> QED BY <3>1, <3>2
  <2>3. ASSUME NEW q \in Proc PROVE ~In(snap[q], k)
    <3>1. CASE pc[q] \in Writing BY <3>1, <1>4 DEF Revoked
    <3>2. CASE pc[q] \in Installing
      <4>1. snap[q] = Installed(q) BY <3>2 DEF Installs
      <4> QED BY <4>1, <3>2, <2>1, <2>2, InstalledEntries DEF In
    <3>3. CASE pc[q] \notin Writing \cup Installing
          BY <3>3, <2>1 DEF Snapshots, EmptyStore, In
    <3> QED BY <3>1, <3>2, <3>3
  <2> QED BY <2>1, <2>2, <2>3 DEF Nowhere
<1>5. replaced \cup revoked \subseteq Ended BY <1>4 DEF Ended, TypeOK
<1> QED BY <1>3, <1>5 DEF EndedIsGone

\* No step lets a pair that has ended come back.
LEMMA EndsHolds ==
    ASSUME DInv, DInv', issued \subseteq issued', replaced \subseteq replaced',
           \A k \in issued \ replaced : Nowhere(k) => Nowhere(k)',
           \A k \in Pair : In(disk, k) /\ ~In(disk', k) => k \in Ended'
    PROVE  Durable!Ends
<1>1. EndedIsGone' BY EndedGone, PTL
<1>2. Ended \subseteq Ended' BY DEF Ended
<1> QED BY <1>1, <1>2 DEF EndedIsGone, Durable!Ends, Durable!In, In

LEMMA RotationsKept ==
    ASSUME NEW CONSTANT l,
           \A q \in Proc : pc'[q] = l <=> pc[q] = l,
           \A q \in Proc : pc[q] = l => arg'[q] = arg[q] /\ new'[q] = new[q]
    PROVE  Rotations(l)' = Rotations(l)
BY DEF Rotations

USE DEF Durable!stores, Durable!rotations, Durable!deletions

LEMMA StoreTokenMaps ==
    ASSUME DInv, DInv', NEW p \in Proc, NEW k \in Pair, StoreToken(p, k)
    PROVE  Durable!Next
<1> USE DEF DInv, FInv, Extra
<1>1. /\ up /\ pc[p] = "idle" /\ k \notin issued
      /\ pc' = [pc EXCEPT ![p] = "persist"] /\ arg' = [arg EXCEPT ![p] = k]
      /\ mem' = [mem EXCEPT ![k] = 0] /\ issued' = issued \cup {k}
      /\ UNCHANGED <<disk, new, snap, up, lapsed, replaced, acked, revoking, revoked>>
      BY DEF StoreToken, Begin, lockVars
<1>2. \A q \in Proc : pc'[q] = (IF q = p THEN "persist" ELSE pc[q])
                      /\ arg'[q] = (IF q = p THEN k ELSE arg[q])
      BY <1>1 DEF TypeOK
<1>3. \A l \in {"rotateWrite", "rotateCommit"} : Rotations(l)' = Rotations(l)
      BY <1>1, <1>2, RotationsKept
<1>4. Visible' = [Visible EXCEPT ![k] = 0]
  <2>1. k \notin replaced /\ mem \in Store BY <1>1 DEF TypeOK
  <2> QED BY <2>1, <1>1 DEF Visible, Store
<1>5. Durable!StoreToken(k) BY <1>1, <1>3, <1>4 DEF Durable!StoreToken
<1>6. Durable!Ends
  <2>1. \A j \in issued : j \in Pair /\ j # k BY <1>1 DEF TypeOK
  <2>2. \A j \in issued : Nowhere(j) => Nowhere(j)'
        BY <2>1, <1>1 DEF Nowhere, In, TypeOK, Store
  <2> QED BY <2>2, <1>1, EndsHolds
<1> QED BY <1>5, <1>6 DEF Durable!Next

\* Unless a rotation is between its write and its commit, lookups find the memory.
LEMMA VisibleIsMemory ==
    ASSUME DInv, \A q \in Proc : pc[q] # "rotateCommit"
    PROVE  Visible = mem /\ \A k \in replaced : ~In(mem, k)
<1> USE DEF DInv, FInv
<1>1. \A k \in replaced : ~In(mem, k) BY DEF Replaced
<1> QED BY <1>1 DEF Visible, In, TypeOK, Store

LEMMA UpdateEntryMaps ==
    ASSUME DInv, DInv', NEW p \in Proc, NEW k \in Pair, UpdateEntry(p, k)
    PROVE  Durable!Next
<1> USE DEF DInv, FInv, Extra
<1>1. /\ up /\ pc[p] = "idle" /\ mu = Free /\ In(mem, k)
      /\ pc' = [pc EXCEPT ![p] = "persist"] /\ arg' = [arg EXCEPT ![p] = k]
      /\ mem' = [mem EXCEPT ![k] = mem[k] + 1]
      /\ UNCHANGED <<disk, new, snap, up, lapsed, issued, replaced, acked, revoking, revoked>>
      BY DEF UpdateEntry, Begin, lockVars, history
<1>2. \A q \in Proc : pc'[q] = (IF q = p THEN "persist" ELSE pc[q])
                      /\ arg'[q] = (IF q = p THEN k ELSE arg[q])
      BY <1>1 DEF TypeOK
<1>3. \A l \in {"rotateWrite", "rotateCommit"} : Rotations(l)' = Rotations(l)
      BY <1>1, <1>2, RotationsKept
<1>4. Visible = mem /\ k \notin replaced BY <1>1, NobodyInstalls, VisibleIsMemory
<1>5. Visible' = [Visible EXCEPT ![k] = Visible[k] + 1]
  <2>1. \A j \in replaced : j # k /\ mem[j] = NoEntry
        BY <1>1, <1>4, NobodyInstalls, VisibleIsMemory DEF In
  <2> QED BY <2>1, <1>1, <1>4 DEF Visible, TypeOK, Store
<1>6. Durable!UpdateEntry(k)
      BY <1>1, <1>3, <1>4, <1>5 DEF Durable!UpdateEntry, Durable!In, In
<1>7. Durable!Ends
  <2>1. \A j \in issued : Nowhere(j) => j # k BY <1>1 DEF Nowhere
  <2>2. \A j \in issued : Nowhere(j) => Nowhere(j)'
        BY <2>1, <1>1 DEF Nowhere, In, TypeOK, Store
  <2> QED BY <2>2, <1>1, EndsHolds
<1> QED BY <1>6, <1>7 DEF Durable!Next

LEMMA DeleteTokenMaps ==
    ASSUME DInv, DInv', NEW p \in Proc, NEW k \in Pair, DeleteToken(p, k)
    PROVE  Durable!Next
<1> USE DEF DInv, FInv, Extra
<1>1. /\ up /\ pc[p] = "idle" /\ k \in issued /\ \A q \in Proc : new[q] # k
      /\ pc' = [pc EXCEPT ![p] = "persistDelete"] /\ arg' = [arg EXCEPT ![p] = k]
      /\ mem' = [mem EXCEPT ![k] = NoEntry] /\ revoking' = revoking \cup {k}
      /\ UNCHANGED <<disk, new, snap, up, lapsed, issued, replaced, acked, revoked>>
      BY DEF DeleteToken, Begin, lockVars
<1>2. \A q \in Proc : pc'[q] = (IF q = p THEN "persistDelete" ELSE pc[q])
                      /\ arg'[q] = (IF q = p THEN k ELSE arg[q])
      BY <1>1 DEF TypeOK
<1>3. \A l \in {"rotateWrite", "rotateCommit"} : Rotations(l)' = Rotations(l)
      BY <1>1, <1>2, RotationsKept
<1>4. Visible' = [Visible EXCEPT ![k] = NoEntry] BY <1>1 DEF Visible, TypeOK, Store
<1>5. \A l \in {"rotateWrite", "rotateCommit"} : \A r \in Rotations(l) : r[2] # k
      BY <1>1 DEF Rotations
<1>6. Durable!DeleteToken(k) BY <1>1, <1>3, <1>4, <1>5 DEF Durable!DeleteToken
<1>7. Durable!Ends
  <2>1. \A j \in issued : Nowhere(j) => Nowhere(j)'
        BY <1>1 DEF Nowhere, In, TypeOK, Store
  <2> QED BY <2>1, <1>1, EndsHolds
<1> QED BY <1>6, <1>7 DEF Durable!Next

LEMMA PurgeMaps ==
    ASSUME DInv, DInv', NEW gone \in SUBSET {k \in lapsed : In(mem, k)}, PurgeExpired(gone)
    PROVE  Durable!Next
<1> USE DEF DInv, FInv, Extra
<1>1. /\ mem' = [k \in Pair |-> IF k \in gone THEN NoEntry ELSE mem[k]]
      /\ UNCHANGED <<disk, pc, arg, new, snap, up, lapsed, issued, replaced, acked, revoking,
                     revoked>>
      BY DEF PurgeExpired, lockVars, callVars, history
<1>2. \A l \in {"rotateWrite", "rotateCommit"} : Rotations(l)' = Rotations(l)
      BY <1>1, RotationsKept
<1>3. Visible' = [k \in Pair |-> IF k \in gone THEN NoEntry ELSE Visible[k]]
      BY <1>1 DEF Visible
<1>4. Durable!Purge(gone) /\ gone \in SUBSET lapsed BY <1>1, <1>2, <1>3 DEF Durable!Purge
<1>5. Durable!Ends
  <2>1. \A j \in issued : Nowhere(j) => Nowhere(j)' BY <1>1 DEF Nowhere, In, TypeOK
  <2> QED BY <2>1, <1>1, EndsHolds
<1> QED BY <1>4, <1>5 DEF Durable!Next

\* Steps that callers and restarts do not see.
LEMMA ForgetMaps ==
    ASSUME DInv, DInv',
           UNCHANGED <<mem, disk, up, lapsed, issued, replaced, acked, revoking, revoked>>,
           \A l \in {"rotateWrite", "rotateCommit"} : Rotations(l)' = Rotations(l),
           \A k \in issued : Nowhere(k) => Nowhere(k)'
    PROVE  Durable!Next
<1>1. Visible' = Visible BY DEF Visible
<1>2. Durable!Forget BY <1>1 DEF Durable!Forget
<1>3. Durable!Ends BY EndsHolds
<1> QED BY <1>2, <1>3 DEF Durable!Next

LEMMA PersistLockMaps ==
    ASSUME DInv, DInv', NEW p \in Proc, PersistLock(p)
    PROVE  Durable!Next
<1> USE DEF DInv, FInv, Extra
<1>1. /\ pc[p] \in {"persist", "persistDelete"}
      /\ pc' = [pc EXCEPT ![p] = IF pc[p] = "persist" THEN "snapshot" ELSE "snapshotDelete"]
      /\ UNCHANGED <<mem, disk, arg, new, snap, up, lapsed, issued, replaced, acked, revoking,
                     revoked>>
      BY DEF PersistLock, fileVars, history
<1>2. \A q \in Proc : q = p \/ pc'[q] = pc[q] BY <1>1 DEF TypeOK
<1>3. pc'[p] \in {"snapshot", "snapshotDelete"} BY <1>1 DEF TypeOK
<1>4. \A l \in {"rotateWrite", "rotateCommit"} : Rotations(l)' = Rotations(l)
      BY <1>1, <1>2, <1>3, RotationsKept
<1>5. \A k \in issued : Nowhere(k) => Nowhere(k)' BY <1>1 DEF Nowhere, In
<1> QED BY <1>1, <1>4, <1>5, ForgetMaps

LEMMA SnapshotMaps ==
    ASSUME DInv, DInv', NEW p \in Proc, Snapshot(p)
    PROVE  Durable!Next
<1> USE DEF DInv, FInv, Extra
<1>1. /\ pc[p] \in {"snapshot", "snapshotDelete"} /\ snap' = [snap EXCEPT ![p] = mem]
      /\ pc' = [pc EXCEPT ![p] = IF pc[p] = "snapshot" THEN "write" ELSE "writeDelete"]
      /\ UNCHANGED <<mem, disk, arg, new, up, lapsed, issued, replaced, acked, revoking, revoked>>
      BY DEF Snapshot, fileVars, lockVars, history
<1>2. \A q \in Proc : q = p \/ pc'[q] = pc[q] BY <1>1 DEF TypeOK
<1>3. pc'[p] \in Writing BY <1>1 DEF TypeOK
<1>4. \A l \in {"rotateWrite", "rotateCommit"} : Rotations(l)' = Rotations(l)
      BY <1>1, <1>2, <1>3, RotationsKept
<1>5. \A k \in issued : Nowhere(k) => Nowhere(k)'
  <2>1. \A q \in Proc : snap'[q] = IF q = p THEN mem ELSE snap[q] BY <1>1 DEF TypeOK
  <2> QED BY <2>1, <1>1 DEF Nowhere, In
<1> QED BY <1>1, <1>4, <1>5, ForgetMaps

LEMMA WriteFileMaps ==
    ASSUME DInv, DInv', NEW p \in Proc, WriteFile(p)
    PROVE  Durable!Next
<1> USE DEF DInv, FInv, Extra
<1>1. /\ pc[p] \in Writing /\ disk' = snap[p] /\ pc' = [pc EXCEPT ![p] = "idle"]
      /\ arg' = [arg EXCEPT ![p] = NoPair] /\ snap' = [snap EXCEPT ![p] = EmptyStore]
      /\ revoked' = IF pc[p] = "writeDelete" THEN revoked \cup {arg[p]} ELSE revoked
      /\ UNCHANGED <<mem, new, up, lapsed, issued, replaced, acked, revoking>>
      BY DEF WriteFile, PersistReturns
<1>2. \A q \in Proc : pc'[q] = (IF q = p THEN "idle" ELSE pc[q])
                      /\ arg'[q] = (IF q = p THEN NoPair ELSE arg[q])
                      /\ snap'[q] = (IF q = p THEN EmptyStore ELSE snap[q])
      BY <1>1 DEF TypeOK
<1>3. \A q \in Proc : q # p => pc[q] \notin Saving BY <1>1, OneSaves
<1>4. \A l \in {"rotateWrite", "rotateCommit"} : Rotations(l)' = Rotations(l)
      BY <1>1, <1>2, RotationsKept
<1>5. Visible' = Visible /\ Visible = mem
      BY <1>1, <1>3, VisibleIsMemory DEF Visible
<1>6. up BY <1>1 DEF Locks
<1>7. Durable!Follows
  <2>1. disk' \in Durable!Store BY <1>1 DEF TypeOK, Store, Durable!Store
  <2>2. \A k \in Pair : In(disk, k) => In(disk', k) \/ k \in revoking \cup lapsed
        BY <1>1 DEF Kept, KeptInSnapshot, Excused
  <2>3. \A k \in Pair : In(disk, k) /\ In(disk', k) => disk'[k] >= disk[k]
    <3>1. \A k \in Pair : In(disk, k) /\ In(disk', k) =>
              disk[k] \in Nat /\ disk'[k] \in Nat /\ disk[k] <= disk'[k]
          BY <1>1 DEF Ordered, Lags, TypeOK, Store, In
    <3> QED BY <3>1
  <2>4. \A k \in Pair : In(mem, k) /\ In(disk', k) => disk'[k] <= mem[k]
        BY <1>1 DEF Ordered, Lags
  <2> QED BY <2>1, <2>2, <2>3, <2>4, <1>1, <1>4, <1>5, <1>6 DEF Durable!Follows, Durable!In, In
<1>8. Durable!Ends
  <2>1. \A q \in Proc : new[q] = NoPair /\ snap'[q] = EmptyStore
        BY <1>1, <1>2, <1>3 DEF Calls, Snapshots
  <2>2. \A k \in Pair : ~In(EmptyStore, k) BY DEF EmptyStore, In
  <2>3. \A k \in issued : Nowhere(k) => Nowhere(k)'
        BY <2>1, <2>2, <1>1 DEF Nowhere, In, TypeOK
  <2>4. \A k \in Pair : In(disk, k) /\ ~In(disk', k) => k \in issued /\ ~In(mem, k)
        BY <1>1 DEF Kept, KeptInSnapshot, Undrawn
  <2>5. \A k \in Pair : In(disk, k) /\ ~In(disk', k) => k \in Ended'
        BY <2>1, <2>2, <2>4, <1>1 DEF Ended, Nowhere, In
  <2> QED BY <2>3, <2>5, <1>1, EndsHolds
<1>9. CASE pc[p] = "write"
  <2>1. Durable!Save BY <1>1, <1>7, <1>9 DEF Durable!Save
  <2> QED BY <2>1, <1>8 DEF Durable!Next
<1>10. CASE pc[p] = "writeDelete"
  <2>1. arg[p] \in revoking /\ arg[p] \in Pair BY <1>10 DEF Calls, TypeOK
  <2>2. Durable!SaveDeletion(arg[p]) BY <2>1, <1>1, <1>7, <1>10 DEF Durable!SaveDeletion
  <2> QED BY <2>1, <2>2, <1>8 DEF Durable!Next
<1> QED BY <1>1, <1>9, <1>10

LEMMA WriteFileFailsMaps ==
    ASSUME DInv, DInv', NEW p \in Proc, WriteFileFails(p)
    PROVE  Durable!Next
<1> USE DEF DInv, FInv, Extra
<1>1. /\ pc[p] \in Writing /\ pc' = [pc EXCEPT ![p] = "idle"]
      /\ arg' = [arg EXCEPT ![p] = NoPair] /\ snap' = [snap EXCEPT ![p] = EmptyStore]
      /\ UNCHANGED <<mem, disk, new, up, lapsed, issued, replaced, acked, revoking, revoked>>
      BY DEF WriteFileFails, PersistReturns, fileVars
<1>2. \A q \in Proc : pc'[q] = (IF q = p THEN "idle" ELSE pc[q])
                      /\ arg'[q] = (IF q = p THEN NoPair ELSE arg[q])
                      /\ snap'[q] = (IF q = p THEN EmptyStore ELSE snap[q])
      BY <1>1 DEF TypeOK
<1>3. \A l \in {"rotateWrite", "rotateCommit"} : Rotations(l)' = Rotations(l)
      BY <1>1, <1>2, RotationsKept
<1>4. \A k \in issued : Nowhere(k) => Nowhere(k)'
  <2>1. \A k \in Pair : ~In(EmptyStore, k) BY DEF EmptyStore, In
  <2> QED BY <2>1, <1>1, <1>2 DEF Nowhere, In, TypeOK
<1> QED BY <1>1, <1>3, <1>4, ForgetMaps

LEMMA RotateLockMaps ==
    ASSUME DInv, DInv', NEW p \in Proc, NEW k \in Pair, NEW k2 \in Pair, RotateLock(p, k, k2)
    PROVE  Durable!Next
<1> USE DEF DInv, FInv, Extra
<1>1. /\ pc[p] = "idle" /\ k2 \notin issued
      /\ pc' = [pc EXCEPT ![p] = "rotate"] /\ arg' = [arg EXCEPT ![p] = k]
      /\ new' = [new EXCEPT ![p] = k2] /\ issued' = issued \cup {k2}
      /\ UNCHANGED <<mem, disk, snap, up, lapsed, replaced, acked, revoking, revoked>>
      BY DEF RotateLock, Begin, fileVars
<1>2. \A q \in Proc : pc'[q] = (IF q = p THEN "rotate" ELSE pc[q])
                      /\ arg'[q] = (IF q = p THEN k ELSE arg[q])
                      /\ new'[q] = (IF q = p THEN k2 ELSE new[q])
      BY <1>1 DEF TypeOK
<1>3. \A l \in {"rotateWrite", "rotateCommit"} : Rotations(l)' = Rotations(l)
      BY <1>1, <1>2, RotationsKept
<1>4. Visible' = Visible BY <1>1 DEF Visible
<1>5. Durable!Draw(k2) BY <1>1, <1>3, <1>4 DEF Durable!Draw
<1>6. Durable!Ends
  <2>1. \A j \in issued : Nowhere(j) => Nowhere(j)' BY <1>1, <1>2 DEF Nowhere, In
  <2> QED BY <2>1, <1>1, EndsHolds
<1> QED BY <1>5, <1>6 DEF Durable!Next

LEMMA RotateRefusedMaps ==
    ASSUME DInv, DInv', NEW p \in Proc, RotateRefused(p)
    PROVE  Durable!Next
<1> USE DEF DInv, FInv, Extra
<1>1. /\ pc[p] = "rotate" /\ pc' = [pc EXCEPT ![p] = "idle"]
      /\ arg' = [arg EXCEPT ![p] = NoPair] /\ new' = [new EXCEPT ![p] = NoPair]
      /\ snap' = [snap EXCEPT ![p] = EmptyStore]
      /\ UNCHANGED <<mem, disk, up, lapsed, issued, replaced, acked, revoking, revoked>>
      BY DEF RotateRefused, RotateReturns, fileVars, history
<1>2. \A q \in Proc : pc'[q] = (IF q = p THEN "idle" ELSE pc[q])
                      /\ arg'[q] = (IF q = p THEN NoPair ELSE arg[q])
                      /\ new'[q] = (IF q = p THEN NoPair ELSE new[q])
                      /\ snap'[q] = (IF q = p THEN EmptyStore ELSE snap[q])
      BY <1>1 DEF TypeOK
<1>3. \A l \in {"rotateWrite", "rotateCommit"} : Rotations(l)' = Rotations(l)
      BY <1>1, <1>2, RotationsKept
<1>4. \A k \in issued : Nowhere(k) => Nowhere(k)'
  <2>1. \A k \in Pair : ~In(EmptyStore, k) /\ k # NoPair BY DEF EmptyStore, In
  <2> QED BY <2>1, <1>1, <1>2 DEF Nowhere, In, TypeOK
<1> QED BY <1>1, <1>3, <1>4, ForgetMaps

LEMMA RotateWriteFailsMaps ==
    ASSUME DInv, DInv', NEW p \in Proc, RotateWriteFails(p)
    PROVE  Durable!Next
<1> USE DEF DInv, FInv, Extra
<1>1. /\ pc[p] = "rotateWrite" /\ pc' = [pc EXCEPT ![p] = "idle"]
      /\ arg' = [arg EXCEPT ![p] = NoPair] /\ new' = [new EXCEPT ![p] = NoPair]
      /\ snap' = [snap EXCEPT ![p] = EmptyStore]
      /\ UNCHANGED <<mem, disk, up, lapsed, issued, replaced, acked, revoking, revoked>>
      BY DEF RotateWriteFails, RotateReturns, fileVars, history
<1>2. \A q \in Proc : pc'[q] = (IF q = p THEN "idle" ELSE pc[q])
                      /\ arg'[q] = (IF q = p THEN NoPair ELSE arg[q])
                      /\ new'[q] = (IF q = p THEN NoPair ELSE new[q])
                      /\ snap'[q] = (IF q = p THEN EmptyStore ELSE snap[q])
      BY <1>1 DEF TypeOK
<1>3. \A q \in Proc : q # p => pc[q] \notin Saving BY <1>1, OneSaves
<1>4. /\ Rotations("rotateWrite") = {<<arg[p], new[p]>>} /\ Rotations("rotateWrite")' = {}
      /\ Rotations("rotateCommit") = {} /\ Rotations("rotateCommit")' = {}
      BY <1>1, <1>2, <1>3 DEF Rotations
<1>5. Visible' = Visible BY <1>1 DEF Visible
<1> DEFINE r == <<arg[p], new[p]>>
<1>6. r[1] = arg[p] /\ r[2] = new[p] /\ r \in Rotations("rotateWrite") BY <1>4
<1>7. Durable!GiveUp(r[1], r[2]) BY <1>1, <1>4, <1>5, <1>6 DEF Durable!GiveUp
<1> HIDE DEF r
<1>8. Durable!Ends
  <2>1. \A k \in Pair : ~In(EmptyStore, k) /\ k # NoPair BY DEF EmptyStore, In
  <2>2. \A k \in issued : Nowhere(k) => Nowhere(k)'
        BY <2>1, <1>1, <1>2 DEF Nowhere, In, TypeOK
  <2> QED BY <2>2, <1>1, EndsHolds
<1> QED BY <1>6, <1>7, <1>8 DEF Durable!Next

LEMMA RotateSnapshotMaps ==
    ASSUME DInv, DInv', NEW p \in Proc, RotateSnapshot(p)
    PROVE  Durable!Next
<1> USE DEF DInv, FInv, Extra
<1>1. /\ pc[p] = "rotate" /\ mu = Free /\ In(mem, arg[p]) /\ arg[p] \notin lapsed
      /\ pc' = [pc EXCEPT ![p] = "rotateWrite"] /\ snap' = [snap EXCEPT ![p] = Installed(p)]
      /\ UNCHANGED <<mem, disk, arg, new, up, lapsed, issued, replaced, acked, revoking, revoked>>
      BY DEF RotateSnapshot, Rotatable, Installed, fileVars, history
<1>2. \A q \in Proc : pc'[q] = (IF q = p THEN "rotateWrite" ELSE pc[q])
                      /\ snap'[q] = (IF q = p THEN Installed(p) ELSE snap[q])
      BY <1>1 DEF TypeOK
<1>3. /\ arg[p] \in Pair /\ new[p] \in Pair /\ arg[p] # new[p]
      /\ \A k \in Pair : Installed(p)[k] = IF k = new[p] THEN 0
                                           ELSE IF k = arg[p] THEN NoEntry ELSE mem[k]
      BY <1>1, InstalledEntries
<1>4. /\ Rotations("rotateWrite")' = Rotations("rotateWrite") \cup {<<arg[p], new[p]>>}
      /\ Rotations("rotateCommit")' = Rotations("rotateCommit")
      BY <1>1, <1>2 DEF Rotations
<1>5. Visible' = Visible /\ Visible = mem
      BY <1>1, NobodyInstalls, VisibleIsMemory DEF Visible
<1>6. /\ new[p] \in issued \ (revoking \cup Ended)
      /\ ~In(mem, new[p]) /\ ~In(disk, new[p])
      BY <1>1 DEF Calls, Successors, Ended, Nowhere
<1>7. Durable!Claim(arg[p], new[p])
      BY <1>1, <1>4, <1>5, <1>6 DEF Durable!Claim, Durable!In, In
<1>8. Durable!Ends
  <2>1. \A k \in issued : Nowhere(k) => k # new[p] /\ k \in Pair BY DEF Nowhere, TypeOK
  <2>2. \A k \in issued : Nowhere(k) => Nowhere(k)'
        BY <2>1, <1>1, <1>2, <1>3 DEF Nowhere, In
  <2> QED BY <2>2, <1>1, EndsHolds
<1> QED BY <1>3, <1>7, <1>8 DEF Durable!Next

LEMMA RotateWriteMaps ==
    ASSUME DInv, DInv', NEW p \in Proc, RotateWrite(p)
    PROVE  Durable!Next
<1> USE DEF DInv, FInv, Extra
<1>1. /\ pc[p] = "rotateWrite" /\ disk' = snap[p] /\ snap[p] = Installed(p)
      /\ pc' = [pc EXCEPT ![p] = "rotateCommit"] /\ replaced' = replaced \cup {arg[p]}
      /\ UNCHANGED <<mem, arg, new, snap, up, lapsed, issued, acked, revoking, revoked>>
      BY DEF RotateWrite, Installs, lockVars
<1>2. \A q \in Proc : pc'[q] = IF q = p THEN "rotateCommit" ELSE pc[q] BY <1>1 DEF TypeOK
<1>3. \A q \in Proc : q # p => pc[q] \notin Saving BY <1>1, OneSaves
<1>4. /\ arg[p] \in Pair /\ new[p] \in Pair /\ arg[p] # new[p]
      /\ \A k \in Pair : disk'[k] = IF k = new[p] THEN 0
                                    ELSE IF k = arg[p] THEN NoEntry ELSE mem[k]
      BY <1>1, InstalledEntries
<1>5. /\ Rotations("rotateWrite") = {<<arg[p], new[p]>>} /\ Rotations("rotateWrite")' = {}
      /\ Rotations("rotateCommit") = {} /\ Rotations("rotateCommit")' = {<<arg[p], new[p]>>}
      BY <1>1, <1>2, <1>3 DEF Rotations
<1>6. Visible = mem /\ \A k \in replaced : ~In(mem, k) BY <1>1, <1>3, VisibleIsMemory
<1>7. Visible' = [Visible EXCEPT ![arg[p]] = NoEntry]
      BY <1>1, <1>4, <1>6 DEF Visible, In, TypeOK, Store
<1>8. In(mem, arg[p]) BY <1>1 DEF Predecessors
<1>9. disk' = [Visible EXCEPT ![arg[p]] = NoEntry, ![new[p]] = 0]
      BY <1>1, <1>4, <1>6 DEF Installed
<1> DEFINE r == <<arg[p], new[p]>>
<1>10. r[1] = arg[p] /\ r[2] = new[p] /\ r \in Rotations("rotateWrite") BY <1>5
<1>11. Durable!Replace(r[1], r[2])
       BY <1>1, <1>5, <1>6, <1>7, <1>8, <1>9, <1>10 DEF Durable!Replace, Durable!In, In
<1>12. Durable!Ends
  <2>1. \A k \in issued : Nowhere(k) => k # new[p] /\ k \in Pair BY DEF Nowhere, TypeOK
  <2>2. \A k \in issued : Nowhere(k) => Nowhere(k)' BY <2>1, <1>1, <1>4 DEF Nowhere, In
  <2>3. \A q \in Proc : q # p => new[q] = NoPair /\ snap[q] = EmptyStore
        BY <1>3 DEF Calls, Snapshots
  <2>4. \A k \in Pair : ~In(EmptyStore, k) BY DEF EmptyStore, In
  <2>5. ASSUME NEW k \in Pair, In(disk, k), ~In(disk', k) PROVE k \in Ended'
    <3>1. k \in issued /\ k # new[p] BY <2>5, <1>4 DEF Undrawn, In
    <3>2. CASE k = arg[p] BY <3>1, <3>2, <1>1 DEF Ended
    <3>3. CASE k # arg[p]
      <4>1. ~In(mem, k) BY <2>5, <3>1, <3>3, <1>4 DEF In
      <4>2. Nowhere(k)'
            BY <2>3, <2>4, <2>5, <3>1, <4>1, <1>1 DEF Nowhere, In
      <4> QED BY <3>1, <4>2, <1>1 DEF Ended
    <3> QED BY <3>2, <3>3
  <2> QED BY <2>2, <2>5, <1>1, EndsHolds
<1> HIDE DEF r
<1> QED BY <1>10, <1>11, <1>12 DEF Durable!Next

LEMMA RotateCommitMaps ==
    ASSUME DInv, DInv', NEW p \in Proc, RotateCommit(p)
    PROVE  Durable!Next
<1> USE DEF DInv, FInv, Extra
<1>1. /\ pc[p] = "rotateCommit" /\ mem' = Installed(p) /\ disk = Installed(p)
      /\ arg[p] \in replaced /\ acked' = acked \cup {new[p]}
      /\ pc' = [pc EXCEPT ![p] = "idle"] /\ arg' = [arg EXCEPT ![p] = NoPair]
      /\ new' = [new EXCEPT ![p] = NoPair] /\ snap' = [snap EXCEPT ![p] = EmptyStore]
      /\ UNCHANGED <<disk, up, lapsed, issued, replaced, revoking, revoked>>
      BY DEF RotateCommit, RotateReturns, Installs, Installed
<1>2. \A q \in Proc : pc'[q] = (IF q = p THEN "idle" ELSE pc[q])
                      /\ new'[q] = (IF q = p THEN NoPair ELSE new[q])
                      /\ snap'[q] = (IF q = p THEN EmptyStore ELSE snap[q])
      BY <1>1 DEF TypeOK
<1>3. \A q \in Proc : q # p => pc[q] \notin Saving BY <1>1, OneSaves
<1>4. /\ arg[p] \in Pair /\ new[p] \in Pair /\ arg[p] # new[p] /\ new[p] \notin replaced
      /\ \A k \in Pair : Installed(p)[k] = IF k = new[p] THEN 0
                                           ELSE IF k = arg[p] THEN NoEntry ELSE mem[k]
      BY <1>1, InstalledEntries DEF Calls
<1>5. /\ Rotations("rotateCommit") = {<<arg[p], new[p]>>} /\ Rotations("rotateCommit")' = {}
      /\ Rotations("rotateWrite") = {} /\ Rotations("rotateWrite")' = {}
      BY <1>1, <1>2, <1>3 DEF Rotations
<1>6. Visible' = [Visible EXCEPT ![new[p]] = 0] BY <1>1, <1>4 DEF Visible
<1>7. In(disk, new[p]) BY <1>1, <1>4 DEF In
<1> DEFINE r == <<arg[p], new[p]>>
<1>8. r[1] = arg[p] /\ r[2] = new[p] /\ r \in Rotations("rotateCommit") BY <1>5
<1>9. Durable!Acknowledge(r[1], r[2])
      BY <1>1, <1>5, <1>6, <1>7, <1>8 DEF Durable!Acknowledge, Durable!In, In
<1> HIDE DEF r
<1>10. Durable!Ends
  <2>1. \A k \in Pair : ~In(EmptyStore, k) /\ k # NoPair BY DEF EmptyStore, In
  <2>2. \A k \in issued : Nowhere(k) => k # new[p] /\ k \in Pair BY DEF Nowhere, TypeOK
  <2>3. \A k \in issued : Nowhere(k) => Nowhere(k)'
        BY <2>1, <2>2, <1>1, <1>2, <1>4 DEF Nowhere, In
  <2> QED BY <2>3, <1>1, EndsHolds
<1> QED BY <1>8, <1>9, <1>10 DEF Durable!Next

LEMMA CrashMaps == DInv /\ DInv' /\ Crash => Durable!Next
<1> SUFFICES ASSUME DInv, DInv', Crash PROVE Durable!Next OBVIOUS
<1>1. /\ up' = FALSE /\ mem' = EmptyStore
      /\ UNCHANGED <<disk, lapsed, issued, replaced, acked, revoking, revoked>>
      BY DEF Crash, history
<1>2. \A q \in Proc : pc'[q] = "idle" /\ new'[q] = NoPair BY DEF Crash
<1>3. \A q \in Proc : snap'[q] = EmptyStore BY DEF Crash, EmptyStore
<1>4. Rotations("rotateWrite")' = {} /\ Rotations("rotateCommit")' = {} BY <1>2 DEF Rotations
<1>5. Visible' = Durable!EmptyStore BY <1>1 DEF Visible, EmptyStore, Durable!EmptyStore
<1>6. Durable!Crash BY <1>1, <1>4, <1>5 DEF Durable!Crash
<1>7. Durable!Ends
  <2>1. \A k \in Pair : ~In(EmptyStore, k) /\ k # NoPair BY DEF EmptyStore, In
  <2>2. \A k \in issued : Nowhere(k) => Nowhere(k)'
        BY <2>1, <1>1, <1>2, <1>3 DEF Nowhere, In, DInv, FInv, TypeOK
  <2> QED BY <2>2, <1>1, EndsHolds
<1> QED BY <1>6, <1>7 DEF Durable!Next

LEMMA RestartMaps == DInv /\ DInv' /\ Restart => Durable!Next
<1> SUFFICES ASSUME DInv, DInv', Restart PROVE Durable!Next OBVIOUS
<1> USE DEF DInv, FInv, Extra
<1>1. /\ ~up /\ up' = TRUE /\ mem' = Loaded
      /\ UNCHANGED <<disk, pc, arg, new, snap, lapsed, issued, replaced, acked, revoking, revoked>>
      BY DEF Restart, lockVars, callVars
<1>2. \A l \in {"rotateWrite", "rotateCommit"} : Rotations(l)' = Rotations(l)
      BY <1>1, RotationsKept
<1>3. Visible' = Loaded
  <2>1. \A k \in replaced : disk[k] = NoEntry BY DEF Replaced, In
  <2> QED BY <2>1, <1>1 DEF Visible, Loaded
<1>4. Durable!Restart BY <1>1, <1>2, <1>3 DEF Durable!Restart, Loaded
<1>5. Durable!Ends
  <2>1. \A k \in issued : Nowhere(k) => Nowhere(k)'
        BY <1>1 DEF Nowhere, In, Loaded, TypeOK
  <2> QED BY <2>1, <1>1, EndsHolds
<1> QED BY <1>4, <1>5 DEF Durable!Next

LEMMA LapseMaps ==
    ASSUME DInv, DInv', NEW k \in Pair, Lapse(k)
    PROVE  Durable!Next
<1>1. /\ lapsed' = lapsed \cup {k}
      /\ UNCHANGED <<mem, disk, pc, arg, new, snap, up, issued, replaced, acked, revoking, revoked>>
      BY DEF Lapse, fileVars, lockVars, callVars, history
<1>2. \A l \in {"rotateWrite", "rotateCommit"} : Rotations(l)' = Rotations(l)
      BY <1>1, RotationsKept
<1>3. Visible' = Visible BY <1>1 DEF Visible
<1>4. Durable!Lapse(k) BY <1>1, <1>2, <1>3 DEF Durable!Lapse
<1>5. Durable!Ends
  <2>1. \A j \in issued : Nowhere(j) => Nowhere(j)' BY <1>1 DEF Nowhere, In
  <2> QED BY <2>1, <1>1, EndsHolds
<1> QED BY <1>4, <1>5 DEF Durable!Next

LEMMA StutterMaps == UNCHANGED vars => UNCHANGED Durable!vars
BY DEF vars, fileVars, lockVars, callVars, history, Durable!vars, Visible, Rotations, Ended,
       Nowhere, In

LEMMA StepMaps == DInv /\ DInv' /\ [Next]_vars => [Durable!Next]_(Durable!vars)
<1> SUFFICES ASSUME DInv, DInv', [Next]_vars PROVE Durable!Next \/ UNCHANGED Durable!vars OBVIOUS
<1>1. CASE \E p \in Proc, k \in Pair :
              \/ StoreToken(p, k) \/ UpdateEntry(p, k) \/ DeleteToken(p, k)
              \/ \E k2 \in Pair : RotateLock(p, k, k2)
      BY <1>1, StoreTokenMaps, UpdateEntryMaps, DeleteTokenMaps, RotateLockMaps
<1>2. CASE \E p \in Proc : CallStep(p)
      BY <1>2, PersistLockMaps, SnapshotMaps, WriteFileMaps, WriteFileFailsMaps,
         RotateRefusedMaps, RotateWriteFailsMaps, RotateSnapshotMaps, RotateWriteMaps,
         RotateCommitMaps DEF CallStep
<1>3. CASE \E gone \in SUBSET {k \in lapsed : In(mem, k)} : gone # {} /\ PurgeExpired(gone)
      BY <1>3, PurgeMaps
<1>4. CASE Crash \/ Restart \/ \E k \in Pair : Lapse(k)
      BY <1>4, CrashMaps, RestartMaps, LapseMaps
<1>5. CASE UNCHANGED vars BY <1>5, StutterMaps
<1> QED BY <1>1, <1>2, <1>3, <1>4, <1>5 DEF Next

LEMMA InitMaps == Init => Durable!Init
<1> SUFFICES ASSUME Init PROVE Durable!Init OBVIOUS
<1>1. \A q \in Proc : pc[q] = "idle" BY DEF Init
<1>2. Rotations("rotateWrite") = {} /\ Rotations("rotateCommit") = {} BY <1>1 DEF Rotations
<1>3. Visible = Durable!EmptyStore BY DEF Init, Visible, EmptyStore, Durable!EmptyStore
<1>4. disk = Durable!EmptyStore BY DEF Init, EmptyStore, Durable!EmptyStore
<1>5. Ended = {} BY DEF Init, Ended
<1> QED BY <1>2, <1>3, <1>4, <1>5 DEF Init, Durable!Init

\* Memory, file, snapshots and the two locks together are one durable store: a
\* rotation succeeds once and is on the file when it is acknowledged, the file
\* never goes back, and what has ended does not return (token_store.go:82).
THEOREM ImplementsDurable == Spec => StoreIsDurable
<1>1. Spec => [](FInv /\ Extra) BY SpecExtra
<1>2. DInv /\ DInv' /\ [Next]_vars => [Durable!Next]_(Durable!vars) BY StepMaps
<1> QED BY <1>1, <1>2, InitMaps, PTL DEF Spec, DInv, StoreIsDurable, Durable!Spec
=============================================================================
