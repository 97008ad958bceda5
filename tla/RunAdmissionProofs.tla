------------------------- MODULE RunAdmissionProofs -------------------------
(* What shared run admission guarantees for any owners: the thread's state   *)
(* is read and written by one owner at a time, each on top of what it saw.   *)
EXTENDS RunAdmission, TLAPS

(* An admission whose insert is not answered owns, knows and does nothing. *)
Fresh == \A o \in Owners :
  op[o] \in {"new", "insert"} =>
    /\ row # o
    /\ seen[o] = None
    /\ tx[o] = "none"
    /\ state[o] # "active"

(* A transaction that locked the row of its owner has the lock.  (One that    *)
(* found another owner's row has none, and its check will fail.)              *)
LockedTxHoldsTheLock ==
  \A o \in Owners : tx[o] = "locked" /\ row = o => lock = <<o, "store">>

(* Whoever owns the row and has looked at the thread knows its head. *)
OwnersAreCurrent == \A o \in Owners : row = o /\ seen[o] # None => seen[o] = head

(* Only an owner that looked first has written, and the bound is not reached. *)
WritersLooked == \A o \in wrote : seen[o] # None /\ head < MaxHead

AdmissionInv == /\ TypeOK
                /\ ValidatedTxKeepsTheRow
                /\ LockedTxHoldsTheLock
                /\ Fresh
                /\ OwnersAreCurrent
                /\ WritersLooked

(* The two halves of the type invariant: Boolean, and everything else. *)
LiveType == live \in BOOLEAN /\ (live => row # None)

Shapes ==
  /\ row \in Owners \cup {None}
  /\ lock \in (Owners \X Clients) \cup {None}
  /\ state \in [Owners -> States]
  /\ held \subseteq Owners /\ releasing \subseteq Owners
  /\ op \in [Owners -> Operations]
  /\ tx \in [Owners -> TxPhases]
  /\ wrote \subseteq {o \in Owners : tx[o] \in {"valid", "commit"}}
  /\ head \in Nat /\ head <= MaxHead
  /\ seen \in [Owners -> Nat \cup {None}]

LEMMA InitInv == Init => AdmissionInv
<1> SUFFICES ASSUME Init PROVE AdmissionInv
  OBVIOUS
<1> USE AdmissionAssumption DEF Init
<1>1. TypeOK
  <2>1. LiveType
    BY DEF LiveType
  <2>2. Shapes
    BY SMT DEF Shapes, States, Operations, TxPhases
  <2> QED
    BY <2>1, <2>2 DEF TypeOK, LiveType, Shapes
<1>2. ValidatedTxKeepsTheRow /\ LockedTxHoldsTheLock
  BY DEF ValidatedTxKeepsTheRow, LockedTxHoldsTheLock
<1>3. Fresh /\ OwnersAreCurrent /\ WritersLooked
  BY DEF Fresh, OwnersAreCurrent, WritersLooked
<1> QED
  BY <1>1, <1>2, <1>3 DEF AdmissionInv

(* Every step keeps the invariant.  The row moves only while its lock is     *)
(* free, so never under a validated transaction; a head moves only by the    *)
(* row's owner, so every other owner's knowledge is not in use.              *)
LEMMA StepInv == AdmissionInv /\ [Next]_vars => AdmissionInv'
<1> SUFFICES ASSUME AdmissionInv, [Next]_vars PROVE AdmissionInv'
  OBVIOUS
<1> DEFINE Rest == /\ Shapes
                   /\ ValidatedTxKeepsTheRow /\ LockedTxHoldsTheLock
                   /\ Fresh /\ OwnersAreCurrent /\ WritersLooked
<1>0. LiveType /\ Rest
  BY DEF AdmissionInv, TypeOK, LiveType, Shapes
<1> SUFFICES LiveType' /\ Rest'
  BY DEF AdmissionInv, TypeOK, LiveType, Shapes
<1> USE AdmissionAssumption, <1>0
        DEF Shapes, ValidatedTxKeepsTheRow, LockedTxHoldsTheLock, Fresh, OwnersAreCurrent, WritersLooked,
            admission, fenced, States, Operations, TxPhases, Clients
<1>1. ASSUME NEW o \in Owners, TryAcquire(o) PROVE LiveType' /\ Rest'
  <2>1. LiveType'
    BY <1>1 DEF LiveType, TryAcquire, Turn
  <2>2. Rest'
    BY <1>1, SMT DEF TryAcquire, Turn
  <2> QED
    BY <2>1, <2>2
<1>2. ASSUME NEW o \in Owners, Insert(o) PROVE LiveType' /\ Rest'
  <2>1. LiveType'
    BY <1>2 DEF LiveType, Insert, Turn
  <2>2. Rest'
    BY <1>2, SMT DEF Insert, Turn
  <2> QED
    BY <2>1, <2>2
<1>3. ASSUME NEW o \in Owners, Acquired(o) PROVE LiveType' /\ Rest'
  <2>1. LiveType'
    BY <1>3 DEF LiveType, Acquired, Turn
  <2>2. Rest'
    BY <1>3, SMT DEF Acquired, Turn
  <2> QED
    BY <2>1, <2>2
<1>4. ASSUME NEW o \in Owners, AcquireFails(o) PROVE LiveType' /\ Rest'
  <2>1. LiveType'
    BY <1>4 DEF LiveType, AcquireFails, fail, Turn
  <2>2. Rest'
    BY <1>4, SMT DEF AcquireFails, fail, Turn
  <2> QED
    BY <2>1, <2>2
<1>5. ASSUME NEW o \in Owners, Heartbeat(o) PROVE LiveType' /\ Rest'
  <2>1. LiveType'
    BY <1>5 DEF LiveType, Heartbeat, Turn
  <2>2. Rest'
    BY <1>5, SMT DEF Heartbeat, Turn
  <2> QED
    BY <2>1, <2>2
<1>6. ASSUME NEW o \in Owners, RenewLock(o) PROVE LiveType' /\ Rest'
  <2>1. LiveType'
    BY <1>6 DEF LiveType, RenewLock, Turn
  <2>2. Rest'
    BY <1>6, SMT DEF RenewLock, Turn
  <2> QED
    BY <2>1, <2>2
<1>7. ASSUME NEW o \in Owners, Renew(o) PROVE LiveType' /\ Rest'
  <2>1. LiveType'
    BY <1>7 DEF LiveType, Renew, fail, Unlock, Turn
  <2>2. Rest'
    BY <1>7, SMT DEF Renew, fail, Unlock, Turn
  <2> QED
    BY <2>1, <2>2
<1>8. ASSUME NEW o \in Owners, RenewFails(o) PROVE LiveType' /\ Rest'
  <2>1. LiveType'
    BY <1>8 DEF LiveType, RenewFails, fail, Unlock, Turn
  <2>2. Rest'
    BY <1>8, SMT DEF RenewFails, fail, Unlock, Turn
  <2> QED
    BY <2>1, <2>2
<1>9. ASSUME NEW o \in Owners, Release(o) PROVE LiveType' /\ Rest'
  <2>1. LiveType'
    BY <1>9 DEF LiveType, Release, fail
  <2>2. Rest'
    BY <1>9, SMT DEF Release, fail
  <2> QED
    BY <2>1, <2>2
<1>10. ASSUME NEW o \in Owners, Delete(o) PROVE LiveType' /\ Rest'
  <2>1. LiveType'
    BY <1>10 DEF LiveType, Delete, Turn
  <2>2. Rest'
    BY <1>10, SMT DEF Delete, Turn
  <2> QED
    BY <2>1, <2>2
<1>11. ASSUME NEW o \in Owners, DeleteFails(o) PROVE LiveType' /\ Rest'
  <2>1. LiveType'
    BY <1>11 DEF LiveType, DeleteFails, Turn
  <2>2. Rest'
    BY <1>11, SMT DEF DeleteFails, Turn
  <2> QED
    BY <2>1, <2>2
<1>12. ASSUME NEW o \in Owners, TxBegin(o) PROVE LiveType' /\ Rest'
  <2>1. LiveType'
    BY <1>12 DEF LiveType, TxBegin, Move
  <2>2. Rest'
    BY <1>12, SMT DEF TxBegin, Move
  <2> QED
    BY <2>1, <2>2
<1>13. ASSUME NEW o \in Owners, TxLock(o) PROVE LiveType' /\ Rest'
  <2>1. LiveType'
    BY <1>13 DEF LiveType, TxLock, Move
  <2>2. Rest'
    BY <1>13, SMT DEF TxLock, Move
  <2> QED
    BY <2>1, <2>2
<1>14. ASSUME NEW o \in Owners, TxCheck(o) PROVE LiveType' /\ Rest'
  <2>1. LiveType'
    BY <1>14 DEF LiveType, TxCheck, rollback, fail, Usable, Move, Unlock
  <2>2. Rest'
    <3>1. CASE Usable(o)
      <4>1. row = o /\ state[o] = "active"
        BY <3>1 DEF Usable
      <4> QED
        BY <1>14, <3>1, <4>1, SMT DEF TxCheck, Move
    <3>2. CASE ~Usable(o)
      BY <1>14, <3>2, SMT DEF TxCheck, rollback, fail, Move, Unlock
    <3> QED
      BY <3>1, <3>2
  <2> QED
    BY <2>1, <2>2
<1>15. ASSUME NEW o \in Owners, Statement(o) PROVE LiveType' /\ Rest'
  <2>1. LiveType'
    BY <1>15 DEF LiveType, Statement
  <2>2. Rest'
    BY <1>15, SMT DEF Statement
  <2> QED
    BY <2>1, <2>2
<1>16. ASSUME NEW o \in Owners, Commit(o) PROVE LiveType' /\ Rest'
  <2>1. LiveType'
    BY <1>16 DEF LiveType, Commit, Move, Unlock
  <2>2. Rest'
    BY <1>16, SMT DEF Commit, Move, Unlock
  <2> QED
    BY <2>1, <2>2
<1>17. ASSUME NEW o \in Owners, Rollback(o) PROVE LiveType' /\ Rest'
  <2>1. LiveType'
    BY <1>17 DEF LiveType, Rollback, rollback, Move, Unlock
  <2>2. Rest'
    BY <1>17, SMT DEF Rollback, rollback, Move, Unlock
  <2> QED
    BY <2>1, <2>2
<1>18. ASSUME NEW o \in Owners, Crash(o) PROVE LiveType' /\ Rest'
  <2>1. LiveType'
    BY <1>18 DEF LiveType, Crash
  <2>2. Rest'
    BY <1>18, SMT DEF Crash
  <2> QED
    BY <2>1, <2>2
<1>19. ASSUME NEW o \in Owners, SessionsEnd(o) PROVE LiveType' /\ Rest'
  <2>1. LiveType'
    BY <1>19 DEF LiveType, SessionsEnd, Move, Turn
  <2>2. Rest'
    BY <1>19, SMT DEF SessionsEnd, Move, Turn
  <2> QED
    BY <2>1, <2>2
<1>20. CASE Expire
  <2>1. LiveType'
    BY <1>20 DEF LiveType, Expire
  <2>2. Rest'
    BY <1>20, SMT DEF Expire
  <2> QED
    BY <2>1, <2>2
<1>21. CASE UNCHANGED vars
  <2>1. LiveType'
    BY <1>21 DEF LiveType, vars
  <2>2. Rest'
    BY <1>21, SMT DEF vars
  <2> QED
    BY <2>1, <2>2
<1> QED
  BY <1>1, <1>2, <1>3, <1>4, <1>5, <1>6, <1>7, <1>8, <1>9, <1>10, <1>11, <1>12, <1>13, <1>14, <1>15, <1>16, <1>17, <1>18, <1>19, <1>20, <1>21 DEF Next, Operate, EndTx

LEMMA Invariance == Spec => []AdmissionInv
<1>1. Init => AdmissionInv
  BY InitInv
<1>2. AdmissionInv /\ [Next]_vars => AdmissionInv'
  BY StepInv
<1> QED
  BY <1>1, <1>2, PTL DEF Spec

(* Type correctness of the admissions, their row and their transactions; only *)
(* an open transaction has uncommitted writes.                                *)
THEOREM AdmissionTypeOK == Spec => []TypeOK
<1>1. AdmissionInv => TypeOK
  BY DEF AdmissionInv
<1> QED
  BY <1>1, Invariance, PTL

(* The fence: once validated, a transaction has the thread's row to itself    *)
(* until it ends, whatever expires, is released or crashes meanwhile.         *)
THEOREM AdmissionFence == Spec => []ValidatedTxKeepsTheRow
<1>1. AdmissionInv => ValidatedTxKeepsTheRow
  BY DEF AdmissionInv
<1> QED
  BY <1>1, Invariance, PTL

(* No renewal revives an expired owner: only the insert of another makes the  *)
(* row live again.                                                            *)
THEOREM AdmissionExpiry == Spec => ExpiryIsFinal
<1>1. AdmissionInv /\ [Next]_vars => [~live /\ live' => row' # row]_vars
  <2> SUFFICES ASSUME AdmissionInv, Next, ~live, live' PROVE row' # row
    OBVIOUS
  <2> USE DEF admission, fenced
  <2>1. ASSUME NEW o \in Owners, Insert(o) PROVE row' # row
    BY <2>1 DEF Insert, AdmissionInv, Fresh
  <2>2. ASSUME NEW o \in Owners, Renew(o) PROVE FALSE
    BY <2>2 DEF Renew
  <2>3. ASSUME NEW o \in Owners, Delete(o) PROVE FALSE
    BY <2>3 DEF Delete
  <2> QED
    BY <2>1, <2>2, <2>3
       DEF Next, Operate, EndTx, TryAcquire, Acquired, AcquireFails, Heartbeat, RenewLock,
           RenewFails, Release, DeleteFails, TxBegin, TxLock, TxCheck, Statement, Commit,
           Rollback, rollback, Expire, Crash, SessionsEnd
<1> QED
  BY <1>1, Invariance, PTL DEF Spec, ExpiryIsFinal

(* The implementation: a statement reads and a commit writes as the owner     *)
(* does, on top of what it saw; taking, leaving and expiring move the row.    *)
THEOREM AdmissionImplementsOwnership == Spec => ImplementsOwnership
<1> USE DEF Ownership!vars
<1>1. Init => Ownership!Init
  BY DEF Init, Ownership!Init
<1>2. AdmissionInv /\ [Next]_vars => [Ownership!Next]_(Ownership!vars)
  <2> SUFFICES ASSUME AdmissionInv, [Next]_vars
               PROVE  Ownership!Next \/ UNCHANGED <<row, head, seen>>
    OBVIOUS
  <2> USE DEF admission, fenced
  <2>1. ASSUME NEW o \in Owners, Insert(o) PROVE Ownership!Take(o) \/ UNCHANGED <<row, head, seen>>
    BY <2>1 DEF Insert, AdmissionInv, Fresh, Ownership!Take
  <2>2. ASSUME NEW o \in Owners, Delete(o) PROVE Ownership!Leave \/ UNCHANGED <<row, head, seen>>
    BY <2>2 DEF Delete, Ownership!Leave
  <2>3. ASSUME NEW o \in Owners, Statement(o)
        PROVE  Ownership!Read(o) \/ UNCHANGED <<row, head, seen>>
    BY <2>3 DEF Statement, AdmissionInv, ValidatedTxKeepsTheRow, Ownership!Read
  <2>4. ASSUME NEW o \in Owners, Commit(o)
        PROVE  Ownership!Write(o) \/ UNCHANGED <<row, head, seen>>
    BY <2>4 DEF Commit, AdmissionInv, ValidatedTxKeepsTheRow, OwnersAreCurrent, WritersLooked,
                Ownership!Write
  <2>5. CASE UNCHANGED vars
    BY <2>5 DEF vars
  <2> QED
    BY <2>1, <2>2, <2>3, <2>4, <2>5
       DEF Ownership!Next, Next, Operate, EndTx, TryAcquire, Acquired, AcquireFails, Heartbeat,
           RenewLock, Renew, RenewFails, Release, DeleteFails, TxBegin, TxLock, TxCheck,
           Rollback, rollback, Expire, Crash, SessionsEnd
<1> QED
  BY <1>1, <1>2, Invariance, PTL DEF Spec, ImplementsOwnership, Ownership!Spec
=============================================================================
