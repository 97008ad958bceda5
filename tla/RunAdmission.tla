---------------------------- MODULE RunAdmission ----------------------------
(* Shared ownership of one thread by requests of several processes, over     *)
(* Postgres: a row with an owner token and an expiry by the database clock,  *)
(* renewed by a heartbeat, and a pool whose transactions lock and check that *)
(* row around everything they do.  An admission is used for one request.     *)
EXTENDS Naturals

CONSTANTS Owners, None,
          MaxHead  \* bound on the writes to the thread's state

ASSUME AdmissionAssumption == /\ None \notin Owners \cup Nat
                              /\ None \notin Owners \X {"heartbeat", "store"}
                              /\ MaxHead \in Nat

VARIABLES row,        \* the owner token in the thread's row; None: no row
          live,       \* the row's expiry is in the future
          lock,       \* who holds the row's lock: a client of an owner
          state,      \* of each admission
          held,       \* admissions that were answered they own the thread
          releasing,  \* admissions whose release was called
          op,         \* each admission's serialized operation
          tx, wrote,  \* its fenced transaction, and whether it wrote
          head, seen  \* the thread's stored state, and what each owner knows

admission == <<state, held, releasing>>
fenced == <<tx, wrote, head, seen>>
vars == <<row, live, lock, admission, op, fenced>>

States == {"idle", "active", "terminal", "dead"}
Operations == {"new", "insert", "granted", "refused", "none", "renew", "renewing", "over"}
TxPhases == {"none", "begun", "locked", "valid", "commit"}
Clients == {"heartbeat", "store"}

Init == /\ row = None /\ live = FALSE /\ lock = None
        /\ state = [o \in Owners |-> "idle"]
        /\ held = {} /\ releasing = {}
        /\ op = [o \in Owners |-> "new"]
        /\ tx = [o \in Owners |-> "none"]
        /\ wrote = {}
        /\ head = 0
        /\ seen = [o \in Owners |-> None]

Turn(o, operation) == op' = [op EXCEPT ![o] = operation]
Move(o, phase) == tx' = [tx EXCEPT ![o] = phase]

(* Ownership is over for good; the admission's signal aborts the run. *)
fail(o) == state' = [state EXCEPT ![o] = IF @ = "dead" THEN @ ELSE "terminal"]

Unlock(o, client) == lock' = IF lock = <<o, client>> THEN None ELSE lock

-----------------------------------------------------------------------------
(* Acquiring. *)

TryAcquire(o) == /\ op[o] = "new" /\ state[o] = "idle"
                 /\ Turn(o, "insert")
                 /\ UNCHANGED <<row, live, lock, admission, fenced>>

(* Mutant: the expiry is judged before the row's lock is waited for. *)
InsertUnlocked(o) ==
  /\ op[o] = "insert" /\ state[o] # "dead"
  /\ IF row = None \/ ~live
     THEN row' = o /\ live' = TRUE /\ Turn(o, "granted")
     ELSE UNCHANGED <<row, live>> /\ Turn(o, "refused")
  /\ UNCHANGED <<lock, admission, fenced>>

(* The conditional insert waits for the row's lock, then looks at the clock.  *)
Insert(o) ==
  /\ op[o] = "insert" /\ state[o] # "dead"
  /\ lock = None
  /\ IF row = None \/ ~live
     THEN row' = o /\ live' = TRUE /\ Turn(o, "granted")
     ELSE UNCHANGED <<row, live>> /\ Turn(o, "refused")
  /\ UNCHANGED <<lock, admission, fenced>>

Acquired(o) ==
  /\ op[o] \in {"granted", "refused"} /\ state[o] # "dead"
  /\ IF op[o] = "granted"
     THEN /\ held' = held \cup {o}
          /\ state' = [state EXCEPT ![o] = IF @ = "idle" THEN "active" ELSE @]
     ELSE UNCHANGED <<held, state>>
  /\ Turn(o, "none")
  /\ UNCHANGED <<row, live, lock, releasing, fenced>>

(* The insert's answer is lost: the row may have been taken. *)
AcquireFails(o) == /\ op[o] \in {"insert", "granted", "refused"} /\ state[o] # "dead"
                   /\ fail(o)
                   /\ Turn(o, "none")
                   /\ UNCHANGED <<row, live, lock, held, releasing, fenced>>

-----------------------------------------------------------------------------
(* The heartbeat: lock the row, then renew it if it has not expired. *)

Heartbeat(o) == /\ op[o] = "none" /\ state[o] = "active"
                /\ Turn(o, "renew")
                /\ UNCHANGED <<row, live, lock, admission, fenced>>

(* A row of another owner is not matched, and not waited for. *)
RenewLock(o) == /\ op[o] = "renew" /\ state[o] # "dead"
                /\ row = o => lock = None
                /\ lock' = IF row = o THEN <<o, "heartbeat">> ELSE lock
                /\ Turn(o, "renewing")
                /\ UNCHANGED <<row, live, admission, fenced>>

(* Mutant: the renewal does not look at the expiry. *)
RenewExpired(o) == /\ op[o] = "renewing" /\ state[o] # "dead"
                   /\ IF row = o
                      THEN live' = TRUE /\ UNCHANGED state
                      ELSE fail(o) /\ UNCHANGED live
                   /\ Unlock(o, "heartbeat")
                   /\ Turn(o, "none")
                   /\ UNCHANGED <<row, held, releasing, fenced>>

(* Mutant: a renewal that matches no row is not an error. *)
RenewQuietly(o) == /\ op[o] = "renewing" /\ state[o] # "dead"
                   /\ Unlock(o, "heartbeat")
                   /\ Turn(o, "none")
                   /\ UNCHANGED <<row, live, state, held, releasing, fenced>>

Renew(o) == /\ op[o] = "renewing" /\ state[o] # "dead"
            /\ IF row = o /\ live
               THEN live' = TRUE /\ UNCHANGED state
               ELSE fail(o) /\ UNCHANGED live
            /\ Unlock(o, "heartbeat")
            /\ Turn(o, "none")
            /\ UNCHANGED <<row, held, releasing, fenced>>

RenewFails(o) == /\ op[o] \in {"renew", "renewing"} /\ state[o] # "dead"
                 /\ fail(o)
                 /\ Unlock(o, "heartbeat")
                 /\ Turn(o, "none")
                 /\ UNCHANGED <<row, live, held, releasing, fenced>>

-----------------------------------------------------------------------------
(* Releasing: at once for the admission, then behind its operations for the  *)
(* row, and only if it is still this owner's.                                *)

Release(o) == /\ o \notin releasing /\ state[o] # "dead"
              /\ releasing' = releasing \cup {o}
              /\ fail(o)
              /\ UNCHANGED <<row, live, lock, held, op, fenced>>

Delete(o) ==
  /\ o \in releasing /\ op[o] \in {"new", "none"} /\ state[o] # "dead"
  /\ IF o \in held /\ row = o
     THEN lock = None /\ row' = None /\ live' = FALSE
     ELSE UNCHANGED <<row, live>>
  /\ Turn(o, "over")
  /\ UNCHANGED <<lock, admission, fenced>>

DeleteFails(o) == /\ o \in releasing \cap held /\ op[o] = "none" /\ state[o] # "dead"
                  /\ Turn(o, "over")
                  /\ UNCHANGED <<row, live, lock, admission, fenced>>

-----------------------------------------------------------------------------
(* A fenced transaction: begin, validate (lock the row, then check it), run  *)
(* statements, validate again, commit.  (An explicit transaction validates   *)
(* before each statement too; a query of its own does not.)                  *)

Usable(o) == row = o /\ live /\ state[o] = "active"

(* Mutant: what the transaction wrote is kept. *)
rollbackDirty(o) == /\ Move(o, "none")
                    /\ Unlock(o, "store")
                    /\ UNCHANGED <<wrote, head, seen>>

rollback(o) == /\ Move(o, "none")
               /\ wrote' = wrote \ {o}
               /\ Unlock(o, "store")
               /\ UNCHANGED <<head, seen>>

TxBegin(o) == /\ tx[o] = "none" /\ state[o] = "active"
              /\ Move(o, "begun")
              /\ UNCHANGED <<row, live, lock, admission, op, wrote, head, seen>>

(* Mutant: the row is checked without a lock on it. *)
TxLockSkipped(o) == /\ tx[o] = "begun" /\ state[o] = "active"
                    /\ Move(o, "locked")
                    /\ UNCHANGED <<row, live, lock, admission, op, wrote, head, seen>>

TxLock(o) == /\ tx[o] = "begun" /\ state[o] = "active"
             /\ row = o => lock = None
             /\ lock' = IF row = o THEN <<o, "store">> ELSE lock
             /\ Move(o, "locked")
             /\ UNCHANGED <<row, live, admission, op, wrote, head, seen>>

TxCheck(o) ==
  /\ tx[o] \in {"locked", "valid"} /\ state[o] # "dead"
  /\ IF Usable(o)
     THEN /\ Move(o, IF tx[o] = "locked" THEN "valid" ELSE "commit")
          /\ UNCHANGED <<lock, state, wrote, head, seen>>
     ELSE rollback(o) /\ fail(o)
  /\ UNCHANGED <<row, live, held, releasing, op>>

Statement(o) ==
  /\ tx[o] = "valid" /\ state[o] # "dead"
  /\ \/ seen' = [seen EXCEPT ![o] = head] /\ UNCHANGED wrote
     \/ /\ seen[o] # None /\ head < MaxHead
        /\ wrote' = wrote \cup {o}
        /\ UNCHANGED seen
  /\ UNCHANGED <<row, live, lock, admission, op, tx, head>>

Commit(o) ==
  /\ tx[o] = "commit" /\ state[o] # "dead"
  /\ IF o \in wrote
     THEN head' = head + 1 /\ seen' = [seen EXCEPT ![o] = head + 1]
     ELSE UNCHANGED <<head, seen>>
  /\ Move(o, "none")
  /\ wrote' = wrote \ {o}
  /\ Unlock(o, "store")
  /\ UNCHANGED <<row, live, admission, op>>

(* The caller gives up, an error, or a call after ownership ended. *)
Rollback(o) == /\ tx[o] # "none" /\ state[o] # "dead"
               /\ rollback(o)
               /\ UNCHANGED <<row, live, admission, op>>

-----------------------------------------------------------------------------
(* Time, and the death of a process, whose sessions the database ends later. *)

Expire == live /\ live' = FALSE /\ UNCHANGED <<row, lock, admission, op, fenced>>

Crash(o) == /\ state[o] # "dead"
            /\ state' = [state EXCEPT ![o] = "dead"]
            /\ UNCHANGED <<row, live, lock, held, releasing, op, fenced>>

SessionsEnd(o) == /\ state[o] = "dead" /\ <<op[o], tx[o]>> # <<"over", "none">>
                  /\ lock' = IF lock \in {o} \X Clients THEN None ELSE lock
                  /\ Move(o, "none")
                  /\ wrote' = wrote \ {o}
                  /\ Turn(o, "over")
                  /\ UNCHANGED <<row, live, admission, head, seen>>

-----------------------------------------------------------------------------

(* What goes on by itself: answers and serialized operations, the heartbeat's *)
(* timer, the end of a transaction, the end of a dead process's sessions.     *)
Operate(o) == \/ Insert(o) \/ Acquired(o) \/ Delete(o)
              \/ Heartbeat(o) \/ RenewLock(o) \/ Renew(o)
EndTx(o) == TxCheck(o) \/ Commit(o) \/ Rollback(o)

Next == \/ \E o \in Owners :
             \/ TryAcquire(o) \/ Operate(o) \/ AcquireFails(o) \/ RenewFails(o)
             \/ Release(o) \/ DeleteFails(o)
             \/ TxBegin(o) \/ TxLock(o) \/ Statement(o) \/ EndTx(o)
             \/ Crash(o) \/ SessionsEnd(o)
        \/ Expire

Spec == Init /\ [][Next]_vars

(* A lease that nobody renews expires. *)
Lapse == row \in Owners /\ state[row] # "active" /\ Expire

FairSpec == /\ Spec
            /\ \A o \in Owners : WF_vars(Operate(o)) /\ WF_vars(EndTx(o)) /\ WF_vars(SessionsEnd(o))
            /\ WF_vars(Lapse)

-----------------------------------------------------------------------------

(* Types; only an open transaction has uncommitted writes. *)
TypeOK == /\ row \in Owners \cup {None}
          /\ live \in BOOLEAN /\ (live => row # None)
          /\ lock \in (Owners \X Clients) \cup {None}
          /\ state \in [Owners -> States]
          /\ held \subseteq Owners /\ releasing \subseteq Owners
          /\ op \in [Owners -> Operations]
          /\ tx \in [Owners -> TxPhases]
          /\ wrote \subseteq {o \in Owners : tx[o] \in {"valid", "commit"}}
          /\ head \in Nat /\ head <= MaxHead
          /\ seen \in [Owners -> Nat \cup {None}]

(* A transaction that was validated keeps the thread until it ends, even past *)
(* its expiry and its release: nobody takes the row from under it, so what it *)
(* commits precedes everything a successor reads.                             *)
ValidatedTxKeepsTheRow ==
  \A o \in Owners : tx[o] \in {"valid", "commit"} => row = o /\ lock = <<o, "store">>

(* A renewal cannot revive an owner that expired: a row comes back to life    *)
(* only by passing to a new owner.                                            *)
ExpiryIsFinal == [][~live /\ live' => row' # row]_vars

(* The thread's state is read and written only by its owner, on top of what   *)
(* that owner saw: a run of a lost owner cannot overwrite its successor's.    *)
Ownership == INSTANCE ThreadOwnership WITH owner <- row
ImplementsOwnership == Ownership!Spec

(* A run whose row went to another owner is stopped (the heartbeat finds      *)
(* out), and a released or crashed owner's thread becomes free, without an    *)
(* operator.                                                                  *)
LeasesEnd == \A o \in Owners :
  /\ (state[o] = "active" /\ row # o) ~> state[o] # "active"
  /\ (row = o /\ (o \in releasing \/ state[o] = "dead")) ~> (row # o \/ (~live /\ lock = None))
=============================================================================
