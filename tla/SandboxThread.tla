--------------------------- MODULE SandboxThread ---------------------------
(***************************************************************************)
(* The sandbox of one thread: SandboxManager                               *)
(* (packages/cli/src/lib/runtime/sandbox-manager.ts) over the Docker       *)
(* provider (packages/sandbox/src/docker/docker-sandbox.ts) and its gate,  *)
(* with the commands of docker-exec.ts and their one-shot recovery from    *)
(* PID exhaustion.                                                         *)
(*                                                                         *)
(* A route execution retains the thread, gets its handle, runs at most one *)
(* command (the bound on commands) and releases; a command it did not      *)
(* await may be issued or still run afterwards.  Cleanups are what the     *)
(* idle reaper, DELETE and close() do to the thread.  The Docker calls of  *)
(* an exclusive operation are one step: nothing else touches the thread's  *)
(* container while it runs.  Containers do not die by themselves.          *)
(*                                                                         *)
(* A keeper is a container, named by the operation that created it; an     *)
(* Entry of the manager and a DockerLifecycleState of the provider are     *)
(* named by the execution whose acquire created them.  Policies do not     *)
(* change.                                                                 *)
(***************************************************************************)
EXTENDS ThreadLifecycle

CONSTANTS Executions,  \* route executions, subagents included, of the thread
          Cleanups     \* calls of reapIdle, destroyThread and releaseAll

\* The operations that pass the gate.
acquireOp(x) == <<"acquire", x>>
execOp(x) == <<"exec", x>>
recoverOp(x) == <<"recover", x>>
cleanupOp(k) == <<"cleanup", k>>

Exclusives == {acquireOp(x) : x \in Executions} \cup {recoverOp(x) : x \in Executions}
              \cup {cleanupOp(k) : k \in Cleanups}
Shareds == {execOp(x) : x \in Executions}

ASSUME SandboxAssumption ==
  /\ Exclusive = Exclusives
  /\ Operations = Exclusives \cup Shareds
  /\ None \notin Executions

\* The container of an earlier server process.
found == <<"earlier", None>>

VARIABLES stage,      \* execution: "new", "retained", "awaiting", "using", "ended"
          entry,      \* the manager's Entry, or None
          handleOf,   \* entry -> the state of its handle
          acquiring,  \* entries with an acquire under way
          awaits,     \* execution -> the entry whose acquire it awaits
          handle,     \* execution -> the state its handle belongs to
          snapshot,   \* reaper -> the entry its loop copied
          work,       \* cleanup -> "new", "release", "destroy", "none"
          cmd,        \* execution -> its command, see Commands below
          token,      \* execution -> [state, generation] its command captured
          inside,     \* execution -> the keeper its latest attempt entered
          current,    \* lifecycleStates.get(threadId)
          generation, \* state -> its keeper generation
          keeper,     \* the container, or None
          volume,     \* the workspace volume: "none" or "kept"
          retired     \* states removed by a failed recovery (history)

managerVars == <<stage, entry, handleOf, acquiring, awaits, handle, snapshot, work>>
commandVars == <<cmd, token, inside>>
dockerVars == <<current, generation, keeper, volume, retired>>
vars == <<gateVars, managerVars, commandVars, dockerVars>>

\* "waiting": its lease is queued or granted; "in": its first attempt runs;
\* "exhausted": the attempt could not start for lack of PIDs; "fencing": its
\* recovery is queued or granted; "retrying": the retry runs in the fence.
Commands == {"idle", "waiting", "in", "exhausted", "fencing", "retrying", "done"}

Uses == {x \in Executions : stage[x] \in {"retained", "awaiting", "using"}}

Init ==
  /\ LifecycleInit
  /\ stage = [x \in Executions |-> "new"]
  /\ cmd = [x \in Executions |-> "idle"]
  /\ entry = None
  /\ handleOf = [x \in Executions |-> None]
  /\ acquiring = {}
  /\ awaits = [x \in Executions |-> None]
  /\ handle = [x \in Executions |-> None]
  /\ snapshot = [k \in Cleanups |-> None]
  /\ work = [k \in Cleanups |-> "new"]
  /\ current = None
  /\ generation = [x \in Executions |-> 0]
  /\ keeper \in {None, found}
  /\ volume \in IF keeper = None THEN {"none", "kept"} ELSE {"kept"}
  /\ token = [x \in Executions |-> [state |-> None, generation |-> 0]]
  /\ inside = [x \in Executions |-> None]
  /\ retired = {}

----------------------------------------------------------------------------
\* The manager.
retain(x) ==
  /\ stage[x] = "new"
  /\ stage' = [stage EXCEPT ![x] = "retained"]
  /\ UNCHANGED <<gateVars, entry, handleOf, acquiring, awaits, handle, snapshot, work,
                 commandVars, dockerVars>>

\* getForThread: the entry's handle, its pending acquire, or an acquire of one's own.
getForThread(x) ==
  /\ stage[x] = "retained"
  /\ IF entry # None /\ entry \notin acquiring
       THEN /\ stage' = [stage EXCEPT ![x] = "using"]
            /\ handle' = [handle EXCEPT ![x] = handleOf[entry]]
            /\ UNCHANGED <<gateVars, entry, acquiring, awaits>>
     ELSE IF entry # None
       THEN /\ stage' = [stage EXCEPT ![x] = "awaiting"]
            /\ awaits' = [awaits EXCEPT ![x] = entry]
            /\ UNCHANGED <<gateVars, entry, acquiring, handle>>
     ELSE /\ stage' = [stage EXCEPT ![x] = "awaiting"]
          /\ awaits' = [awaits EXCEPT ![x] = x]
          /\ entry' = x
          /\ acquiring' = acquiring \cup {x}
          /\ enqueue(acquireOp(x))
          /\ UNCHANGED handle
  /\ UNCHANGED <<handleOf, snapshot, work, commandVars, dockerVars>>

\* The function retain returned, in the execution's finally.  A cancelled
\* execution does not wait for its tools.
release(x) ==
  /\ stage[x] \in {"retained", "using"}
  /\ stage' = [stage EXCEPT ![x] = "ended"]
  /\ UNCHANGED <<gateVars, entry, handleOf, acquiring, awaits, handle, snapshot, work,
                 commandVars, dockerVars>>

\* reapIdle copies its entries, then awaits the release of other threads.
reapIdle(k) ==
  /\ work[k] = "new" /\ snapshot[k] = None
  /\ entry # None
  /\ snapshot' = [snapshot EXCEPT ![k] = entry]
  /\ UNCHANGED <<gateVars, stage, entry, handleOf, acquiring, awaits, handle, work,
                 commandVars, dockerVars>>

drop(k, what) ==
  /\ work' = [work EXCEPT ![k] = what]
  /\ entry' = None
  /\ enqueue(cleanupOp(k))
  /\ UNCHANGED <<stage, handleOf, acquiring, awaits, handle, snapshot, commandVars, dockerVars>>

\* A reaper that trusts the idle time of the entry it copied.
ReapWithoutLooking(k) ==
  /\ work[k] = "new" /\ snapshot[k] # None
  /\ IF snapshot[k] \notin acquiring
       THEN drop(k, "release")
       ELSE work' = [work EXCEPT ![k] = "none"]
            /\ UNCHANGED <<gateVars, stage, entry, handleOf, acquiring, awaits, handle, snapshot,
                           commandVars, dockerVars>>

\* The loop reaches the thread: the uses are the current ones, the entry is the copy.
reapVisit(k) ==
  /\ work[k] = "new" /\ snapshot[k] # None
  /\ IF Uses = {} /\ snapshot[k] \notin acquiring
       THEN drop(k, "release")
       ELSE work' = [work EXCEPT ![k] = "none"]
            /\ UNCHANGED <<gateVars, stage, entry, handleOf, acquiring, awaits, handle, snapshot,
                           commandVars, dockerVars>>

\* destroyThread; it throws while the thread is retained.
destroyThread(k) ==
  /\ work[k] = "new" /\ snapshot[k] = None
  /\ Uses = {}
  /\ drop(k, "destroy")

\* releaseAll; it throws while any thread is retained.
releaseAll(k) ==
  /\ work[k] = "new" /\ snapshot[k] = None
  /\ Uses = {} /\ entry # None
  /\ drop(k, "release")

----------------------------------------------------------------------------
\* The provider: the exclusive operations.
\* The acquire settles: the entry has its handle, or it is deleted.
settleAcquire(x, s) ==
  /\ acquiring' = acquiring \ {x}
  /\ entry' = IF s = None THEN None ELSE entry
  /\ handleOf' = [handleOf EXCEPT ![x] = s]
  /\ handle' = [y \in Executions |-> IF awaits[y] = x THEN s ELSE handle[y]]
  /\ stage' = [y \in Executions |-> IF awaits[y] = x THEN IF s = None THEN "ended" ELSE "using"
                                    ELSE stage[y]]
  /\ awaits' = [y \in Executions |-> IF awaits[y] = x THEN None ELSE awaits[y]]
  /\ UNCHANGED <<snapshot, work, commandVars>>

\* ensureContainer: the keeper of the current state is reused, any other replaced.
acquire(x) ==
  LET s == IF current # None THEN current ELSE x
  IN  /\ exclusive = acquireOp(x)
      /\ finish(acquireOp(x))
      /\ settleAcquire(x, s)
      /\ current' = s
      /\ keeper' = IF current # None /\ keeper # None THEN keeper ELSE acquireOp(x)
      /\ volume' = "kept"
      /\ UNCHANGED <<generation, retired>>

\* What an operation that failed at any of its Docker calls may leave: the
\* keeper it found, none, or a new one whose creation it did not see succeed.
LeftBehind(op) ==
  \/ keeper' \in {keeper, None} /\ volume' \in {volume, "kept"}
  \/ keeper' = op /\ volume' = "kept"

\* Docker fails, or the caller's signal aborts the acquire.
acquireFails(x) ==
  /\ exclusive = acquireOp(x)
  /\ finish(acquireOp(x))
  /\ settleAcquire(x, None)
  /\ LeftBehind(acquireOp(x))
  /\ UNCHANGED <<current, generation, retired>>

\* provider.release and provider.destroy; failures of docker rm are ignored.
cleanup(k) ==
  /\ exclusive = cleanupOp(k)
  /\ finish(cleanupOp(k))
  /\ current' = None
  /\ keeper' \in {None, keeper}
  /\ volume' \in IF work[k] = "destroy" THEN {"none", volume} ELSE {volume}
  /\ UNCHANGED <<managerVars, commandVars, generation, retired>>

----------------------------------------------------------------------------
\* Commands.
runCommand(x) ==
  /\ handle[x] # None /\ cmd[x] = "idle"
  /\ cmd' = [cmd EXCEPT ![x] = "waiting"]
  /\ enqueue(execOp(x))
  /\ UNCHANGED <<managerVars, token, inside, dockerVars>>

\* Under the lease: the token and the docker exec belong to the same keeper.
attempt(x) ==
  /\ cmd[x] = "waiting" /\ execOp(x) \in shared
  /\ cmd' = [cmd EXCEPT ![x] = "in"]
  /\ token' = [token EXCEPT ![x] = [state |-> handle[x], generation |-> generation[handle[x]]]]
  /\ inside' = [inside EXCEPT ![x] = keeper]
  /\ UNCHANGED <<gateVars, managerVars, dockerVars>>

\* A failed attempt that asks for its recovery under its own shared lease.
AttemptKeepsItsLease(x) ==
  /\ cmd[x] = "in"
  /\ \/ cmd' = [cmd EXCEPT ![x] = "done"] /\ finish(execOp(x))
     \/ inside[x] # None /\ cmd' = [cmd EXCEPT ![x] = "exhausted"] /\ UNCHANGED gateVars
  /\ UNCHANGED <<managerVars, token, inside, dockerVars>>

\* The first attempt ends: the command ran or failed, or no process could start.
attempted(x) ==
  /\ cmd[x] = "in"
  /\ \/ cmd' = [cmd EXCEPT ![x] = "done"]
     \/ inside[x] # None /\ cmd' = [cmd EXCEPT ![x] = "exhausted"]
  /\ finish(execOp(x))
  /\ UNCHANGED <<managerVars, token, inside, dockerVars>>

recoverAndRetry(x) ==
  /\ cmd[x] = "exhausted"
  /\ cmd' = [cmd EXCEPT ![x] = "fencing"]
  /\ enqueue(recoverOp(x))
  /\ UNCHANGED <<managerVars, token, inside, dockerVars>>

\* A token is good for the state it was taken from while that is current.
Fresh(x) == token[x].state = current

Fenced(x) == cmd[x] = "fencing" /\ exclusive = recoverOp(x)

\* The original failure stands.
recoverStale(x) ==
  /\ Fenced(x) /\ ~Fresh(x)
  /\ cmd' = [cmd EXCEPT ![x] = "done"]
  /\ finish(recoverOp(x))
  /\ UNCHANGED <<managerVars, token, inside, dockerVars>>

ReplaceKeeper(x) ==
  /\ keeper' = recoverOp(x)
  /\ volume' = "kept"
  /\ generation' = [generation EXCEPT ![current] = @ + 1]

Retry(x) ==
  /\ cmd' = [cmd EXCEPT ![x] = "retrying"]
  /\ inside' = [inside EXCEPT ![x] = keeper']
  /\ UNCHANGED <<gateVars, managerVars, token, current, retired>>

\* A recovery that does not look at the generation.
ReplaceAlways(x) == Fenced(x) /\ Fresh(x) /\ ReplaceKeeper(x) /\ Retry(x)

\* The keeper of the token's generation is replaced, once; then the retry.
recover(x) ==
  /\ Fenced(x) /\ Fresh(x)
  /\ IF token[x].generation = generation[current]
       THEN ReplaceKeeper(x)
       ELSE UNCHANGED <<keeper, volume, generation>>
  /\ Retry(x)

\* Removal or recreation fails: the state is retired, its handles are dead.
recoverFails(x) ==
  /\ Fenced(x) /\ Fresh(x)
  /\ token[x].generation = generation[current]
  /\ LeftBehind(recoverOp(x))
  /\ current' = None
  /\ retired' = retired \cup {current}
  /\ cmd' = [cmd EXCEPT ![x] = "done"]
  /\ finish(recoverOp(x))
  /\ UNCHANGED <<managerVars, token, inside, generation>>

retried(x) ==
  /\ cmd[x] = "retrying"
  /\ cmd' = [cmd EXCEPT ![x] = "done"]
  /\ finish(recoverOp(x))
  /\ UNCHANGED <<managerVars, token, inside, dockerVars>>

\* The steps that an execution or the provider takes by itself.
Proceed(x) ==
  \/ acquire(x) \/ acquireFails(x)
  \/ attempt(x) \/ attempted(x)
  \/ recoverAndRetry(x) \/ recoverStale(x) \/ recover(x) \/ recoverFails(x) \/ retried(x)

Next ==
  \/ \E x \in Executions :
       retain(x) \/ getForThread(x) \/ release(x) \/ runCommand(x) \/ Proceed(x)
  \/ \E k \in Cleanups :
       reapIdle(k) \/ reapVisit(k) \/ destroyThread(k) \/ releaseAll(k) \/ cleanup(k)

Spec == Init /\ [][Next]_vars

(***************************************************************************)
(* Docker calls and commands end and promises continue; nobody has to      *)
(* start an execution, a command or a cleanup.                             *)
(***************************************************************************)
FairSpec ==
  /\ Spec
  /\ \A x \in Executions : WF_vars(Proceed(x))
  /\ \A k \in Cleanups : WF_vars(cleanup(k))

----------------------------------------------------------------------------
\* Every variable has its type.
TypeOK ==
  /\ LifecycleTypeOK
  /\ stage \in [Executions -> {"new", "retained", "awaiting", "using", "ended"}]
  /\ cmd \in [Executions -> Commands]
  /\ entry \in Executions \cup {None}
  /\ handleOf \in [Executions -> Executions \cup {None}]
  /\ acquiring \subseteq Executions
  /\ awaits \in [Executions -> Executions \cup {None}]
  /\ handle \in [Executions -> Executions \cup {None}]
  /\ snapshot \in [Cleanups -> Executions \cup {None}]
  /\ work \in [Cleanups -> {"new", "release", "destroy", "none"}]
  /\ token \in [Executions -> [state : Executions \cup {None}, generation : Nat]]
  /\ inside \in [Executions -> Operations \cup {found, None}]
  /\ current \in Executions \cup {None}
  /\ generation \in [Executions -> Nat]
  /\ keeper \in Operations \cup {found, None}
  /\ volume \in {"none", "kept"}
  /\ retired \subseteq Executions

(***************************************************************************)
(* No command loses the container it entered: while an attempt or a retry  *)
(* runs, the thread's keeper is the one it started in, whatever acquires,  *)
(* recoveries, releases and destroys are under way (the recovery's design: *)
(* recycling cannot kill a successful peer command).                       *)
(***************************************************************************)
CommandsKeepTheirKeeper ==
  \A x \in Executions : cmd[x] \in {"in", "retrying"} => inside[x] = keeper

(***************************************************************************)
(* A recovery replaces only the keeper its own command could not start in: *)
(* concurrent failures in one keeper cause one replacement, and a late one *)
(* never throws away the healthy keeper that replaced the exhausted one.   *)
(***************************************************************************)
RecoveryReplacesTheExhausted ==
  [][\A x \in Executions :
       Fenced(x) /\ cmd'[x] # "fencing" /\ keeper' # keeper => inside[x] = keeper]_vars

(***************************************************************************)
(* A handle in use stays good: the lifecycle state of the handle a running *)
(* execution holds is the current one, and its keeper and workspace exist, *)
(* unless a recovery of that state failed.  Reapers, deletes and shutdown  *)
(* never take a sandbox from under an execution that retained it.          *)
(***************************************************************************)
HandlesInUseAreLive ==
  \A x \in Executions :
    stage[x] = "using" /\ handle[x] \notin retired =>
      handle[x] = current /\ keeper # None /\ volume = "kept"

(***************************************************************************)
(* Whatever was invoked is served: an acquire that is awaited settles, a   *)
(* command that was issued ends, its recovery included, and a cleanup that *)
(* waits gets its turn: no operation waits for a lease it holds itself.    *)
(***************************************************************************)
EverybodyIsServed ==
  /\ \A x \in Executions : (stage[x] = "awaiting") ~> (stage[x] # "awaiting")
  /\ \A x \in Executions : (cmd[x] # "idle") ~> (cmd[x] = "done")
  /\ \A k \in Cleanups : (cleanupOp(k) \in Waiting) ~> (cleanupOp(k) \notin Waiting)
=============================================================================
