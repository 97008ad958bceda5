--------------------------- MODULE ManagedWorkspace ---------------------------
(* The managed workspace of one thread in one worker process: the durable    *)
(* association, the Docker resources made for it, the session held in memory  *)
(* and the source it is made from.  Runs admit the thread and send it         *)
(* commands; a reaper, deletions, a shutdown and the next boot end what they  *)
(* left.  All of them meet in one queue per thread (an admission, a settle, a *)
(* reap, a destruction holds it across its awaits); commands have a second.   *)
EXTENDS FiniteSets, Naturals

CONSTANTS Runs, Commands,
          RunOf,    \* the run that sends each command
          Deletes,  \* requests to delete the thread
          None, MaxCrashes

Deleters == Deletes \cup {"boot"}
Callers == Runs \cup Commands
Actors == Callers \cup Deleters

ASSUME WorkspaceAssumption ==
  /\ Runs \cap Commands = {} /\ Callers \cap Deleters = {}
  /\ "boot" \notin Deletes
  /\ None \notin Actors \cup {"reaper", "run", "post"} /\ "reaper" \notin Actors
  /\ RunOf \in [Commands -> Runs]
  /\ MaxCrashes \in Nat

VARIABLES row,      \* the thread's row: created by a run, or with a staged source
          staged,   \* a staged source is recorded for the thread
          source,   \* the content store's copy of the files
          assoc,    \* the thread's association
          phys,     \* the volume and the record container that publishes it
          alive,    \* the running session containers, named by who started them
          session,  \* the manager's session
          retired,  \* a session it must release before it starts another
          active,   \* who retains the thread
          slot,     \* the run that holds the thread's run slot
          aborted,  \* the runs whose signal fired
          serial, step,  \* who holds the thread's queue, and what it awaits there
          backend,  \* the command at the head of the command queue
          using,    \* the session each command runs in
          pc,       \* where everybody stands
          mode,     \* of the worker process
          post,     \* of the request that creates the thread with a staged source
          crashes

thread == <<row, staged, source, post>>
docker == <<phys, alive>>
manager == <<session, retired, active>>
queues == <<serial, step, backend>>
run == <<slot, aborted>>
process == <<mode, crashes>>
vars == <<thread, assoc, docker, manager, run, queues, using, pc, process>>

Associations == {"none", "creating", "ready", "deleting", "deleted"}
Sources == {"none", "kept", "old", "fresh"}  \* old, fresh: uploaded
Uploaded == {"old", "fresh"}
Steps == {"none", "resolve", "retire", "inspect", "create", "reconnect", "settle", "reap", "destroy"}
Phases == {"new", "create", "begin", "admit", "ready", "unwind",
           "queued", "running", "failed", "destroy", "row", "complete", "done"}

Run(a) == IF a \in Runs THEN a ELSE RunOf[a]
CommandsOf(r) == {c \in Commands : RunOf[c] = r}

Init == /\ row = None /\ staged = FALSE /\ source = "none" /\ post = "new"
        /\ assoc = "none" /\ phys = "none" /\ alive = {}
        /\ session = None /\ retired = None /\ active = {}
        /\ slot = None /\ aborted = {}
        /\ serial = None /\ step = "none" /\ backend = None
        /\ using = [c \in Commands |-> None]
        /\ pc = [a \in Actors |-> "new"]
        /\ mode = "up" /\ crashes = 0

Goto(a, phase) == pc' = [pc EXCEPT ![a] = phase]
(* A run is over, or goes on without sending the commands it has not sent. *)
GotoSilent(r, phase) == pc' = [a \in Actors |->
  IF a = r THEN phase ELSE IF a \in CommandsOf(r) /\ pc[a] = "new" THEN "done" ELSE pc[a]]

Await(a, what) == serial' = a /\ step' = what /\ UNCHANGED <<backend, pc, using, active>>
Free == serial' = None /\ step' = "none"

Lost == assoc \in {"deleting", "deleted"}

-----------------------------------------------------------------------------
(* Admission: getForThread, for a run or for a command of one. *)

EndCommand(c) == /\ backend' = None
                 /\ active' = active \ {c}
                 /\ using' = [using EXCEPT ![c] = None]
                 /\ Goto(c, "done")

Refused(a) == /\ Free
              /\ IF a \in Runs
                 THEN GotoSilent(a, "unwind") /\ UNCHANGED <<backend, active, using>>
                 ELSE EndCommand(a)

(* A command takes the session up after its admission; a settle of its run   *)
(* may have retired it just then, which ends the command.                     *)
Granted(a, s) ==
  IF a \in Runs
  THEN Free /\ Goto(a, "ready") /\ UNCHANGED <<backend, active, using>>
  ELSE \/ /\ Free
          /\ Goto(a, "running")
          /\ using' = [using EXCEPT ![a] = s]
          /\ UNCHANGED <<backend, active>>
       \/ Refused(a)

Acquire(a) == IF session # None
              THEN Granted(a, session)
              ELSE Await(a, IF assoc = "creating" THEN "inspect" ELSE "reconnect")

Cached == assoc = "ready" /\ session # None /\ retired = None
SourceLost == source = "none" /\ IF assoc = "none" THEN staged ELSE ~Cached

Enter(a) ==
  /\ pc[a] = "admit" /\ serial = None
  /\ \/ (Run(a) \in aborted \/ Lost \/ SourceLost) /\ Refused(a)
     \/ /\ ~(Run(a) \in aborted \/ Lost \/ SourceLost)
        /\ \/ assoc = "none" /\ Await(a, "resolve")
           \/ Cached /\ Granted(a, session)
           \/ assoc # "none" /\ ~Cached /\ retired # None /\ Await(a, "retire")
           \/ assoc # "none" /\ ~Cached /\ retired = None /\ Acquire(a)
  /\ UNCHANGED <<thread, assoc, docker, session, retired, run, process>>

At(a, what) == serial = a /\ step = what

(* Mutant: the source is taken to be stored, as it was when the resolver ran. *)
ResolvedWithoutSource(a) ==
  /\ At(a, "resolve")
  /\ \/ Refused(a) /\ UNCHANGED <<source, assoc>>
     \/ /\ Run(a) \notin aborted
        /\ assoc' = "creating"
        /\ Await(a, "inspect")
        /\ UNCHANGED source
  /\ UNCHANGED <<row, staged, post, docker, session, retired, run, process>>

(* The resolver and the environment answered: the source and the association  *)
(* that names it are stored together.  (No session is left of a thread that   *)
(* had no association.)                                                       *)
Resolved(a) ==
  /\ At(a, "resolve")
  /\ \/ Refused(a) /\ UNCHANGED <<source, assoc>>
     \/ /\ Run(a) \notin aborted
        /\ source' = IF source = "none" THEN "kept" ELSE source
        /\ assoc' = "creating"
        /\ Await(a, "inspect")
  /\ UNCHANGED <<row, staged, post, docker, session, retired, run, process>>

(* A Docker call that fails may have had its effect. *)
MayRemove(S) == \E T \in SUBSET S : alive' = alive \ T

ReleaseRetired(a) ==
  /\ At(a, "retire")
  /\ \/ alive' = alive \ {retired} /\ retired' = None /\ Acquire(a)
     \/ MayRemove({retired}) /\ UNCHANGED retired /\ Refused(a)
  /\ UNCHANGED <<thread, assoc, phys, session, run, process>>

InspectCreation(a) ==
  /\ At(a, "inspect")
  /\ \/ phys = "made" /\ assoc = "creating" /\ assoc' = "ready" /\ Await(a, "reconnect")
     \/ phys # "made" /\ Await(a, "create") /\ UNCHANGED assoc
     \/ Refused(a) /\ UNCHANGED assoc
  /\ UNCHANGED <<thread, docker, session, retired, run, process>>

Create(a) ==
  /\ At(a, "create")
  /\ \/ phys' = "made" /\ assoc = "creating" /\ assoc' = "ready" /\ Await(a, "reconnect")
     \/ phys' \in {"none", "partial", "made"} /\ UNCHANGED assoc /\ Refused(a)
  /\ UNCHANGED <<thread, alive, session, retired, run, process>>

(* Every session container of the workspace is removed, then a new one runs.  *)
Reconnect(a) ==
  /\ At(a, "reconnect")
  /\ \/ phys = "made" /\ alive' = {a} /\ session' = a /\ Granted(a, a)
     \/ (MayRemove(alive) \/ (phys = "made" /\ alive' = {a})) /\ UNCHANGED session /\ Refused(a)
  /\ UNCHANGED <<thread, assoc, phys, retired, run, process>>

-----------------------------------------------------------------------------
(* Commands: one at a time, each admitted anew. *)

(* A tool may outlive its aborted run and send its command late. *)
Call(c) ==
  LET r == RunOf[c] IN
  /\ pc[c] = "new"
  /\ pc[r] = "ready" \/ (r \in aborted /\ pc[r] \in {"unwind", "done"})
  /\ IF mode = "up" /\ ~Lost
     THEN active' = active \cup {c} /\ Goto(c, "queued")
     ELSE UNCHANGED active /\ Goto(c, "done")
  /\ UNCHANGED <<thread, assoc, docker, session, retired, run, queues, using, process>>

Dequeue(c) ==
  /\ pc[c] = "queued" /\ backend = None
  /\ IF mode = "up"
     THEN backend' = c /\ Goto(c, "admit") /\ UNCHANGED <<active, using>>
     ELSE EndCommand(c)
  /\ UNCHANGED <<thread, assoc, docker, session, retired, run, serial, step, process>>

CommandEnds(c) ==
  /\ pc[c] = "running" /\ RunOf[c] \notin aborted /\ using[c] \in alive
  /\ EndCommand(c)
  /\ UNCHANGED <<thread, assoc, docker, session, retired, run, serial, step, process>>

(* Aborted, timed out, or ended with an error: the provider removes the       *)
(* container, in which the command may still run.                             *)
CommandFails(c) ==
  /\ pc[c] = "running"
  /\ MayRemove({using[c]})
  /\ Goto(c, "failed")
  /\ UNCHANGED <<thread, assoc, phys, manager, run, queues, using, process>>

(* Mutant: whatever the present session is, it is replaced. *)
InvalidateAny(c) ==
  /\ pc[c] = "failed"
  /\ IF session # None
     THEN retired' = using[c] /\ session' = None
     ELSE UNCHANGED <<retired, session>>
  /\ EndCommand(c)
  /\ UNCHANGED <<thread, assoc, docker, run, serial, step, process>>

(* Mutant: the entry stays in the map. *)
InvalidateKeeps(c) ==
  /\ pc[c] = "failed"
  /\ IF session = using[c] THEN retired' = using[c] ELSE UNCHANGED retired
  /\ EndCommand(c)
  /\ UNCHANGED <<thread, assoc, docker, session, run, serial, step, process>>

(* Only the session it ran in is invalidated: another may have replaced it.   *)
Invalidate(c) ==
  /\ pc[c] = "failed"
  /\ IF session = using[c]
     THEN retired' = using[c] /\ session' = None
     ELSE UNCHANGED <<retired, session>>
  /\ EndCommand(c)
  /\ UNCHANGED <<thread, assoc, docker, run, serial, step, process>>

-----------------------------------------------------------------------------
(* Runs. *)

(* A run that finds no row forgets any staged source before it creates one.   *)
(* (Nobody knows the id of a thread whose creation is not answered yet.)      *)
Look(r) ==
  /\ pc[r] = "new" /\ mode = "up" /\ post # "row"
  /\ IF row # None
     THEN Goto(r, "begin") /\ UNCHANGED staged
     ELSE Goto(r, "create") /\ staged' = FALSE
  /\ UNCHANGED <<row, source, post, assoc, docker, manager, run, queues, using, process>>

CreateRow(r) ==
  /\ pc[r] = "create"
  /\ row' = IF row = None THEN "run" ELSE row
  /\ Goto(r, "begin")
  /\ UNCHANGED <<staged, source, post, assoc, docker, manager, run, queues, using, process>>

(* The run slot, then the route's retain. *)
Begin(r) ==
  /\ pc[r] = "begin"
  /\ IF slot = None /\ mode = "up" /\ ~Lost
     THEN slot' = r /\ active' = active \cup {r} /\ Goto(r, "admit")
     ELSE UNCHANGED <<slot, active>> /\ GotoSilent(r, "done")
  /\ UNCHANGED <<thread, assoc, docker, session, retired, aborted, queues, using, process>>

Abort(r) ==
  /\ pc[r] \in {"admit", "ready"} /\ r \notin aborted
  /\ aborted' = aborted \cup {r}
  /\ UNCHANGED <<thread, assoc, docker, manager, slot, queues, using, pc, process>>

Finish(r) ==
  /\ pc[r] = "ready"
  /\ IF r \in aborted THEN Goto(r, "unwind") ELSE GotoSilent(r, "unwind")
  /\ UNCHANGED <<thread, assoc, docker, manager, run, queues, using, process>>

Leave(r) == slot' = None /\ active' = active \ {r} /\ Goto(r, "done")

(* settle, in the route's finally: only an aborted run releases its session.  *)
Settle(r) ==
  /\ pc[r] = "unwind" /\ serial # r
  /\ IF r \notin aborted
     THEN Leave(r) /\ UNCHANGED <<session, retired, serial, step>>
     ELSE /\ serial = None
          /\ IF session = None /\ retired = None
             THEN Leave(r) /\ UNCHANGED <<session, retired, serial, step>>
             ELSE /\ retired' = IF session # None THEN session ELSE retired
                  /\ session' = None
                  /\ serial' = r /\ step' = "settle"
                  /\ UNCHANGED <<slot, active, pc>>
  /\ UNCHANGED <<thread, assoc, docker, aborted, backend, using, process>>

Settled(r) ==
  /\ At(r, "settle")
  /\ \/ alive' = alive \ {retired} /\ retired' = None
     \/ MayRemove({retired}) /\ UNCHANGED retired
  /\ Free
  /\ Leave(r)
  /\ UNCHANGED <<thread, assoc, phys, session, aborted, backend, using, process>>

-----------------------------------------------------------------------------
(* The reaper. *)

(* Mutant: a session that is retained may be reaped. *)
ReapRetained ==
  /\ mode = "up" /\ serial = None /\ session # None
  /\ serial' = "reaper" /\ step' = "reap"
  /\ UNCHANGED <<thread, assoc, docker, manager, run, backend, using, pc, process>>

Reap == /\ mode = "up" /\ serial = None /\ session # None /\ active = {}
        /\ serial' = "reaper" /\ step' = "reap"
        /\ UNCHANGED <<thread, assoc, docker, manager, run, backend, using, pc, process>>

Reaped == /\ At("reaper", "reap")
          /\ \/ alive' = alive \ {session} /\ session' = None
             \/ MayRemove({session}) /\ UNCHANGED session
          /\ Free
          /\ UNCHANGED <<thread, assoc, phys, retired, active, run, backend, using, pc, process>>

-----------------------------------------------------------------------------
(* Deletions, by a request or by the boot that finds one unfinished. *)

Fail(d) == Goto(d, IF d = "boot" THEN "new" ELSE "done")

(* DELETE is refused beside a run, forgets the staged source, and marks the   *)
(* association before it awaits anything.                                     *)
Delete(d) ==
  /\ d \in Deletes /\ pc[d] = "new" /\ mode = "up" /\ post # "row"
  /\ IF slot # None
     THEN Fail(d) /\ UNCHANGED <<staged, assoc>>
     ELSE /\ staged' = FALSE
          /\ IF active # {} THEN Fail(d) /\ UNCHANGED assoc
             ELSE IF assoc \in {"none", "deleted"}
             THEN Goto(d, "row") /\ UNCHANGED assoc
             ELSE Goto(d, "destroy") /\ assoc' = "deleting"
  /\ UNCHANGED <<row, source, post, docker, manager, run, queues, using, process>>

Destroy(d) ==
  /\ pc[d] = "destroy" /\ serial = None
  /\ IF active = {} /\ assoc = "deleting"
     THEN serial' = d /\ step' = "destroy" /\ UNCHANGED pc
     ELSE Fail(d) /\ UNCHANGED <<serial, step>>
  /\ UNCHANGED <<thread, assoc, docker, manager, run, backend, using, process>>

Destroyed(d) ==
  /\ At(d, "destroy")
  /\ \/ /\ alive' = {} /\ phys' = "none"
        /\ session' = None /\ retired' = None
        /\ Goto(d, "row")
     \/ /\ MayRemove(alive)
        /\ phys' \in IF phys = "none" THEN {"none"} ELSE {phys, "partial", "none"}
        /\ UNCHANGED <<session, retired>>
        /\ Fail(d)
  /\ Free
  /\ UNCHANGED <<thread, assoc, active, run, backend, using, process>>

(* The checkpoints, then the row. *)
DeleteRow(d) ==
  /\ pc[d] = "row"
  /\ \/ row' = None /\ Goto(d, "complete")
     \/ UNCHANGED row /\ Fail(d)
  /\ UNCHANGED <<staged, source, post, assoc, docker, manager, run, queues, using, process>>

CompleteDelete(d) ==
  /\ pc[d] = "complete"
  /\ IF mode = "closing"
     THEN UNCHANGED <<assoc, staged>>
     ELSE /\ assoc' = IF assoc = "deleting" THEN "deleted" ELSE assoc
          /\ staged' = FALSE
  /\ Fail(d)
  /\ UNCHANGED <<row, source, post, docker, manager, run, queues, using, process>>

-----------------------------------------------------------------------------
(* The thread's creation with a staged source, and the source's retention.    *)

CreateStaged ==
  /\ mode = "up" /\ post = "new"
  /\ row = None /\ assoc = "none" /\ \A a \in Actors : pc[a] = "new"
  /\ source \in Uploaded
  /\ row' = "post" /\ post' = "row"
  /\ UNCHANGED <<staged, source, assoc, docker, manager, run, queues, using, pc, process>>

(* Only a source that was reclaimed meanwhile takes the new row with it.       *)
Attach ==
  /\ post = "row"
  /\ IF assoc # "none" \/ staged THEN UNCHANGED <<row, staged>>
     ELSE IF source \in Uploaded THEN staged' = TRUE /\ UNCHANGED row
     ELSE UNCHANGED staged /\ row' = None
  /\ post' = "done"
  /\ UNCHANGED <<source, assoc, docker, manager, run, queues, using, pc, process>>

Referenced == assoc \in {"creating", "ready", "deleting"} \/ staged

Upload == /\ mode = "up"
          /\ source' = "fresh"
          /\ UNCHANGED <<row, staged, post, assoc, docker, manager, run, queues, using, pc, process>>

(* At boot, and before the upload of any source. *)
Reclaim == /\ source # "fresh" /\ ~Referenced
           /\ source' = "none"
           /\ UNCHANGED <<row, staged, post, assoc, docker, manager, run, queues, using, pc, process>>

Age == /\ source = "fresh" /\ source' = "old"
       /\ UNCHANGED <<row, staged, post, assoc, docker, manager, run, queues, using, pc, process>>

-----------------------------------------------------------------------------
(* Shutdown, crash and boot. *)

Down == /\ mode' = "down"
        /\ session' = None /\ retired' = None /\ active' = {}
        /\ slot' = None /\ aborted' = {}
        /\ serial' = None /\ step' = "none" /\ backend' = None
        /\ using' = [c \in Commands |-> None]
        /\ pc' = [a \in Actors |->
             IF a = "boot" \/ (pc[a] = "new" /\ (a \in Commands => pc[RunOf[a]] = "new"))
             THEN "new" ELSE "done"]
        /\ post' = IF post = "row" THEN "done" ELSE post
        /\ UNCHANGED <<row, staged, source, assoc>>

Crash == /\ crashes < MaxCrashes /\ crashes' = crashes + 1
         /\ Down
         /\ UNCHANGED docker

(* releaseAll, once the requests have been drained. *)
Close == /\ mode = "up" /\ active = {}
         /\ mode' = "closing"
         /\ UNCHANGED <<thread, assoc, docker, manager, run, queues, using, pc, crashes>>

ReleaseAll ==
  /\ mode = "closing" /\ serial = None /\ \A d \in Deletes : pc[d] # "destroy"
  /\ \/ alive' = alive \ {session, retired} /\ Down
     \/ /\ MayRemove({session, retired}) /\ mode' = "up"
        /\ UNCHANGED <<thread, assoc, manager, run, queues, using, pc>>
  /\ UNCHANGED <<phys, crashes>>

(* A boot finishes the deletion it finds, sweeps the staged source of a thread *)
(* that is gone, and serves.                                                   *)
Boot == /\ mode = "down" /\ pc["boot"] = "new"
        /\ IF assoc = "deleting"
           THEN Goto("boot", "destroy") /\ UNCHANGED <<staged, mode>>
           ELSE /\ staged' = (staged /\ row # None)
                /\ mode' = "up"
                /\ UNCHANGED pc
        /\ UNCHANGED <<row, source, post, assoc, docker, manager, run, queues, using, crashes>>

-----------------------------------------------------------------------------

Admission(a) == \/ Enter(a) \/ Resolved(a) \/ ReleaseRetired(a)
                \/ InspectCreation(a) \/ Create(a) \/ Reconnect(a)
Command(c) == Call(c) \/ Dequeue(c) \/ CommandEnds(c) \/ CommandFails(c) \/ Invalidate(c)
RunStep(r) == \/ Look(r) \/ CreateRow(r) \/ Begin(r) \/ Abort(r)
              \/ Finish(r) \/ Settle(r) \/ Settled(r)
Deletion(d) == Delete(d) \/ Destroy(d) \/ Destroyed(d) \/ DeleteRow(d) \/ CompleteDelete(d)

Next == \/ \E a \in Callers : Admission(a)
        \/ \E c \in Commands : Command(c)
        \/ \E r \in Runs : RunStep(r)
        \/ \E d \in Deleters : Deletion(d)
        \/ Reap \/ Reaped
        \/ CreateStaged \/ Attach \/ Upload \/ Reclaim \/ Age
        \/ Crash \/ Close \/ ReleaseAll \/ Boot

Spec == Init /\ [][Next]_vars

-----------------------------------------------------------------------------

(* Types; a session is held or to be released, never both; the queue's holder *)
(* awaits something.                                                          *)
TypeOK == /\ row \in {None, "run", "post"}
          /\ staged \in BOOLEAN
          /\ source \in Sources
          /\ post \in {"new", "row", "done"}
          /\ assoc \in Associations
          /\ phys \in {"none", "partial", "made"}
          /\ alive \subseteq Callers
          /\ session \in Callers \cup {None}
          /\ retired \in Callers \cup {None}
          /\ session = None \/ retired = None
          /\ active \subseteq Callers
          /\ slot \in Runs \cup {None}
          /\ aborted \subseteq Runs
          /\ serial \in Actors \cup {"reaper", None}
          /\ step \in Steps
          /\ serial = None <=> step = "none"
          /\ backend \in Commands \cup {None}
          /\ using \in [Commands -> Callers \cup {None}]
          /\ pc \in [Actors -> Phases]
          /\ mode \in {"up", "closing", "down"}
          /\ crashes \in 0..MaxCrashes

(* What names the source finds it: the retention never takes the files of a   *)
(* thread that was created with them, or that still has a workspace.  And no  *)
(* staged source outlives the thread it was recorded for, so that no later    *)
(* thread under the same id is given it.                                      *)
ReferencesAreSound == /\ Referenced => source # "none"
                      /\ staged => row = "post"

(* Containers and volumes belong to an association that a deletion will find, *)
(* and the manager knows what runs: with a session, or one to release, nothing *)
(* else is alive.  (What a failed reconnect leaves is removed by the next.)   *)
NothingPhysicalIsLost ==
  /\ phys # "none" \/ alive # {} => assoc \in {"creating", "ready", "deleting"}
  /\ session # None => alive \subseteq {session}
  /\ retired # None => alive \subseteq {retired}

(* A command of the run in progress keeps its container: no reaper, deletion, *)
(* settle, reconnect or late end of another command takes it away.            *)
CommandsKeepTheirSession ==
  [][\A c \in Commands :
       /\ pc[c] = "running" /\ pc'[c] = "running"
       /\ slot = RunOf[c] /\ slot \notin aborted
       /\ using[c] \in alive
       => using[c] \in alive']_vars

(* A thread that exists, and that nobody is deleting, can be admitted (the    *)
(* documentation: "a thread ID reused after deletion is resolved again").     *)
ReusedIdsAreResolvedAgain ==
  row # None /\ (\A d \in Deleters : pc[d] \in {"new", "done"}) => assoc # "deleted"
=============================================================================
