----------------------- MODULE ManagedWorkspaceProofs -----------------------
(* Proofs about ManagedWorkspace, for any runs, commands and deletions.      *)
EXTENDS ManagedWorkspace, TLAPS

Admitting == {"resolve", "retire", "inspect", "create", "reconnect"}

Types ==
  /\ row \in {None, "run", "post"} /\ source \in Sources
  /\ post \in {"new", "row", "done"}
  /\ assoc \in Associations
  /\ phys \in {"none", "partial", "made"} /\ alive \subseteq Callers
  /\ session \in Callers \cup {None} /\ retired \in Callers \cup {None}
  /\ active \subseteq Callers
  /\ slot \in Runs \cup {None} /\ aborted \subseteq Runs
  /\ serial \in Actors \cup {"reaper", None} /\ step \in Steps
  /\ backend \in Commands \cup {None}
  /\ using \in [Commands -> Callers \cup {None}]
  /\ pc \in [Actors -> Phases]
  /\ mode \in {"up", "closing", "down"} /\ crashes \in 0..MaxCrashes

(* The holder of the queue stands where its await belongs. *)
QueueInv ==
  /\ serial = None <=> step = "none"
  /\ step \in Admitting => serial \in Callers /\ pc[serial] = "admit"
  /\ step = "settle" => serial \in Runs /\ pc[serial] = "unwind"
  /\ step = "reap" => serial = "reaper"
  /\ step = "destroy" => serial \in Deleters /\ pc[serial] = "destroy"

(* Who is admitted, or asks to be, retains the thread; nothing is retained    *)
(* beside a deletion or a shutdown.                                           *)
RetainInv ==
  /\ \A r \in Runs : pc[r] \in {"admit", "ready", "unwind"} => slot = r /\ r \in active
  /\ \A c \in Commands :
       /\ pc[c] \in {"queued", "admit", "running", "failed"} => c \in active
       /\ pc[c] \in {"admit", "running", "failed"} => backend = c
       /\ pc[c] \in {"running", "failed"} => using[c] \in Callers
       /\ pc[RunOf[c]] \in {"new", "create", "begin"} => pc[c] \in {"new", "done"}
  /\ active # {} => ~Lost
  /\ mode # "up" => active = {}

(* A session is started when there is none, and only the manager's session,   *)
(* or the one it must release, runs.                                          *)
SessionInv ==
  /\ session = None \/ retired = None
  /\ assoc = "none" => session = None /\ retired = None
  /\ step \in Admitting \cup {"settle"} => session = None
  /\ step \in Admitting \ {"retire"} => retired = None
  /\ step \in {"reap", "destroy"} => \A c \in Commands : pc[c] \notin {"running", "failed"}
  /\ step = "resolve" => assoc = "none"
  /\ step = "retire" => assoc \in {"creating", "ready"}
  /\ step \in {"inspect", "create"} => assoc = "creating"
  /\ step = "reconnect" => assoc = "ready"
  /\ session # None => alive \subseteq {session}
  /\ retired # None => alive \subseteq {retired}
  /\ \A c \in Commands :
       pc[c] = "running" /\ slot = RunOf[c] /\ slot \notin aborted => session = using[c]

(* A staged source is recorded once, while nobody knows the thread, and       *)
(* forgotten before the thread is.                                            *)
StagedInv ==
  /\ ReferencesAreSound
  /\ Lost => ~staged
  /\ post = "row" => /\ row = "post" /\ assoc = "none"
                     /\ \A a \in Actors : pc[a] = "new"
  /\ \A d \in Deleters : pc[d] \in {"destroy", "row", "complete"} => ~staged

OneDelete == \A d, e \in Deletes : d = e

(* With one DELETE beside the boot's own deletion, what is completed was      *)
(* destroyed.                                                                 *)
DeletionInv ==
  /\ phys # "none" \/ alive # {} => assoc \in {"creating", "ready", "deleting"}
  /\ step = "destroy" => assoc = "deleting"
  /\ \A d \in Deleters :
       pc[d] \in {"row", "complete"} /\ assoc = "deleting" => phys = "none" /\ alive = {}
  /\ pc["boot"] # "new" => mode = "down"
  /\ mode = "down" => \A d \in Deletes : pc[d] \in {"new", "done"}

IInv == /\ staged \in BOOLEAN /\ Types /\ QueueInv /\ RetainInv /\ SessionInv /\ StagedInv
        /\ OneDelete => DeletionInv

-----------------------------------------------------------------------------

(* Every step keeps the types. *)
LEMMA TypesStep ==
  ASSUME Types, [Next]_vars
  PROVE  Types'
<1> USE WorkspaceAssumption DEF Types, Associations, Sources, Uploaded, Steps,
       Phases, CommandsOf, Run, Actors, Callers, Deleters, thread, docker,
       manager, queues, run, process
<1>1. ASSUME NEW a \in Callers, Enter(a)
      PROVE  Types'
  BY <1>1 DEF Enter, Goto, GotoSilent, Await, Free, EndCommand, Refused,
     Granted, Acquire, Lost, Cached, SourceLost
<1>2. ASSUME NEW a \in Callers, Resolved(a)
      PROVE  Types'
  BY <1>2 DEF Resolved, Goto, GotoSilent, Await, Free, EndCommand, Refused, At
<1>3. ASSUME NEW a \in Callers, ReleaseRetired(a)
      PROVE  Types'
  BY <1>3 DEF ReleaseRetired, Goto, GotoSilent, Await, Free, EndCommand,
     Refused, Granted, Acquire, At, MayRemove
<1>4. ASSUME NEW a \in Callers, InspectCreation(a)
      PROVE  Types'
  BY <1>4 DEF InspectCreation, Goto, GotoSilent, Await, Free, EndCommand,
     Refused, At
<1>5. ASSUME NEW a \in Callers, Create(a)
      PROVE  Types'
  BY <1>5 DEF Create, Goto, GotoSilent, Await, Free, EndCommand, Refused, At
<1>6. ASSUME NEW a \in Callers, Reconnect(a)
      PROVE  Types'
  BY <1>6 DEF Reconnect, Goto, GotoSilent, Free, EndCommand, Refused, Granted,
     At, MayRemove
<1>7. ASSUME NEW c \in Commands, Call(c)
      PROVE  Types'
  BY <1>7 DEF Call, Goto, Lost
<1>8. ASSUME NEW c \in Commands, Dequeue(c)
      PROVE  Types'
  BY <1>8 DEF Dequeue, Goto, EndCommand
<1>9. ASSUME NEW c \in Commands, CommandEnds(c)
      PROVE  Types'
  BY <1>9 DEF CommandEnds, Goto, EndCommand
<1>10. ASSUME NEW c \in Commands, CommandFails(c)
       PROVE  Types'
  BY <1>10 DEF CommandFails, Goto, MayRemove
<1>11. ASSUME NEW c \in Commands, Invalidate(c)
       PROVE  Types'
  BY <1>11 DEF Invalidate, Goto, EndCommand
<1>12. ASSUME NEW r \in Runs, Look(r)
       PROVE  Types'
  BY <1>12 DEF Look, Goto
<1>13. ASSUME NEW r \in Runs, CreateRow(r)
       PROVE  Types'
  BY <1>13 DEF CreateRow, Goto
<1>14. ASSUME NEW r \in Runs, Begin(r)
       PROVE  Types'
  BY <1>14 DEF Begin, Goto, GotoSilent, Lost
<1>15. ASSUME NEW r \in Runs, Abort(r)
       PROVE  Types'
  BY <1>15 DEF Abort
<1>16. ASSUME NEW r \in Runs, Finish(r)
       PROVE  Types'
  BY <1>16 DEF Finish, Goto, GotoSilent
<1>17. ASSUME NEW r \in Runs, Settle(r)
       PROVE  Types'
  BY <1>17 DEF Settle, Goto, Leave
<1>18. ASSUME NEW r \in Runs, Settled(r)
       PROVE  Types'
  BY <1>18 DEF Settled, Goto, Leave, At, Free, MayRemove
<1>19. ASSUME NEW d \in Deleters, Delete(d)
       PROVE  Types'
  BY <1>19 DEF Delete, Goto, Fail
<1>20. ASSUME NEW d \in Deleters, Destroy(d)
       PROVE  Types'
  BY <1>20 DEF Destroy, Goto, Fail
<1>21. ASSUME NEW d \in Deleters, Destroyed(d)
       PROVE  Types'
  BY <1>21 DEF Destroyed, Goto, Fail, At, Free, MayRemove
<1>22. ASSUME NEW d \in Deleters, DeleteRow(d)
       PROVE  Types'
  BY <1>22 DEF DeleteRow, Goto, Fail
<1>23. ASSUME NEW d \in Deleters, CompleteDelete(d)
       PROVE  Types'
  BY <1>23 DEF CompleteDelete, Goto, Fail
<1>24. ASSUME Reap
       PROVE  Types'
  BY <1>24 DEF Reap
<1>25. ASSUME Reaped
       PROVE  Types'
  <2>1. alive' \subseteq Callers
    BY <1>25 DEF Reaped, MayRemove
  <2>2. session' \in Callers \cup {None}
    BY <1>25 DEF Reaped
  <2> QED
    BY <1>25, <2>1, <2>2 DEF Reaped, Free
<1>26. ASSUME CreateStaged
       PROVE  Types'
  BY <1>26 DEF CreateStaged
<1>27. ASSUME Attach
       PROVE  Types'
  BY <1>27 DEF Attach
<1>28. ASSUME Upload
       PROVE  Types'
  BY <1>28 DEF Upload
<1>29. ASSUME Reclaim
       PROVE  Types'
  BY <1>29 DEF Reclaim, Referenced
<1>30. ASSUME Age
       PROVE  Types'
  BY <1>30 DEF Age
<1>31. ASSUME Crash
       PROVE  Types'
  BY <1>31 DEF Crash, Down
<1>32. ASSUME Close
       PROVE  Types'
  BY <1>32 DEF Close
<1>33. ASSUME ReleaseAll
       PROVE  Types'
  BY <1>33 DEF ReleaseAll, Down, MayRemove
<1>34. ASSUME Boot
       PROVE  Types'
  BY <1>34 DEF Boot, Goto
<1>35. CASE UNCHANGED vars
  BY <1>35 DEF vars
<1> QED
  BY <1>1, <1>2, <1>3, <1>4, <1>5, <1>6, <1>7, <1>8, <1>9, <1>10, <1>11, <1>12,
     <1>13, <1>14, <1>15, <1>16, <1>17, <1>18, <1>19, <1>20, <1>21, <1>22,
     <1>23, <1>24, <1>25, <1>26, <1>27, <1>28, <1>29, <1>30, <1>31, <1>32,
     <1>33, <1>34, <1>35 DEF Next, Admission, Command, RunStep, Deletion

(* Who holds the queue stays where its await belongs. *)
LEMMA QueueStep ==
  ASSUME Types, QueueInv, RetainInv, [Next]_vars
  PROVE  QueueInv'
<1> USE WorkspaceAssumption DEF Types, QueueInv, RetainInv, Admitting, Steps,
       CommandsOf, Actors, Callers, Deleters, thread, docker, manager, queues,
       run, process
<1>1. ASSUME NEW a \in Callers, Enter(a)
      PROVE  QueueInv'
  BY <1>1 DEF Enter, Goto, GotoSilent, Await, Free, EndCommand, Refused,
     Granted, Acquire, Lost, Cached, SourceLost
<1>2. ASSUME NEW a \in Callers, Resolved(a)
      PROVE  QueueInv'
  BY <1>2 DEF Resolved, Goto, GotoSilent, Await, Free, EndCommand, Refused, At
<1>3. ASSUME NEW a \in Callers, ReleaseRetired(a)
      PROVE  QueueInv'
  BY <1>3 DEF ReleaseRetired, Goto, GotoSilent, Await, Free, EndCommand,
     Refused, Granted, Acquire, At, MayRemove
<1>4. ASSUME NEW a \in Callers, InspectCreation(a)
      PROVE  QueueInv'
  BY <1>4 DEF InspectCreation, Goto, GotoSilent, Await, Free, EndCommand,
     Refused, At
<1>5. ASSUME NEW a \in Callers, Create(a)
      PROVE  QueueInv'
  BY <1>5 DEF Create, Goto, GotoSilent, Await, Free, EndCommand, Refused, At
<1>6. ASSUME NEW a \in Callers, Reconnect(a)
      PROVE  QueueInv'
  BY <1>6 DEF Reconnect, Goto, GotoSilent, Free, EndCommand, Refused, Granted,
     At, MayRemove
<1>7. ASSUME NEW c \in Commands, Call(c)
      PROVE  QueueInv'
  BY <1>7 DEF Call, Goto, Lost
<1>8. ASSUME NEW c \in Commands, Dequeue(c)
      PROVE  QueueInv'
  BY <1>8 DEF Dequeue, Goto, EndCommand
<1>9. ASSUME NEW c \in Commands, CommandEnds(c)
      PROVE  QueueInv'
  BY <1>9 DEF CommandEnds, Goto, EndCommand
<1>10. ASSUME NEW c \in Commands, CommandFails(c)
       PROVE  QueueInv'
  BY <1>10 DEF CommandFails, Goto, MayRemove
<1>11. ASSUME NEW c \in Commands, Invalidate(c)
       PROVE  QueueInv'
  BY <1>11 DEF Invalidate, Goto, EndCommand
<1>12. ASSUME NEW r \in Runs, Look(r)
       PROVE  QueueInv'
  BY <1>12 DEF Look, Goto
<1>13. ASSUME NEW r \in Runs, CreateRow(r)
       PROVE  QueueInv'
  BY <1>13 DEF CreateRow, Goto
<1>14. ASSUME NEW r \in Runs, Begin(r)
       PROVE  QueueInv'
  BY <1>14 DEF Begin, Goto, GotoSilent, Lost
<1>15. ASSUME NEW r \in Runs, Abort(r)
       PROVE  QueueInv'
  BY <1>15 DEF Abort
<1>16. ASSUME NEW r \in Runs, Finish(r)
       PROVE  QueueInv'
  BY <1>16 DEF Finish, Goto, GotoSilent
<1>17. ASSUME NEW r \in Runs, Settle(r)
       PROVE  QueueInv'
  BY <1>17 DEF Settle, Goto, Leave
<1>18. ASSUME NEW r \in Runs, Settled(r)
       PROVE  QueueInv'
  BY <1>18 DEF Settled, Goto, Leave, At, Free, MayRemove
<1>19. ASSUME NEW d \in Deleters, Delete(d)
       PROVE  QueueInv'
  BY <1>19 DEF Delete, Goto, Fail
<1>20. ASSUME NEW d \in Deleters, Destroy(d)
       PROVE  QueueInv'
  BY <1>20 DEF Destroy, Goto, Fail
<1>21. ASSUME NEW d \in Deleters, Destroyed(d)
       PROVE  QueueInv'
  BY <1>21 DEF Destroyed, Goto, Fail, At, Free, MayRemove
<1>22. ASSUME NEW d \in Deleters, DeleteRow(d)
       PROVE  QueueInv'
  BY <1>22 DEF DeleteRow, Goto, Fail
<1>23. ASSUME NEW d \in Deleters, CompleteDelete(d)
       PROVE  QueueInv'
  BY <1>23 DEF CompleteDelete, Goto, Fail
<1>24. ASSUME Reap
       PROVE  QueueInv'
  BY <1>24 DEF Reap
<1>25. ASSUME Reaped
       PROVE  QueueInv'
  BY <1>25 DEF Reaped, At, Free, MayRemove
<1>26. ASSUME CreateStaged
       PROVE  QueueInv'
  BY <1>26 DEF CreateStaged
<1>27. ASSUME Attach
       PROVE  QueueInv'
  BY <1>27 DEF Attach
<1>28. ASSUME Upload
       PROVE  QueueInv'
  BY <1>28 DEF Upload
<1>29. ASSUME Reclaim
       PROVE  QueueInv'
  BY <1>29 DEF Reclaim, Referenced
<1>30. ASSUME Age
       PROVE  QueueInv'
  BY <1>30 DEF Age
<1>31. ASSUME Crash
       PROVE  QueueInv'
  BY <1>31 DEF Crash, Down
<1>32. ASSUME Close
       PROVE  QueueInv'
  BY <1>32 DEF Close
<1>33. ASSUME ReleaseAll
       PROVE  QueueInv'
  BY <1>33 DEF ReleaseAll, Down, MayRemove
<1>34. ASSUME Boot
       PROVE  QueueInv'
  BY <1>34 DEF Boot, Goto
<1>35. CASE UNCHANGED vars
  BY <1>35 DEF vars
<1> QED
  BY <1>1, <1>2, <1>3, <1>4, <1>5, <1>6, <1>7, <1>8, <1>9, <1>10, <1>11, <1>12,
     <1>13, <1>14, <1>15, <1>16, <1>17, <1>18, <1>19, <1>20, <1>21, <1>22,
     <1>23, <1>24, <1>25, <1>26, <1>27, <1>28, <1>29, <1>30, <1>31, <1>32,
     <1>33, <1>34, <1>35 DEF Next, Admission, Command, RunStep, Deletion

(* What is admitted retains the thread; it is retained by nobody else's leave. *)
LEMMA RetainStep ==
  ASSUME Types, QueueInv, RetainInv, [Next]_vars
  PROVE  RetainInv'
<1> USE WorkspaceAssumption DEF Types, QueueInv, RetainInv, Admitting, Lost,
       CommandsOf, Actors, Callers, Deleters, thread, docker, manager, queues,
       run, process
<1>1. ASSUME NEW a \in Callers, Enter(a)
      PROVE  RetainInv'
  BY <1>1 DEF Enter, Goto, GotoSilent, Await, Free, EndCommand, Refused,
     Granted, Acquire, Cached, SourceLost
<1>2. ASSUME NEW a \in Callers, Resolved(a)
      PROVE  RetainInv'
  BY <1>2 DEF Resolved, Goto, GotoSilent, Await, Free, EndCommand, Refused, At
<1>3. ASSUME NEW a \in Callers, ReleaseRetired(a)
      PROVE  RetainInv'
  BY <1>3 DEF ReleaseRetired, Goto, GotoSilent, Await, Free, EndCommand,
     Refused, Granted, Acquire, At, MayRemove
<1>4. ASSUME NEW a \in Callers, InspectCreation(a)
      PROVE  RetainInv'
  BY <1>4 DEF InspectCreation, Goto, GotoSilent, Await, Free, EndCommand,
     Refused, At
<1>5. ASSUME NEW a \in Callers, Create(a)
      PROVE  RetainInv'
  BY <1>5 DEF Create, Goto, GotoSilent, Await, Free, EndCommand, Refused, At
<1>6. ASSUME NEW a \in Callers, Reconnect(a)
      PROVE  RetainInv'
  BY <1>6 DEF Reconnect, Goto, GotoSilent, Free, EndCommand, Refused, Granted,
     At, MayRemove
<1>7. ASSUME NEW c \in Commands, Call(c)
      PROVE  RetainInv'
  BY <1>7 DEF Call, Goto
<1>8. ASSUME NEW c \in Commands, Dequeue(c)
      PROVE  RetainInv'
  BY <1>8 DEF Dequeue, Goto, EndCommand
<1>9. ASSUME NEW c \in Commands, CommandEnds(c)
      PROVE  RetainInv'
  BY <1>9 DEF CommandEnds, Goto, EndCommand
<1>10. ASSUME NEW c \in Commands, CommandFails(c)
       PROVE  RetainInv'
  BY <1>10 DEF CommandFails, Goto, MayRemove
<1>11. ASSUME NEW c \in Commands, Invalidate(c)
       PROVE  RetainInv'
  BY <1>11 DEF Invalidate, Goto, EndCommand
<1>12. ASSUME NEW r \in Runs, Look(r)
       PROVE  RetainInv'
  BY <1>12 DEF Look, Goto
<1>13. ASSUME NEW r \in Runs, CreateRow(r)
       PROVE  RetainInv'
  BY <1>13 DEF CreateRow, Goto
<1>14. ASSUME NEW r \in Runs, Begin(r)
       PROVE  RetainInv'
  BY <1>14 DEF Begin, Goto, GotoSilent
<1>15. ASSUME NEW r \in Runs, Abort(r)
       PROVE  RetainInv'
  BY <1>15 DEF Abort
<1>16. ASSUME NEW r \in Runs, Finish(r)
       PROVE  RetainInv'
  BY <1>16 DEF Finish, Goto, GotoSilent
<1>17. ASSUME NEW r \in Runs, Settle(r)
       PROVE  RetainInv'
  BY <1>17 DEF Settle, Goto, Leave
<1>18. ASSUME NEW r \in Runs, Settled(r)
       PROVE  RetainInv'
  BY <1>18 DEF Settled, Goto, Leave, At, Free, MayRemove
<1>19. ASSUME NEW d \in Deleters, Delete(d)
       PROVE  RetainInv'
  BY <1>19 DEF Delete, Goto, Fail
<1>20. ASSUME NEW d \in Deleters, Destroy(d)
       PROVE  RetainInv'
  BY <1>20 DEF Destroy, Goto, Fail
<1>21. ASSUME NEW d \in Deleters, Destroyed(d)
       PROVE  RetainInv'
  BY <1>21 DEF Destroyed, Goto, Fail, At, Free, MayRemove
<1>22. ASSUME NEW d \in Deleters, DeleteRow(d)
       PROVE  RetainInv'
  BY <1>22 DEF DeleteRow, Goto, Fail
<1>23. ASSUME NEW d \in Deleters, CompleteDelete(d)
       PROVE  RetainInv'
  BY <1>23 DEF CompleteDelete, Goto, Fail
<1>24. ASSUME Reap
       PROVE  RetainInv'
  BY <1>24 DEF Reap
<1>25. ASSUME Reaped
       PROVE  RetainInv'
  BY <1>25 DEF Reaped, At, Free, MayRemove
<1>26. ASSUME CreateStaged
       PROVE  RetainInv'
  BY <1>26 DEF CreateStaged
<1>27. ASSUME Attach
       PROVE  RetainInv'
  BY <1>27 DEF Attach
<1>28. ASSUME Upload
       PROVE  RetainInv'
  BY <1>28 DEF Upload
<1>29. ASSUME Reclaim
       PROVE  RetainInv'
  BY <1>29 DEF Reclaim, Referenced
<1>30. ASSUME Age
       PROVE  RetainInv'
  BY <1>30 DEF Age
<1>31. ASSUME Crash
       PROVE  RetainInv'
  BY <1>31 DEF Crash, Down
<1>32. ASSUME Close
       PROVE  RetainInv'
  BY <1>32 DEF Close
<1>33. ASSUME ReleaseAll
       PROVE  RetainInv'
  BY <1>33 DEF ReleaseAll, Down, MayRemove
<1>34. ASSUME Boot
       PROVE  RetainInv'
  BY <1>34 DEF Boot, Goto
<1>35. CASE UNCHANGED vars
  BY <1>35 DEF vars
<1> QED
  BY <1>1, <1>2, <1>3, <1>4, <1>5, <1>6, <1>7, <1>8, <1>9, <1>10, <1>11, <1>12,
     <1>13, <1>14, <1>15, <1>16, <1>17, <1>18, <1>19, <1>20, <1>21, <1>22,
     <1>23, <1>24, <1>25, <1>26, <1>27, <1>28, <1>29, <1>30, <1>31, <1>32,
     <1>33, <1>34, <1>35 DEF Next, Admission, Command, RunStep, Deletion

(* The manager's session stays the only one that runs. *)
LEMMA SessionStep ==
  ASSUME Types, QueueInv, RetainInv, SessionInv, [Next]_vars
  PROVE  SessionInv'
<1> USE WorkspaceAssumption DEF Types, QueueInv, RetainInv, SessionInv, Admitting,
       Lost, Associations, Steps, CommandsOf, Run, Actors, Callers, Deleters,
       thread, docker, manager, queues, run, process
<1>1. ASSUME NEW a \in Callers, Enter(a)
      PROVE  SessionInv'
  BY <1>1 DEF Enter, Goto, GotoSilent, Await, Free, EndCommand, Refused,
     Granted, Acquire, Cached, SourceLost
<1>2. ASSUME NEW a \in Callers, Resolved(a)
      PROVE  SessionInv'
  BY <1>2 DEF Resolved, Goto, GotoSilent, Await, Free, EndCommand, Refused, At
<1>3. ASSUME NEW a \in Callers, ReleaseRetired(a)
      PROVE  SessionInv'
  BY <1>3 DEF ReleaseRetired, Goto, GotoSilent, Await, Free, EndCommand,
     Refused, Granted, Acquire, At, MayRemove
<1>4. ASSUME NEW a \in Callers, InspectCreation(a)
      PROVE  SessionInv'
  BY <1>4 DEF InspectCreation, Goto, GotoSilent, Await, Free, EndCommand,
     Refused, At
<1>5. ASSUME NEW a \in Callers, Create(a)
      PROVE  SessionInv'
  BY <1>5 DEF Create, Goto, GotoSilent, Await, Free, EndCommand, Refused, At
<1>6. ASSUME NEW a \in Callers, Reconnect(a)
      PROVE  SessionInv'
  BY <1>6 DEF Reconnect, Goto, GotoSilent, Free, EndCommand, Refused, Granted,
     At, MayRemove
<1>7. ASSUME NEW c \in Commands, Call(c)
      PROVE  SessionInv'
  BY <1>7 DEF Call, Goto
<1>8. ASSUME NEW c \in Commands, Dequeue(c)
      PROVE  SessionInv'
  BY <1>8 DEF Dequeue, Goto, EndCommand
<1>9. ASSUME NEW c \in Commands, CommandEnds(c)
      PROVE  SessionInv'
  BY <1>9 DEF CommandEnds, Goto, EndCommand
<1>10. ASSUME NEW c \in Commands, CommandFails(c)
       PROVE  SessionInv'
  BY <1>10 DEF CommandFails, Goto, MayRemove
<1>11. ASSUME NEW c \in Commands, Invalidate(c)
       PROVE  SessionInv'
  BY <1>11 DEF Invalidate, Goto, EndCommand
<1>12. ASSUME NEW r \in Runs, Look(r)
       PROVE  SessionInv'
  BY <1>12 DEF Look, Goto
<1>13. ASSUME NEW r \in Runs, CreateRow(r)
       PROVE  SessionInv'
  BY <1>13 DEF CreateRow, Goto
<1>14. ASSUME NEW r \in Runs, Begin(r)
       PROVE  SessionInv'
  BY <1>14 DEF Begin, Goto, GotoSilent
<1>15. ASSUME NEW r \in Runs, Abort(r)
       PROVE  SessionInv'
  BY <1>15 DEF Abort
<1>16. ASSUME NEW r \in Runs, Finish(r)
       PROVE  SessionInv'
  BY <1>16 DEF Finish, Goto, GotoSilent
<1>17. ASSUME NEW r \in Runs, Settle(r)
       PROVE  SessionInv'
  BY <1>17 DEF Settle, Goto, Leave
<1>18. ASSUME NEW r \in Runs, Settled(r)
       PROVE  SessionInv'
  BY <1>18 DEF Settled, Goto, Leave, At, Free, MayRemove
<1>19. ASSUME NEW d \in Deleters, Delete(d)
       PROVE  SessionInv'
  BY <1>19 DEF Delete, Goto, Fail
<1>20. ASSUME NEW d \in Deleters, Destroy(d)
       PROVE  SessionInv'
  BY <1>20 DEF Destroy, Goto, Fail
<1>21. ASSUME NEW d \in Deleters, Destroyed(d)
       PROVE  SessionInv'
  BY <1>21 DEF Destroyed, Goto, Fail, At, Free, MayRemove
<1>22. ASSUME NEW d \in Deleters, DeleteRow(d)
       PROVE  SessionInv'
  BY <1>22 DEF DeleteRow, Goto, Fail
<1>23. ASSUME NEW d \in Deleters, CompleteDelete(d)
       PROVE  SessionInv'
  BY <1>23 DEF CompleteDelete, Goto, Fail
<1>24. ASSUME Reap
       PROVE  SessionInv'
  BY <1>24 DEF Reap
<1>25. ASSUME Reaped
       PROVE  SessionInv'
  BY <1>25 DEF Reaped, At, Free, MayRemove
<1>26. ASSUME CreateStaged
       PROVE  SessionInv'
  BY <1>26 DEF CreateStaged
<1>27. ASSUME Attach
       PROVE  SessionInv'
  BY <1>27 DEF Attach
<1>28. ASSUME Upload
       PROVE  SessionInv'
  BY <1>28 DEF Upload
<1>29. ASSUME Reclaim
       PROVE  SessionInv'
  BY <1>29 DEF Reclaim, Referenced
<1>30. ASSUME Age
       PROVE  SessionInv'
  BY <1>30 DEF Age
<1>31. ASSUME Crash
       PROVE  SessionInv'
  BY <1>31 DEF Crash, Down
<1>32. ASSUME Close
       PROVE  SessionInv'
  BY <1>32 DEF Close
<1>33. ASSUME ReleaseAll
       PROVE  SessionInv'
  BY <1>33 DEF ReleaseAll, Down, MayRemove
<1>34. ASSUME Boot
       PROVE  SessionInv'
  BY <1>34 DEF Boot, Goto
<1>35. CASE UNCHANGED vars
  BY <1>35 DEF vars
<1> QED
  BY <1>1, <1>2, <1>3, <1>4, <1>5, <1>6, <1>7, <1>8, <1>9, <1>10, <1>11, <1>12,
     <1>13, <1>14, <1>15, <1>16, <1>17, <1>18, <1>19, <1>20, <1>21, <1>22,
     <1>23, <1>24, <1>25, <1>26, <1>27, <1>28, <1>29, <1>30, <1>31, <1>32,
     <1>33, <1>34, <1>35 DEF Next, Admission, Command, RunStep, Deletion

(* Sources that are named stay, staged ones are forgotten in time. *)
LEMMA StagedStep ==
  ASSUME Types, QueueInv, RetainInv, SessionInv, StagedInv, [Next]_vars
  PROVE  StagedInv'
<1> USE WorkspaceAssumption DEF Types, QueueInv, RetainInv, SessionInv, StagedInv,
       ReferencesAreSound, Referenced, Sources, Uploaded, Associations, Lost,
       Admitting, CommandsOf, Actors, Callers, Deleters, thread, docker, manager,
       queues, run, process
<1>1. ASSUME NEW a \in Callers, Enter(a)
      PROVE  StagedInv'
  BY <1>1 DEF Enter, Goto, GotoSilent, Await, Free, EndCommand, Refused,
     Granted, Acquire, Cached, SourceLost
<1>2. ASSUME NEW a \in Callers, Resolved(a)
      PROVE  StagedInv'
  BY <1>2 DEF Resolved, Goto, GotoSilent, Await, Free, EndCommand, Refused, At
<1>3. ASSUME NEW a \in Callers, ReleaseRetired(a)
      PROVE  StagedInv'
  BY <1>3 DEF ReleaseRetired, Goto, GotoSilent, Await, Free, EndCommand,
     Refused, Granted, Acquire, At, MayRemove
<1>4. ASSUME NEW a \in Callers, InspectCreation(a)
      PROVE  StagedInv'
  BY <1>4 DEF InspectCreation, Goto, GotoSilent, Await, Free, EndCommand,
     Refused, At
<1>5. ASSUME NEW a \in Callers, Create(a)
      PROVE  StagedInv'
  BY <1>5 DEF Create, Goto, GotoSilent, Await, Free, EndCommand, Refused, At
<1>6. ASSUME NEW a \in Callers, Reconnect(a)
      PROVE  StagedInv'
  BY <1>6 DEF Reconnect, Goto, GotoSilent, Free, EndCommand, Refused, Granted,
     At, MayRemove
<1>7. ASSUME NEW c \in Commands, Call(c)
      PROVE  StagedInv'
  BY <1>7 DEF Call, Goto
<1>8. ASSUME NEW c \in Commands, Dequeue(c)
      PROVE  StagedInv'
  BY <1>8 DEF Dequeue, Goto, EndCommand
<1>9. ASSUME NEW c \in Commands, CommandEnds(c)
      PROVE  StagedInv'
  BY <1>9 DEF CommandEnds, Goto, EndCommand
<1>10. ASSUME NEW c \in Commands, CommandFails(c)
       PROVE  StagedInv'
  BY <1>10 DEF CommandFails, Goto, MayRemove
<1>11. ASSUME NEW c \in Commands, Invalidate(c)
       PROVE  StagedInv'
  BY <1>11 DEF Invalidate, Goto, EndCommand
<1>12. ASSUME NEW r \in Runs, Look(r)
       PROVE  StagedInv'
  BY <1>12 DEF Look, Goto
<1>13. ASSUME NEW r \in Runs, CreateRow(r)
       PROVE  StagedInv'
  BY <1>13 DEF CreateRow, Goto
<1>14. ASSUME NEW r \in Runs, Begin(r)
       PROVE  StagedInv'
  BY <1>14 DEF Begin, Goto, GotoSilent
<1>15. ASSUME NEW r \in Runs, Abort(r)
       PROVE  StagedInv'
  BY <1>15 DEF Abort
<1>16. ASSUME NEW r \in Runs, Finish(r)
       PROVE  StagedInv'
  BY <1>16 DEF Finish, Goto, GotoSilent
<1>17. ASSUME NEW r \in Runs, Settle(r)
       PROVE  StagedInv'
  BY <1>17 DEF Settle, Goto, Leave
<1>18. ASSUME NEW r \in Runs, Settled(r)
       PROVE  StagedInv'
  BY <1>18 DEF Settled, Goto, Leave, At, Free, MayRemove
<1>19. ASSUME NEW d \in Deleters, Delete(d)
       PROVE  StagedInv'
  BY <1>19 DEF Delete, Goto, Fail
<1>20. ASSUME NEW d \in Deleters, Destroy(d)
       PROVE  StagedInv'
  BY <1>20 DEF Destroy, Goto, Fail
<1>21. ASSUME NEW d \in Deleters, Destroyed(d)
       PROVE  StagedInv'
  BY <1>21 DEF Destroyed, Goto, Fail, At, Free, MayRemove
<1>22. ASSUME NEW d \in Deleters, DeleteRow(d)
       PROVE  StagedInv'
  BY <1>22 DEF DeleteRow, Goto, Fail
<1>23. ASSUME NEW d \in Deleters, CompleteDelete(d)
       PROVE  StagedInv'
  BY <1>23 DEF CompleteDelete, Goto, Fail
<1>24. ASSUME Reap
       PROVE  StagedInv'
  BY <1>24 DEF Reap
<1>25. ASSUME Reaped
       PROVE  StagedInv'
  BY <1>25 DEF Reaped, At, Free, MayRemove
<1>26. ASSUME CreateStaged
       PROVE  StagedInv'
  BY <1>26 DEF CreateStaged
<1>27. ASSUME Attach
       PROVE  StagedInv'
  BY <1>27 DEF Attach
<1>28. ASSUME Upload
       PROVE  StagedInv'
  BY <1>28 DEF Upload
<1>29. ASSUME Reclaim
       PROVE  StagedInv'
  BY <1>29 DEF Reclaim
<1>30. ASSUME Age
       PROVE  StagedInv'
  BY <1>30 DEF Age
<1>31. ASSUME Crash
       PROVE  StagedInv'
  BY <1>31 DEF Crash, Down
<1>32. ASSUME Close
       PROVE  StagedInv'
  BY <1>32 DEF Close
<1>33. ASSUME ReleaseAll
       PROVE  StagedInv'
  BY <1>33 DEF ReleaseAll, Down, MayRemove
<1>34. ASSUME Boot
       PROVE  StagedInv'
  <2>1. CASE assoc = "deleting"
    BY <1>34, <2>1 DEF Boot, Goto
  <2>2. CASE assoc # "deleting"
    <3>1. staged' => staged /\ row # None
      BY <1>34, <2>2 DEF Boot
    <3>2. UNCHANGED <<row, source, post, assoc, pc>>
      BY <1>34, <2>2 DEF Boot
    <3> QED
      BY <3>1, <3>2
  <2> QED
    BY <2>1, <2>2
<1>35. CASE UNCHANGED vars
  BY <1>35 DEF vars
<1> QED
  BY <1>1, <1>2, <1>3, <1>4, <1>5, <1>6, <1>7, <1>8, <1>9, <1>10, <1>11, <1>12,
     <1>13, <1>14, <1>15, <1>16, <1>17, <1>18, <1>19, <1>20, <1>21, <1>22,
     <1>23, <1>24, <1>25, <1>26, <1>27, <1>28, <1>29, <1>30, <1>31, <1>32,
     <1>33, <1>34, <1>35 DEF Next, Admission, Command, RunStep, Deletion

(* With one DELETE, what is marked deleted was destroyed. *)
LEMMA DeletionStep ==
  ASSUME OneDelete, Types, QueueInv, RetainInv, SessionInv, DeletionInv, [Next]_vars
  PROVE  DeletionInv'
<1> USE WorkspaceAssumption DEF OneDelete, Types, QueueInv, RetainInv, SessionInv,
       DeletionInv, Lost, Associations, Admitting, CommandsOf, Actors, Callers,
       Deleters, thread, docker, manager, queues, run, process
<1>1. ASSUME NEW a \in Callers, Enter(a)
      PROVE  DeletionInv'
  BY <1>1 DEF Enter, Goto, GotoSilent, Await, Free, EndCommand, Refused,
     Granted, Acquire, Cached, SourceLost
<1>2. ASSUME NEW a \in Callers, Resolved(a)
      PROVE  DeletionInv'
  BY <1>2 DEF Resolved, Goto, GotoSilent, Await, Free, EndCommand, Refused, At
<1>3. ASSUME NEW a \in Callers, ReleaseRetired(a)
      PROVE  DeletionInv'
  BY <1>3 DEF ReleaseRetired, Goto, GotoSilent, Await, Free, EndCommand,
     Refused, Granted, Acquire, At, MayRemove
<1>4. ASSUME NEW a \in Callers, InspectCreation(a)
      PROVE  DeletionInv'
  BY <1>4 DEF InspectCreation, Goto, GotoSilent, Await, Free, EndCommand,
     Refused, At
<1>5. ASSUME NEW a \in Callers, Create(a)
      PROVE  DeletionInv'
  BY <1>5 DEF Create, Goto, GotoSilent, Await, Free, EndCommand, Refused, At
<1>6. ASSUME NEW a \in Callers, Reconnect(a)
      PROVE  DeletionInv'
  BY <1>6 DEF Reconnect, Goto, GotoSilent, Free, EndCommand, Refused, Granted,
     At, MayRemove
<1>7. ASSUME NEW c \in Commands, Call(c)
      PROVE  DeletionInv'
  BY <1>7 DEF Call, Goto
<1>8. ASSUME NEW c \in Commands, Dequeue(c)
      PROVE  DeletionInv'
  BY <1>8 DEF Dequeue, Goto, EndCommand
<1>9. ASSUME NEW c \in Commands, CommandEnds(c)
      PROVE  DeletionInv'
  BY <1>9 DEF CommandEnds, Goto, EndCommand
<1>10. ASSUME NEW c \in Commands, CommandFails(c)
       PROVE  DeletionInv'
  BY <1>10 DEF CommandFails, Goto, MayRemove
<1>11. ASSUME NEW c \in Commands, Invalidate(c)
       PROVE  DeletionInv'
  BY <1>11 DEF Invalidate, Goto, EndCommand
<1>12. ASSUME NEW r \in Runs, Look(r)
       PROVE  DeletionInv'
  BY <1>12 DEF Look, Goto
<1>13. ASSUME NEW r \in Runs, CreateRow(r)
       PROVE  DeletionInv'
  BY <1>13 DEF CreateRow, Goto
<1>14. ASSUME NEW r \in Runs, Begin(r)
       PROVE  DeletionInv'
  BY <1>14 DEF Begin, Goto, GotoSilent
<1>15. ASSUME NEW r \in Runs, Abort(r)
       PROVE  DeletionInv'
  BY <1>15 DEF Abort
<1>16. ASSUME NEW r \in Runs, Finish(r)
       PROVE  DeletionInv'
  BY <1>16 DEF Finish, Goto, GotoSilent
<1>17. ASSUME NEW r \in Runs, Settle(r)
       PROVE  DeletionInv'
  BY <1>17 DEF Settle, Goto, Leave
<1>18. ASSUME NEW r \in Runs, Settled(r)
       PROVE  DeletionInv'
  BY <1>18 DEF Settled, Goto, Leave, At, Free, MayRemove
<1>19. ASSUME NEW d \in Deleters, Delete(d)
       PROVE  DeletionInv'
  BY <1>19 DEF Delete, Goto, Fail
<1>20. ASSUME NEW d \in Deleters, Destroy(d)
       PROVE  DeletionInv'
  BY <1>20 DEF Destroy, Goto, Fail
<1>21. ASSUME NEW d \in Deleters, Destroyed(d)
       PROVE  DeletionInv'
  BY <1>21 DEF Destroyed, Goto, Fail, At, Free, MayRemove
<1>22. ASSUME NEW d \in Deleters, DeleteRow(d)
       PROVE  DeletionInv'
  BY <1>22 DEF DeleteRow, Goto, Fail
<1>23. ASSUME NEW d \in Deleters, CompleteDelete(d)
       PROVE  DeletionInv'
  BY <1>23 DEF CompleteDelete, Goto, Fail
<1>24. ASSUME Reap
       PROVE  DeletionInv'
  BY <1>24 DEF Reap
<1>25. ASSUME Reaped
       PROVE  DeletionInv'
  <2>1. alive' \subseteq alive
    BY <1>25 DEF Reaped, MayRemove
  <2>2. UNCHANGED <<phys, assoc, pc, mode, row, staged, source, post, slot, crashes>>
    BY <1>25 DEF Reaped
  <2>3. step' = "none" /\ serial' = None
    BY <1>25 DEF Reaped, Free
  <2> QED
    BY <2>1, <2>2, <2>3
<1>26. ASSUME CreateStaged
       PROVE  DeletionInv'
  BY <1>26 DEF CreateStaged
<1>27. ASSUME Attach
       PROVE  DeletionInv'
  BY <1>27 DEF Attach
<1>28. ASSUME Upload
       PROVE  DeletionInv'
  BY <1>28 DEF Upload
<1>29. ASSUME Reclaim
       PROVE  DeletionInv'
  BY <1>29 DEF Reclaim, Referenced
<1>30. ASSUME Age
       PROVE  DeletionInv'
  BY <1>30 DEF Age
<1>31. ASSUME Crash
       PROVE  DeletionInv'
  BY <1>31 DEF Crash, Down
<1>32. ASSUME Close
       PROVE  DeletionInv'
  BY <1>32 DEF Close
<1>33. ASSUME ReleaseAll
       PROVE  DeletionInv'
  BY <1>33 DEF ReleaseAll, Down, MayRemove
<1>34. ASSUME Boot
       PROVE  DeletionInv'
  BY <1>34 DEF Boot, Goto
<1>35. CASE UNCHANGED vars
  BY <1>35 DEF vars
<1> QED
  BY <1>1, <1>2, <1>3, <1>4, <1>5, <1>6, <1>7, <1>8, <1>9, <1>10, <1>11, <1>12,
     <1>13, <1>14, <1>15, <1>16, <1>17, <1>18, <1>19, <1>20, <1>21, <1>22,
     <1>23, <1>24, <1>25, <1>26, <1>27, <1>28, <1>29, <1>30, <1>31, <1>32,
     <1>33, <1>34, <1>35 DEF Next, Admission, Command, RunStep, Deletion

(* staged is a Boolean.  (A lemma of its own: only one backend has Booleans.) *)
LEMMA StagedIsBoolean ==
  ASSUME staged \in BOOLEAN, [Next]_vars
  PROVE  (staged \in BOOLEAN)'
<1> USE WorkspaceAssumption DEF thread, docker, manager, queues, run, process
<1>1. ASSUME NEW a \in Callers, Enter(a)
      PROVE  (staged \in BOOLEAN)'
  BY <1>1 DEF Enter, Goto, GotoSilent, Await, Free, EndCommand, Refused,
     Granted, Acquire, Lost, Cached, SourceLost
<1>2. ASSUME NEW a \in Callers, Resolved(a)
      PROVE  (staged \in BOOLEAN)'
  BY <1>2 DEF Resolved, Goto, GotoSilent, Await, Free, EndCommand, Refused, At
<1>3. ASSUME NEW a \in Callers, ReleaseRetired(a)
      PROVE  (staged \in BOOLEAN)'
  BY <1>3 DEF ReleaseRetired, Goto, GotoSilent, Await, Free, EndCommand,
     Refused, Granted, Acquire, At, MayRemove
<1>4. ASSUME NEW a \in Callers, InspectCreation(a)
      PROVE  (staged \in BOOLEAN)'
  BY <1>4 DEF InspectCreation, Goto, GotoSilent, Await, Free, EndCommand,
     Refused, At
<1>5. ASSUME NEW a \in Callers, Create(a)
      PROVE  (staged \in BOOLEAN)'
  BY <1>5 DEF Create, Goto, GotoSilent, Await, Free, EndCommand, Refused, At
<1>6. ASSUME NEW a \in Callers, Reconnect(a)
      PROVE  (staged \in BOOLEAN)'
  BY <1>6 DEF Reconnect, Goto, GotoSilent, Free, EndCommand, Refused, Granted,
     At, MayRemove
<1>7. ASSUME NEW c \in Commands, Call(c)
      PROVE  (staged \in BOOLEAN)'
  BY <1>7 DEF Call, Goto, Lost
<1>8. ASSUME NEW c \in Commands, Dequeue(c)
      PROVE  (staged \in BOOLEAN)'
  BY <1>8 DEF Dequeue, Goto, EndCommand
<1>9. ASSUME NEW c \in Commands, CommandEnds(c)
      PROVE  (staged \in BOOLEAN)'
  BY <1>9 DEF CommandEnds, Goto, EndCommand
<1>10. ASSUME NEW c \in Commands, CommandFails(c)
       PROVE  (staged \in BOOLEAN)'
  BY <1>10 DEF CommandFails, Goto, MayRemove
<1>11. ASSUME NEW c \in Commands, Invalidate(c)
       PROVE  (staged \in BOOLEAN)'
  BY <1>11 DEF Invalidate, Goto, EndCommand
<1>12. ASSUME NEW r \in Runs, Look(r)
       PROVE  (staged \in BOOLEAN)'
  BY <1>12 DEF Look, Goto
<1>13. ASSUME NEW r \in Runs, CreateRow(r)
       PROVE  (staged \in BOOLEAN)'
  BY <1>13 DEF CreateRow, Goto
<1>14. ASSUME NEW r \in Runs, Begin(r)
       PROVE  (staged \in BOOLEAN)'
  BY <1>14 DEF Begin, Goto, GotoSilent, Lost
<1>15. ASSUME NEW r \in Runs, Abort(r)
       PROVE  (staged \in BOOLEAN)'
  BY <1>15 DEF Abort
<1>16. ASSUME NEW r \in Runs, Finish(r)
       PROVE  (staged \in BOOLEAN)'
  BY <1>16 DEF Finish, Goto, GotoSilent
<1>17. ASSUME NEW r \in Runs, Settle(r)
       PROVE  (staged \in BOOLEAN)'
  BY <1>17 DEF Settle, Goto, Leave
<1>18. ASSUME NEW r \in Runs, Settled(r)
       PROVE  (staged \in BOOLEAN)'
  BY <1>18 DEF Settled, Goto, Leave, At, Free, MayRemove
<1>19. ASSUME NEW d \in Deleters, Delete(d)
       PROVE  (staged \in BOOLEAN)'
  BY <1>19 DEF Delete, Goto, Fail
<1>20. ASSUME NEW d \in Deleters, Destroy(d)
       PROVE  (staged \in BOOLEAN)'
  BY <1>20 DEF Destroy, Goto, Fail
<1>21. ASSUME NEW d \in Deleters, Destroyed(d)
       PROVE  (staged \in BOOLEAN)'
  BY <1>21 DEF Destroyed, Goto, Fail, At, Free, MayRemove
<1>22. ASSUME NEW d \in Deleters, DeleteRow(d)
       PROVE  (staged \in BOOLEAN)'
  BY <1>22 DEF DeleteRow, Goto, Fail
<1>23. ASSUME NEW d \in Deleters, CompleteDelete(d)
       PROVE  (staged \in BOOLEAN)'
  BY <1>23 DEF CompleteDelete, Goto, Fail
<1>24. ASSUME Reap
       PROVE  (staged \in BOOLEAN)'
  BY <1>24 DEF Reap
<1>25. ASSUME Reaped
       PROVE  (staged \in BOOLEAN)'
  BY <1>25 DEF Reaped, At, Free, MayRemove
<1>26. ASSUME CreateStaged
       PROVE  (staged \in BOOLEAN)'
  BY <1>26 DEF CreateStaged
<1>27. ASSUME Attach
       PROVE  (staged \in BOOLEAN)'
  BY <1>27 DEF Attach
<1>28. ASSUME Upload
       PROVE  (staged \in BOOLEAN)'
  BY <1>28 DEF Upload
<1>29. ASSUME Reclaim
       PROVE  (staged \in BOOLEAN)'
  BY <1>29 DEF Reclaim, Referenced
<1>30. ASSUME Age
       PROVE  (staged \in BOOLEAN)'
  BY <1>30 DEF Age
<1>31. ASSUME Crash
       PROVE  (staged \in BOOLEAN)'
  BY <1>31 DEF Crash, Down
<1>32. ASSUME Close
       PROVE  (staged \in BOOLEAN)'
  BY <1>32 DEF Close
<1>33. ASSUME ReleaseAll
       PROVE  (staged \in BOOLEAN)'
  BY <1>33 DEF ReleaseAll, Down, MayRemove
<1>34. ASSUME Boot
       PROVE  (staged \in BOOLEAN)'
  BY <1>34 DEF Boot, Goto
<1>35. CASE UNCHANGED vars
  BY <1>35 DEF vars
<1> QED
  BY <1>1, <1>2, <1>3, <1>4, <1>5, <1>6, <1>7, <1>8, <1>9, <1>10, <1>11, <1>12,
     <1>13, <1>14, <1>15, <1>16, <1>17, <1>18, <1>19, <1>20, <1>21, <1>22,
     <1>23, <1>24, <1>25, <1>26, <1>27, <1>28, <1>29, <1>30, <1>31, <1>32,
     <1>33, <1>34, <1>35 DEF Next, Admission, Command, RunStep, Deletion

(* What CommandsKeepTheirSession says of one step. *)
CommandsKeep ==
  \A c \in Commands :
    /\ pc[c] = "running" /\ pc'[c] = "running"
    /\ slot = RunOf[c] /\ slot \notin aborted
    /\ using[c] \in alive
    => using[c] \in alive'

(* No step takes the container of a command of the run in progress. *)
LEMMA CommandsStep ==
  ASSUME Types, QueueInv, RetainInv, SessionInv, [Next]_vars
  PROVE  CommandsKeep
<1> USE WorkspaceAssumption DEF CommandsKeep, Types, QueueInv, RetainInv,
       SessionInv, Admitting, CommandsOf, Run, Actors, Callers, Deleters, thread,
       docker, manager, queues, run, process
<1>1. ASSUME NEW a \in Callers, Enter(a)
      PROVE  CommandsKeep
  BY <1>1 DEF Enter, Goto, GotoSilent, Await, Free, EndCommand, Refused,
     Granted, Acquire, Lost, Cached, SourceLost
<1>2. ASSUME NEW a \in Callers, Resolved(a)
      PROVE  CommandsKeep
  BY <1>2 DEF Resolved, Goto, GotoSilent, Await, Free, EndCommand, Refused, At
<1>3. ASSUME NEW a \in Callers, ReleaseRetired(a)
      PROVE  CommandsKeep
  BY <1>3 DEF ReleaseRetired, Goto, GotoSilent, Await, Free, EndCommand,
     Refused, Granted, Acquire, At, MayRemove
<1>4. ASSUME NEW a \in Callers, InspectCreation(a)
      PROVE  CommandsKeep
  BY <1>4 DEF InspectCreation, Goto, GotoSilent, Await, Free, EndCommand,
     Refused, At
<1>5. ASSUME NEW a \in Callers, Create(a)
      PROVE  CommandsKeep
  BY <1>5 DEF Create, Goto, GotoSilent, Await, Free, EndCommand, Refused, At
<1>6. ASSUME NEW a \in Callers, Reconnect(a)
      PROVE  CommandsKeep
  BY <1>6 DEF Reconnect, Goto, GotoSilent, Free, EndCommand, Refused, Granted,
     At, MayRemove
<1>7. ASSUME NEW c \in Commands, Call(c)
      PROVE  CommandsKeep
  BY <1>7 DEF Call, Goto, Lost
<1>8. ASSUME NEW c \in Commands, Dequeue(c)
      PROVE  CommandsKeep
  BY <1>8 DEF Dequeue, Goto, EndCommand
<1>9. ASSUME NEW c \in Commands, CommandEnds(c)
      PROVE  CommandsKeep
  BY <1>9 DEF CommandEnds, Goto, EndCommand
<1>10. ASSUME NEW c \in Commands, CommandFails(c)
       PROVE  CommandsKeep
  BY <1>10 DEF CommandFails, Goto, MayRemove
<1>11. ASSUME NEW c \in Commands, Invalidate(c)
       PROVE  CommandsKeep
  BY <1>11 DEF Invalidate, Goto, EndCommand
<1>12. ASSUME NEW r \in Runs, Look(r)
       PROVE  CommandsKeep
  BY <1>12 DEF Look, Goto
<1>13. ASSUME NEW r \in Runs, CreateRow(r)
       PROVE  CommandsKeep
  BY <1>13 DEF CreateRow, Goto
<1>14. ASSUME NEW r \in Runs, Begin(r)
       PROVE  CommandsKeep
  BY <1>14 DEF Begin, Goto, GotoSilent, Lost
<1>15. ASSUME NEW r \in Runs, Abort(r)
       PROVE  CommandsKeep
  BY <1>15 DEF Abort
<1>16. ASSUME NEW r \in Runs, Finish(r)
       PROVE  CommandsKeep
  BY <1>16 DEF Finish, Goto, GotoSilent
<1>17. ASSUME NEW r \in Runs, Settle(r)
       PROVE  CommandsKeep
  BY <1>17 DEF Settle, Goto, Leave
<1>18. ASSUME NEW r \in Runs, Settled(r)
       PROVE  CommandsKeep
  BY <1>18 DEF Settled, Goto, Leave, At, Free, MayRemove
<1>19. ASSUME NEW d \in Deleters, Delete(d)
       PROVE  CommandsKeep
  BY <1>19 DEF Delete, Goto, Fail
<1>20. ASSUME NEW d \in Deleters, Destroy(d)
       PROVE  CommandsKeep
  BY <1>20 DEF Destroy, Goto, Fail
<1>21. ASSUME NEW d \in Deleters, Destroyed(d)
       PROVE  CommandsKeep
  BY <1>21 DEF Destroyed, Goto, Fail, At, Free, MayRemove
<1>22. ASSUME NEW d \in Deleters, DeleteRow(d)
       PROVE  CommandsKeep
  BY <1>22 DEF DeleteRow, Goto, Fail
<1>23. ASSUME NEW d \in Deleters, CompleteDelete(d)
       PROVE  CommandsKeep
  BY <1>23 DEF CompleteDelete, Goto, Fail
<1>24. ASSUME Reap
       PROVE  CommandsKeep
  BY <1>24 DEF Reap
<1>25. ASSUME Reaped
       PROVE  CommandsKeep
  BY <1>25 DEF Reaped, At, Free, MayRemove
<1>26. ASSUME CreateStaged
       PROVE  CommandsKeep
  BY <1>26 DEF CreateStaged
<1>27. ASSUME Attach
       PROVE  CommandsKeep
  BY <1>27 DEF Attach
<1>28. ASSUME Upload
       PROVE  CommandsKeep
  BY <1>28 DEF Upload
<1>29. ASSUME Reclaim
       PROVE  CommandsKeep
  BY <1>29 DEF Reclaim, Referenced
<1>30. ASSUME Age
       PROVE  CommandsKeep
  BY <1>30 DEF Age
<1>31. ASSUME Crash
       PROVE  CommandsKeep
  BY <1>31 DEF Crash, Down
<1>32. ASSUME Close
       PROVE  CommandsKeep
  BY <1>32 DEF Close
<1>33. ASSUME ReleaseAll
       PROVE  CommandsKeep
  BY <1>33 DEF ReleaseAll, Down, MayRemove
<1>34. ASSUME Boot
       PROVE  CommandsKeep
  BY <1>34 DEF Boot, Goto
<1>35. CASE UNCHANGED vars
  BY <1>35 DEF vars
<1> QED
  BY <1>1, <1>2, <1>3, <1>4, <1>5, <1>6, <1>7, <1>8, <1>9, <1>10, <1>11, <1>12,
     <1>13, <1>14, <1>15, <1>16, <1>17, <1>18, <1>19, <1>20, <1>21, <1>22,
     <1>23, <1>24, <1>25, <1>26, <1>27, <1>28, <1>29, <1>30, <1>31, <1>32,
     <1>33, <1>34, <1>35 DEF Next, Admission, Command, RunStep, Deletion

-----------------------------------------------------------------------------

LEMMA WorkspaceInit == Init => IInv
<1> SUFFICES ASSUME Init PROVE IInv
  OBVIOUS
<1> USE WorkspaceAssumption DEF Init
<1>1. staged \in BOOLEAN
  OBVIOUS
<1>2. Types
  BY DEF Types, Associations, Sources, Steps, Phases, Actors, Callers, Deleters
<1>3. QueueInv /\ RetainInv /\ SessionInv
  BY DEF QueueInv, RetainInv, SessionInv, Admitting, Lost, Actors, Callers, Deleters
<1>4. StagedInv /\ DeletionInv
  BY DEF StagedInv, ReferencesAreSound, Referenced, DeletionInv, Lost, Actors, Deleters
<1> QED
  BY <1>1, <1>2, <1>3, <1>4 DEF IInv

LEMMA WorkspaceStep == IInv /\ [Next]_vars => IInv'
<1> SUFFICES ASSUME IInv, [Next]_vars PROVE IInv'
  OBVIOUS
<1> USE DEF IInv
<1>1. staged' \in BOOLEAN
  BY StagedIsBoolean
<1>2. Types' /\ QueueInv' /\ RetainInv'
  BY TypesStep, QueueStep, RetainStep
<1>3. SessionInv' /\ StagedInv'
  BY SessionStep, StagedStep
<1>4. OneDelete => DeletionInv'
  BY DeletionStep
<1> QED
  BY <1>1, <1>2, <1>3, <1>4 DEF OneDelete

(* The inductive invariant holds in every reachable state. *)
LEMMA WorkspaceInvariant == Spec => []IInv
  BY WorkspaceInit, WorkspaceStep, PTL DEF Spec

(* Type correctness, with the session and the one to release exclusive, for   *)
(* any runs, commands and deletions (managed-workspace-manager.ts).           *)
THEOREM WorkspaceTypeOK == Spec => []TypeOK
<1>1. IInv => TypeOK
  <2> SUFFICES ASSUME IInv PROVE TypeOK
    OBVIOUS
  <2>1. staged \in BOOLEAN
    BY DEF IInv
  <2>2. Types /\ (session = None \/ retired = None) /\ (serial = None <=> step = "none")
    BY DEF IInv, SessionInv, QueueInv
  <2> QED
    BY <2>1, <2>2 DEF Types, TypeOK
<1> QED
  BY <1>1, WorkspaceInvariant, PTL

(* Sources that are referenced are never reclaimed, and no staged source is   *)
(* left for a later thread (reclaimStagedSources, forgetStagedWorkspace).     *)
THEOREM WorkspaceReferences == Spec => []ReferencesAreSound
<1>1. IInv => ReferencesAreSound
  BY DEF IInv, StagedInv
<1> QED
  BY <1>1, WorkspaceInvariant, PTL

(* With one DELETE beside the boot's own, whatever runs or is stored belongs  *)
(* to an association that a deletion will find (destroyThread, reconnect).    *)
THEOREM WorkspaceNothingLost == OneDelete => (Spec => []NothingPhysicalIsLost)
<1> SUFFICES ASSUME OneDelete PROVE Spec => []NothingPhysicalIsLost
  OBVIOUS
<1>1. IInv => NothingPhysicalIsLost
  BY DEF IInv, SessionInv, DeletionInv, NothingPhysicalIsLost
<1> QED
  BY <1>1, WorkspaceInvariant, PTL

(* Nothing takes the container of a command of the run in progress            *)
(* (reapIdle, settle, destroyThread, reconnect, invalidate).                  *)
THEOREM WorkspaceCommands == Spec => CommandsKeepTheirSession
<1>1. IInv /\ [Next]_vars => CommandsKeep
  BY CommandsStep DEF IInv
<1>2. CommandsKeep => [CommandsKeep]_vars
  OBVIOUS
<1> QED
  BY <1>1, WorkspaceInvariant, PTL DEF Spec, CommandsKeepTheirSession, CommandsKeep
=============================================================================
