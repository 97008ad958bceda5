------------------------------ MODULE DevSession ------------------------------
(* b4 dev: a parent that watches the app and restarts a child runtime.  One   *)
(* restart is in flight at a time; the person's close, the child's own exit   *)
(* and further edits come in between its awaits.  Children are numbered in    *)
(* the order in which they are spawned.                                       *)
EXTENDS Naturals

CONSTANTS MaxSpawns, MaxEdits  \* bounds of the instance

ASSUME DevAssumption == MaxSpawns \in Nat /\ MaxEdits \in Nat

Children == 1..MaxSpawns
None == 0

VARIABLES proc,     \* of each child
          news,     \* what its ready promise was told first
          gone,     \* the children whose close event was delivered
          stop,     \* stop(c): SIGTERM sent, SIGKILL sent, returned
          spawned,  \* the latest child
          current,  \* currentChild
          loop,     \* where startOrRestart stands; "idle": none in flight
          first,    \* start() is running it
          pending,  \* pendingRestart
          edits,    \* changes that were noticed
          tried,    \* how many of them the latest attempt saw
          ready,    \* hasBeenReady
          ender,    \* who set closed: close() or failFatal()
          late,     \* a restart ran on when the session was over
          outcome,  \* of start() and of closedPromise
          parent

childVars == <<proc, news, gone>>
endVars == <<ender, late, outcome, parent>>
vars == <<childVars, stop, spawned, current, loop, first, pending, edits, tried, ready, endVars>>

Live(c) == proc[c] \in {"starting", "serving"}
Closed == ender # "none"

Init == /\ proc = [c \in Children |-> "none"] /\ news = [c \in Children |-> "none"]
        /\ stop = [c \in Children |-> "no"] /\ gone = {}
        /\ spawned = 0 /\ current = None
        /\ loop = "check" /\ first = TRUE /\ pending = FALSE
        /\ edits = 0 /\ tried = 0 /\ ready = FALSE
        /\ ender = "none" /\ late = FALSE /\ outcome = "open" /\ parent = "up"

-----------------------------------------------------------------------------
(* stop(): nothing to do for a child with an exit code (one that a signal     *)
(* killed has none); otherwise SIGTERM, a grace period, SIGKILL, each waiting *)
(* for a close event to come.                                                 *)
BeginStop(c) == stop' = [stop EXCEPT ![c] = IF proc[c] = "exited" THEN "done" ELSE "term"]

(* Mutant: SIGKILL is sent, and its effect is not awaited. *)
DeadlineUnawaited(c) ==
  /\ parent = "up" /\ stop[c] = "term"
  /\ stop' = [stop EXCEPT ![c] = "done"]
  /\ UNCHANGED <<childVars, spawned, current, loop, first, pending, edits, tried, ready, endVars>>

(* Mutant: the child is left to end by itself. *)
DeadlineWithoutKill(c) ==
  /\ parent = "up" /\ stop[c] = "term"
  /\ stop' = [stop EXCEPT ![c] = IF proc[c] = "exited" THEN "done" ELSE "kill"]
  /\ UNCHANGED <<childVars, spawned, current, loop, first, pending, edits, tried, ready, endVars>>

Deadline(c) ==
  /\ parent = "up" /\ stop[c] = "term"
  /\ stop' = [stop EXCEPT ![c] = IF proc[c] = "exited" THEN "done" ELSE "kill"]
  /\ proc' = [proc EXCEPT ![c] = IF Live(c) THEN "killed" ELSE @]
  /\ UNCHANGED <<news, gone, spawned, current, loop, first, pending, edits, tried, ready, endVars>>

(* The child serves and says so (which fails without its parent), or fails to *)
(* start and exits, perhaps before it could say why.                          *)
Boot(c) ==
  /\ proc[c] = "starting"
  /\ \/ parent = "up" /\ proc' = [proc EXCEPT ![c] = "serving"] /\ news' = [news EXCEPT ![c] = "ready"]
     \/ /\ proc' = [proc EXCEPT ![c] = "exited"]
        /\ \E what \in {"none", "failed", "inuse"} : news' = [news EXCEPT ![c] = what]
  /\ UNCHANGED <<gone, stop, spawned, current, loop, first, pending, edits, tried, ready, endVars>>

(* SIGTERM: a server that is up closes and exits, in its own time.            *)
Terminate(c) ==
  /\ stop[c] = "term" /\ Live(c)
  /\ proc' = [proc EXCEPT ![c] = IF @ = "serving" THEN "exited" ELSE "killed"]
  /\ UNCHANGED <<news, gone, stop, spawned, current, loop, first, pending, edits, tried, ready, endVars>>

(* It exits by itself, or something kills it. *)
Dies(c) ==
  /\ Live(c)
  /\ \/ proc[c] = "serving" /\ proc' = [proc EXCEPT ![c] = "exited"]
     \/ proc' = [proc EXCEPT ![c] = "killed"]
  /\ UNCHANGED <<news, gone, stop, spawned, current, loop, first, pending, edits, tried, ready, endVars>>

-----------------------------------------------------------------------------
(* The restart loop: start() and requestRestart(), which differ in how an     *)
(* attempt may fail.                                                          *)

(* Mutant: the child is forgotten only once it has stopped. *)
AttemptKeepsChild(old, seen) ==
  /\ tried' = seen /\ pending' = FALSE /\ current' = old
  /\ IF old = None THEN loop' = "check" /\ UNCHANGED stop
                   ELSE loop' = "stop" /\ BeginStop(old)

(* startOrRestart, up to its first await. *)
Attempt(old, seen) ==
  /\ tried' = seen /\ pending' = FALSE /\ current' = None
  /\ IF old = None THEN loop' = "check" /\ UNCHANGED stop
                   ELSE loop' = "stop" /\ BeginStop(old)

Idle == loop' = "idle" /\ first' = FALSE /\ UNCHANGED <<pending, tried>>

FailFatal(c) ==
  /\ ender' = "fatal" /\ current' = None
  /\ IF c = None THEN outcome' = (IF outcome = "open" THEN "rejected" ELSE outcome) /\ UNCHANGED stop
                 ELSE BeginStop(c) /\ UNCHANGED outcome

(* Mutant: a change during a failing restart waits for the next change. *)
FailsQuietly(fatal) ==
  /\ Idle
  /\ IF first THEN outcome' = "failed" /\ UNCHANGED <<ender, current, stop>>
     ELSE IF ~Closed /\ (fatal \/ ~ready) THEN FailFatal(None)
     ELSE current' = None /\ UNCHANGED <<ender, outcome, stop>>

Fails(fatal) ==
  \/ /\ first
     /\ Idle /\ outcome' = "failed" /\ UNCHANGED <<ender, current, stop>>
  \/ /\ ~first /\ (fatal \/ ~ready)
     /\ Idle
     /\ IF Closed THEN UNCHANGED <<ender, outcome, current, stop>> ELSE FailFatal(None)
  \/ /\ ~first /\ ~fatal /\ ready
     /\ IF pending /\ ~Closed
        THEN Attempt(None, edits) /\ UNCHANGED first
        ELSE Idle /\ current' = None /\ UNCHANGED stop
     /\ UNCHANGED <<ender, outcome>>

(* A child that died meanwhile is found out as soon as it is the current one, *)
(* unless it is replaced at once.                                             *)
Succeeds(c) ==
  /\ ready' = TRUE
  /\ IF pending /\ ~Closed
     THEN Attempt(c, edits) /\ UNCHANGED <<first, ender, outcome>>
     ELSE /\ Idle
          /\ IF c \in gone /\ ~Closed
             THEN FailFatal(c)
             ELSE current' = c /\ UNCHANGED <<ender, outcome, stop>>

Stopped == /\ parent = "up" /\ loop = "stop" /\ stop[spawned] = "done"
           /\ loop' = "check"
           /\ UNCHANGED <<childVars, stop, spawned, current, first, pending, edits, tried, ready, endVars>>

(* The app is validated, its types generated, the child spawned. *)
Check ==
  /\ parent = "up" /\ loop = "check"
  /\ \/ /\ spawned < MaxSpawns
        /\ spawned' = spawned + 1 /\ proc' = [proc EXCEPT ![spawned + 1] = "starting"]
        /\ loop' = "wait"
        /\ UNCHANGED <<stop, current, first, pending, tried, ender, outcome>>
     \/ UNCHANGED <<spawned, proc>> /\ \E fatal \in BOOLEAN : Fails(fatal)
  /\ UNCHANGED <<news, gone, edits, ready, late, parent>>

(* waitForReady (which has no deadline), then the health check (which has).   *)
Judge ==
  /\ parent = "up" /\ loop = "wait" /\ news[spawned] # "none"
  /\ \/ news[spawned] = "ready" /\ Succeeds(spawned)
     \/ /\ BeginStop(spawned)
        /\ loop' = IF news[spawned] = "inuse" THEN "quit" ELSE "abandon"
        /\ UNCHANGED <<current, first, pending, tried, ready, ender, outcome>>
  /\ UNCHANGED <<childVars, spawned, edits, late, parent>>

Abandoned ==
  /\ parent = "up" /\ loop \in {"abandon", "quit"} /\ stop[spawned] = "done"
  /\ Fails(loop = "quit")
  /\ UNCHANGED <<childVars, spawned, edits, ready, late, parent>>

(* A change that classifyChange does not ignore.  The watcher stays open when *)
(* start() fails.                                                             *)
Edit ==
  /\ parent = "up" /\ ~Closed /\ edits < MaxEdits
  /\ edits' = edits + 1
  /\ IF loop = "idle"
     THEN Attempt(current, edits + 1) /\ late' = (late \/ outcome = "failed")
     ELSE pending' = TRUE /\ UNCHANGED <<tried, current, loop, stop, late>>
  /\ UNCHANGED <<childVars, spawned, first, ready, ender, outcome, parent>>

-----------------------------------------------------------------------------
(* The end of the session. *)

Close ==
  /\ parent = "up" /\ ~Closed /\ ~first /\ outcome = "open"
  /\ ender' = "close" /\ late' = (loop # "idle") /\ current' = None
  /\ IF current = None
     THEN outcome' = "resolved" /\ UNCHANGED stop
     ELSE BeginStop(current) /\ UNCHANGED outcome
  /\ UNCHANGED <<childVars, spawned, loop, first, pending, edits, tried, ready, parent>>

Ended == /\ parent = "up" /\ Closed /\ outcome = "open" /\ stop[spawned] = "done"
         /\ outcome' = IF ender = "close" THEN "resolved" ELSE "rejected"
         /\ UNCHANGED <<childVars, stop, spawned, current, loop, first, pending, edits, tried, ready,
                        ender, late, parent>>

(* The close event of a child: its ready promise fails, a stop that waits for *)
(* it returns, and the session ends if it was serving.                        *)
Exits(c) ==
  /\ parent = "up" /\ proc[c] \in {"exited", "killed"} /\ c \notin gone
  /\ gone' = gone \cup {c}
  /\ news' = [news EXCEPT ![c] = IF @ = "none" THEN "failed" ELSE @]
  /\ IF current = c /\ ~Closed
     THEN FailFatal(c)
     ELSE /\ stop' = [stop EXCEPT ![c] = IF @ \in {"term", "kill"} THEN "done" ELSE @]
          /\ UNCHANGED <<current, ender, outcome>>
  /\ UNCHANGED <<proc, spawned, loop, first, pending, edits, tried, ready, late, parent>>

(* The command returns, and its process with it. *)
ParentExits ==
  /\ parent = "up" /\ outcome # "open" /\ parent' = "exited"
  /\ UNCHANGED <<childVars, stop, spawned, current, loop, first, pending, edits, tried, ready,
                 ender, late, outcome>>

(* A signal kills it: SIGKILL; SIGINT or SIGTERM before the command listens    *)
(* for them, or a second one, for it listens once.  Nobody tells the child.   *)
ParentKilled ==
  /\ parent = "up" /\ parent' = "killed"
  /\ UNCHANGED <<childVars, stop, spawned, current, loop, first, pending, edits, tried, ready,
                 ender, late, outcome>>

-----------------------------------------------------------------------------

Next == \/ \E c \in Children : Boot(c) \/ Terminate(c) \/ Dies(c) \/ Deadline(c) \/ Exits(c)
        \/ Stopped \/ Check \/ Judge \/ Abandoned \/ Edit
        \/ Close \/ Ended \/ ParentExits \/ ParentKilled

Spec == Init /\ [][Next]_vars

(* The parent's promises continue, its timers fire and its children's exits   *)
(* are delivered; a child owes nothing, nor does the person.                  *)
FairSpec == /\ Spec
            /\ WF_vars(Stopped) /\ WF_vars(Check) /\ WF_vars(Judge)
            /\ WF_vars(Abandoned) /\ WF_vars(Ended)
            /\ \A c \in Children : WF_vars(Deadline(c)) /\ WF_vars(Exits(c))

-----------------------------------------------------------------------------

(* Types; while nothing awaits a child, the latest one is the current one or  *)
(* none is.                                                                   *)
TypeOK == /\ proc \in [Children -> {"none", "starting", "serving", "exited", "killed"}]
          /\ news \in [Children -> {"none", "ready", "failed", "inuse"}]
          /\ gone \subseteq Children
          /\ stop \in [Children -> {"no", "term", "kill", "done"}]
          /\ spawned \in 0..MaxSpawns
          /\ current \in {None, spawned}
          /\ loop \in {"idle", "stop", "check", "wait", "abandon", "quit"}
          /\ loop # "idle" => current = None
          /\ {first, pending, ready, late} \subseteq BOOLEAN
          /\ edits \in 0..MaxEdits /\ tried \in 0..edits
          /\ ender \in {"none", "close", "fatal"}
          /\ outcome \in {"open", "failed", "resolved", "rejected"}
          /\ parent \in {"up", "exited", "killed"}

(* Two runtimes never run side by side (a restart "stops the child and its    *)
(* listener, then starts a fresh child on the same port"), every one that     *)
(* runs is the current one, awaited by the restart or being stopped, and none *)
(* outlives the session, unless a restart was in flight when it ended or a    *)
(* signal killed the parent.                                                  *)
ChildrenAreAccountedFor ==
  /\ \A b, c \in Children : Live(b) /\ Live(c) => b = c
  /\ \A c \in Children : Live(c) /\ parent = "up" =>
       c = current \/ (loop = "wait" /\ c = spawned) \/ stop[c] = "term"
  /\ parent = "exited" /\ ~late => \A c \in Children : ~Live(c)

(* No change is lost to a restart that was in flight, or that failed: while   *)
(* nothing is in flight, the latest attempt saw every change.                 *)
NoEditIsForgotten ==
  loop = "idle" /\ ~Closed /\ outcome = "open" => tried = edits /\ ~pending

(* A stop that waits for the close event of a child whose was delivered: such *)
(* a child was killed by a signal that stop() did not send.                   *)
Hung == \E c \in Children : stop[c] \in {"term", "kill"} /\ c \in gone

Booting == loop = "wait" /\ proc[spawned] = "starting"

(* A restart comes to its end, and so does a session, while the parent lives: *)
(* nothing but a child that never boots, or one that a signal killed, holds   *)
(* it up.                                                                     *)
SessionsSettle ==
  /\ (loop # "idle" /\ ~Booting) ~> (loop = "idle" \/ Booting \/ parent # "up" \/ Hung)
  /\ Closed ~> (outcome # "open" \/ parent = "killed" \/ Hung)
=============================================================================
