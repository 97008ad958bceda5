--------------------------- MODULE DevSessionProofs ---------------------------
(* Proofs about DevSession for any number of spawns and edits.  That the       *)
(* children are accounted for is not inductive: one needs that only the latest *)
(* child can run, what each stage of a restart knows of it, and that nothing   *)
(* goes on once the session has ended, unless a restart was in flight then.    *)
EXTENDS DevSession, TLAPS

\* TypeOK in two parts: the solvers treat Boolean variables apart from sets.
Flags == first \in BOOLEAN /\ pending \in BOOLEAN /\ ready \in BOOLEAN /\ late \in BOOLEAN

Shapes ==
  /\ proc \in [Children -> {"none", "starting", "serving", "exited", "killed"}]
  /\ news \in [Children -> {"none", "ready", "failed", "inuse"}]
  /\ gone \subseteq Children
  /\ stop \in [Children -> {"no", "term", "kill", "done"}]
  /\ spawned \in 0..MaxSpawns
  /\ current \in {None, spawned}
  /\ loop \in {"idle", "stop", "check", "wait", "abandon", "quit"}
  /\ loop # "idle" => current = None
  /\ edits \in 0..MaxEdits /\ tried \in 0..edits
  /\ ender \in {"none", "close", "fatal"}
  /\ outcome \in {"open", "failed", "resolved", "rejected"}
  /\ parent \in {"up", "exited", "killed"}

\* Only the latest child runs, and none that was waited for.
Placed == \A c \in Children :
  /\ c > spawned => proc[c] = "none" /\ stop[c] = "no"
  /\ Live(c) => c = spawned
  /\ stop[c] \in {"kill", "done"} => ~Live(c)

\* What the stages of a restart know of the children.
Awaited ==
  /\ loop \in {"stop", "wait", "abandon", "quit"} => spawned > 0
  /\ loop = "check" => \A c \in Children : ~Live(c)
  /\ \A c \in Children : Live(c) =>
       /\ c = current \/ loop = "wait" \/ stop[c] = "term"
       /\ stop[c] = "term" => loop \in {"stop", "abandon", "quit"} \/ (loop = "idle" /\ Closed)

\* A session that ended is at rest, unless a restart runs on.
Over ==
  /\ Closed \/ outcome # "open" => late \/ (loop = "idle" /\ current = None)
  /\ Closed /\ outcome = "open" => spawned > 0
  /\ outcome # "open" /\ ~late => \A c \in Children : ~Live(c)
  /\ outcome \in {"resolved", "rejected"} => Closed
  /\ parent = "exited" => outcome # "open"

\* A change that no attempt saw is pending, and so a restart is in flight.
EditsSeen ==
  /\ tried # edits => pending
  /\ loop = "idle" /\ pending => Closed \/ outcome # "open"

DevInv == Flags /\ Shapes /\ Placed /\ Awaited /\ Over /\ EditsSeen

LEMMA DevInitInv == Init => DevInv
<1> SUFFICES ASSUME Init PROVE DevInv
  OBVIOUS
<1> USE DevAssumption
<1>1. Flags
  BY DEF Init, Flags
<1>2. Shapes
  BY DEF Init, Shapes, Children, None
<1>3. Placed /\ Awaited /\ Over /\ EditsSeen
  BY DEF Init, Placed, Awaited, Over, EditsSeen, Live, Closed, Children, None
<1> QED BY <1>1, <1>2, <1>3 DEF DevInv

-----------------------------------------------------------------------------
(* The children's own steps, and the deadline of a stop: they change what     *)
(* becomes of a child, and bring none to life.                                *)

LEMMA ChildStepInv ==
  ASSUME DevInv, NEW c \in Children,
         Boot(c) \/ Terminate(c) \/ Dies(c) \/ Deadline(c)
  PROVE  DevInv'
<1> USE DEF DevInv
<1>1. /\ UNCHANGED <<gone, spawned, current, loop, first, pending, edits, tried, ready, endVars>>
      /\ proc' \in [Children -> {"none", "starting", "serving", "exited", "killed"}]
      /\ \A b \in Children : /\ Live(b)' => Live(b)
                             /\ proc[b] = "none" <=> proc'[b] = "none"
  BY DEF Boot, Terminate, Dies, Deadline, Shapes, Live, vars, childVars, endVars
<1>2. /\ news' \in [Children -> {"none", "ready", "failed", "inuse"}]
      /\ stop' \in [Children -> {"no", "term", "kill", "done"}]
  BY DEF Boot, Terminate, Dies, Deadline, Shapes, childVars
<1>3. \A b \in Children : /\ stop'[b] = stop[b] \/ (stop[b] = "term" /\ stop'[b] \in {"kill", "done"})
                          /\ stop'[b] \in {"kill", "done"} /\ stop'[b] # stop[b] => ~Live(b)'
  BY DEF Boot, Terminate, Dies, Deadline, Shapes, Live
<1>4. Flags'
  BY <1>1 DEF Flags, endVars
<1>5. Shapes'
  BY <1>1, <1>2 DEF Shapes, endVars
<1>6. Placed'
  BY <1>1, <1>3 DEF Placed
<1>7. Awaited'
  BY <1>1, <1>3 DEF Awaited, Placed, Closed, endVars
<1>8. Over'
  BY <1>1 DEF Over, Closed, endVars
<1>9. EditsSeen'
  BY <1>1 DEF EditsSeen, Closed, endVars
<1> QED BY <1>4, <1>5, <1>6, <1>7, <1>8, <1>9

-----------------------------------------------------------------------------
(* The restart loop.  Nobody runs when an attempt begins without a child, or   *)
(* fails: its child has stopped, or there was none.                           *)

Quiet == \A c \in Children : ~Live(c)

\* What an attempt that replaces old (or nobody) leaves of the invariant.
LEMMA AttemptStep ==
  ASSUME DevInv, NEW old \in {None, spawned}, NEW seen, Attempt(old, seen),
         old = None => Quiet, UNCHANGED <<proc, spawned>>
  PROVE  /\ stop' \in [Children -> {"no", "term", "kill", "done"}]
         /\ loop' \in {"stop", "check"}
         /\ Placed' /\ (loop' = "stop" => spawned' > 0)
         /\ loop' = "check" => Quiet'
         /\ \A c \in Children : Live(c)' => stop'[c] = "term" /\ loop' = "stop"
<1> USE DevAssumption DEF DevInv
<1>1. CASE old = None
  <2>1. loop' = "check" /\ stop' = stop
    BY <1>1 DEF Attempt
  <2> QED BY <1>1, <2>1 DEF Quiet, Placed, Live, Shapes
<1>2. CASE old # None
  <2>1. /\ old = spawned /\ old \in Children /\ spawned > 0
        /\ loop' = "stop"
        /\ stop' = [stop EXCEPT ![old] = IF proc[old] = "exited" THEN "done" ELSE "term"]
    BY <1>2 DEF Attempt, BeginStop, Shapes, Children, None
  <2>2. stop' \in [Children -> {"no", "term", "kill", "done"}]
    BY <2>1 DEF Shapes
  <2>3. Placed'
    BY <2>1 DEF Placed, Shapes, Live
  <2>4. \A c \in Children : Live(c)' => stop'[c] = "term"
    BY <2>1 DEF Placed, Shapes, Live
  <2> QED BY <2>1, <2>2, <2>3, <2>4
<1> QED BY <1>1, <1>2

\* A session that gives up, with a child or without.
LEMMA FailFatalStep ==
  ASSUME DevInv, NEW c \in {None, spawned}, FailFatal(c),
         c = None => Quiet, \A b \in Children : Live(b) => b = c,
         UNCHANGED <<proc, spawned>>
  PROVE  /\ stop' \in [Children -> {"no", "term", "kill", "done"}]
         /\ outcome' \in {"open", "failed", "resolved", "rejected"}
         /\ ender' = "fatal" /\ current' = None
         /\ Placed' /\ (outcome' = "open" => spawned' > 0)
         /\ outcome # "open" => outcome' = outcome
         /\ outcome' # outcome => Quiet'
         /\ \A b \in Children : Live(b)' => stop'[b] = "term"
<1> USE DevAssumption DEF DevInv
<1>1. CASE c = None
  <2>1. /\ ender' = "fatal" /\ current' = None /\ stop' = stop
        /\ outcome' = IF outcome = "open" THEN "rejected" ELSE outcome
    BY <1>1 DEF FailFatal
  <2> QED BY <1>1, <2>1 DEF Quiet, Placed, Live, Shapes
<1>2. CASE c # None
  <2>1. /\ c = spawned /\ c \in Children /\ spawned > 0
        /\ ender' = "fatal" /\ current' = None /\ outcome' = outcome
        /\ stop' = [stop EXCEPT ![c] = IF proc[c] = "exited" THEN "done" ELSE "term"]
    BY <1>2 DEF FailFatal, BeginStop, Shapes, Children, None
  <2>2. stop' \in [Children -> {"no", "term", "kill", "done"}]
    BY <2>1 DEF Shapes
  <2>3. Placed'
    BY <2>1 DEF Placed, Shapes, Live
  <2>4. \A b \in Children : Live(b)' => stop'[b] = "term"
    BY <2>1 DEF Placed, Shapes, Live
  <2> QED BY <2>1, <2>2, <2>3, <2>4 DEF Shapes
<1> QED BY <1>1, <1>2

\* A restart that fails gives up, starts over or waits for the next change.
LEMMA FailsInv ==
  ASSUME DevInv, NEW fatal \in BOOLEAN, Fails(fatal), Quiet,
         loop \in {"check", "abandon", "quit"},
         UNCHANGED <<childVars, spawned, edits, ready, late, parent>>
  PROVE  DevInv'
<1> USE DevAssumption DEF DevInv
<1>0. /\ proc' = proc /\ news' = news /\ gone' = gone /\ spawned' = spawned
      /\ edits' = edits /\ ready' = ready /\ late' = late /\ parent' = parent
      /\ current = None /\ loop # "idle"
  BY DEF childVars, Shapes
<1>1. CASE first
  <2>1. /\ loop' = "idle" /\ first' = FALSE /\ pending' = pending /\ tried' = tried
        /\ outcome' = "failed" /\ ender' = ender /\ current' = current /\ stop' = stop
    BY <1>1 DEF Fails, Idle
  <2>2. Flags' BY <1>0, <2>1 DEF Flags
  <2>3. Shapes' BY <1>0, <2>1 DEF Shapes
  <2>4. Placed' BY <1>0, <2>1 DEF Placed, Live
  <2>5. Awaited' BY <1>0, <2>1 DEF Awaited, Quiet, Live
  <2>6. Over' BY <1>0, <2>1 DEF Over, Quiet, Live, Closed
  <2>7. EditsSeen' BY <1>0, <2>1 DEF EditsSeen
  <2> QED BY <2>2, <2>3, <2>4, <2>5, <2>6, <2>7
<1>2. CASE ~first /\ (fatal \/ ~ready)
  <2>1. /\ loop' = "idle" /\ first' = FALSE /\ pending' = pending /\ tried' = tried
        /\ IF Closed THEN UNCHANGED <<ender, outcome, stop, current>> ELSE FailFatal(None)
    BY <1>2 DEF Fails, Idle
  <2>2. Flags' BY <1>0, <2>1 DEF Flags
  <2>3. CASE Closed
    <3>1. ender' = ender /\ outcome' = outcome /\ stop' = stop /\ current' = current
      BY <2>1, <2>3
    <3>2. Shapes' BY <1>0, <2>1, <3>1 DEF Shapes
    <3>3. Placed' BY <1>0, <3>1 DEF Placed, Live
    <3>4. Awaited' BY <1>0, <2>1, <3>1 DEF Awaited, Quiet, Live
    <3>5. Over' BY <1>0, <2>1, <3>1 DEF Over, Quiet, Live, Closed
    <3>6. EditsSeen' BY <1>0, <2>1, <2>3, <3>1 DEF EditsSeen, Closed
    <3> QED BY <2>2, <3>2, <3>3, <3>4, <3>5, <3>6
  <2>4. CASE ~Closed
    <3>1. /\ ender' = "fatal" /\ current' = None /\ stop' = stop
          /\ outcome' = IF outcome = "open" THEN "rejected" ELSE outcome
      BY <2>1, <2>4 DEF FailFatal
    <3>2. Shapes' BY <1>0, <2>1, <3>1 DEF Shapes
    <3>3. Placed' BY <1>0, <3>1 DEF Placed, Live
    <3>4. Awaited' BY <1>0, <2>1, <3>1 DEF Awaited, Quiet, Live
    <3>5. Over' BY <1>0, <2>1, <3>1 DEF Over, Quiet, Live, Closed, Shapes
    <3>6. EditsSeen' BY <1>0, <2>1, <3>1 DEF EditsSeen, Closed
    <3> QED BY <2>2, <3>2, <3>3, <3>4, <3>5, <3>6
  <2> QED BY <2>3, <2>4
<1>3. CASE ~first /\ ~fatal /\ ready
  <2>1. ender' = ender /\ outcome' = outcome
    BY <1>3 DEF Fails
  <2>2. CASE pending /\ ~Closed
    <3>1. Attempt(None, edits) /\ first' = first
      BY <1>3, <2>2 DEF Fails
    <3>2. /\ loop' = "check" /\ stop' = stop /\ current' = None
          /\ tried' = edits /\ pending' = FALSE
      BY <3>1 DEF Attempt
    <3>3. Flags' BY <1>0, <3>1, <3>2 DEF Flags
    <3>4. Shapes' BY <1>0, <2>1, <3>2 DEF Shapes
    <3>5. Placed' BY <1>0, <3>2 DEF Placed, Live
    <3>6. Awaited' BY <1>0, <3>2 DEF Awaited, Quiet, Live
    <3>7. Over' BY <1>0, <2>1, <3>2 DEF Over, Quiet, Live, Closed
    <3>8. EditsSeen' BY <1>0, <3>2 DEF EditsSeen
    <3> QED BY <3>3, <3>4, <3>5, <3>6, <3>7, <3>8
  <2>3. CASE ~(pending /\ ~Closed)
    <3>1. /\ loop' = "idle" /\ first' = FALSE /\ pending' = pending /\ tried' = tried
          /\ current' = None /\ stop' = stop
      BY <1>3, <2>3 DEF Fails, Idle
    <3>3. Flags' BY <1>0, <3>1 DEF Flags
    <3>4. Shapes' BY <1>0, <2>1, <3>1 DEF Shapes
    <3>5. Placed' BY <1>0, <3>1 DEF Placed, Live
    <3>6. Awaited' BY <1>0, <3>1 DEF Awaited, Quiet, Live
    <3>7. Over' BY <1>0, <2>1, <3>1 DEF Over, Quiet, Live, Closed
    <3>8. EditsSeen' BY <1>0, <2>1, <2>3, <3>1 DEF EditsSeen, Closed
    <3> QED BY <3>3, <3>4, <3>5, <3>6, <3>7, <3>8
  <2> QED BY <2>2, <2>3
<1> QED BY <1>1, <1>2, <1>3 DEF Flags

\* A restart that succeeds ends, or makes room for the next one.
LEMMA SucceedsInv ==
  ASSUME DevInv, Succeeds(spawned), loop = "wait",
         UNCHANGED <<childVars, spawned, edits, late, parent>>
  PROVE  DevInv'
<1> USE DevAssumption DEF DevInv
<1>0. /\ proc' = proc /\ news' = news /\ gone' = gone /\ spawned' = spawned
      /\ edits' = edits /\ ready' = TRUE /\ late' = late /\ parent' = parent
      /\ current = None /\ spawned \in Children /\ spawned > 0
      /\ \A c \in Children : Live(c) => c = spawned
  BY DEF childVars, Shapes, Succeeds, Awaited, Placed, Children
<1>1. CASE pending /\ ~Closed
  <2>1. /\ Attempt(spawned, edits) /\ first' = first /\ ender' = ender /\ outcome' = outcome
    BY <1>1 DEF Succeeds
  <2>2. current' = None /\ tried' = edits /\ pending' = FALSE
    BY <2>1 DEF Attempt
  <2>9. spawned = None => Quiet
    BY <1>0 DEF None
  <2>3. /\ stop' \in [Children -> {"no", "term", "kill", "done"}]
        /\ loop' \in {"stop", "check"}
        /\ Placed' /\ (loop' = "stop" => spawned' > 0)
        /\ loop' = "check" => Quiet'
        /\ \A c \in Children : Live(c)' => stop'[c] = "term" /\ loop' = "stop"
    BY <1>0, <2>1, <2>9, AttemptStep
  <2>4. Flags' BY <1>0, <2>1, <2>2 DEF Flags
  <2>5. Shapes' BY <1>0, <2>1, <2>2, <2>3 DEF Shapes
  <2>6. Awaited' BY <2>3 DEF Awaited, Quiet
  <2>7. Over' BY <1>0, <2>1, <2>2 DEF Over, Closed, Live
  <2>8. EditsSeen' BY <1>0, <2>2, <2>3 DEF EditsSeen
  <2> QED BY <2>3, <2>4, <2>5, <2>6, <2>7, <2>8
<1>2. CASE ~(pending /\ ~Closed)
  <2>1. /\ loop' = "idle" /\ first' = FALSE /\ pending' = pending /\ tried' = tried
        /\ IF spawned \in gone /\ ~Closed
           THEN FailFatal(spawned)
           ELSE current' = spawned /\ UNCHANGED <<ender, outcome, stop>>
    BY <1>2 DEF Succeeds, Idle
  <2>2. Flags' BY <1>0, <2>1 DEF Flags
  <2>3. CASE spawned \in gone /\ ~Closed
    <3>1. FailFatal(spawned) /\ (spawned = None => Quiet)
      BY <1>0, <2>1, <2>3 DEF None
    <3>2. /\ stop' \in [Children -> {"no", "term", "kill", "done"}]
          /\ outcome' \in {"open", "failed", "resolved", "rejected"}
          /\ ender' = "fatal" /\ current' = None
          /\ Placed' /\ (outcome' = "open" => spawned' > 0)
          /\ outcome # "open" => outcome' = outcome
          /\ outcome' # outcome => Quiet'
          /\ \A b \in Children : Live(b)' => stop'[b] = "term"
      BY <1>0, <3>1, FailFatalStep
    <3>3. Shapes' BY <1>0, <2>1, <3>2 DEF Shapes
    <3>4. Awaited' BY <1>0, <2>1, <3>2 DEF Awaited, Closed
    <3>5. outcome' = outcome BY <1>0, <3>1 DEF FailFatal, None
    <3>6. Over' BY <1>0, <2>1, <3>2, <3>5 DEF Over, Closed, Live
    <3>7. EditsSeen' BY <1>0, <2>1, <3>2 DEF EditsSeen, Closed
    <3> QED BY <2>2, <3>2, <3>3, <3>4, <3>6, <3>7
  <2>4. CASE ~(spawned \in gone /\ ~Closed)
    <3>1. current' = spawned /\ ender' = ender /\ outcome' = outcome /\ stop' = stop
      BY <2>1, <2>4
    <3>2. Shapes' BY <1>0, <2>1, <3>1 DEF Shapes
    <3>3. Placed' BY <1>0, <3>1 DEF Placed, Live
    <3>4. Awaited' BY <1>0, <2>1, <3>1 DEF Awaited, Live, Closed
    <3>5. Over' BY <1>0, <2>1, <3>1 DEF Over, Live, Closed
    <3>6. EditsSeen' BY <1>0, <1>2, <2>1, <3>1 DEF EditsSeen, Closed
    <3> QED BY <2>2, <3>2, <3>3, <3>4, <3>5, <3>6
  <2> QED BY <2>3, <2>4
<1> QED BY <1>1, <1>2

LEMMA StoppedInv == ASSUME DevInv, Stopped PROVE DevInv'
<1> USE DevAssumption DEF DevInv
<1>1. /\ loop = "stop" /\ stop[spawned] = "done" /\ loop' = "check"
      /\ UNCHANGED <<proc, news, gone, stop, spawned, current, first, pending, edits, tried, ready>>
      /\ UNCHANGED <<ender, late, outcome, parent>>
  BY DEF Stopped, childVars, endVars
<1>2. Quiet
  BY <1>1 DEF Quiet, Placed, Shapes
<1>3. Flags' BY <1>1 DEF Flags
<1>4. Shapes' BY <1>1 DEF Shapes
<1>5. Placed' BY <1>1 DEF Placed, Live
<1>6. Awaited' BY <1>1, <1>2 DEF Awaited, Quiet, Live
<1>7. Over' BY <1>1, <1>2 DEF Over, Live, Closed
<1>8. EditsSeen' BY <1>1 DEF EditsSeen
<1> QED BY <1>3, <1>4, <1>5, <1>6, <1>7, <1>8

LEMMA CheckInv == ASSUME DevInv, Check PROVE DevInv'
<1> USE DevAssumption DEF DevInv
<1>0. Quiet
  BY DEF Check, Awaited, Quiet
<1>1. CASE /\ spawned < MaxSpawns
           /\ spawned' = spawned + 1 /\ proc' = [proc EXCEPT ![spawned + 1] = "starting"]
           /\ loop' = "wait"
           /\ UNCHANGED <<stop, current, first, pending, tried, ender, outcome>>
  <2>1. /\ loop = "check"
        /\ UNCHANGED <<news, gone, edits, ready, late, parent>>
    BY DEF Check
  <2>2. Flags' BY <1>1, <2>1 DEF Flags
  <2>3. Shapes' BY <1>1, <2>1 DEF Shapes, Children, None
  <2>4. Placed' BY <1>0, <1>1 DEF Placed, Live, Quiet, Shapes, Children
  <2>5. Awaited' BY <1>0, <1>1, <2>1, <2>4 DEF Awaited, Live, Quiet, Shapes, Children, Placed
  <2>6. Over' BY <1>0, <1>1, <2>1 DEF Over, Live, Closed, Quiet, Shapes
  <2>7. EditsSeen' BY <1>1, <2>1 DEF EditsSeen
  <2> QED BY <2>2, <2>3, <2>4, <2>5, <2>6, <2>7
<1>2. CASE UNCHANGED <<spawned, proc>> /\ \E fatal \in BOOLEAN : Fails(fatal)
  <2>1. PICK fatal \in BOOLEAN : Fails(fatal)
    BY <1>2
  <2>2. UNCHANGED <<childVars, spawned, edits, ready, late, parent>> /\ loop = "check"
    BY <1>2 DEF Check, childVars
  <2> QED BY <1>0, <2>1, <2>2, FailsInv
<1> QED BY <1>1, <1>2 DEF Check

LEMMA JudgeInv == ASSUME DevInv, Judge PROVE DevInv'
<1> USE DevAssumption DEF DevInv
<1>0. /\ loop = "wait" /\ UNCHANGED <<childVars, spawned, edits, late, parent>>
  BY DEF Judge
<1>1. CASE Succeeds(spawned)
  BY <1>0, <1>1, SucceedsInv
<1>2. CASE /\ BeginStop(spawned)
           /\ loop' = IF news[spawned] = "inuse" THEN "quit" ELSE "abandon"
           /\ UNCHANGED <<current, first, pending, tried, ready, ender, outcome>>
  <2>0. /\ proc' = proc /\ news' = news /\ gone' = gone /\ spawned' = spawned
        /\ edits' = edits /\ late' = late /\ parent' = parent
        /\ loop' \in {"quit", "abandon"}
        /\ spawned \in Children
        /\ stop' = [stop EXCEPT ![spawned] = IF proc[spawned] = "exited" THEN "done" ELSE "term"]
    BY <1>0, <1>2 DEF childVars, BeginStop, Awaited, Shapes, Children
  <2>1. Flags' BY <1>2, <2>0 DEF Flags
  <2>2. Shapes' BY <1>0, <1>2, <2>0 DEF Shapes
  <2>3. Placed' BY <2>0 DEF Placed, Live, Shapes, Children
  <2>4. Awaited' BY <1>0, <1>2, <2>0 DEF Awaited, Live, Placed, Shapes
  <2>5. Over' BY <1>0, <1>2, <2>0 DEF Over, Live, Closed
  <2>6. EditsSeen' BY <1>2, <2>0 DEF EditsSeen
  <2> QED BY <2>1, <2>2, <2>3, <2>4, <2>5, <2>6
<1> QED BY <1>1, <1>2 DEF Judge

LEMMA AbandonedInv == ASSUME DevInv, Abandoned PROVE DevInv'
<1> USE DEF DevInv
<1>1. /\ loop \in {"abandon", "quit"} /\ stop[spawned] = "done" /\ Fails(loop = "quit")
      /\ UNCHANGED <<childVars, spawned, edits, ready, late, parent>>
  BY DEF Abandoned
<1>2. Quiet
  BY <1>1 DEF Quiet, Placed, Shapes
<1>3. (loop = "quit") \in BOOLEAN
  OBVIOUS
<1> QED BY <1>1, <1>2, <1>3, FailsInv

-----------------------------------------------------------------------------
(* Edits, and the end of the session. *)

LEMMA EditInv == ASSUME DevInv, Edit PROVE DevInv'
<1> USE DevAssumption DEF DevInv
<1>0. /\ proc' = proc /\ news' = news /\ gone' = gone /\ spawned' = spawned
      /\ first' = first /\ ready' = ready
      /\ ender' = ender /\ outcome' = outcome /\ parent' = parent
      /\ ~Closed /\ edits < MaxEdits /\ edits' = edits + 1
  BY DEF Edit, childVars
<1>1. CASE loop = "idle"
  <2>1. Attempt(current, edits + 1) /\ late' = (late \/ outcome = "failed")
    BY <1>1 DEF Edit
  <2>2. current' = None /\ tried' = edits + 1 /\ pending' = FALSE
    BY <2>1 DEF Attempt
  <2>3. current = None => Quiet
    BY <1>0, <1>1 DEF Quiet, Awaited, Shapes, None, Children
  <2>4. current \in {None, spawned} /\ UNCHANGED <<proc, spawned>>
    BY <1>0 DEF Shapes
  <2>5. /\ stop' \in [Children -> {"no", "term", "kill", "done"}]
        /\ loop' \in {"stop", "check"}
        /\ Placed' /\ (loop' = "stop" => spawned' > 0)
        /\ loop' = "check" => Quiet'
        /\ \A c \in Children : Live(c)' => stop'[c] = "term" /\ loop' = "stop"
    BY <2>1, <2>3, <2>4, AttemptStep
  <2>6. Flags' BY <1>0, <2>1, <2>2 DEF Flags
  <2>7. Shapes' BY <1>0, <2>2, <2>5 DEF Shapes
  <2>8. Awaited' BY <2>5 DEF Awaited, Quiet
  <2>9. outcome # "open" => late'
    BY <1>0, <2>1 DEF Over, Shapes
  <2>10. Over' BY <1>0, <2>9 DEF Over, Closed
  <2>11. EditsSeen' BY <1>0, <2>2, <2>5 DEF EditsSeen
  <2> QED BY <2>5, <2>6, <2>7, <2>8, <2>10, <2>11
<1>2. CASE loop # "idle"
  <2>1. pending' = TRUE /\ UNCHANGED <<tried, current, loop, stop, late>>
    BY <1>2 DEF Edit
  <2>2. Flags' BY <1>0, <2>1 DEF Flags
  <2>3. Shapes' BY <1>0, <2>1 DEF Shapes
  <2>4. Placed' BY <1>0, <2>1 DEF Placed, Live
  <2>5. Awaited' BY <1>0, <2>1 DEF Awaited, Live, Closed
  <2>6. Over' BY <1>0, <2>1 DEF Over, Live, Closed
  <2>7. EditsSeen' BY <1>2, <2>1 DEF EditsSeen
  <2> QED BY <2>2, <2>3, <2>4, <2>5, <2>6, <2>7
<1> QED BY <1>1, <1>2

LEMMA CloseInv == ASSUME DevInv, Close PROVE DevInv'
<1> USE DevAssumption DEF DevInv
<1>0. /\ proc' = proc /\ news' = news /\ gone' = gone /\ spawned' = spawned
      /\ loop' = loop /\ first' = first /\ pending' = pending
      /\ edits' = edits /\ tried' = tried /\ ready' = ready /\ parent' = parent
      /\ parent = "up" /\ ~Closed /\ outcome = "open"
      /\ ender' = "close" /\ late' = (loop # "idle") /\ current' = None
  BY DEF Close, childVars
<1>1. Flags' BY <1>0 DEF Flags
<1>2. CASE current = None
  <2>1. outcome' = "resolved" /\ stop' = stop
    BY <1>2 DEF Close
  <2>2. Shapes' BY <1>0, <2>1 DEF Shapes
  <2>3. Placed' BY <1>0, <2>1 DEF Placed, Live
  <2>4. Awaited' BY <1>0, <1>2, <2>1 DEF Awaited, Live, Closed
  <2>5. loop = "idle" => Quiet
    BY <1>0, <1>2 DEF Awaited, Quiet, None, Children
  <2>6. Over' BY <1>0, <2>1, <2>5 DEF Over, Live, Closed, Quiet
  <2>7. EditsSeen' BY <1>0, <2>1 DEF EditsSeen, Closed
  <2> QED BY <1>1, <2>2, <2>3, <2>4, <2>6, <2>7
<1>3. CASE current # None
  <2>1. /\ outcome' = outcome /\ current = spawned /\ spawned \in Children /\ loop = "idle"
        /\ stop' = [stop EXCEPT ![spawned] = IF proc[spawned] = "exited" THEN "done" ELSE "term"]
    BY <1>3 DEF Close, BeginStop, Shapes, Children, None
  <2>2. Shapes' BY <1>0, <2>1 DEF Shapes
  <2>3. Placed' BY <1>0, <2>1 DEF Placed, Live, Shapes
  <2>4. Awaited' BY <1>0, <2>1 DEF Awaited, Live, Closed, Placed, Shapes
  <2>5. Over' BY <1>0, <2>1 DEF Over, Live, Closed, Children
  <2>6. EditsSeen' BY <1>0, <2>1 DEF EditsSeen, Closed
  <2> QED BY <1>1, <2>2, <2>3, <2>4, <2>5, <2>6
<1> QED BY <1>2, <1>3

LEMMA EndedInv == ASSUME DevInv, Ended PROVE DevInv'
<1> USE DevAssumption DEF DevInv
<1>1. /\ Closed /\ outcome = "open" /\ stop[spawned] = "done"
      /\ outcome' \in {"resolved", "rejected"}
      /\ UNCHANGED <<proc, news, gone, stop, spawned, current, loop, first, pending, edits, tried, ready>>
      /\ UNCHANGED <<ender, late, parent>>
  BY DEF Ended, childVars
<1>2. Quiet
  BY <1>1 DEF Quiet, Placed, Shapes
<1>3. Flags' BY <1>1 DEF Flags
<1>4. Shapes' BY <1>1 DEF Shapes
<1>5. Placed' BY <1>1 DEF Placed, Live
<1>6. Awaited' BY <1>1, <1>2 DEF Awaited, Quiet, Live
<1>7. Over' BY <1>1, <1>2 DEF Over, Live, Closed, Quiet
<1>8. EditsSeen' BY <1>1 DEF EditsSeen, Closed
<1> QED BY <1>3, <1>4, <1>5, <1>6, <1>7, <1>8

LEMMA ExitsInv == ASSUME DevInv, NEW c \in Children, Exits(c) PROVE DevInv'
<1> USE DevAssumption DEF DevInv
<1>0. /\ proc' = proc /\ spawned' = spawned
      /\ loop' = loop /\ first' = first /\ pending' = pending
      /\ edits' = edits /\ tried' = tried /\ ready' = ready
      /\ late' = late /\ parent' = parent
      /\ gone' = gone \cup {c} /\ ~Live(c) /\ proc[c] # "none"
      /\ news' = [news EXCEPT ![c] = IF @ = "none" THEN "failed" ELSE @]
  BY DEF Exits, Live
<1>1. Flags' BY <1>0 DEF Flags
<1>2. CASE current = c /\ ~Closed
  <2>1. /\ ender' = "fatal" /\ current' = None /\ outcome' = outcome
        /\ c = spawned /\ loop = "idle" /\ c # None
        /\ stop' = [stop EXCEPT ![c] = IF proc[c] = "exited" THEN "done" ELSE "term"]
    BY <1>2 DEF Exits, FailFatal, BeginStop, Shapes, Children, None
  <2>2. Shapes' BY <1>0, <2>1 DEF Shapes
  <2>3. Placed' BY <1>0, <2>1 DEF Placed, Live, Shapes
  <2>4. Awaited' BY <1>0, <2>1 DEF Awaited, Live, Placed
  <2>5. outcome # "open" => late
    BY <1>2, <2>1 DEF Over
  <2>6. Over' BY <1>0, <2>1, <2>5 DEF Over, Live, Closed, Children
  <2>7. EditsSeen' BY <1>0, <2>1 DEF EditsSeen, Closed
  <2> QED BY <1>1, <2>2, <2>3, <2>4, <2>6, <2>7
<1>3. CASE ~(current = c /\ ~Closed)
  <2>1. /\ stop' = [stop EXCEPT ![c] = IF @ \in {"term", "kill"} THEN "done" ELSE @]
        /\ current' = current /\ ender' = ender /\ outcome' = outcome
    BY <1>3 DEF Exits
  <2>2. Shapes' BY <1>0, <2>1 DEF Shapes
  <2>3. Placed' BY <1>0, <2>1 DEF Placed, Live, Shapes
  <2>4. Awaited' BY <1>0, <2>1 DEF Awaited, Live, Closed
  <2>5. Over' BY <1>0, <2>1 DEF Over, Live, Closed
  <2>6. EditsSeen' BY <1>0, <2>1 DEF EditsSeen, Closed
  <2> QED BY <1>1, <2>2, <2>3, <2>4, <2>5, <2>6
<1> QED BY <1>2, <1>3

\* The end of the parent, and steps that change nothing.
LEMMA ParentStepInv ==
  ASSUME DevInv, ParentExits \/ ParentKilled \/ UNCHANGED vars
  PROVE  DevInv'
<1> USE DEF DevInv
<1>1. /\ UNCHANGED <<proc, news, gone, stop, spawned, current, loop, first, pending, edits, tried, ready>>
      /\ UNCHANGED <<ender, late, outcome>>
      /\ parent' \in {parent, "killed"} \/ (parent' = "exited" /\ outcome # "open")
  BY DEF ParentExits, ParentKilled, vars, childVars, endVars
<1>2. Flags' BY <1>1 DEF Flags
<1>3. Shapes' BY <1>1 DEF Shapes
<1>4. Placed' BY <1>1 DEF Placed, Live
<1>5. Awaited' BY <1>1 DEF Awaited, Live, Closed
<1>6. Over' BY <1>1 DEF Over, Live, Closed
<1>7. EditsSeen' BY <1>1 DEF EditsSeen, Closed
<1> QED BY <1>2, <1>3, <1>4, <1>5, <1>6, <1>7

LEMMA DevStepInv == DevInv /\ [Next]_vars => DevInv'
<1> SUFFICES ASSUME DevInv, [Next]_vars PROVE DevInv'
  OBVIOUS
<1>1. CASE \E c \in Children : Boot(c) \/ Terminate(c) \/ Dies(c) \/ Deadline(c)
  BY <1>1, ChildStepInv
<1>2. CASE \E c \in Children : Exits(c)
  BY <1>2, ExitsInv
<1>3. CASE Stopped \/ Check \/ Judge \/ Abandoned
  BY <1>3, StoppedInv, CheckInv, JudgeInv, AbandonedInv
<1>4. CASE Edit \/ Close \/ Ended
  BY <1>4, EditInv, CloseInv, EndedInv
<1>5. CASE ParentExits \/ ParentKilled \/ UNCHANGED vars
  BY <1>5, ParentStepInv
<1> QED BY <1>1, <1>2, <1>3, <1>4, <1>5 DEF Next

LEMMA DevInvariant == Spec => []DevInv
  BY DevInitInv, DevStepInv, PTL DEF Spec

-----------------------------------------------------------------------------

\* Type correctness, for any number of spawns and edits.
THEOREM DevTypeOK == Spec => []TypeOK
<1>1. Flags => {first, pending, ready, late} \subseteq BOOLEAN
  BY DEF Flags
<1>2. DevInv => TypeOK
  BY <1>1 DEF DevInv, Shapes, TypeOK
<1> QED BY DevInvariant, <1>2, PTL

(* One runtime at a time, each of them somebody's charge, and none left when   *)
(* the session's process ends with no restart in flight (startOrRestart,      *)
(* failFatal and close over SpawnedDevChild.stop).                            *)
THEOREM DevChildren == Spec => []ChildrenAreAccountedFor
<1>1. DevInv => ChildrenAreAccountedFor
  BY DEF DevInv, Placed, Awaited, Over, ChildrenAreAccountedFor
<1> QED BY DevInvariant, <1>1, PTL

\* No change is lost to a restart in flight (requestRestart's pendingRestart).
THEOREM DevEdits == Spec => []NoEditIsForgotten
<1>1. DevInv => NoEditIsForgotten
  BY DEF DevInv, EditsSeen, NoEditIsForgotten
<1> QED BY DevInvariant, <1>1, PTL
=============================================================================
