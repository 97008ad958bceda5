-------------------------- MODULE ClientToolCalls --------------------------
(* Client tool calls on one thread of one server process.  The model calls   *)
(* a tool that the client runs: the call is recorded in the store, parked in *)
(* the checkpoint, and the turn ends; a later request brings the result in a *)
(* tool message, or abandons the call.  Requests are served concurrently;    *)
(* they are ordered by the thread's resume claim, taken around a decision,   *)
(* and its run slot, taken around a turn.                                    *)
EXTENDS Naturals, FiniteSets

CONSTANTS ClientCalls,   \* calls of tools the client runs
          GatedCalls,    \* calls of server tools, which may ask for approval
          Requests, None,
          MaxCrashes

Calls == ClientCalls \cup GatedCalls

ASSUME CallsAssumption == /\ ClientCalls \cap GatedCalls = {}
                          /\ None \notin Requests \cup {"abandoned", "other"}
                          /\ {"abandoned", "other"} \cap Requests = {}
                          /\ MaxCrashes \in Nat

VARIABLES row,      \* the record of each client call, in the store
          answers,  \* its stored result, named by the run whose call it answers
          asked,    \* the calls of the latest assistant message
          asker,    \* the run that made each call last
          reply,    \* the tool message of each of those calls
          parks,    \* the interrupts pending in the checkpoint
          task,     \* the graph tasks of the turn that holds the slot
          slot,     \* the request that holds the thread's run slot
          claim,    \* the request that holds the thread's resume claim
          pc, req,  \* where each request stands, and what it knows
          crashes

store == <<row, answers>>
checkpoint == <<asked, asker, reply, parks>>
vars == <<store, checkpoint, task, slot, claim, pc, req, crashes>>

RowStates == {"none", "open", "late", "answered", "voided"}
Open == {"open", "late"}  \* late: past its expiry, which changes no record
Plans == {"none", "approve", "unanswerable", "expired", "message", "match", "resume", "abandon"}
Abandons == {"unanswerable", "expired", "message"}
Results == Requests \cup {"abandoned"}
Phases == {"new", "read", "answer", "begin", "close", "void",
           "model", "tools", "stopping", "settle", "release", "done"}
(* A request that has not reached its turn. *)
Deciding == {"read", "answer", "begin", "close", "void"}
InTurn == {"close", "void", "model", "tools", "stopping", "settle", "release"}
Live == Phases \ {"new", "done"}

Client(S) == S \cap ClientCalls
Approvals(S) == S \cap GatedCalls

(* last: who the history's last message is from; here: the request runs the   *)
(* route that issued the calls, and it takes client tools; sends: the results *)
(* in its history; approves: it answers the pending approvals; seen: the      *)
(* parks it read; todo: the results still to store; saw: its turn parked.     *)
Blank == [last |-> "user", here |-> TRUE, sends |-> <<>>, approves |-> FALSE,
          seen |-> {}, todo |-> {}, plan |-> "none", given |-> <<>>, saw |-> FALSE]

PartialMaps(S, T) == UNION {[D -> T] : D \in SUBSET S}

Reqs == [last : {"user", "tool"}, here : BOOLEAN, sends : PartialMaps(ClientCalls, Requests),
         approves : BOOLEAN, seen : SUBSET Calls, todo : SUBSET ClientCalls, plan : Plans,
         given : PartialMaps(ClientCalls, Results), saw : BOOLEAN]

Init == /\ row = [c \in ClientCalls |-> "none"]
        /\ answers = [c \in ClientCalls |-> None]
        /\ asked = {}
        /\ asker = [c \in Calls |-> None]
        /\ reply = [c \in Calls |-> None]
        /\ parks = {}
        /\ task = [c \in Calls |-> "idle"]
        /\ slot = None
        /\ claim = None
        /\ pc = [q \in Requests |-> "new"]
        /\ req = [q \in Requests |-> Blank]
        /\ crashes = 0

-----------------------------------------------------------------------------
(* Requests up to the run slot. *)

Goto(q, phase) == pc' = [pc EXCEPT ![q] = phase]

(* Mutant: the claim is released only by a request that ran a turn. *)
LeaveKeepsClaim(q) == /\ Goto(q, "done")
                      /\ req' = [req EXCEPT ![q] = Blank]
                      /\ claim' = IF claim = q /\ slot = q THEN None ELSE claim
                      /\ slot' = IF slot = q THEN None ELSE slot

(* A refusal, a no-op answer or an error: the finally frees what q holds. *)
Leave(q) == /\ Goto(q, "done")
            /\ req' = [req EXCEPT ![q] = Blank]
            /\ claim' = IF claim = q THEN None ELSE claim
            /\ slot' = IF slot = q THEN None ELSE slot

Refuse(q) == Leave(q) /\ UNCHANGED <<store, checkpoint, task, crashes>>

(* No client call is parked.  A trailing tool message then answers nothing;   *)
(* approvals must match the pending prompts exactly.                          *)
NoClientPark(q, e) ==
  IF \/ e.here /\ e.last = "tool" /\ ~e.approves /\ Approvals(parks) = {}
     \/ e.approves # (Approvals(parks) # {})
  THEN Leave(q)
  ELSE /\ req' = [req EXCEPT ![q] = [Blank EXCEPT
                    !.seen = parks, !.plan = IF e.approves THEN "approve" ELSE "none"]]
       /\ Goto(q, "begin")
       /\ UNCHANGED <<slot, claim>>

(* A request arrives with the history its client holds, and peeks at the     *)
(* parks.  One that resumes, or meets a client park, claims the thread and    *)
(* reads them again; a second one is refused.                                 *)
Arrive(q) ==
  /\ pc[q] = "new"
  /\ \E last \in {"user", "tool"}, here \in BOOLEAN, approves \in BOOLEAN,
        results \in SUBSET {c \in ClientCalls : asker[c] # None} :
       LET e == [Blank EXCEPT !.last = last, !.here = here, !.approves = approves,
                              !.sends = [c \in results |-> asker[c]]]
       IN /\ approves => GatedCalls # {}
          /\ IF last = "tool" \/ approves \/ Client(parks) # {}
             THEN \/ /\ claim = None
                     /\ claim' = q
                     /\ Goto(q, "read")
                     /\ req' = [req EXCEPT ![q] = e]
                     /\ UNCHANGED slot
                  \/ claim # None /\ Leave(q)
             ELSE NoClientPark(q, e)
  /\ UNCHANGED <<store, checkpoint, task, crashes>>

(* What the records say of the parked calls, before this request's results.   *)
Fate(last, S) ==
  CASE \E c \in Client(S) : row[c] \in {"none", "voided"} -> "unanswerable"
    [] \A c \in Client(S) : row[c] \in Open \cup {"answered"} ->
         IF \E c \in Client(S) : row[c] = "late" THEN "expired"
         ELSE IF last = "user" THEN "message" ELSE "match"

(* Client calls are parked: a route that did not issue them may only abandon  *)
(* them, by a new user message; the results of the history are not for it.    *)
Match(q, e) ==
  IF ~e.here /\ (e.last # "user" \/ Approvals(parks) # {})
  THEN Leave(q)
  ELSE LET todo == {c \in Client(parks) : /\ e.here /\ c \in DOMAIN e.sends
                                          /\ row[c] = "open"}
       IN /\ req' = [req EXCEPT ![q] = [Blank EXCEPT
                       !.approves = e.approves, !.seen = parks, !.plan = Fate(e.last, parks),
                       !.todo = todo, !.sends = [c \in todo |-> e.sends[c]]]]
          /\ Goto(q, "answer")
          /\ UNCHANGED <<slot, claim>>

Read(q) == /\ pc[q] = "read"
           /\ IF Client(parks) = {} THEN NoClientPark(q, req[q]) ELSE Match(q, req[q])
           /\ UNCHANGED <<store, checkpoint, task, crashes>>

(* The results are stored one by one, each at most once. *)
Answer(q) ==
  /\ pc[q] = "answer"
  /\ \E c \in req[q].todo :
       /\ IF row[c] \in Open
          THEN /\ row' = [row EXCEPT ![c] = "answered"]
               /\ answers' = [answers EXCEPT ![c] = req[q].sends[c]]
          ELSE UNCHANGED <<row, answers>>
       /\ req' = [req EXCEPT ![q].todo = @ \ {c}]
  /\ UNCHANGED <<checkpoint, task, slot, claim, pc, crashes>>

(* The decision, over the records as they are now. *)
Decide(q) ==
  LET e == req[q]
      parked == Client(e.seen)
      matched == \A c \in parked : row[c] = "answered"
      abandon == e.plan \in Abandons
  IN /\ pc[q] = "answer" /\ e.todo = {}
     /\ IF \/ abandon /\ Approvals(e.seen) # {}
           \/ ~abandon /\ ~matched
           \/ e.approves # (~abandon /\ Approvals(e.seen) # {})
        THEN Refuse(q)
        ELSE /\ req' = [req EXCEPT
                  ![q].plan = IF abandon THEN "abandon" ELSE "resume",
                  ![q].sends = <<>>,
                  ![q].given = [c \in parked |-> IF row[c] = "answered" THEN answers[c]
                                                                        ELSE "abandoned"]]
             /\ Goto(q, "begin")
             /\ UNCHANGED <<store, checkpoint, task, slot, claim, crashes>>

(* A store or checkpointer failure before the turn. *)
Fail(q) == pc[q] \in Deciding /\ Refuse(q)

-----------------------------------------------------------------------------
(* The run slot, the close of abandoned calls, and the start of the turn. *)

Unresolved == {c \in asked : reply[c] = None}
Idle == [c \in Calls |-> "idle"]

(* The turn starts: a new message or a continuation calls the model; a resume *)
(* runs again the tasks of the parked step that have no result.               *)
StartOver(q) == /\ asked' = {}
                /\ parks' = {}
                /\ Goto(q, "model")
                /\ UNCHANGED <<asker, reply, task>>

Reenter(q) == /\ task' = [c \in Calls |-> IF c \in Unresolved THEN "running" ELSE "idle"]
              /\ Goto(q, "tools")
              /\ UNCHANGED checkpoint

(* Mutant: the parks are not read again under the slot. *)
BeginUnchecked(q) ==
  /\ pc[q] = "begin"
  /\ IF slot # None
     THEN Refuse(q)
     ELSE /\ slot' = q
          /\ CASE req[q].plan = "none" -> StartOver(q)
               [] req[q].plan \in {"approve", "resume"} -> Reenter(q)
               [] OTHER -> Goto(q, "close") /\ UNCHANGED <<checkpoint, task>>
          /\ UNCHANGED <<store, claim, req, crashes>>

(* A request that saw no client park looks again once it holds the slot. *)
Begin(q) ==
  /\ pc[q] = "begin"
  /\ IF slot # None \/ (Client(req[q].seen) = {} /\ Client(parks) # {})
     THEN Refuse(q)
     ELSE /\ slot' = q
          /\ CASE req[q].plan = "none" -> StartOver(q)
               [] req[q].plan \in {"approve", "resume"} -> Reenter(q)
               [] OTHER -> Goto(q, "close") /\ UNCHANGED <<checkpoint, task>>
          /\ UNCHANGED <<store, claim, req, crashes>>

(* Closing writes a tool message for every unresolved call, as if the tools   *)
(* had run.  It is refused unless the calls to close are exactly those and no *)
(* approval is pending.                                                       *)
Close(q) ==
  LET given == req[q].given IN
  /\ pc[q] = "close"
  /\ IF Approvals(parks) # {} \/ Client(parks) = {} \/ DOMAIN given # Unresolved
     THEN Refuse(q)
     ELSE /\ reply' = [c \in Calls |-> IF c \in Unresolved THEN given[c] ELSE reply[c]]
          /\ parks' = {}
          /\ Goto(q, "void")
          /\ UNCHANGED <<store, asked, asker, task, slot, claim, req, crashes>>

(* Mutant: the bulk update does not look at the records' status. *)
VoidEveryStatus(S) == row' = [c \in ClientCalls |-> IF c \in S /\ row[c] # "none" THEN "voided"
                                                                                  ELSE row[c]]

(* The records of the calls closed without a result are voided; a failure to  *)
(* do so is only logged.                                                      *)
VoidAll(S) == row' = [c \in ClientCalls |-> IF c \in S /\ row[c] \in Open THEN "voided"
                                                                         ELSE row[c]]
VoidAbandoned(q) ==
  /\ pc[q] = "void"
  /\ \/ VoidAll({c \in DOMAIN req[q].given : req[q].given[c] = "abandoned"})
     \/ UNCHANGED row
  /\ StartOver(q)
  /\ UNCHANGED <<answers, slot, claim, req, crashes>>

-----------------------------------------------------------------------------
(* The turn. *)

(* The model calls tools (once in a turn, in this model), or ends the turn.   *)
ModelAsks(q) ==
  /\ pc[q] = "model"
  /\ \A c \in Calls : asker[c] # q
  /\ \E S \in SUBSET Calls \ {{}} :
       /\ asked' = S
       /\ asker' = [c \in Calls |-> IF c \in S THEN q ELSE asker[c]]
       /\ task' = [c \in Calls |-> IF c \in S THEN "running" ELSE "idle"]
  /\ reply' = [c \in Calls |-> None]
  /\ parks' = {}
  /\ Goto(q, "tools")
  /\ UNCHANGED <<store, slot, claim, req, crashes>>

ModelEnds(q) ==
  /\ pc[q] = "model"
  /\ Goto(q, "settle")
  /\ UNCHANGED <<store, checkpoint, task, slot, claim, req, crashes>>

Executing(q, c) == pc[q] \in {"tools", "stopping"} /\ task[c] # "idle"

(* This turn resumes the parked call with a value. *)
Resumed(q, c) == req[q].plan \in {"approve", "resume"} /\ c \in req[q].seen /\ asker[c] # q

(* A task ends with a tool message; a failure in a stopping turn leaves none. *)
Reply(q, c, value) == /\ reply' = [reply EXCEPT ![c] = value]
                      /\ task' = [task EXCEPT ![c] = "idle"]

(* The stub of a client call: a replay finds its record; a new call is        *)
(* recorded, unless it is denied or its id has a record it does not own.      *)
Replays(q, c) == \/ row[c] \in Open
                 \/ row[c] = "answered" /\ req[q].plan = "resume" /\ c \in req[q].seen

Stub(q, c) ==
  /\ Executing(q, c) /\ task[c] = "running"
  /\ IF Replays(q, c)
     THEN /\ task' = [task EXCEPT ![c] = "recorded"]
          /\ UNCHANGED <<row, reply>>
     ELSE \/ /\ row[c] = "none"
             /\ row' = [row EXCEPT ![c] = "open"]
             /\ task' = [task EXCEPT ![c] = "recorded"]
             /\ UNCHANGED reply
          \/ /\ row[c] # "none" => pc[q] = "tools"
             /\ Reply(q, c, "other")
             /\ UNCHANGED row
  /\ UNCHANGED <<answers, asked, asker, parks, slot, claim, pc, req, crashes>>

(* The interrupt: it parks the task, or returns the result it is resumed with. *)
Interrupt(q, c) ==
  /\ Executing(q, c) /\ task[c] = "recorded"
  /\ IF Resumed(q, c)
     THEN Reply(q, c, req[q].given[c]) /\ UNCHANGED parks
     ELSE /\ parks' = parks \cup {c}
          /\ task' = [task EXCEPT ![c] = "idle"]
          /\ UNCHANGED reply
  /\ UNCHANGED <<store, asked, asker, slot, claim, pc, req, crashes>>

(* A server tool runs to its result, or parks to ask for approval. *)
ServerTool(q, c) ==
  /\ Executing(q, c)
  /\ \/ Reply(q, c, "other") /\ UNCHANGED parks
     \/ /\ ~Resumed(q, c)
        /\ parks' = parks \cup {c}
        /\ task' = [task EXCEPT ![c] = "idle"]
        /\ UNCHANGED reply
  /\ UNCHANGED <<store, asked, asker, slot, claim, pc, req, crashes>>

(* The step is over: the model goes on if every call has its message, or the  *)
(* turn ends parked.                                                          *)
StepEnds(q) ==
  /\ pc[q] = "tools" /\ task = Idle
  /\ IF Unresolved = {}
     THEN parks' = {} /\ Goto(q, "model") /\ UNCHANGED req
     ELSE UNCHANGED parks /\ Goto(q, "settle") /\ req' = [req EXCEPT ![q].saw = TRUE]
  /\ UNCHANGED <<store, asked, asker, reply, task, slot, claim, crashes>>

(* A cancel, a shutdown or a disconnect aborts the turn; its tasks die or     *)
(* still land what they had begun.  The stream may have seen a park.          *)
Abort(q) ==
  /\ pc[q] \in {"model", "tools"}
  /\ \E saw \in BOOLEAN : /\ saw => parks # {}
                          /\ req' = [req EXCEPT ![q].saw = saw]
  /\ Goto(q, "stopping")
  /\ UNCHANGED <<store, checkpoint, task, slot, claim, crashes>>

Die(q, c) == /\ pc[q] = "stopping" /\ task[c] # "idle"
             /\ task' = [task EXCEPT ![c] = "idle"]
             /\ UNCHANGED <<store, checkpoint, slot, claim, pc, req, crashes>>

Unwound(q) == /\ pc[q] = "stopping" /\ task = Idle
              /\ Goto(q, "settle")
              /\ UNCHANGED <<store, checkpoint, task, slot, claim, req, crashes>>

(* Mutant: the settle does not look at what is still parked. *)
SettleAll(q) ==
  /\ pc[q] = "settle"
  /\ \/ ~req[q].saw /\ VoidAll(ClientCalls)
     \/ UNCHANGED row
  /\ Goto(q, "release")
  /\ UNCHANGED <<answers, checkpoint, task, slot, claim, req, crashes>>

(* A turn that did not park leaves no call waiting: open records are voided,  *)
(* but for those whose park is pending.  Only then are slot and claim freed.  *)
Settle(q) ==
  /\ pc[q] = "settle"
  /\ \/ ~req[q].saw /\ VoidAll(ClientCalls \ parks)
     \/ UNCHANGED row
  /\ Goto(q, "release")
  /\ UNCHANGED <<answers, checkpoint, task, slot, claim, req, crashes>>

Release(q) == pc[q] = "release" /\ Refuse(q)

-----------------------------------------------------------------------------
(* Time, and crashes. *)

Expire(c) == /\ row[c] = "open"
             /\ row' = [row EXCEPT ![c] = "late"]
             /\ UNCHANGED <<answers, checkpoint, task, slot, claim, pc, req, crashes>>

(* The sweep deletes records long closed or expired; no request is so slow    *)
(* that it still decides on one.                                              *)
Prune(c) == /\ row[c] \in {"late", "answered", "voided"}
            /\ \A q \in Requests : pc[q] \notin Deciding
            /\ row' = [row EXCEPT ![c] = "none"]
            /\ answers' = [answers EXCEPT ![c] = None]
            /\ UNCHANGED <<checkpoint, task, slot, claim, pc, req, crashes>>

Crash == /\ crashes < MaxCrashes
         /\ crashes' = crashes + 1
         /\ pc' = [q \in Requests |-> IF pc[q] \in Live THEN "done" ELSE pc[q]]
         /\ req' = [q \in Requests |-> Blank]
         /\ task' = Idle
         /\ slot' = None
         /\ claim' = None
         /\ UNCHANGED <<store, checkpoint>>

-----------------------------------------------------------------------------

Next == \/ \E q \in Requests :
             \/ Arrive(q) \/ Read(q) \/ Answer(q) \/ Decide(q) \/ Fail(q)
             \/ Begin(q) \/ Close(q) \/ VoidAbandoned(q)
             \/ ModelAsks(q) \/ ModelEnds(q) \/ StepEnds(q)
             \/ \E c \in ClientCalls : Stub(q, c) \/ Interrupt(q, c)
             \/ \E c \in GatedCalls : ServerTool(q, c)
             \/ \E c \in Calls : Die(q, c)
             \/ Abort(q) \/ Unwound(q) \/ Settle(q) \/ Release(q)
        \/ \E c \in ClientCalls : Expire(c) \/ Prune(c)
        \/ Crash

Spec == Init /\ [][Next]_vars

-----------------------------------------------------------------------------

(* One turn at a time, and no hold outlives its request: whoever is past the  *)
(* run slot holds it, and a slot or a resume claim left behind by a refusal,  *)
(* an error or a turn's end would refuse every later request of the thread.   *)
HoldsAreTheirRequests ==
  \A q \in Requests : /\ slot = q <=> pc[q] \in InTurn
                      /\ claim = q => pc[q] \in Live

(* Types and holds; parks belong to calls of the latest assistant message,    *)
(* and only client calls are recorded before they interrupt.                  *)
TypeOK == /\ row \in [ClientCalls -> RowStates]
          /\ answers \in [ClientCalls -> Requests \cup {None}]
          /\ \A c \in ClientCalls : answers[c] # None <=> row[c] = "answered"
          /\ asked \subseteq Calls
          /\ asker \in [Calls -> Requests \cup {None}]
          /\ reply \in [Calls -> Results \cup {None, "other"}]
          /\ parks \subseteq asked
          /\ task \in [Calls -> {"idle", "running", "recorded"}]
          /\ \A c \in GatedCalls : task[c] # "recorded"
          /\ slot \in Requests \cup {None}
          /\ claim \in Requests \cup {None}
          /\ pc \in [Requests -> Phases]
          /\ req \in [Requests -> Reqs]
          /\ crashes \in 0..MaxCrashes
          /\ HoldsAreTheirRequests

(* A client call that is still parked is never voided: not by the turn that   *)
(* settles after a cancel, nor by one that abandons the calls of another.     *)
(* (A voided record can only be answered with an abandon.)                    *)
LiveParksAreAnswerable == \A c \in Client(parks) : row[c] # "voided"

(* A park of a client call is taken down only by a step that has a tool       *)
(* message for the call: no request starts over, or ends a step, on top of a  *)
(* call that waits for its client (the history would have a call without a    *)
(* result, which model providers refuse).                                     *)
ParksEndAnswered == [][\A c \in Client(parks) : c \notin parks' => reply'[c] # None]_vars

(* A record is answered or voided once, whatever requests, settles and        *)
(* replays do meanwhile (only the sweep takes a closed record away), and a    *)
(* result that is stored is what the model gets to see: no request closes a   *)
(* call as abandoned after another request stored its result.                 *)
ResultsAreFinal ==
  [][\A c \in ClientCalls :
       /\ row[c] \in {"answered", "voided"} =>
            \/ row'[c] = row[c] /\ answers'[c] = answers[c]
            \/ row'[c] = "none" /\ answers'[c] = None
       /\ reply'[c] = "abandoned" /\ reply[c] = None => row[c] # "answered"]_vars

(* When nothing runs and client calls are parked, some request can be served: *)
(* one that brings the results of an answerable set of calls, or one that     *)
(* abandons it (the documentation: "the thread is never a dead end").         *)
NeverADeadEnd ==
  slot = None /\ claim = None /\ Client(parks) # {} =>
    \/ Fate("tool", parks) = "match"
    \/ /\ Fate("user", parks) \in Abandons
       /\ Approvals(parks) = {}
       /\ Client(parks) = Unresolved
=============================================================================
