------------------------ MODULE ClientToolCallsProofs ------------------------
(***************************************************************************)
(* Client tool calls, for any calls, requests and number of crashes: one   *)
(* turn at a time, no parked call is voided, no park is taken down without *)
(* a tool message, and a stored result is final.                           *)
(***************************************************************************)
EXTENDS ClientToolCalls, TLAPS

\* Tasks run in the turn that holds the slot, for calls of the latest message.
TasksAreOfTheTurn ==
  \A c \in Calls : task[c] # "idle" =>
    /\ c \in asked
    /\ slot \in Requests /\ pc[slot] \in {"tools", "stopping"}

\* The record of a call that is about to interrupt was not voided.
RecordedIsAnswerable == \A c \in ClientCalls : task[c] = "recorded" => row[c] # "voided"

\* The model is called on top of no park.
NothingParkedUnderTheModel == \A q \in Requests : pc[q] \in {"void", "model"} => parks = {}

\* Only the request that holds the resume claim decides on parked calls.
DecidersHoldTheClaim == \A q \in Requests : pc[q] \in {"read", "answer"} => claim = q

\* What a request knows: the results it still has to store are in its history;
\* if it neither resumes nor abandons client calls, it saw none parked; if it
\* resumes them, it has a stored result for each.
Founded(r) ==
  /\ r.todo \subseteq DOMAIN r.sends
  /\ r.plan \in {"none", "approve"} => Client(r.seen) = {}
  /\ r.plan = "resume" => /\ DOMAIN r.given = Client(r.seen)
                          /\ \A c \in DOMAIN r.given : r.given[c] \in Requests

RequestsAreFounded == \A q \in Requests : Founded(req[q])

\* What a request has decided to close as abandoned nobody else has answered:
\* it still holds the claim.
AbandonedIsUnanswered ==
  \A q \in Requests : pc[q] \in {"begin", "close"} =>
    \A c \in DOMAIN req[q].given :
      req[q].given[c] = "abandoned" => claim = q /\ row[c] # "answered"

CallsInv ==
  /\ TypeOK
  /\ LiveParksAreAnswerable
  /\ TasksAreOfTheTurn
  /\ RecordedIsAnswerable
  /\ NothingParkedUnderTheModel
  /\ DecidersHoldTheClaim
  /\ RequestsAreFounded
  /\ AbandonedIsUnanswered
-----------------------------------------------------------------------------
(* What requests know. *)

\* A map on a subset is a partial map, and the empty one always is.
LEMMA MapIsPartial ==
  ASSUME NEW S, NEW T, NEW D \in SUBSET S, NEW f \in [D -> T]
  PROVE  f \in PartialMaps(S, T)
BY DEF PartialMaps

LEMMA NoMapIsPartial ==
  ASSUME NEW S, NEW T
  PROVE  <<>> \in PartialMaps(S, T) /\ DOMAIN <<>> = {}
<1>1. DOMAIN <<>> = {} /\ <<>> \in [{} -> T]
  OBVIOUS
<1> QED BY <1>1 DEF PartialMaps

LEMMA PartialMapFacts ==
  ASSUME NEW S, NEW T, NEW f \in PartialMaps(S, T)
  PROVE  /\ DOMAIN f \subseteq S
         /\ \A x \in DOMAIN f : f[x] \in T
BY DEF PartialMaps

LEMMA BlankIsReq == Blank \in Reqs /\ Founded(Blank) /\ DOMAIN Blank.given = {}
<1>1. /\ <<>> \in PartialMaps(ClientCalls, Requests)
      /\ <<>> \in PartialMaps(ClientCalls, Results)
      /\ DOMAIN <<>> = {}
  BY NoMapIsPartial
<1> QED BY <1>1 DEF Blank, Reqs, Plans, Founded, Client

\* The fields of a request that its steps change, one by one.
LEMMA ReqFields ==
  ASSUME NEW r \in Reqs
  PROVE  /\ r.last \in {"user", "tool"} /\ r.here \in BOOLEAN /\ r.approves \in BOOLEAN
         /\ r.sends \in PartialMaps(ClientCalls, Requests)
         /\ r.seen \subseteq Calls /\ r.todo \subseteq ClientCalls /\ r.plan \in Plans
         /\ r.given \in PartialMaps(ClientCalls, Results) /\ r.saw \in BOOLEAN
BY DEF Reqs

-----------------------------------------------------------------------------
(***************************************************************************)
(* A step of one request that leaves store, checkpoint and tasks alone.    *)
(* Nobody else's phase or claim changes.                                   *)
(***************************************************************************)
LEMMA ControlStep ==
  ASSUME CallsInv, NEW q \in Requests, NEW phase \in Phases, NEW r \in Reqs, Founded(r),
         UNCHANGED <<store, checkpoint, task, crashes>>,
         pc' = [pc EXCEPT ![q] = phase], req' = [req EXCEPT ![q] = r],
         slot' \in {slot, q, None}, slot' = q <=> phase \in InTurn, slot \in {q, None} \/ slot' = slot,
         claim' \in {claim, q, None}, claim' = q => phase \in Live,
         claim \in {q, None} \/ claim' = claim,
         pc[q] \in {"tools", "stopping"} => phase \in {"tools", "stopping"} \/ task = Idle,
         phase \in {"void", "model"} => parks = {},
         phase \in {"read", "answer"} => claim' = q,
         phase \in {"begin", "close"} => \A c \in DOMAIN r.given :
           r.given[c] = "abandoned" => claim' = q /\ row[c] # "answered"
  PROVE  CallsInv'
<1> USE CallsAssumption DEF CallsInv, store, checkpoint
<1>1. HoldsAreTheirRequests'
  BY DEF TypeOK, HoldsAreTheirRequests
<1>2. TypeOK'
  BY <1>1 DEF TypeOK
<1>3. LiveParksAreAnswerable' /\ RecordedIsAnswerable' /\ RequestsAreFounded'
  BY DEF LiveParksAreAnswerable, RecordedIsAnswerable, RequestsAreFounded, Client, TypeOK
<1>4. TasksAreOfTheTurn'
  BY DEF TasksAreOfTheTurn, TypeOK, HoldsAreTheirRequests, Idle, InTurn
<1>5. NothingParkedUnderTheModel' /\ DecidersHoldTheClaim'
  BY DEF NothingParkedUnderTheModel, DecidersHoldTheClaim, TypeOK
<1>6. AbandonedIsUnanswered'
  BY DEF AbandonedIsUnanswered, TypeOK
<1> QED BY <1>2, <1>3, <1>4, <1>5, <1>6

\* A request that leaves frees what it holds.
LEMMA LeaveInv ==
  ASSUME CallsInv, NEW q \in Requests, pc[q] \notin {"tools", "stopping"}, Leave(q),
         UNCHANGED <<store, checkpoint, task, crashes>>
  PROVE  CallsInv'
<1>1. Blank \in Reqs /\ Founded(Blank) /\ DOMAIN Blank.given = {}
  BY BlankIsReq
<1>2. /\ pc' = [pc EXCEPT ![q] = "done"] /\ req' = [req EXCEPT ![q] = Blank]
      /\ slot' \in {slot, q, None} /\ slot' # q /\ (slot \in {q, None} \/ slot' = slot)
      /\ claim' \in {claim, q, None} /\ claim' # q /\ (claim \in {q, None} \/ claim' = claim)
  BY CallsAssumption DEF Leave, Goto
<1>3. "done" \in Phases /\ "done" \notin Live /\ "done" \notin InTurn
  BY DEF Phases, Live, InTurn
<1> QED BY <1>1, <1>2, <1>3, ControlStep

\* A request that meets no client park is refused, or goes for the slot.
LEMMA NoClientParkInv ==
  ASSUME CallsInv, NEW q \in Requests, NEW e \in Reqs, pc[q] \in {"new", "read"},
         Client(parks) = {}, NoClientPark(q, e),
         UNCHANGED <<store, checkpoint, task, crashes>>
  PROVE  CallsInv'
<1>1. CASE Leave(q)
  BY <1>1, LeaveInv
<1>2. CASE ~Leave(q)
  <2> DEFINE r == [Blank EXCEPT !.seen = parks, !.plan = IF e.approves THEN "approve" ELSE "none"]
  <2>1. /\ req' = [req EXCEPT ![q] = r] /\ pc' = [pc EXCEPT ![q] = "begin"]
        /\ UNCHANGED <<slot, claim>>
    BY <1>2 DEF NoClientPark, Goto
  <2>2. parks \subseteq Calls
    BY DEF CallsInv, TypeOK
  <2>3. r \in Reqs /\ Founded(r) /\ DOMAIN r.given = {}
    BY <2>2, BlankIsReq DEF Reqs, Founded, Blank, Plans
  <2> HIDE DEF r
  <2>4. slot # q /\ (claim = q => pc[q] \in Live)
    BY DEF CallsInv, TypeOK, HoldsAreTheirRequests, InTurn
  <2>5. "begin" \in Phases /\ "begin" \in Live /\ "begin" \notin InTurn
    BY DEF Phases, Live, InTurn
  <2> QED BY <2>1, <2>3, <2>4, <2>5, ControlStep
<1> QED BY <1>1, <1>2

LEMMA ArriveInv ==
  ASSUME CallsInv, NEW q \in Requests, Arrive(q)
  PROVE  CallsInv'
<1>1. PICK last \in {"user", "tool"}, here \in BOOLEAN, approves \in BOOLEAN,
           results \in SUBSET {c \in ClientCalls : asker[c] # None} :
        LET e == [Blank EXCEPT !.last = last, !.here = here, !.approves = approves,
                               !.sends = [c \in results |-> asker[c]]]
        IN /\ approves => GatedCalls # {}
           /\ IF last = "tool" \/ approves \/ Client(parks) # {}
              THEN \/ /\ claim = None
                      /\ claim' = q
                      /\ Goto(q, "read")
                      /\ req' = [req EXCEPT ![q] = e]
                      /\ UNCHANGED slot
                   \/ claim # None /\ Leave(q)
              ELSE NoClientPark(q, e)
  BY DEF Arrive
<1> DEFINE e == [Blank EXCEPT !.last = last, !.here = here, !.approves = approves,
                              !.sends = [c \in results |-> asker[c]]]
<1>2. pc[q] = "new" /\ UNCHANGED <<store, checkpoint, task, crashes>>
  BY DEF Arrive
<1>3. [c \in results |-> asker[c]] \in [results -> Requests]
  BY DEF CallsInv, TypeOK, Calls
<1>4. [c \in results |-> asker[c]] \in PartialMaps(ClientCalls, Requests)
  BY <1>3, MapIsPartial
<1>5. e \in Reqs /\ Founded(e) /\ DOMAIN e.given = {}
  <2>1. Blank \in Reqs /\ DOMAIN Blank.given = {}
    BY BlankIsReq
  <2>2. e \in Reqs /\ e.todo = {} /\ e.plan = "none" /\ e.seen = {} /\ e.given = Blank.given
    BY <1>4, <2>1 DEF Reqs, Blank
  <2> QED BY <2>1, <2>2 DEF Founded, Client
<1> HIDE DEF e
<1>6. CASE Leave(q)
  BY <1>2, <1>6, LeaveInv
<1>7. CASE claim = None /\ claim' = q /\ Goto(q, "read") /\ req' = [req EXCEPT ![q] = e]
           /\ UNCHANGED slot
  <2>1. slot # q
    BY <1>2 DEF CallsInv, TypeOK, HoldsAreTheirRequests, InTurn
  <2>2. "read" \in Phases /\ "read" \in Live /\ "read" \notin InTurn
    BY DEF Phases, Live, InTurn
  <2> QED BY <1>2, <1>5, <1>7, <2>1, <2>2, ControlStep DEF Goto
<1>8. CASE NoClientPark(q, e) /\ Client(parks) = {}
  BY <1>2, <1>5, <1>8, NoClientParkInv
<1> QED BY <1>1, <1>6, <1>7, <1>8 DEF e

LEMMA ReadInv ==
  ASSUME CallsInv, NEW q \in Requests, Read(q)
  PROVE  CallsInv'
<1> DEFINE e == req[q]
<1>1. pc[q] = "read" /\ UNCHANGED <<store, checkpoint, task, crashes>>
  BY DEF Read
<1>2. e \in Reqs /\ claim = q /\ slot # q
  BY <1>1 DEF CallsInv, TypeOK, DecidersHoldTheClaim, HoldsAreTheirRequests, InTurn
<1>3. CASE Client(parks) = {}
  <2>1. NoClientPark(q, e)
    BY <1>3 DEF Read
  <2> QED BY <1>1, <1>2, <1>3, <2>1, NoClientParkInv
<1>4. CASE Client(parks) # {} /\ Leave(q)
  BY <1>1, <1>4, LeaveInv
<1>5. CASE Client(parks) # {} /\ ~Leave(q)
  <2> DEFINE todo == {c \in Client(parks) : e.here /\ c \in DOMAIN e.sends /\ row[c] = "open"}
             r == [Blank EXCEPT
                     !.approves = e.approves, !.seen = parks, !.plan = Fate(e.last, parks),
                     !.todo = todo, !.sends = [c \in todo |-> e.sends[c]]]
  <2>1. req' = [req EXCEPT ![q] = r] /\ pc' = [pc EXCEPT ![q] = "answer"] /\ UNCHANGED <<slot, claim>>
    BY <1>5 DEF Read, Match, Goto
  <2>2. Fate(e.last, parks) \in Abandons \cup {"match"}
    BY DEF Fate, CallsInv, TypeOK, RowStates, Open, Client, Abandons
  <2>3. e.sends \in PartialMaps(ClientCalls, Requests) /\ e.approves \in BOOLEAN
    BY <1>2, ReqFields
  <2>4. todo \subseteq ClientCalls /\ [c \in todo |-> e.sends[c]] \in [todo -> Requests]
    BY <2>3, PartialMapFacts DEF Client
  <2>5. [c \in todo |-> e.sends[c]] \in PartialMaps(ClientCalls, Requests)
        /\ DOMAIN [c \in todo |-> e.sends[c]] = todo
    BY <2>4, MapIsPartial
  <2>6. parks \subseteq Calls
    BY DEF CallsInv, TypeOK
  <2> HIDE DEF todo
  <2>7. r \in Reqs /\ Founded(r)
    BY <2>2, <2>3, <2>4, <2>5, <2>6, BlankIsReq DEF Reqs, Founded, Blank, Plans, Abandons
  <2> HIDE DEF r
  <2>8. "answer" \in Phases /\ "answer" \in Live /\ "answer" \notin InTurn
    BY DEF Phases, Live, InTurn
  <2> QED BY <1>1, <1>2, <2>1, <2>7, <2>8, ControlStep
<1> QED BY <1>3, <1>4, <1>5

LEMMA DecideInv ==
  ASSUME CallsInv, NEW q \in Requests, Decide(q)
  PROVE  CallsInv'
<1> DEFINE e == req[q]
           parked == Client(e.seen)
           abandon == e.plan \in Abandons
           given == [c \in parked |-> IF row[c] = "answered" THEN answers[c] ELSE "abandoned"]
           r == [e EXCEPT !.plan = IF abandon THEN "abandon" ELSE "resume",
                          !.sends = <<>>, !.given = given]
<1>1. pc[q] = "answer" /\ e.todo = {} /\ e \in Reqs /\ claim = q /\ slot # q
  BY DEF Decide, CallsInv, TypeOK, DecidersHoldTheClaim, HoldsAreTheirRequests, InTurn
<1>2. CASE Refuse(q)
  BY <1>1, <1>2, LeaveInv DEF Refuse
<1>3. CASE ~Refuse(q)
  <2>1. /\ req' = [req EXCEPT ![q] = r] /\ pc' = [pc EXCEPT ![q] = "begin"]
        /\ UNCHANGED <<store, checkpoint, task, slot, claim, crashes>>
        /\ abandon \/ \A c \in parked : row[c] = "answered"
    BY <1>3 DEF Decide, Goto
  <2>2. /\ \A c \in parked : given[c] \in Results
        /\ \A c \in parked : given[c] = "abandoned" => row[c] # "answered"
        /\ \A c \in parked : row[c] = "answered" => given[c] \in Requests
    BY CallsAssumption DEF CallsInv, TypeOK, Client, Results
  <2>3. parked \subseteq ClientCalls /\ given \in [parked -> Results]
    BY <2>2 DEF Client
  <2>4. given \in PartialMaps(ClientCalls, Results) /\ DOMAIN given = parked
    BY <2>3, MapIsPartial
  <2>5. <<>> \in PartialMaps(ClientCalls, Requests) /\ DOMAIN <<>> = {}
    BY NoMapIsPartial
  <2> HIDE DEF given
  <2>6. r \in Reqs /\ Founded(r) /\ r.given = given
    BY <1>1, <2>1, <2>2, <2>4, <2>5 DEF Reqs, Founded, Plans, Abandons, Client
  <2> HIDE DEF r
  <2>7. "begin" \in Phases /\ "begin" \in Live /\ "begin" \notin InTurn
    BY DEF Phases, Live, InTurn
  <2>8. \A c \in DOMAIN r.given : r.given[c] = "abandoned" => claim = q /\ row[c] # "answered"
    BY <1>1, <2>2, <2>4, <2>6
  <2> QED BY <1>1, <2>1, <2>6, <2>7, <2>8, ControlStep
<1> QED BY <1>2, <1>3

LEMMA RefuseInv ==
  ASSUME CallsInv, NEW q \in Requests, Fail(q) \/ Release(q)
  PROVE  CallsInv'
<1>1. pc[q] \notin {"tools", "stopping"} /\ Refuse(q)
  BY DEF Fail, Release, Deciding
<1> QED BY <1>1, LeaveInv DEF Refuse

\* The steps of a turn that only move it on.
LEMMA TurnGoesOnInv ==
  ASSUME CallsInv, NEW q \in Requests, ModelEnds(q) \/ Abort(q) \/ Unwound(q)
  PROVE  CallsInv'
<1>1. PICK saw \in BOOLEAN, phase \in {"settle", "stopping"} :
        /\ pc' = [pc EXCEPT ![q] = phase]
        /\ req' = [req EXCEPT ![q] = [req[q] EXCEPT !.saw = saw]]
        /\ phase = "stopping" \/ pc[q] = "model" \/ task = Idle
  <2>1. CASE Abort(q)
    BY <2>1 DEF Abort, Goto
  <2>2. CASE ModelEnds(q) \/ Unwound(q)
    <3>1. /\ pc' = [pc EXCEPT ![q] = "settle"] /\ req' = req
          /\ pc[q] = "model" \/ task = Idle
      BY <2>2 DEF ModelEnds, Unwound, Goto
    <3>2. /\ req[q].saw \in BOOLEAN
          /\ req = [req EXCEPT ![q] = [req[q] EXCEPT !.saw = req[q].saw]]
      BY DEF CallsInv, TypeOK, Reqs
    <3> QED BY <3>1, <3>2
  <2> QED BY <2>1, <2>2
<1> DEFINE r == [req[q] EXCEPT !.saw = saw]
<1>2. /\ pc[q] \in {"model", "tools", "stopping"}
      /\ UNCHANGED <<store, checkpoint, task, slot, claim, crashes>>
  BY DEF Abort, ModelEnds, Unwound
<1>3. r \in Reqs /\ Founded(r)
  <2>1. req[q] \in Reqs /\ Founded(req[q])
    BY DEF CallsInv, TypeOK, RequestsAreFounded
  <2>2. /\ r \in Reqs /\ r.todo = req[q].todo /\ r.sends = req[q].sends
        /\ r.plan = req[q].plan /\ r.seen = req[q].seen /\ r.given = req[q].given
    BY <2>1 DEF Reqs
  <2> QED BY <2>1, <2>2 DEF Founded
<1>4. slot = q /\ phase \in Phases /\ phase \in Live /\ phase \in InTurn
  BY <1>2 DEF CallsInv, TypeOK, HoldsAreTheirRequests, InTurn, Live, Phases
<1>5. phase \notin {"void", "model", "read", "answer", "begin", "close"}
  OBVIOUS
<1>6. pc[q] \in {"tools", "stopping"} => phase \in {"tools", "stopping"} \/ task = Idle
  BY <1>1
<1> HIDE DEF r
<1> QED BY <1>1, <1>2, <1>3, <1>4, <1>5, <1>6, ControlStep DEF r

LEMMA AnswerInv ==
  ASSUME CallsInv, NEW q \in Requests, Answer(q)
  PROVE  CallsInv'
<1> USE DEF CallsInv
<1>1. PICK c \in req[q].todo :
        /\ IF row[c] \in Open
           THEN /\ row' = [row EXCEPT ![c] = "answered"]
                /\ answers' = [answers EXCEPT ![c] = req[q].sends[c]]
           ELSE UNCHANGED <<row, answers>>
        /\ req' = [req EXCEPT ![q] = [req[q] EXCEPT !.todo = @ \ {c}]]
  BY DEF Answer
<1>2. /\ pc[q] = "answer" /\ UNCHANGED <<checkpoint, task, slot, claim, pc, crashes>>
      /\ claim = q
  BY DEF Answer, DecidersHoldTheClaim
<1>3. /\ req[q] \in Reqs /\ Founded(req[q]) /\ c \in ClientCalls
      /\ req[q].sends \in PartialMaps(ClientCalls, Requests)
  BY ReqFields DEF TypeOK, RequestsAreFounded
<1>4. req[q].sends[c] \in Requests
  BY <1>3, PartialMapFacts DEF Founded
<1> DEFINE r == [req[q] EXCEPT !.todo = @ \ {c}]
<1>5. r \in Reqs /\ Founded(r)
  BY <1>3 DEF Reqs, Founded
<1>6. r.given = req[q].given
  BY <1>3 DEF Reqs
<1> HIDE DEF r
<1>7. req' = [req EXCEPT ![q] = r]
  BY <1>1 DEF r
<1>8. /\ row' \in [ClientCalls -> RowStates] /\ answers' \in [ClientCalls -> Requests \cup {None}]
      /\ \A d \in ClientCalls : answers'[d] # None <=> row'[d] = "answered"
  BY <1>1, <1>3, <1>4, CallsAssumption DEF TypeOK, RowStates, Open
<1>9. TypeOK'
  BY <1>2, <1>5, <1>7, <1>8 DEF TypeOK, checkpoint, HoldsAreTheirRequests
<1>10. LiveParksAreAnswerable' /\ RecordedIsAnswerable'
  BY <1>1, <1>2, <1>3 DEF LiveParksAreAnswerable, RecordedIsAnswerable, checkpoint, TypeOK, Client
<1>11. TasksAreOfTheTurn' /\ NothingParkedUnderTheModel' /\ DecidersHoldTheClaim'
  BY <1>2 DEF TasksAreOfTheTurn, NothingParkedUnderTheModel, DecidersHoldTheClaim, checkpoint
<1>12. RequestsAreFounded'
  BY <1>5, <1>7 DEF RequestsAreFounded, TypeOK
<1>13. AbandonedIsUnanswered'
  <2> SUFFICES ASSUME NEW p \in Requests, pc[p] \in {"begin", "close"}, NEW d \in DOMAIN req'[p].given,
                      req'[p].given[d] = "abandoned"
               PROVE  claim = p /\ row'[d] # "answered"
    BY <1>2 DEF AbandonedIsUnanswered
  <2>1. p # q /\ req'[p] = req[p]
    BY <1>2, <1>7 DEF TypeOK
  <2>2. claim = p
    BY <2>1 DEF AbandonedIsUnanswered
  <2> QED BY <1>2, <2>1, <2>2
<1> QED BY <1>9, <1>10, <1>11, <1>12, <1>13

-----------------------------------------------------------------------------
(***************************************************************************)
(* A step of the turn that holds the slot, or the one that takes it:       *)
(* nothing changes for the other requests, and nothing of what the         *)
(* requests know.  The records are at most opened or voided.               *)
(***************************************************************************)
LEMMA TurnStep ==
  ASSUME CallsInv, NEW q \in Requests, NEW phase \in InTurn \ {"void", "close"},
         pc' = [pc EXCEPT ![q] = phase], slot \in {q, None}, slot' = q,
         UNCHANGED <<answers, claim, crashes>>,
         NEW saw \in BOOLEAN, req' = [req EXCEPT ![q] = [req[q] EXCEPT !.saw = saw]],
         row' \in [ClientCalls -> RowStates],
         \A c \in ClientCalls : row[c] = "answered" <=> row'[c] = "answered",
         asked' \subseteq Calls, asker' \in [Calls -> Requests \cup {None}],
         reply' \in [Calls -> Results \cup {None, "other"}],
         parks' \subseteq asked', task' \in [Calls -> {"idle", "running", "recorded"}],
         \A c \in GatedCalls : task'[c] # "recorded",
         \A c \in Calls : task'[c] # "idle" => c \in asked' /\ phase \in {"tools", "stopping"},
         phase = "model" => parks' = {},
         \A c \in ClientCalls : task'[c] = "recorded" \/ c \in parks' => row'[c] # "voided"
  PROVE  CallsInv'
<1> USE DEF CallsInv
<1>1. pc[q] \in Phases \ {"new", "done"} => pc[q] \in Live
  BY DEF Live
<1>2. phase \in Phases /\ phase \in Live
  BY DEF InTurn, Phases, Live
<1>3. \A p \in Requests \ {q} : pc[p] \notin InTurn
  BY CallsAssumption DEF TypeOK, HoldsAreTheirRequests
<1>4. HoldsAreTheirRequests'
  BY <1>2, <1>3 DEF TypeOK, HoldsAreTheirRequests
<1>5. req' \in [Requests -> Reqs] /\ RequestsAreFounded' /\ \A p \in Requests : req'[p].given = req[p].given
  <2> DEFINE r == [req[q] EXCEPT !.saw = saw]
  <2>1. req[q] \in Reqs /\ Founded(req[q])
    BY DEF TypeOK, RequestsAreFounded
  <2>2. /\ r \in Reqs /\ r.todo = req[q].todo /\ r.sends = req[q].sends
        /\ r.plan = req[q].plan /\ r.seen = req[q].seen /\ r.given = req[q].given
    BY <2>1 DEF Reqs
  <2>3. Founded(r)
    BY <2>1, <2>2 DEF Founded
  <2> HIDE DEF r
  <2>4. req' = [req EXCEPT ![q] = r]
    BY DEF r
  <2> QED BY <2>2, <2>3, <2>4 DEF TypeOK, RequestsAreFounded
<1>6. TypeOK'
  BY <1>2, <1>4, <1>5 DEF TypeOK
<1>7. LiveParksAreAnswerable' /\ RecordedIsAnswerable'
  BY DEF LiveParksAreAnswerable, RecordedIsAnswerable, Client
<1>8. TasksAreOfTheTurn'
  BY DEF TasksAreOfTheTurn, TypeOK
<1>9. NothingParkedUnderTheModel'
  BY <1>3 DEF NothingParkedUnderTheModel, TypeOK, InTurn
<1>10. DecidersHoldTheClaim'
  BY DEF DecidersHoldTheClaim, TypeOK, InTurn
<1>11. AbandonedIsUnanswered'
  <2> SUFFICES ASSUME NEW p \in Requests, pc'[p] \in {"begin", "close"}, NEW c \in DOMAIN req[p].given,
                      req[p].given[c] = "abandoned"
               PROVE  claim = p /\ row'[c] # "answered"
    BY <1>5 DEF AbandonedIsUnanswered
  <2>1. pc[p] \in {"begin", "close"}
    BY DEF TypeOK, InTurn
  <2>2. c \in ClientCalls
    BY ReqFields, PartialMapFacts DEF TypeOK
  <2>3. claim = p /\ row[c] # "answered"
    BY <2>1 DEF AbandonedIsUnanswered
  <2> QED BY <2>2, <2>3
<1> QED BY <1>5, <1>6, <1>7, <1>8, <1>9, <1>10, <1>11

\* A step of the turn that changes nothing of what its request knows.
LEMMA SameKnowledge ==
  ASSUME CallsInv, NEW q \in Requests, req' = req
  PROVE  req[q].saw \in BOOLEAN /\ req' = [req EXCEPT ![q] = [req[q] EXCEPT !.saw = req[q].saw]]
<1>1. req[q] \in Reqs /\ req \in [Requests -> Reqs]
  BY DEF CallsInv, TypeOK
<1>2. req[q].saw \in BOOLEAN /\ [req[q] EXCEPT !.saw = req[q].saw] = req[q]
  BY <1>1 DEF Reqs
<1> QED BY <1>1, <1>2

\* What the holder of the slot may rely on.
LEMMA HolderFacts ==
  ASSUME CallsInv, NEW q \in Requests, pc[q] \in InTurn
  PROVE  /\ slot = q
         /\ pc[q] \notin {"tools", "stopping"} => \A c \in Calls : task[c] = "idle"
         /\ \A c \in ClientCalls : task[c] = "recorded" \/ c \in parks => row[c] # "voided"
         /\ \A c \in Calls : task[c] # "idle" => c \in asked
BY DEF CallsInv, TypeOK, HoldsAreTheirRequests, TasksAreOfTheTurn, RecordedIsAnswerable,
       LiveParksAreAnswerable, Client

LEMMA BeginInv ==
  ASSUME CallsInv, NEW q \in Requests, Begin(q)
  PROVE  CallsInv'
<1> USE DEF CallsInv
<1>1. pc[q] = "begin" /\ q # slot
  BY DEF Begin, TypeOK, HoldsAreTheirRequests, InTurn
<1>2. CASE Refuse(q)
  BY <1>1, <1>2, LeaveInv DEF Refuse
<1>3. CASE ~Refuse(q)
  <2>1. /\ slot = None /\ slot' = q
        /\ Client(req[q].seen) # {} \/ Client(parks) = {}
        /\ UNCHANGED <<store, claim, req, crashes>>
        /\ \/ req[q].plan = "none" /\ StartOver(q)
           \/ req[q].plan \in {"approve", "resume"} /\ Reenter(q)
           \/ Goto(q, "close") /\ UNCHANGED <<checkpoint, task>>
    BY <1>1, <1>3 DEF Begin
  <2>2. \A c \in Calls : task[c] = "idle"
    BY <2>1, CallsAssumption DEF TasksAreOfTheTurn
  <2>3. /\ req[q].saw \in BOOLEAN /\ req[q] \in Reqs /\ Founded(req[q])
        /\ req' = [req EXCEPT ![q] = [req[q] EXCEPT !.saw = req[q].saw]]
        /\ req' = [req EXCEPT ![q] = req[q]]
    BY <2>1, SameKnowledge DEF TypeOK, RequestsAreFounded
  <2>4. \A c \in ClientCalls : c \in parks => row[c] # "voided"
    BY DEF LiveParksAreAnswerable, Client
  <2>5. CASE StartOver(q)
    <3>1. /\ pc' = [pc EXCEPT ![q] = "model"] /\ asked' = {} /\ parks' = {}
          /\ UNCHANGED <<asker, reply, task>>
      BY <2>5 DEF StartOver, Goto
    <3>2. "model" \in InTurn \ {"void", "close"}
      BY DEF InTurn
    <3>3. /\ asker' \in [Calls -> Requests \cup {None}] /\ reply' \in [Calls -> Results \cup {None, "other"}]
          /\ task' \in [Calls -> {"idle", "running", "recorded"}] /\ row' \in [ClientCalls -> RowStates]
          /\ row' = row /\ answers' = answers /\ \A c \in Calls : task'[c] = "idle"
      BY <2>1, <2>2, <3>1 DEF TypeOK, store
    <3> QED BY <2>1, <2>2, <2>3, <2>4, <3>1, <3>2, <3>3, TurnStep DEF Calls
  <2>6. CASE Reenter(q)
    <3>1. /\ pc' = [pc EXCEPT ![q] = "tools"] /\ UNCHANGED <<asked, asker, reply, parks>>
          /\ task' = [c \in Calls |-> IF c \in Unresolved THEN "running" ELSE "idle"]
      BY <2>6 DEF Reenter, Goto, checkpoint
    <3>2. "tools" \in InTurn \ {"void", "close"}
      BY DEF InTurn
    <3>3. /\ asked' \subseteq Calls /\ asker' \in [Calls -> Requests \cup {None}]
          /\ reply' \in [Calls -> Results \cup {None, "other"}] /\ parks' \subseteq asked'
          /\ row' \in [ClientCalls -> RowStates] /\ row' = row /\ answers' = answers
      BY <2>1, <3>1 DEF TypeOK, store
    <3>4. /\ task' \in [Calls -> {"idle", "running", "recorded"}]
          /\ \A c \in Calls : task'[c] # "recorded" /\ (task'[c] # "idle" => c \in asked')
      BY <3>1 DEF Unresolved
    <3> QED BY <2>1, <2>3, <2>4, <3>1, <3>2, <3>3, <3>4, TurnStep DEF Calls
  <2>7. CASE Goto(q, "close") /\ UNCHANGED <<checkpoint, task>>
    <3>1. "close" \in Phases /\ "close" \in Live /\ "close" \in InTurn
      BY DEF Phases, Live, InTurn
    <3>2. \A c \in DOMAIN req[q].given :
            req[q].given[c] = "abandoned" => claim = q /\ row[c] # "answered"
      BY <1>1 DEF AbandonedIsUnanswered
    <3>3. pc' = [pc EXCEPT ![q] = "close"] /\ claim' = claim
      BY <2>1, <2>7 DEF Goto
    <3> QED BY <1>1, <2>1, <2>3, <2>7, <3>1, <3>2, <3>3, ControlStep
  <2> QED BY <2>1, <2>5, <2>6, <2>7
<1> QED BY <1>2, <1>3

LEMMA CloseInv ==
  ASSUME CallsInv, NEW q \in Requests, Close(q)
  PROVE  CallsInv'
<1> USE DEF CallsInv
<1>1. pc[q] = "close" /\ slot = q
  BY DEF Close, TypeOK, HoldsAreTheirRequests, InTurn
<1>2. CASE Refuse(q)
  BY <1>1, <1>2, LeaveInv DEF Refuse
<1>3. CASE ~Refuse(q)
  <2>1. /\ DOMAIN req[q].given = Unresolved
        /\ reply' = [c \in Calls |-> IF c \in Unresolved THEN req[q].given[c] ELSE reply[c]]
        /\ parks' = {} /\ pc' = [pc EXCEPT ![q] = "void"]
        /\ UNCHANGED <<store, asked, asker, task, slot, claim, req, crashes>>
    BY <1>3 DEF Close, Goto
  <2>2. \A c \in Unresolved : req[q].given[c] \in Results
    BY <2>1, ReqFields, PartialMapFacts DEF TypeOK
  <2>3. reply' \in [Calls -> Results \cup {None, "other"}]
    BY <2>1, <2>2 DEF TypeOK
  <2>4. HoldsAreTheirRequests'
    <3>1. /\ "close" \in InTurn /\ "void" \in InTurn /\ "void" \in Live
          /\ pc'[q] = "void" /\ \A p \in Requests \ {q} : pc'[p] = pc[p]
      BY <2>1 DEF TypeOK, InTurn, Live, Phases
    <3> QED BY <1>1, <2>1, <3>1 DEF TypeOK, HoldsAreTheirRequests
  <2>5. TypeOK'
    BY <2>1, <2>3, <2>4 DEF TypeOK, store, Phases
  <2>6. LiveParksAreAnswerable' /\ RecordedIsAnswerable' /\ RequestsAreFounded'
    BY <2>1 DEF LiveParksAreAnswerable, RecordedIsAnswerable, RequestsAreFounded, Client, store
  <2>7. TasksAreOfTheTurn' /\ NothingParkedUnderTheModel' /\ DecidersHoldTheClaim'
    BY <1>1, <2>1 DEF TasksAreOfTheTurn, NothingParkedUnderTheModel, DecidersHoldTheClaim, TypeOK
  <2>8. AbandonedIsUnanswered'
    BY <2>1 DEF AbandonedIsUnanswered, TypeOK, store
  <2> QED BY <2>5, <2>6, <2>7, <2>8
<1> QED BY <1>2, <1>3

\* Voiding opens or answers no record, and spares the records not in S.
LEMMA VoidFacts ==
  ASSUME CallsInv, NEW S, VoidAll(S) \/ UNCHANGED row
  PROVE  /\ row' \in [ClientCalls -> RowStates]
         /\ \A c \in ClientCalls : row[c] = "answered" <=> row'[c] = "answered"
         /\ \A c \in ClientCalls \ S : row'[c] = row[c]
         /\ \A c \in ClientCalls : row[c] \in {"answered", "voided"} => row'[c] = row[c]
BY DEF VoidAll, CallsInv, TypeOK, RowStates, Open

LEMMA VoidAbandonedInv ==
  ASSUME CallsInv, NEW q \in Requests, VoidAbandoned(q)
  PROVE  CallsInv'
<1>1. /\ pc[q] = "void" /\ slot = q /\ "model" \in InTurn \ {"void", "close"}
      /\ UNCHANGED <<answers, slot, claim, req, crashes>>
  BY DEF CallsInv, VoidAbandoned, TypeOK, HoldsAreTheirRequests, InTurn
<1>2. /\ asked' = {} /\ parks' = {} /\ pc' = [pc EXCEPT ![q] = "model"]
      /\ UNCHANGED <<asker, reply, task>>
  BY DEF VoidAbandoned, StartOver, Goto
<1>3. /\ row' \in [ClientCalls -> RowStates]
      /\ \A c \in ClientCalls : row[c] = "answered" <=> row'[c] = "answered"
  BY VoidFacts DEF VoidAbandoned
<1>4. \A c \in Calls : task'[c] = "idle"
  BY <1>1, <1>2 DEF CallsInv, TasksAreOfTheTurn
<1>5. /\ asker' \in [Calls -> Requests \cup {None}] /\ reply' \in [Calls -> Results \cup {None, "other"}]
      /\ task' \in [Calls -> {"idle", "running", "recorded"}]
  BY <1>2 DEF CallsInv, TypeOK
<1>6. req[q].saw \in BOOLEAN /\ req' = [req EXCEPT ![q] = [req[q] EXCEPT !.saw = req[q].saw]]
  BY <1>1, SameKnowledge
<1>7. /\ asked' \subseteq Calls /\ parks' \subseteq asked' /\ slot' = q
      /\ UNCHANGED <<answers, claim, crashes>>
      /\ \A c \in Calls : task'[c] # "idle" => c \in asked' /\ "model" \in {"tools", "stopping"}
      /\ \A c \in GatedCalls : task'[c] # "recorded"
      /\ \A c \in ClientCalls : task'[c] = "recorded" \/ c \in parks' => row'[c] # "voided"
      /\ slot \in {q, None}
  BY <1>1, <1>2, <1>4 DEF Calls
<1>8. ASSUME NEW saw \in BOOLEAN, req' = [req EXCEPT ![q] = [req[q] EXCEPT !.saw = saw]]
      PROVE  CallsInv'
  BY <1>1, <1>2, <1>3, <1>5, <1>7, <1>8, TurnStep
<1> QED BY <1>6, <1>8

LEMMA ModelAsksInv ==
  ASSUME CallsInv, NEW q \in Requests, ModelAsks(q)
  PROVE  CallsInv'
<1>1. PICK S \in SUBSET Calls \ {{}} :
        /\ asked' = S
        /\ asker' = [c \in Calls |-> IF c \in S THEN q ELSE asker[c]]
        /\ task' = [c \in Calls |-> IF c \in S THEN "running" ELSE "idle"]
  BY DEF ModelAsks
<1>2. /\ pc[q] = "model" /\ pc[q] \in InTurn /\ "tools" \in InTurn \ {"void", "close"}
      /\ reply' = [c \in Calls |-> None] /\ parks' = {} /\ pc' = [pc EXCEPT ![q] = "tools"]
      /\ UNCHANGED <<row, answers, slot, claim, req, crashes>>
  BY DEF ModelAsks, Goto, store, InTurn
<1>3. slot = q /\ slot' = q /\ slot \in {q, None}
  BY <1>2, HolderFacts
<1>4. /\ asked' \subseteq Calls /\ asker' \in [Calls -> Requests \cup {None}]
      /\ reply' \in [Calls -> Results \cup {None, "other"}]
      /\ parks' \subseteq asked' /\ task' \in [Calls -> {"idle", "running", "recorded"}]
      /\ row' \in [ClientCalls -> RowStates] /\ row' = row
  BY <1>1, <1>2 DEF CallsInv, TypeOK
<1>5. /\ \A c \in Calls : task'[c] # "idle" => c \in asked' /\ "tools" \in {"tools", "stopping"}
      /\ \A c \in GatedCalls : task'[c] # "recorded"
      /\ \A c \in ClientCalls : task'[c] # "recorded" /\ c \notin parks'
  BY <1>1, <1>2 DEF Calls
<1>6. req[q].saw \in BOOLEAN /\ req' = [req EXCEPT ![q] = [req[q] EXCEPT !.saw = req[q].saw]]
  BY <1>2, SameKnowledge
<1>7. ASSUME NEW saw \in BOOLEAN, req' = [req EXCEPT ![q] = [req[q] EXCEPT !.saw = saw]]
      PROVE  CallsInv'
  BY <1>2, <1>3, <1>4, <1>5, <1>7, TurnStep
<1> QED BY <1>6, <1>7

\* A step of one task: it may park, reply, or be recorded; nothing else of the
\* turn changes.
LEMMA TaskStep ==
  ASSUME CallsInv, NEW q \in Requests, NEW c \in Calls, Executing(q, c),
         NEW to \in {"idle", "recorded"}, task' = [task EXCEPT ![c] = to],
         to = "recorded" => c \in ClientCalls /\ row'[c] # "voided",
         reply' \in [Calls -> Results \cup {None, "other"}],
         parks' = parks \/ (parks' = parks \cup {c} /\ (c \in GatedCalls \/ row[c] # "voided")),
         row' = row \/ (row[c] = "none" /\ row' = [row EXCEPT ![c] = "open"]),
         UNCHANGED <<answers, asked, asker, slot, claim, pc, req, crashes>>
  PROVE  CallsInv'
<1>1. /\ pc[q] \in {"tools", "stopping"} /\ task[c] # "idle"
      /\ pc[q] \in InTurn \ {"void", "close", "model"}
  BY DEF Executing, InTurn
<1>2. /\ slot = q /\ slot' = q /\ slot \in {q, None} /\ c \in asked
      /\ \A d \in ClientCalls : task[d] = "recorded" \/ d \in parks => row[d] # "voided"
      /\ \A d \in Calls : task[d] # "idle" => d \in asked
  BY <1>1, HolderFacts
<1>3. /\ row' \in [ClientCalls -> RowStates] /\ asked' \subseteq Calls
      /\ asker' \in [Calls -> Requests \cup {None}] /\ parks' \subseteq asked'
      /\ task' \in [Calls -> {"idle", "running", "recorded"}]
      /\ pc' = [pc EXCEPT ![q] = pc[q]]
  BY <1>2 DEF CallsInv, TypeOK, RowStates
<1>4. \A d \in ClientCalls : row[d] = "answered" <=> row'[d] = "answered"
  BY DEF CallsInv, TypeOK
<1>5. /\ \A d \in Calls : task'[d] # "idle" => d \in asked' /\ pc[q] \in {"tools", "stopping"}
      /\ \A d \in GatedCalls : task'[d] # "recorded"
  BY <1>1, <1>2, CallsAssumption DEF CallsInv, TypeOK, Calls
<1>6. \A d \in ClientCalls : task'[d] = "recorded" \/ d \in parks' => row'[d] # "voided"
  BY <1>2, CallsAssumption DEF CallsInv, TypeOK, Calls
<1>7. req[q].saw \in BOOLEAN /\ req' = [req EXCEPT ![q] = [req[q] EXCEPT !.saw = req[q].saw]]
  BY SameKnowledge
<1>8. ASSUME NEW saw \in BOOLEAN, req' = [req EXCEPT ![q] = [req[q] EXCEPT !.saw = saw]],
             NEW phase \in InTurn \ {"void", "close"}, phase \in {"tools", "stopping"},
             pc' = [pc EXCEPT ![q] = phase]
      PROVE  CallsInv'
  <2>1. /\ UNCHANGED <<answers, claim, crashes>> /\ phase # "model"
        /\ \A d \in Calls : task'[d] # "idle" => d \in asked' /\ phase \in {"tools", "stopping"}
    BY <1>5, <1>8
  <2>2. CallsInv /\ q \in Requests /\ reply' \in [Calls -> Results \cup {None, "other"}]
    OBVIOUS
  <2> QED BY ONLY <1>2, <1>3, <1>4, <1>5, <1>6, <1>8, <2>1, <2>2, TurnStep
<1> QED BY <1>1, <1>3, <1>7, <1>8

\* A client call that the turn resumes is given a stored result.
LEMMA ResumedIsGiven ==
  ASSUME CallsInv, NEW q \in Requests, NEW c \in ClientCalls, Resumed(q, c)
  PROVE  req[q].given[c] \in Requests
<1>1. Founded(req[q]) /\ c \in Client(req[q].seen)
  BY DEF CallsInv, RequestsAreFounded, Resumed, Client
<1> QED BY <1>1 DEF Founded, Resumed

\* A tool message that a task's step writes, if it writes one.
LEMMA ReplyIsTyped ==
  ASSUME CallsInv, NEW c \in Calls, NEW value \in Results \cup {"other"},
         reply' = reply \/ reply' = [reply EXCEPT ![c] = value]
  PROVE  reply' \in [Calls -> Results \cup {None, "other"}]
BY DEF CallsInv, TypeOK

LEMMA StubInv ==
  ASSUME CallsInv, NEW q \in Requests, NEW c \in ClientCalls, Stub(q, c)
  PROVE  CallsInv'
<1>1. /\ c \in Calls /\ Executing(q, c) /\ parks' = parks
      /\ UNCHANGED <<answers, asked, asker, slot, claim, pc, req, crashes>>
  BY DEF Stub, Calls
<1>2. \/ /\ task' = [task EXCEPT ![c] = "recorded"] /\ row' = row /\ reply' = reply
         /\ row[c] # "voided"
      \/ /\ task' = [task EXCEPT ![c] = "recorded"] /\ row[c] = "none" /\ reply' = reply
         /\ row' = [row EXCEPT ![c] = "open"]
      \/ /\ task' = [task EXCEPT ![c] = "idle"] /\ reply' = [reply EXCEPT ![c] = "other"]
         /\ row' = row
  BY DEF Stub, Replays, Open, Reply
<1>3. reply' \in [Calls -> Results \cup {None, "other"}]
  BY <1>1, <1>2, ReplyIsTyped
<1>4. row[c] = "none" /\ row' = [row EXCEPT ![c] = "open"] => row'[c] = "open"
  BY DEF CallsInv, TypeOK
<1>5. CASE task' = [task EXCEPT ![c] = "recorded"]
  <2>1. /\ row'[c] # "voided"
        /\ row' = row \/ (row[c] = "none" /\ row' = [row EXCEPT ![c] = "open"])
    <3>1. task'[c] = "recorded"
      BY <1>1, <1>5 DEF CallsInv, TypeOK
    <3>2. ~(task' = [task EXCEPT ![c] = "idle"])
      BY <1>1, <3>1 DEF CallsInv, TypeOK
    <3> QED BY <1>2, <1>4, <3>2
  <2> QED BY <1>1, <1>3, <1>5, <2>1, TaskStep
<1>6. CASE task' = [task EXCEPT ![c] = "idle"] /\ row' = row
  BY <1>1, <1>3, <1>6, TaskStep
<1> QED BY <1>2, <1>5, <1>6

LEMMA InterruptInv ==
  ASSUME CallsInv, NEW q \in Requests, NEW c \in ClientCalls, Interrupt(q, c)
  PROVE  CallsInv'
<1>1. /\ c \in Calls /\ Executing(q, c) /\ task[c] = "recorded"
      /\ task' = [task EXCEPT ![c] = "idle"] /\ row' = row
      /\ UNCHANGED <<answers, asked, asker, slot, claim, pc, req, crashes>>
  BY DEF Interrupt, Calls, Reply, store
<1>2. row[c] # "voided"
  BY <1>1 DEF CallsInv, RecordedIsAnswerable
<1>3. Resumed(q, c) => req[q].given[c] \in Results \cup {"other"}
  BY ResumedIsGiven DEF Results
<1>4. /\ parks' = parks \/ parks' = parks \cup {c}
      /\ reply' = reply \/ (Resumed(q, c) /\ reply' = [reply EXCEPT ![c] = req[q].given[c]])
  BY DEF Interrupt, Reply
<1>5. reply' \in [Calls -> Results \cup {None, "other"}]
  BY <1>1, <1>3, <1>4, ReplyIsTyped
<1> QED BY <1>1, <1>2, <1>4, <1>5, TaskStep

LEMMA ServerToolInv ==
  ASSUME CallsInv, NEW q \in Requests, NEW c \in GatedCalls, ServerTool(q, c)
  PROVE  CallsInv'
<1>1. /\ c \in Calls /\ Executing(q, c) /\ task' = [task EXCEPT ![c] = "idle"] /\ row' = row
      /\ UNCHANGED <<answers, asked, asker, slot, claim, pc, req, crashes>>
      /\ parks' = parks \/ parks' = parks \cup {c}
      /\ reply' = reply \/ reply' = [reply EXCEPT ![c] = "other"]
  BY DEF ServerTool, Calls, Reply, store
<1>2. reply' \in [Calls -> Results \cup {None, "other"}]
  BY <1>1, ReplyIsTyped
<1> QED BY <1>1, <1>2, TaskStep

LEMMA DieInv ==
  ASSUME CallsInv, NEW q \in Requests, NEW c \in Calls, Die(q, c)
  PROVE  CallsInv'
<1>1. /\ Executing(q, c) /\ task' = [task EXCEPT ![c] = "idle"] /\ row' = row
      /\ UNCHANGED <<answers, asked, asker, slot, claim, pc, req, crashes>>
      /\ parks' = parks /\ reply' = reply
  BY DEF Die, Executing, store, checkpoint
<1>2. reply' \in [Calls -> Results \cup {None, "other"}]
  BY <1>1 DEF CallsInv, TypeOK
<1> QED BY <1>1, <1>2, TaskStep

\* The step ends and the model goes on, or the turn ends parked; and its settle.
LEMMA StepEndsInv ==
  ASSUME CallsInv, NEW q \in Requests, StepEnds(q) \/ Settle(q)
  PROVE  CallsInv'
<1>1. /\ pc[q] \in {"tools", "settle"} /\ pc[q] \in InTurn
      /\ pc[q] = "tools" => task = Idle
      /\ UNCHANGED <<answers, asked, asker, reply, task, slot, claim, crashes>>
      /\ {"model", "settle", "release"} \subseteq InTurn \ {"void", "close"}
  BY DEF StepEnds, Settle, InTurn, store, checkpoint
<1>2. /\ slot = q /\ \A c \in Calls : task[c] = "idle"
      /\ \A c \in ClientCalls : c \in parks => row[c] # "voided"
  <2>1. task = Idle => \A c \in Calls : task[c] = "idle"
    BY DEF Idle
  <2>2. \A c \in Calls : task[c] = "idle"
    <3>1. CASE pc[q] = "tools"
      BY <1>1, <2>1, <3>1
    <3>2. CASE pc[q] = "settle"
      BY <1>1, <3>2, HolderFacts
    <3> QED BY <1>1, <3>1, <3>2
  <2> QED BY <1>1, <2>2, HolderFacts
<1>3. PICK phase \in {"model", "settle", "release"} :
        /\ pc' = [pc EXCEPT ![q] = phase]
        /\ parks' = {} \/ (phase # "model" /\ parks' = parks)
  BY DEF StepEnds, Settle, Goto, checkpoint
<1>4. /\ row' \in [ClientCalls -> RowStates]
      /\ \A c \in ClientCalls : row[c] = "answered" <=> row'[c] = "answered"
      /\ \A c \in Client(parks) : row'[c] = row[c]
  <2>1. CASE StepEnds(q)
    BY <2>1 DEF StepEnds, store, CallsInv, TypeOK
  <2>2. CASE Settle(q)
    <3>1. VoidAll(ClientCalls \ parks) \/ UNCHANGED row
      BY <2>2 DEF Settle
    <3> QED BY <3>1, VoidFacts DEF Client
  <2> QED BY <2>1, <2>2
<1>5. PICK saw \in BOOLEAN : req' = [req EXCEPT ![q] = [req[q] EXCEPT !.saw = saw]]
  <2>1. CASE req' = req
    BY <2>1, SameKnowledge
  <2>2. CASE req' # req
    BY <2>2 DEF StepEnds, Settle
  <2> QED BY <2>1, <2>2
<1>6. /\ asked' \subseteq Calls /\ asker' \in [Calls -> Requests \cup {None}]
      /\ reply' \in [Calls -> Results \cup {None, "other"}]
      /\ parks' \subseteq asked' /\ task' \in [Calls -> {"idle", "running", "recorded"}]
  BY <1>1, <1>3 DEF CallsInv, TypeOK
<1>7. /\ \A c \in Calls : task'[c] # "idle" => c \in asked' /\ phase \in {"tools", "stopping"}
      /\ \A c \in GatedCalls : task'[c] # "recorded"
      /\ \A c \in ClientCalls : task'[c] = "recorded" \/ c \in parks' => row'[c] # "voided"
  BY <1>1, <1>2, <1>3, <1>4 DEF Calls, Client
<1>8. slot' = q /\ slot \in {q, None} /\ UNCHANGED <<answers, claim, crashes>> /\ CallsInv
      /\ phase \in InTurn \ {"void", "close"} /\ (phase = "model" => parks' = {})
  BY <1>1, <1>2, <1>3
<1> QED BY ONLY <1>3, <1>4, <1>5, <1>6, <1>7, <1>8, q \in Requests, TurnStep

-----------------------------------------------------------------------------
(* Time and crashes. *)

LEMMA RecordAgesInv ==
  ASSUME CallsInv, NEW c \in ClientCalls, Expire(c) \/ Prune(c)
  PROVE  CallsInv'
<1> USE DEF CallsInv
<1>1. UNCHANGED <<checkpoint, task, slot, claim, pc, req, crashes>>
  BY DEF Expire, Prune
<1>2. /\ row' \in [ClientCalls -> RowStates] /\ answers' \in [ClientCalls -> Requests \cup {None}]
      /\ \A d \in ClientCalls : answers'[d] # None <=> row'[d] = "answered"
      /\ \A d \in ClientCalls : row'[d] = row[d] \/ row'[d] \in {"late", "none"}
  <2>1. CASE Expire(c)
    BY <2>1, CallsAssumption DEF Expire, TypeOK, RowStates
  <2>2. CASE Prune(c)
    BY <2>2 DEF Prune, TypeOK, RowStates
  <2> QED BY <2>1, <2>2
<1>3. TypeOK'
  BY <1>1, <1>2 DEF TypeOK, checkpoint, HoldsAreTheirRequests
<1>4. LiveParksAreAnswerable' /\ RecordedIsAnswerable'
  BY <1>1, <1>2 DEF LiveParksAreAnswerable, RecordedIsAnswerable, checkpoint, Client
<1>5. /\ TasksAreOfTheTurn' /\ NothingParkedUnderTheModel' /\ DecidersHoldTheClaim'
      /\ RequestsAreFounded'
  BY <1>1 DEF TasksAreOfTheTurn, NothingParkedUnderTheModel, DecidersHoldTheClaim,
              RequestsAreFounded, checkpoint
<1>6. AbandonedIsUnanswered'
  <2>1. \A q \in Requests : DOMAIN req[q].given \subseteq ClientCalls
    BY ReqFields, PartialMapFacts DEF TypeOK
  <2> QED BY <1>1, <1>2, <2>1 DEF AbandonedIsUnanswered
<1> QED BY <1>3, <1>4, <1>5, <1>6

LEMMA CrashInv ==
  ASSUME CallsInv, Crash
  PROVE  CallsInv'
<1> USE CallsAssumption DEF CallsInv
<1>1. /\ crashes' = crashes + 1 /\ crashes < MaxCrashes
      /\ pc' = [q \in Requests |-> IF pc[q] \in Live THEN "done" ELSE pc[q]]
      /\ req' = [q \in Requests |-> Blank]
      /\ task' = [c \in Calls |-> "idle"] /\ slot' = None /\ claim' = None
      /\ UNCHANGED <<row, answers, asked, asker, reply, parks>>
  BY DEF Crash, Idle, store, checkpoint
<1>2. Blank \in Reqs /\ Founded(Blank) /\ DOMAIN Blank.given = {}
  BY BlankIsReq
<1>3. \A q \in Requests : pc'[q] \in {"new", "done"}
  BY <1>1 DEF TypeOK, Live
<1>4. HoldsAreTheirRequests'
  BY <1>1, <1>3 DEF HoldsAreTheirRequests, InTurn
<1>5. pc' \in [Requests -> Phases] /\ crashes' \in 0..MaxCrashes
  BY <1>1 DEF TypeOK, Phases
<1>6. TypeOK'
  BY <1>1, <1>2, <1>4, <1>5, CallsAssumption DEF TypeOK, Calls
<1>7. LiveParksAreAnswerable' /\ RecordedIsAnswerable' /\ TasksAreOfTheTurn'
  BY <1>1 DEF LiveParksAreAnswerable, RecordedIsAnswerable, TasksAreOfTheTurn, Client, Calls
<1>8. NothingParkedUnderTheModel' /\ DecidersHoldTheClaim' /\ AbandonedIsUnanswered'
  BY <1>3 DEF NothingParkedUnderTheModel, DecidersHoldTheClaim, AbandonedIsUnanswered
<1>9. RequestsAreFounded'
  BY <1>1, <1>2 DEF RequestsAreFounded
<1> QED BY <1>6, <1>7, <1>8, <1>9

LEMMA CallsInitInv == Init => CallsInv
<1> SUFFICES ASSUME Init PROVE CallsInv
  OBVIOUS
<1> USE CallsAssumption DEF Init
<1>1. Blank \in Reqs /\ Founded(Blank) /\ DOMAIN Blank.given = {}
  BY BlankIsReq
<1>2. HoldsAreTheirRequests
  BY DEF HoldsAreTheirRequests, InTurn
<1>3. TypeOK
  BY <1>1, <1>2 DEF TypeOK, RowStates, Phases, Calls
<1>4. LiveParksAreAnswerable /\ TasksAreOfTheTurn /\ RecordedIsAnswerable
  BY DEF LiveParksAreAnswerable, TasksAreOfTheTurn, RecordedIsAnswerable, Client, Calls
<1>5. NothingParkedUnderTheModel /\ DecidersHoldTheClaim /\ AbandonedIsUnanswered
  BY DEF NothingParkedUnderTheModel, DecidersHoldTheClaim, AbandonedIsUnanswered
<1>6. RequestsAreFounded
  BY <1>1 DEF RequestsAreFounded
<1> QED BY <1>3, <1>4, <1>5, <1>6 DEF CallsInv

LEMMA CallsStepInv == CallsInv /\ [Next]_vars => CallsInv'
<1> SUFFICES ASSUME CallsInv, [Next]_vars PROVE CallsInv'
  OBVIOUS
<1>1. ASSUME NEW q \in Requests,
             \/ Arrive(q) \/ Read(q) \/ Answer(q) \/ Decide(q) \/ Fail(q)
             \/ Begin(q) \/ Close(q) \/ VoidAbandoned(q)
             \/ ModelAsks(q) \/ ModelEnds(q) \/ StepEnds(q)
             \/ \E c \in ClientCalls : Stub(q, c) \/ Interrupt(q, c)
             \/ \E c \in GatedCalls : ServerTool(q, c)
             \/ \E c \in Calls : Die(q, c)
             \/ Abort(q) \/ Unwound(q) \/ Settle(q) \/ Release(q)
      PROVE  CallsInv'
  BY <1>1, ArriveInv, ReadInv, AnswerInv, DecideInv, RefuseInv, BeginInv, CloseInv,
     VoidAbandonedInv, ModelAsksInv, TurnGoesOnInv, StepEndsInv, StubInv, InterruptInv,
     ServerToolInv, DieInv
<1>2. ASSUME NEW c \in ClientCalls, Expire(c) \/ Prune(c)
      PROVE  CallsInv'
  BY <1>2, RecordAgesInv
<1>3. CASE UNCHANGED vars
  <2>1. UNCHANGED <<row, answers, asked, asker, reply, parks, task, slot, claim, pc, req, crashes>>
    BY <1>3 DEF vars, store, checkpoint
  <2>2. TypeOK' /\ LiveParksAreAnswerable'
    BY <2>1 DEF CallsInv, TypeOK, HoldsAreTheirRequests, LiveParksAreAnswerable
  <2> QED
    BY <2>1, <2>2 DEF CallsInv, TasksAreOfTheTurn, RecordedIsAnswerable,
       NothingParkedUnderTheModel, DecidersHoldTheClaim, RequestsAreFounded, AbandonedIsUnanswered
<1> QED BY <1>1, <1>2, <1>3, CrashInv DEF Next

LEMMA CallsInvariant == Spec => []CallsInv
BY CallsInitInv, CallsStepInv, PTL DEF Spec

-----------------------------------------------------------------------------
(***************************************************************************)
(* One turn at a time, no hold outlives its request, and what is parked or *)
(* running belongs to the latest assistant message, for any number of      *)
(* calls, requests and crashes (agui-handler.ts, takeResumeClaim, begin    *)
(* and releaseExecutionClaims).                                            *)
(***************************************************************************)
THEOREM CallsTypeOK == Spec => []TypeOK
<1>1. CallsInv => TypeOK
  BY DEF CallsInv
<1> QED BY <1>1, CallsInvariant, PTL

(***************************************************************************)
(* A client call that is still parked is never voided, by no interleaving  *)
(* of cancels, settles, abandons and crashes (agui-handler.ts,             *)
(* voidSettledClientToolCalls; client-tool-calls.ts, voidOutstanding).     *)
(***************************************************************************)
THEOREM CallsAnswerable == Spec => []LiveParksAreAnswerable
<1>1. CallsInv => LiveParksAreAnswerable
  BY DEF CallsInv
<1> QED BY <1>1, CallsInvariant, PTL

\* Only these steps take parks down.
LEMMA ParksKept ==
  ASSUME CallsInv, [Next]_vars,
         \A q \in Requests : ~(Begin(q) \/ Close(q) \/ VoidAbandoned(q) \/ ModelAsks(q) \/ StepEnds(q))
  PROVE  parks \subseteq parks'
<1>1. CASE UNCHANGED vars
  BY <1>1 DEF vars, checkpoint
<1>2. CASE Crash
  BY <1>2 DEF Crash, checkpoint
<1>3. ASSUME NEW c \in ClientCalls, Expire(c) \/ Prune(c)
      PROVE  parks \subseteq parks'
  BY <1>3 DEF Expire, Prune, checkpoint
<1>4. ASSUME NEW q \in Requests,
             \/ Arrive(q) \/ Read(q) \/ Answer(q) \/ Decide(q) \/ Fail(q)
             \/ ModelEnds(q) \/ Abort(q) \/ Unwound(q) \/ Settle(q) \/ Release(q)
      PROVE  parks \subseteq parks'
  BY <1>4 DEF Arrive, Read, Answer, Decide, Fail, Refuse, ModelEnds, Abort, Unwound, Settle, Release,
              checkpoint
<1>5. ASSUME NEW q \in Requests,
             \/ \E c \in ClientCalls : Stub(q, c) \/ Interrupt(q, c)
             \/ \E c \in GatedCalls : ServerTool(q, c)
             \/ \E c \in Calls : Die(q, c)
      PROVE  parks \subseteq parks'
  BY <1>5 DEF Stub, Interrupt, ServerTool, Die, checkpoint
<1> QED BY <1>1, <1>2, <1>3, <1>4, <1>5 DEF Next

\* They have a tool message for the call.
LEMMA ParksStep ==
  ASSUME CallsInv, [Next]_vars, NEW c \in Client(parks), c \notin parks'
  PROVE  reply'[c] # None
<1>0. c \in ClientCalls /\ c \in Calls /\ c \in parks /\ c \in asked
  BY DEF Client, Calls, CallsInv, TypeOK
<1>1. PICK q \in Requests : Begin(q) \/ Close(q) \/ VoidAbandoned(q) \/ ModelAsks(q) \/ StepEnds(q)
  BY <1>0, ParksKept
<1>2. CASE Begin(q)
  <2>1. StartOver(q) /\ req[q].plan = "none" /\ (Client(req[q].seen) # {} \/ Client(parks) = {})
    BY <1>0, <1>2 DEF Begin, Refuse, Reenter, checkpoint
  <2> QED BY <2>1 DEF CallsInv, RequestsAreFounded, Founded
<1>3. CASE Close(q)
  <2>1. /\ DOMAIN req[q].given = Unresolved
        /\ reply' = [d \in Calls |-> IF d \in Unresolved THEN req[q].given[d] ELSE reply[d]]
    BY <1>0, <1>3 DEF Close, Refuse, checkpoint
  <2>2. \A d \in Unresolved : req[q].given[d] \in Results
    BY <2>1, ReqFields, PartialMapFacts DEF CallsInv, TypeOK
  <2> QED BY <1>0, <2>1, <2>2, CallsAssumption DEF Unresolved, Results
<1>4. CASE VoidAbandoned(q) \/ ModelAsks(q)
  BY <1>0, <1>4 DEF VoidAbandoned, ModelAsks, CallsInv, NothingParkedUnderTheModel
<1>5. CASE StepEnds(q)
  BY <1>0, <1>5 DEF StepEnds, Unresolved
<1> QED BY <1>1, <1>2, <1>3, <1>4, <1>5

(***************************************************************************)
(* A park of a client call is taken down only by a step that leaves a tool *)
(* message for the call, whatever another request does between a request's *)
(* look at the parks and its turn (agui-handler.ts, the look again after   *)
(* runRegistry.begin; client-tool-abandon.ts).                             *)
(***************************************************************************)
THEOREM CallsParksEndAnswered == Spec => ParksEndAnswered
<1>1. CallsInv /\ [Next]_vars => (\A c \in Client(parks) : c \notin parks' => reply'[c] # None)
  BY ParksStep
<1> QED BY <1>1, CallsInvariant, PTL DEF Spec, ParksEndAnswered

\* A closed record stays as it is, or is swept.
LEMMA RecordStep ==
  ASSUME CallsInv, [Next]_vars, NEW c \in ClientCalls, row[c] \in {"answered", "voided"}
  PROVE  \/ row'[c] = row[c] /\ answers'[c] = answers[c]
         \/ row'[c] = "none" /\ answers'[c] = None
<1>0. /\ row \in [ClientCalls -> RowStates] /\ answers \in [ClientCalls -> Requests \cup {None}]
      /\ row[c] \notin Open
  BY DEF CallsInv, TypeOK, Open
<1>1. CASE UNCHANGED vars \/ Crash
  BY <1>1 DEF vars, store, Crash
<1>2. ASSUME NEW d \in ClientCalls, Expire(d) \/ Prune(d)
      PROVE  \/ row'[c] = row[c] /\ answers'[c] = answers[c]
             \/ row'[c] = "none" /\ answers'[c] = None
  BY <1>0, <1>2 DEF Expire, Prune
<1>3. ASSUME NEW q \in Requests,
             \/ Arrive(q) \/ Read(q) \/ Decide(q) \/ Fail(q) \/ Begin(q) \/ Close(q) \/ Release(q)
             \/ ModelAsks(q) \/ ModelEnds(q) \/ StepEnds(q) \/ Abort(q) \/ Unwound(q)
             \/ \E d \in ClientCalls : Interrupt(q, d)
             \/ \E d \in GatedCalls : ServerTool(q, d)
             \/ \E d \in Calls : Die(q, d)
      PROVE  UNCHANGED store
  BY <1>3 DEF Arrive, Read, Decide, Fail, Begin, Close, Release, Refuse, ModelAsks, ModelEnds, StepEnds,
              Abort, Unwound, Interrupt, ServerTool, Die
<1>4. ASSUME NEW q \in Requests, Settle(q) \/ VoidAbandoned(q)
      PROVE  row'[c] = row[c] /\ answers'[c] = answers[c]
  BY <1>4, VoidFacts DEF Settle, VoidAbandoned
<1>5. ASSUME NEW q \in Requests, Answer(q)
      PROVE  row'[c] = row[c] /\ answers'[c] = answers[c]
  BY <1>0, <1>5 DEF Answer
<1>6. ASSUME NEW q \in Requests, NEW d \in ClientCalls, Stub(q, d)
      PROVE  row'[c] = row[c] /\ answers'[c] = answers[c]
  BY <1>0, <1>6 DEF Stub, Reply
<1> QED BY <1>1, <1>2, <1>3, <1>4, <1>5, <1>6 DEF Next, store

\* A call is closed as abandoned only while its record is not answered.
LEMMA ReplyStep ==
  ASSUME CallsInv, [Next]_vars, NEW c \in ClientCalls, reply'[c] = "abandoned", reply[c] = None
  PROVE  row[c] # "answered"
<1>0. c \in Calls /\ reply \in [Calls -> Results \cup {None, "other"}] /\ reply' # reply
  BY CallsAssumption DEF Calls, CallsInv, TypeOK
<1>1. ~(UNCHANGED vars) /\ ~Crash
  BY <1>0 DEF vars, checkpoint, Crash
<1>2. ASSUME NEW d \in ClientCalls PROVE ~Expire(d) /\ ~Prune(d)
  BY <1>0 DEF Expire, Prune, checkpoint
<1>3. ASSUME NEW q \in Requests
      PROVE  ~(\/ Arrive(q) \/ Read(q) \/ Answer(q) \/ Decide(q) \/ Fail(q) \/ Begin(q) \/ Release(q)
               \/ ModelEnds(q) \/ StepEnds(q) \/ Abort(q) \/ Unwound(q) \/ Settle(q)
               \/ VoidAbandoned(q) \/ \E d \in Calls : Die(q, d))
  BY <1>0 DEF Arrive, Read, Answer, Decide, Fail, Begin, Release, Refuse, ModelEnds, StepEnds, Abort,
              Unwound, Settle, VoidAbandoned, StartOver, Reenter, Die, checkpoint
<1>4. ASSUME NEW q \in Requests, Close(q)
      PROVE  row[c] # "answered"
  <2>1. /\ DOMAIN req[q].given = Unresolved /\ pc[q] = "close"
        /\ reply' = [d \in Calls |-> IF d \in Unresolved THEN req[q].given[d] ELSE reply[d]]
    BY <1>0, <1>4 DEF Close, Refuse, checkpoint
  <2>2. c \in Unresolved /\ req[q].given[c] = "abandoned"
    BY <1>0, <2>1, CallsAssumption
  <2> QED BY <2>1, <2>2 DEF CallsInv, AbandonedIsUnanswered
<1>5. ASSUME NEW q \in Requests, ModelAsks(q)
      PROVE  FALSE
  BY <1>0, <1>5, CallsAssumption DEF ModelAsks
<1>6. ASSUME NEW q \in Requests,
             \/ \E d \in ClientCalls : Stub(q, d)
             \/ \E d \in GatedCalls : ServerTool(q, d)
      PROVE  FALSE
  BY <1>0, <1>6, CallsAssumption DEF Stub, ServerTool, Reply
<1>7. ASSUME NEW q \in Requests, NEW d \in ClientCalls, Interrupt(q, d)
      PROVE  FALSE
  <2>1. Resumed(q, d) /\ reply' = [reply EXCEPT ![d] = req[q].given[d]]
    BY <1>0, <1>7 DEF Interrupt, Reply
  <2>2. req[q].given[d] \in Requests
    BY <2>1, ResumedIsGiven
  <2> QED BY <1>0, <2>1, <2>2, CallsAssumption
<1> QED BY <1>1, <1>2, <1>3, <1>4, <1>5, <1>6, <1>7 DEF Next

(***************************************************************************)
(* A record is answered or voided once, and no request closes a call as    *)
(* abandoned after another stored its result: the decision and the close   *)
(* are made under the resume claim (client-tool-turn.ts,                   *)
(* resolveClientToolTurn; client-tool-abandon.ts,                          *)
(* closeAbandonedClientToolCalls).                                         *)
(***************************************************************************)
THEOREM CallsResultsAreFinal == Spec => ResultsAreFinal
<1>1. CallsInv /\ [Next]_vars =>
        \A c \in ClientCalls :
          /\ row[c] \in {"answered", "voided"} =>
               \/ row'[c] = row[c] /\ answers'[c] = answers[c]
               \/ row'[c] = "none" /\ answers'[c] = None
          /\ reply'[c] = "abandoned" /\ reply[c] = None => row[c] # "answered"
  BY RecordStep, ReplyStep
<1> QED BY <1>1, CallsInvariant, PTL DEF Spec, ResultsAreFinal
=============================================================================
