-------------------------- MODULE RequestLifetime --------------------------
(***************************************************************************)
(* What one request keeps alive, and how the handler shuts down: the       *)
(* request wrapper, disposal and close() of createRuntimeFetchHandler in   *)
(* packages/cli/src/lib/dev/runtime-fetch-core.ts, over the RunRegistry.   *)
(*                                                                         *)
(* A request's stores may be disposed only when its response body has      *)
(* settled AND every slot it holds is released: a cancelled or detached    *)
(* run outlives its response.  Each request starts at most one run, so the *)
(* runs of the registry are the requests.  The route's own execution is    *)
(* work[q]: after an abort the handler stops consuming it ("detached")     *)
(* while the route may still be unwinding.  The response is modelled as a  *)
(* stream; a plain JSON response is the case in which ClientGone does not  *)
(* happen.                                                                 *)
(***************************************************************************)
EXTENDS RunRegistry

VARIABLES stage,           \* how far the handler of a request got
          work,            \* the route execution a request started
          activeRequests,  \* state.activeRequests
          bodySettled,     \* lifetime.bodySettled
          pendingRuns,     \* lifetime.pendingRuns
          settled,         \* lifetime.settled
          disposing,       \* pendingDisposals
          disposed,        \* requests whose stores are disposed
          live,            \* liveShutdownControllers
          fired,           \* requests whose shutdown controller is aborted
          shutdown,        \* shutdownReason is set, acceptingRequests is false
          closing,         \* performClose: "open", "draining", "releasing", "closed", "failed"
          overdue,         \* the drain ended by its deadline
          admission        \* each request is bound to a shared RequestRunAdmission

bodyVars == <<activeRequests, bodySettled>>
storeVars == <<settled, disposing>>
signalVars == <<live, fired>>
closeVars == <<shutdown, closing, overdue, admission>>
lifetimeVars == <<stage, work, bodyVars, pendingRuns, storeVars, disposed, signalVars, closeVars>>
vars == <<registryVars, lifetimeVars>>

Stages == {"new", "handling", "dispatched", "running", "answered", "refused"}
Works == {"none", "executing", "detached", "done"}

\* Route work that may still call tools and write checkpoints.
Busy(q) == work[q] \in {"executing", "detached"}

\* Requests counted into activeRequests at some time.
Accepted == {q \in Runs : stage[q] \notin {"new", "refused"}}

Init ==
  /\ RegistryInit
  /\ stage = [q \in Runs |-> "new"]
  /\ work = [q \in Runs |-> "none"]
  /\ activeRequests = 0
  /\ bodySettled = {}
  /\ pendingRuns = [q \in Runs |-> 0]
  /\ settled = {}
  /\ disposing = {}
  /\ disposed = {}
  /\ live = {}
  /\ fired = {}
  /\ shutdown = FALSE
  /\ closing = "open"
  /\ overdue = FALSE
  /\ admission \in BOOLEAN

----------------------------------------------------------------------------
\* A settle that waits for the body alone, forgetting the runs that outlive it.
SettleOnBody(q, bodyDone, runs) ==
  IF q \notin settled /\ bodyDone
    THEN /\ settled' = settled \cup {q}
         /\ live' = live \ {q}
         /\ disposing' = disposing \cup {q}
    ELSE UNCHANGED <<storeVars, live>>

\* A settle that keeps the request's shutdown controller in the live set.
SettleKeepsSignal(q, bodyDone, runs) ==
  IF q \notin settled /\ bodyDone /\ runs = 0
    THEN /\ settled' = settled \cup {q}
         /\ disposing' = disposing \cup {q}
         /\ UNCHANGED live
    ELSE UNCHANGED <<storeVars, live>>

\* maybeSettle(lifetime), given the values the caller has just assigned.
maybeSettle(q, bodyDone, runs) ==
  IF q \notin settled /\ bodyDone /\ runs = 0
    THEN /\ settled' = settled \cup {q}
         /\ live' = live \ {q}
         /\ disposing' = disposing \cup {q}
    ELSE UNCHANGED <<storeVars, live>>

\* A body whose consumer's cancel and whose end both report that it settled.
EndBodyTwice(q) ==
  /\ q \notin settled
  /\ activeRequests' = activeRequests - 1
  /\ bodySettled' = bodySettled \cup {q}
  /\ maybeSettle(q, TRUE, pendingRuns[q])

\* The response of q ended: activeRequests--, then settleBody, once per body.
endBody(q) ==
  /\ q \notin bodySettled
  /\ activeRequests' = activeRequests - 1
  /\ bodySettled' = bodySettled \cup {q}
  /\ maybeSettle(q, TRUE, pendingRuns[q])

----------------------------------------------------------------------------
\* serveRoutes admits a request and installs its lifetime.
Accept(q) ==
  /\ stage[q] = "new"
  /\ ~shutdown
  /\ stage' = [stage EXCEPT ![q] = "handling"]
  /\ activeRequests' = activeRequests + 1
  /\ UNCHANGED <<registryVars, work, bodySettled, pendingRuns, storeVars, disposed,
                 signalVars, closeVars>>

\* 503 "Server is shutting down".
Refuse(q) ==
  /\ stage[q] = "new"
  /\ shutdown
  /\ stage' = [stage EXCEPT ![q] = "refused"]
  /\ UNCHANGED <<registryVars, work, bodyVars, pendingRuns, storeVars, disposed,
                 signalVars, closeVars>>

\* A controller that is registered as live even when the handler is closing.
DispatchLate(q) ==
  /\ stage[q] = "handling"
  /\ stage' = [stage EXCEPT ![q] = "dispatched"]
  /\ live' = live \cup {q}
  /\ UNCHANGED <<registryVars, work, bodyVars, pendingRuns, storeVars, disposed, fired,
                 closeVars>>

\* The route table calls a run handler with getShutdownSignal(request): a
\* controller that is aborted at once when the handler is already closing.
Dispatch(q) ==
  /\ stage[q] = "handling"
  /\ stage' = [stage EXCEPT ![q] = "dispatched"]
  /\ IF shutdown
       THEN fired' = fired \cup {q} /\ UNCHANGED live
       ELSE live' = live \cup {q} /\ UNCHANGED fired
  /\ UNCHANGED <<registryVars, work, bodyVars, pendingRuns, storeVars, disposed, closeVars>>

\* The lease a request acquired from the shared admission is lost: its
\* "abort" listener aborts the request's controller, which stays in the live set.
LeaseLost(q) ==
  /\ admission
  /\ stage[q] \in {"dispatched", "running"}
  /\ q \notin settled \cup fired
  /\ fired' = fired \cup {q}
  /\ onShutdown({q})
  /\ UNCHANGED <<stage, work, bodyVars, pendingRuns, storeVars, disposed, live, closeVars>>

\* A response that took no slot: a read, a refusal, a 409 run_in_flight.
Answer(q) ==
  /\ stage[q] \in {"handling", "dispatched"}
  /\ stage' = [stage EXCEPT ![q] = "answered"]
  /\ endBody(q)
  /\ UNCHANGED <<registryVars, work, pendingRuns, disposed, fired, closeVars>>

\* getRunRegistry(request).begin: claim the slot, count it, start the route.
BeginRun(q, t) ==
  /\ stage[q] = "dispatched"
  /\ begin(q, t, q \in fired)
  /\ stage' = [stage EXCEPT ![q] = "running"]
  /\ work' = [work EXCEPT ![q] = "executing"]
  /\ pendingRuns' = [pendingRuns EXCEPT ![q] = @ + 1]
  /\ UNCHANGED <<bodyVars, storeVars, disposed, signalVars, closeVars>>

\* The wrapper's release: the handle's, then, the first time only, one
\* decrement and maybeSettle.
releaseRun(q) ==
  /\ release(q)
  /\ IF q \in released
       THEN UNCHANGED <<pendingRuns, storeVars, live>>
       ELSE /\ pendingRuns' = [pendingRuns EXCEPT ![q] = @ - 1]
            /\ maybeSettle(q, q \in bodySettled, pendingRuns[q] - 1)
  /\ UNCHANGED <<stage, work, bodyVars, disposed, fired, closeVars>>

\* The route ran to its end and the handler's loop drained.
RouteDone(q) ==
  /\ work[q] = "executing"
  /\ work' = [work EXCEPT ![q] = "done"]
  /\ UNCHANGED <<registryVars, stage, bodyVars, pendingRuns, storeVars, disposed,
                 signalVars, closeVars>>

\* abortableAsyncIterable: the abort wins the race against the route's next chunk.
Detach(q) ==
  /\ work[q] = "executing"
  /\ q \in aborted
  /\ work' = [work EXCEPT ![q] = "detached"]
  /\ UNCHANGED <<registryVars, stage, bodyVars, pendingRuns, storeVars, disposed,
                 signalVars, closeVars>>

\* sourceCleanup resolves: the detached route has genuinely unwound.
Unwind(q) ==
  /\ work[q] = "detached"
  /\ work' = [work EXCEPT ![q] = "done"]
  /\ UNCHANGED <<registryVars, stage, bodyVars, pendingRuns, storeVars, disposed,
                 signalVars, closeVars>>

\* A finally that frees the slot whether or not the route has unwound.
ReleaseAtOnce(q) ==
  /\ work[q] \in {"done", "detached"}
  /\ q \notin released
  /\ releaseRun(q)

\* A finally that skips the release of a run whose controller was aborted.
ReleaseUnlessAborted(q) ==
  /\ work[q] = "done"
  /\ q \notin released \cup aborted
  /\ releaseRun(q)

\* The handler's finally: a cancelled run, and every run under a shared
\* admission, waits for its route to unwind; a run that only the shutdown
\* aborted frees its slot at once.
FinishRun(q) ==
  /\ \/ work[q] = "done"
     \/ work[q] = "detached" /\ q \notin cancelled /\ ~admission
  /\ q \notin released
  /\ releaseRun(q)

\* A cleanup path reaches a finally that released already.
ReleaseAgain(q) == q \in released /\ releaseRun(q)

\* The response ends once the handler stopped consuming the route.
CloseBody(q) ==
  /\ stage[q] = "running"
  /\ work[q] # "executing"
  /\ endBody(q)
  /\ UNCHANGED <<registryVars, stage, work, pendingRuns, disposed, fired, closeVars>>

\* trackStreamSettled: the client drops the stream, the body settles, the run goes on.
ClientGone(q) ==
  /\ stage[q] = "running"
  /\ endBody(q)
  /\ UNCHANGED <<registryVars, stage, work, pendingRuns, disposed, fired, closeVars>>

\* releaseRequestRun and dispose() have both finished; failures are swallowed.
Dispose(q) ==
  /\ q \in disposing
  /\ disposing' = disposing \ {q}
  /\ disposed' = disposed \cup {q}
  /\ UNCHANGED <<registryVars, stage, work, bodyVars, pendingRuns, settled, signalVars,
                 closeVars>>

\* POST /threads/:id/cancel: bind, authorize for a while, then cancel.
ClaimRun(c, t) == bindClaim(c, t) /\ UNCHANGED lifetimeVars
CancelRun(c) == cancelClaim(c) /\ UNCHANGED lifetimeVars

----------------------------------------------------------------------------
\* performClose: refuse new requests and abort every live request's signal.
CloseBegin ==
  /\ closing \in {"open", "failed"}
  /\ closing' = "draining"
  /\ shutdown' = TRUE
  /\ onShutdown(live)
  /\ fired' = fired \cup live
  /\ live' = {}
  /\ UNCHANGED <<stage, work, bodyVars, pendingRuns, storeVars, disposed, overdue, admission>>

\* A drain that counts responses only, not the slots of detached runs.
DrainedOnResponses ==
  /\ closing = "draining"
  /\ activeRequests = 0
  /\ closing' = "releasing"
  /\ UNCHANGED <<registryVars, stage, work, bodyVars, pendingRuns, storeVars, disposed,
                 signalVars, shutdown, overdue, admission>>

\* No response in production, no slot held, no disposal running.
Drained ==
  /\ closing = "draining"
  /\ activeRequests = 0
  /\ activeCount = 0
  /\ disposing = {}
  /\ closing' = "releasing"
  /\ UNCHANGED <<registryVars, stage, work, bodyVars, pendingRuns, storeVars, disposed,
                 signalVars, shutdown, overdue, admission>>

\* drainDeadlineMs passed: proceed with whatever is left.
DrainDeadline ==
  /\ closing = "draining"
  /\ closing' = "releasing"
  /\ overdue' = TRUE
  /\ UNCHANGED <<registryVars, stage, work, bodyVars, pendingRuns, storeVars, disposed,
                 signalVars, shutdown, admission>>

\* sandboxManager.releaseAll throws while a route that uses a sandbox retains
\* it; then close() rejects and may be called again.
ReleaseSandboxes ==
  /\ closing = "releasing"
  /\ \/ closing' = "closed"
     \/ (\E q \in Runs : Busy(q)) /\ closing' = "failed"
  /\ UNCHANGED <<registryVars, stage, work, bodyVars, pendingRuns, storeVars, disposed,
                 signalVars, shutdown, overdue, admission>>

Next ==
  \/ \E q \in Runs :
        \/ Accept(q) \/ Refuse(q) \/ Dispatch(q) \/ LeaseLost(q) \/ Answer(q)
        \/ \E t \in Threads : BeginRun(q, t)
        \/ RouteDone(q) \/ Detach(q) \/ Unwind(q) \/ FinishRun(q) \/ ReleaseAgain(q)
        \/ CloseBody(q) \/ ClientGone(q) \/ Dispose(q)
  \/ \E c \in Cancels : CancelRun(c) \/ \E t \in Threads : ClaimRun(c, t)
  \/ CloseBegin \/ Drained \/ DrainDeadline \/ ReleaseSandboxes

\* The handler's own continuations run; routes, clients and close() may not.
Fairness ==
  \A q \in Runs : WF_vars(FinishRun(q)) /\ WF_vars(Dispose(q))

Spec == Init /\ [][Next]_vars /\ Fairness

----------------------------------------------------------------------------
TypeOK ==
  /\ RegistryTypeOK
  /\ stage \in [Runs -> Stages]
  /\ work \in [Runs -> Works]
  /\ activeRequests \in Nat
  /\ pendingRuns \in [Runs -> 0..1]
  /\ bodySettled \subseteq Runs /\ settled \subseteq Runs
  /\ disposing \subseteq Runs /\ disposed \subseteq Runs
  /\ live \subseteq Runs /\ fired \subseteq Runs
  /\ shutdown \in BOOLEAN /\ overdue \in BOOLEAN /\ admission \in BOOLEAN
  /\ closing \in {"open", "draining", "releasing", "closed", "failed"}

(***************************************************************************)
(* Response lifetime is not run lifetime: the stores of a request are not  *)
(* torn down while its route may still write through them.  The one        *)
(* exception the code makes is a run that only the shutdown aborted, in a  *)
(* process without a shared admission: its slot is freed while the route   *)
(* unwinds.                                                                *)
(***************************************************************************)
StoresOutliveRouteWork ==
  \A q \in settled : Busy(q) => shutdown /\ ~admission /\ q \in aborted \ cancelled

(***************************************************************************)
(* close() stops every run: once the shutdown has begun, no run holds a    *)
(* slot with a signal that will never fire, not even one whose request     *)
(* slipped past the accepting gate before and began its run afterwards.    *)
(***************************************************************************)
ShutdownReachesEveryRun == shutdown => Held \subseteq aborted

LiveSignalsAreBounded ==
  /\ live \cap settled = {}
  /\ listening \cap released = {}
  /\ shutdown => live = {}

ActiveRequestsCountsOpenBodies == activeRequests = Cardinality(Accepted \ bodySettled)

(***************************************************************************)
(* A request that settles leaves nothing behind: not its controller in the *)
(* set the shutdown fires, nor its run's listener on that signal, nor a    *)
(* count in what close() drains on, however its body ended (a body that is *)
(* cancelled by its consumer and also ends is counted down once).          *)
(***************************************************************************)
SettledRequestsLeaveNothing == LiveSignalsAreBounded /\ ActiveRequestsCountsOpenBodies

(***************************************************************************)
(* "close() returned" means what it says: unless the deadline cut the      *)
(* drain short, no request is open, no slot is held, every store a request *)
(* brought is disposed, and no cancelled run is still unwinding.           *)
(***************************************************************************)
ClosedMeansDrained ==
  closing = "closed" /\ ~overdue =>
    /\ Held = {}
    /\ Accepted \subseteq disposed
    /\ \A q \in cancelled : ~Busy(q)

(***************************************************************************)
(* Every request whose route work and body are over has its stores         *)
(* disposed: a run that outlived its response, a cancel or the shutdown    *)
(* never leaks the pool its request opened.                                *)
(***************************************************************************)
StoresEventuallyDisposed ==
  \A q \in Runs : work[q] = "done" /\ q \in bodySettled ~> q \in disposed

(***************************************************************************)
(* What the registry's contract says of activeCount: a slot is held for as *)
(* long as route work may still be executing, so a drain that was not cut  *)
(* short leaves no route behind when close() goes on to the sandboxes      *)
(* (run-registry.ts:60-67).                                                *)
(***************************************************************************)
DrainCoversRouteWork ==
  closing = "releasing" /\ ~overdue => \A q \in Runs : ~Busy(q)
=============================================================================
