----------------------- MODULE RequestLifetimeProofs -----------------------
(***************************************************************************)
(* Proofs about RunRegistry and RequestLifetime for any set of threads,    *)
(* requests and cancels.  The lifetime's steps are registry steps, so what *)
(* is shown of the registry carries over; LifetimeInv adds what relates a  *)
(* request's stage, slot, body, stores and signal, and is inductive.       *)
(***************************************************************************)
EXTENDS RequestLifetime, FiniteSetTheorems, TLAPS

-----------------------------------------------------------------------------
(***************************************************************************)
(* The registry.  RegistryInv is inductive: SlotIsTheHeldRun alone is not, *)
(* because a release must know that the handle it frees was begun; that a  *)
(* claim names a handle that was begun is what cancelClaim's map lookup    *)
(* relies on.                                                              *)
(***************************************************************************)
ClaimsAreBegun == \A c \in Cancels : claim[c] # None => claim[c] \in Begun

RegistryInv ==
  /\ RegistryTypeOK
  /\ released \subseteq Begun
  /\ cancelled \subseteq aborted
  /\ ClaimsAreBegun
  /\ SlotIsTheHeldRun
  /\ HeldRunsHearShutdown

\* The empty registry satisfies the invariant.
LEMMA RegistryInitInv == RegistryInit => RegistryInv
  BY RegistryAssumption
  DEF RegistryInit, RegistryInv, ClaimsAreBegun, RegistryTypeOK, SlotIsTheHeldRun, HeldRunsHearShutdown,
      Held, Begun, has

\* Every registry operation preserves the invariant.
LEMMA RegistryStepInv == RegistryInv /\ [RegistryNext]_registryVars => RegistryInv'
<1> SUFFICES ASSUME RegistryInv, [RegistryNext]_registryVars
             PROVE  RegistryInv'
  OBVIOUS
<1> USE RegistryAssumption DEF RegistryInv, RegistryTypeOK, SlotIsTheHeldRun,
        HeldRunsHearShutdown, ClaimsAreBegun, Held, Begun, has
<1>1. ASSUME NEW r \in Runs, NEW t \in Threads, NEW b \in BOOLEAN, begin(r, t, b)
      PROVE  RegistryInv'
  <2>1. RegistryTypeOK'
    BY <1>1 DEF begin
  <2>2. runThread' = [runThread EXCEPT ![r] = t] /\ entries' = [entries EXCEPT ![t] = r]
        /\ released' = released /\ r \notin released
    BY <1>1 DEF begin
  <2>3. SlotIsTheHeldRun'
    BY <2>2, <1>1 DEF begin
  <2>4. HeldRunsHearShutdown' /\ (released \subseteq Begun)' /\ (cancelled \subseteq aborted)' /\ ClaimsAreBegun'
    BY <2>2, <1>1 DEF begin
  <2> QED BY <2>1, <2>3, <2>4
<1>2. ASSUME NEW r \in Runs, release(r)
      PROVE  RegistryInv'
  <2>1. CASE r \in released
    BY <2>1, <1>2 DEF release
  <2>2. CASE r \notin released
    <3>1. /\ released' = released \cup {r} /\ listening' = listening \ {r}
          /\ entries[runThread[r]] = r
          /\ entries' = [entries EXCEPT ![runThread[r]] = None]
          /\ UNCHANGED <<runThread, aborted, cancelled, claim>>
      BY <2>2, <1>2 DEF release
    <3>2. RegistryTypeOK' /\ (released \subseteq Begun)' /\ (cancelled \subseteq aborted)' /\ ClaimsAreBegun'
      BY <3>1, <1>2 DEF release
    <3>3. SlotIsTheHeldRun'
      BY <3>1, <1>2 DEF release
    <3>4. HeldRunsHearShutdown'
      BY <3>1, <1>2 DEF release
    <3> QED BY <3>2, <3>3, <3>4
  <2> QED BY <2>1, <2>2
<1>3. ASSUME NEW c \in Cancels, NEW t \in Threads, bindClaim(c, t)
      PROVE  RegistryInv'
  BY <1>3 DEF bindClaim
<1>4. ASSUME NEW c \in Cancels, cancelClaim(c)
      PROVE  RegistryInv'
  BY <1>4 DEF cancelClaim
<1>5. ASSUME NEW S \in SUBSET Runs, onShutdown(S)
      PROVE  RegistryInv'
  BY <1>5 DEF onShutdown
<1>6. CASE UNCHANGED registryVars
  BY <1>6 DEF registryVars
<1> QED
  BY <1>1, <1>2, <1>3, <1>4, <1>5, <1>6 DEF RegistryNext

\* A cancel that takes effect hits a held run that its request bound to.
LEMMA RegistryStepCancel ==
  ASSUME RegistryInv, [RegistryNext]_registryVars, NEW r \in cancelled' \ cancelled
  PROVE  r \in Held /\ \E c \in Cancels : claim[c] = r
<1>1. PICK c \in Cancels : cancelClaim(c)
  BY DEF RegistryNext, registryVars, begin, release, bindClaim, onShutdown
<1>2. r = claim[c] /\ r \in Runs
  BY <1>1 DEF cancelClaim, RegistryInv, RegistryTypeOK
<1>3. entries[runThread[r]] = r
  BY <1>1, <1>2 DEF cancelClaim
<1>4. runThread[r] \in Threads
  BY <1>1, <1>2 DEF cancelClaim, RegistryInv, RegistryTypeOK, ClaimsAreBegun, Begun
<1> QED
  BY <1>2, <1>3, <1>4, RegistryAssumption DEF RegistryInv, SlotIsTheHeldRun, has

(***************************************************************************)
(* The slot of a thread is occupied exactly by its held run, in every      *)
(* reachable state of the registry: no begin overwrites a run, no late or  *)
(* repeated release frees a successor.                                     *)
(***************************************************************************)
THEOREM RegistrySlotInvariant == RegistrySpec => [](RegistryTypeOK /\ SlotIsTheHeldRun)
<1>1. RegistryInv => RegistryTypeOK /\ SlotIsTheHeldRun
  BY DEF RegistryInv
<1> QED
  BY <1>1, RegistryInitInv, RegistryStepInv, PTL DEF RegistrySpec

-----------------------------------------------------------------------------
(* The requests. *)

\* TypeOK without the counter, in two parts: the solvers treat Boolean variables
\* apart from sets.
Flags == shutdown \in BOOLEAN /\ overdue \in BOOLEAN /\ admission \in BOOLEAN

Shapes ==
  /\ stage \in [Runs -> Stages]
  /\ work \in [Runs -> Works]
  /\ pendingRuns \in [Runs -> 0..1]
  /\ bodySettled \subseteq Runs /\ settled \subseteq Runs
  /\ disposing \subseteq Runs /\ disposed \subseteq Runs
  /\ live \subseteq Runs /\ fired \subseteq Runs
  /\ closing \in {"open", "draining", "releasing", "closed", "failed"}

\* A request runs from the moment it is begun, and its route has started then.
RunStages ==
  \A q \in Runs : /\ q \in Begun <=> stage[q] = "running"
                  /\ q \in Begun <=> work[q] # "none"

\* pendingRuns counts the slot a request holds.
SlotsCounted == \A q \in Runs : pendingRuns[q] = IF q \in Held THEN 1 ELSE 0

\* A request that can still begin a run has an open body; an answered one has not.
BodiesFollowStages ==
  \A q \in Runs : /\ q \in bodySettled => stage[q] \in {"answered", "running"}
                  /\ stage[q] = "answered" => q \in bodySettled

\* Disposal starts exactly when body and slot are both over.
StoresFollowRuns ==
  /\ settled = {q \in bodySettled : q \notin Held}
  /\ settled = disposing \cup disposed

\* The signal of a request is live or fired until the request settles, and a
\* fired signal has aborted the run that hangs on it.
SignalsReachRuns ==
  /\ \A q \in Runs : stage[q] \in {"dispatched", "running"} /\ q \notin settled
                        => q \in live \cup fired
  /\ Held \cap fired \subseteq aborted
  /\ aborted \subseteq cancelled \cup fired
  /\ fired # {} /\ ~admission => shutdown
  /\ shutdown => live = {}
  /\ live \cap settled = {}

\* Only a run that the shutdown alone aborted is released before it unwound.
ReleasedWhileBusy ==
  \A q \in Runs :
     /\ work[q] = "detached" => q \in aborted
     /\ q \in released /\ Busy(q) => work[q] = "detached" /\ ~admission /\ q \notin cancelled

\* What the drain waited for stays true.
DrainStands ==
  /\ closing # "open" => shutdown
  /\ closing \in {"releasing", "closed", "failed"} /\ ~overdue
       => Held = {} /\ Accepted \subseteq disposed

\* The counters close() waits for are cardinalities of finite sets.
CountsAreFinite ==
  /\ IsFiniteSet(Accepted)
  /\ IsFiniteSet({t \in Threads : has(t)})
  /\ ActiveRequestsCountsOpenBodies

LifetimeInv ==
  /\ RegistryInv /\ Shapes /\ Flags
  /\ RunStages /\ SlotsCounted /\ BodiesFollowStages /\ StoresFollowRuns
  /\ SignalsReachRuns /\ ReleasedWhileBusy /\ DrainStands /\ CountsAreFinite

----------------------------------------------------------------------------
\* Every step of the handler is a step of the registry or leaves it alone.
LEMMA StepIsRegistryStep ==
  ASSUME Shapes, [Next]_vars
  PROVE  [RegistryNext]_registryVars
<1>1. ASSUME NEW q \in Runs, Accept(q) \/ Refuse(q) \/ Dispatch(q) \/ Answer(q) \/ RouteDone(q)
                              \/ Detach(q) \/ Unwind(q) \/ CloseBody(q) \/ ClientGone(q)
                              \/ Dispose(q)
      PROVE  UNCHANGED registryVars
  BY <1>1 DEF Accept, Refuse, Dispatch, Answer, RouteDone, Detach, Unwind, CloseBody,
              ClientGone, Dispose
<1>2. ASSUME NEW q \in Runs, LeaseLost(q)
      PROVE  RegistryNext
  BY <1>2 DEF LeaseLost, RegistryNext
<1>3. ASSUME NEW q \in Runs, NEW t \in Threads, BeginRun(q, t)
      PROVE  RegistryNext
  <2>1. CASE q \in fired
    <3>1. begin(q, t, TRUE)
      BY <1>3, <2>1 DEF BeginRun, begin
    <3> QED BY <3>1 DEF RegistryNext
  <2>2. CASE q \notin fired
    <3>1. begin(q, t, FALSE)
      BY <1>3, <2>2 DEF BeginRun, begin
    <3> QED BY <3>1 DEF RegistryNext
  <2> QED BY <2>1, <2>2
<1>4. ASSUME NEW q \in Runs, FinishRun(q) \/ ReleaseAgain(q)
      PROVE  RegistryNext
  BY <1>4 DEF FinishRun, ReleaseAgain, releaseRun, RegistryNext
<1>5. ASSUME NEW c \in Cancels, CancelRun(c) \/ \E t \in Threads : ClaimRun(c, t)
      PROVE  RegistryNext
  BY <1>5 DEF CancelRun, ClaimRun, RegistryNext
<1>6. CASE CloseBegin
  BY <1>6 DEF CloseBegin, RegistryNext, Shapes
<1>7. CASE Drained \/ DrainDeadline \/ ReleaseSandboxes
  BY <1>7 DEF Drained, DrainDeadline, ReleaseSandboxes
<1>8. CASE UNCHANGED vars
  BY <1>8 DEF vars
<1> QED
  BY <1>1, <1>2, <1>3, <1>4, <1>5, <1>6, <1>7, <1>8 DEF Next

\* The initial state satisfies the invariant.
LEMMA LifetimeInitInv == Init => LifetimeInv
<1> SUFFICES ASSUME Init PROVE LifetimeInv
  OBVIOUS
<1>1. RegistryInv
  BY RegistryInitInv DEF Init
<1>2. Accepted = {} /\ {t \in Threads : has(t)} = {}
  BY DEF Init, RegistryInit, Accepted, has
<1>3. CountsAreFinite
  BY <1>2, FS_EmptySet DEF Init, CountsAreFinite, ActiveRequestsCountsOpenBodies
<1>4. Shapes
  BY DEF Init, Shapes, Stages, Works
<1>5. Flags
  BY Zenon DEF Init, Flags
<1> QED
  BY <1>1, <1>2, <1>3, <1>4, <1>5, RegistryAssumption
  DEF Init, RegistryInit, LifetimeInv, RunStages, SlotsCounted, BodiesFollowStages,
      StoresFollowRuns, SignalsReachRuns, ReleasedWhileBusy, DrainStands, Begun, Held, Busy

\* Neither close() nor the flags it sets belongs to a request's own steps.
LEMMA StepFlags ==
  ASSUME Flags, [Next]_vars
  PROVE  Flags'
<1>1. \/ UNCHANGED <<shutdown, overdue, admission>>
      \/ shutdown' = TRUE /\ UNCHANGED <<overdue, admission>>
      \/ overdue' = TRUE /\ UNCHANGED <<shutdown, admission>>
  BY DEF Next, vars, lifetimeVars, closeVars, Accept, Refuse, Dispatch, LeaseLost, Answer,
         BeginRun, RouteDone, Detach, Unwind, FinishRun, ReleaseAgain, releaseRun, CloseBody,
         ClientGone, Dispose, CancelRun, ClaimRun, CloseBegin, Drained, DrainDeadline,
         ReleaseSandboxes
<1> QED
  BY <1>1, Zenon DEF Flags

\* A step accepts one request, settles the body of one, or does neither.
LEMMA CountStep ==
  ASSUME Shapes, BodiesFollowStages, [Next]_vars
  PROVE  \/ \E q \in Runs \ Accepted : /\ Accepted' = Accepted \cup {q}
                                       /\ q \notin bodySettled /\ bodySettled' = bodySettled
                                       /\ activeRequests' = activeRequests + 1
         \/ \E q \in Accepted \ bodySettled : /\ Accepted' = Accepted
                                              /\ bodySettled' = bodySettled \cup {q}
                                              /\ activeRequests' = activeRequests - 1
         \/ Accepted' = Accepted /\ UNCHANGED bodyVars
<1> USE DEF Shapes, Accepted, bodyVars, Stages, BodiesFollowStages
<1>1. ASSUME NEW q \in Runs, Accept(q)
      PROVE  /\ q \notin Accepted /\ Accepted' = Accepted \cup {q}
             /\ q \notin bodySettled /\ bodySettled' = bodySettled
             /\ activeRequests' = activeRequests + 1
  BY <1>1 DEF Accept
<1>2. ASSUME NEW q \in Runs, Answer(q) \/ CloseBody(q) \/ ClientGone(q)
      PROVE  /\ q \in Accepted \ bodySettled /\ Accepted' = Accepted
             /\ bodySettled' = bodySettled \cup {q}
             /\ activeRequests' = activeRequests - 1
  BY <1>2 DEF Answer, CloseBody, ClientGone, endBody
<1>3. ASSUME NEW q \in Runs, Refuse(q) \/ Dispatch(q) \/ LeaseLost(q) \/ RouteDone(q)
                              \/ Detach(q) \/ Unwind(q) \/ FinishRun(q) \/ ReleaseAgain(q)
                              \/ Dispose(q) \/ \E t \in Threads : BeginRun(q, t)
      PROVE  Accepted' = Accepted /\ UNCHANGED bodyVars
  BY <1>3 DEF Refuse, Dispatch, LeaseLost, RouteDone, Detach, Unwind, FinishRun, ReleaseAgain,
              releaseRun, Dispose, BeginRun
<1>4. ASSUME NEW c \in Cancels, CancelRun(c) \/ \E t \in Threads : ClaimRun(c, t)
      PROVE  Accepted' = Accepted /\ UNCHANGED bodyVars
  BY <1>4 DEF CancelRun, ClaimRun, lifetimeVars
<1>5. CASE CloseBegin \/ Drained \/ DrainDeadline \/ ReleaseSandboxes
  BY <1>5 DEF CloseBegin, Drained, DrainDeadline, ReleaseSandboxes
<1>6. CASE UNCHANGED vars
  BY <1>6 DEF vars, lifetimeVars
<1> QED
  BY <1>1, <1>2, <1>3, <1>4, <1>5, <1>6 DEF Next

\* The counter close() drains on stays the number of open bodies.
LEMMA StepCounts ==
  ASSUME LifetimeInv, [Next]_vars
  PROVE  CountsAreFinite'
<1>1. [RegistryNext]_registryVars
  BY StepIsRegistryStep DEF LifetimeInv
<1>2. IsFiniteSet({t \in Threads : has(t)})'
  <2> DEFINE taken == {t \in Threads : has(t)}
  <2>1. taken' \subseteq taken \/ \E t \in Threads : taken' \subseteq taken \cup {t}
    BY <1>1 DEF RegistryNext, registryVars, begin, release, bindClaim, cancelClaim, onShutdown,
                has, LifetimeInv, RegistryInv, RegistryTypeOK
  <2> QED
    BY <2>1, FS_AddElement, FS_Subset DEF LifetimeInv, CountsAreFinite
<1>3. IsFiniteSet(Accepted)' /\ ActiveRequestsCountsOpenBodies'
  <2> DEFINE open == Accepted \ bodySettled
  <2>1. IsFiniteSet(Accepted) /\ IsFiniteSet(open) /\ activeRequests = Cardinality(open)
    BY FS_Subset DEF LifetimeInv, CountsAreFinite, ActiveRequestsCountsOpenBodies
  <2>2. CASE \E q \in Runs \ Accepted : /\ Accepted' = Accepted \cup {q}
                                        /\ q \notin bodySettled /\ bodySettled' = bodySettled
                                        /\ activeRequests' = activeRequests + 1
    <3>1. PICK q \in Runs \ Accepted : /\ Accepted' = Accepted \cup {q}
                                       /\ q \notin bodySettled /\ bodySettled' = bodySettled
                                       /\ activeRequests' = activeRequests + 1
      BY <2>2
    <3>2. open' = open \cup {q} /\ q \notin open
      BY <3>1
    <3> QED
      BY <2>1, <3>1, <3>2, FS_AddElement DEF ActiveRequestsCountsOpenBodies
  <2>3. CASE \E q \in Accepted \ bodySettled : /\ Accepted' = Accepted
                                               /\ bodySettled' = bodySettled \cup {q}
                                               /\ activeRequests' = activeRequests - 1
    <3>1. PICK q \in Accepted \ bodySettled : /\ Accepted' = Accepted
                                              /\ bodySettled' = bodySettled \cup {q}
                                              /\ activeRequests' = activeRequests - 1
      BY <2>3
    <3>2. open' = open \ {q} /\ q \in open
      BY <3>1
    <3> QED
      BY <2>1, <3>1, <3>2, FS_RemoveElement DEF ActiveRequestsCountsOpenBodies
  <2>4. CASE Accepted' = Accepted /\ UNCHANGED bodyVars
    BY <2>1, <2>4 DEF ActiveRequestsCountsOpenBodies, bodyVars
  <2> QED
    BY <2>2, <2>3, <2>4, CountStep DEF LifetimeInv
<1> QED
  BY <1>2, <1>3 DEF CountsAreFinite

\* Every step of the handler preserves the invariant, one action at a time.
LEMMA LifetimeStepInv == LifetimeInv /\ [Next]_vars => LifetimeInv'
<1> SUFFICES ASSUME LifetimeInv, [Next]_vars
             PROVE  LifetimeInv'
  OBVIOUS
<1>0. RegistryInv' /\ Flags' /\ CountsAreFinite'
  BY StepIsRegistryStep, RegistryStepInv, StepFlags, StepCounts DEF LifetimeInv
<1> DEFINE Rest == /\ Shapes /\ RunStages /\ SlotsCounted /\ BodiesFollowStages /\ StoresFollowRuns
                   /\ SignalsReachRuns /\ ReleasedWhileBusy /\ DrainStands
<1> SUFFICES Rest'
  BY <1>0 DEF LifetimeInv
<1> USE RegistryAssumption
    DEF RegistryInv, RegistryTypeOK, LifetimeInv, Shapes, RunStages, SlotsCounted,
        BodiesFollowStages, StoresFollowRuns, SignalsReachRuns, ReleasedWhileBusy, DrainStands,
        SlotIsTheHeldRun, ClaimsAreBegun, has, Held, Begun, Busy, Accepted, Stages, Works,
        registryVars, bodyVars, storeVars, signalVars, closeVars
<1>1. ASSUME NEW q \in Runs, Accept(q)
      PROVE  Rest'
  BY <1>1, <1>0 DEF Accept
<1>2. ASSUME NEW q \in Runs, Refuse(q)
      PROVE  Rest'
  BY <1>2, <1>0 DEF Refuse
<1>3. ASSUME NEW q \in Runs, Dispatch(q)
      PROVE  Rest'
  BY <1>3, <1>0 DEF Dispatch
<1>4. ASSUME NEW q \in Runs, LeaseLost(q)
      PROVE  Rest'
  BY <1>4, <1>0 DEF LeaseLost, onShutdown, HeldRunsHearShutdown
<1>5. ASSUME NEW q \in Runs, Answer(q)
      PROVE  Rest'
  BY <1>5, <1>0 DEF Answer, endBody, maybeSettle
<1>6. ASSUME NEW q \in Runs, NEW t \in Threads, BeginRun(q, t)
      PROVE  Rest'
  BY <1>6, <1>0 DEF BeginRun, begin
<1>7. ASSUME NEW q \in Runs, RouteDone(q)
      PROVE  Rest'
  BY <1>7, <1>0 DEF RouteDone
<1>8. ASSUME NEW q \in Runs, Detach(q)
      PROVE  Rest'
  BY <1>8, <1>0 DEF Detach
<1>9. ASSUME NEW q \in Runs, Unwind(q)
      PROVE  Rest'
  BY <1>9, <1>0 DEF Unwind
<1>10. ASSUME NEW q \in Runs, FinishRun(q)
      PROVE  Rest'
  BY <1>10, <1>0 DEF FinishRun, releaseRun, release, maybeSettle
<1>11. ASSUME NEW q \in Runs, ReleaseAgain(q)
      PROVE  Rest'
  BY <1>11, <1>0 DEF ReleaseAgain, releaseRun, release, maybeSettle
<1>12. ASSUME NEW q \in Runs, CloseBody(q)
      PROVE  Rest'
  BY <1>12, <1>0 DEF CloseBody, endBody, maybeSettle
<1>13. ASSUME NEW q \in Runs, ClientGone(q)
      PROVE  Rest'
  BY <1>13, <1>0 DEF ClientGone, endBody, maybeSettle
<1>14. ASSUME NEW q \in Runs, Dispose(q)
      PROVE  Rest'
  BY <1>14, <1>0 DEF Dispose
<1>15. ASSUME NEW c \in Cancels, CancelRun(c)
      PROVE  Rest'
  BY <1>15, <1>0 DEF CancelRun, cancelClaim, lifetimeVars
<1>16. ASSUME NEW c \in Cancels, NEW t \in Threads, ClaimRun(c, t)
      PROVE  Rest'
  BY <1>16, <1>0 DEF ClaimRun, bindClaim, lifetimeVars
<1>17. ASSUME CloseBegin
      PROVE  Rest'
  BY <1>17, <1>0 DEF CloseBegin, onShutdown, HeldRunsHearShutdown
<1>18. ASSUME Drained
      PROVE  Rest'
  <2> HIDE DEF Accepted, has, RegistryInv, Shapes
  <2>1. IsFiniteSet(Accepted \ bodySettled) /\ Cardinality(Accepted \ bodySettled) = 0
    BY <1>18, FS_Subset DEF Drained, CountsAreFinite, ActiveRequestsCountsOpenBodies
  <2>2. IsFiniteSet({t \in Threads : has(t)}) /\ Cardinality({t \in Threads : has(t)}) = 0
    BY <1>18 DEF Drained, activeCount, CountsAreFinite, has
  <2>3. Accepted \ bodySettled = {} /\ {t \in Threads : has(t)} = {}
    BY <2>1, <2>2, FS_EmptySet
  <2> QED
    BY <2>3, <1>18, <1>0 DEF Drained, Accepted, has, RegistryInv, Shapes
<1>19. ASSUME DrainDeadline
      PROVE  Rest'
  BY <1>19, <1>0 DEF DrainDeadline
<1>20. ASSUME ReleaseSandboxes
      PROVE  Rest'
  BY <1>20, <1>0 DEF ReleaseSandboxes
<1>21. ASSUME UNCHANGED vars
      PROVE  Rest'
  BY <1>21, <1>0 DEF vars, lifetimeVars
<1> QED
  BY <1>1, <1>2, <1>3, <1>4, <1>5, <1>6, <1>7, <1>8, <1>9, <1>10, <1>11, <1>12, <1>13,
     <1>14, <1>15, <1>16, <1>17, <1>18, <1>19, <1>20, <1>21 DEF Next

----------------------------------------------------------------------------
\* The invariant holds in every reachable state.
LEMMA LifetimeInvariant == Spec => []LifetimeInv
  BY LifetimeInitInv, LifetimeStepInv, PTL DEF Spec

\* What the invariant says of one state.
LEMMA LifetimeInvImplies ==
  LifetimeInv => /\ TypeOK /\ SlotIsTheHeldRun /\ StoresOutliveRouteWork
                 /\ ShutdownReachesEveryRun /\ LiveSignalsAreBounded
                 /\ ActiveRequestsCountsOpenBodies /\ ClosedMeansDrained
<1> SUFFICES ASSUME LifetimeInv
             PROVE  /\ TypeOK /\ SlotIsTheHeldRun /\ StoresOutliveRouteWork
                    /\ ShutdownReachesEveryRun /\ LiveSignalsAreBounded
                    /\ ActiveRequestsCountsOpenBodies /\ ClosedMeansDrained
  OBVIOUS
<1>1. activeRequests \in Nat
  BY FS_Subset, FS_CardinalityType DEF LifetimeInv, CountsAreFinite,
     ActiveRequestsCountsOpenBodies
<1>2. TypeOK
  BY <1>1 DEF LifetimeInv, RegistryInv, Shapes, Flags, TypeOK
<1>3. StoresOutliveRouteWork
  BY DEF LifetimeInv, RunStages, StoresFollowRuns, SignalsReachRuns, ReleasedWhileBusy,
         StoresOutliveRouteWork, Held, Busy, Shapes
<1>4. ShutdownReachesEveryRun
  BY DEF LifetimeInv, RunStages, StoresFollowRuns, SignalsReachRuns, ShutdownReachesEveryRun,
         Held, Begun
<1>5. LiveSignalsAreBounded
  BY DEF LifetimeInv, RegistryInv, HeldRunsHearShutdown, SignalsReachRuns, LiveSignalsAreBounded
<1>6. ClosedMeansDrained
  BY DEF LifetimeInv, RegistryInv, RegistryTypeOK, DrainStands, ReleasedWhileBusy, RunStages,
         ClosedMeansDrained, Held, Busy
<1> QED
  BY <1>2, <1>3, <1>4, <1>5, <1>6 DEF LifetimeInv, RegistryInv, CountsAreFinite

\* Every execution of the handler is an execution of the registry.
THEOREM LifetimeImplementsRegistry == Spec => RegistrySpec
<1>1. Init => RegistryInit
  BY DEF Init
<1>2. LifetimeInv /\ [Next]_vars => [RegistryNext]_registryVars
  BY StepIsRegistryStep DEF LifetimeInv
<1> QED
  BY <1>1, <1>2, LifetimeInvariant, PTL DEF Spec, RegistrySpec

\* Type correctness, for any number of threads, requests and cancels.
THEOREM LifetimeTypeOK == Spec => []TypeOK
  BY LifetimeInvariant, LifetimeInvImplies, PTL

\* A slot is held by the one run begun for it, whatever the handlers around the
\* registry do (run-registry.ts).
THEOREM LifetimeSlots == Spec => []SlotIsTheHeldRun
  BY LifetimeInvariant, LifetimeInvImplies, PTL

\* A cancel aborts only the run its request observed, while it holds its slot.
THEOREM LifetimeCancels == Spec => CancelHitsTheObservedRun
<1>1. LifetimeInv /\ [Next]_vars
        => [\A r \in cancelled' \ cancelled :
               r \in Held /\ \E c \in Cancels : claim[c] = r]_registryVars
  BY StepIsRegistryStep, RegistryStepCancel DEF LifetimeInv
<1> QED
  BY <1>1, LifetimeInvariant, PTL DEF Spec, CancelHitsTheObservedRun

\* No store is disposed while its route may write through it, except after a
\* shutdown without a shared admission (maybeSettle and the handlers' finally).
THEOREM LifetimeStores == Spec => []StoresOutliveRouteWork
  BY LifetimeInvariant, LifetimeInvImplies, PTL

\* After performClose began no run holds a slot with an unfired signal.
THEOREM LifetimeShutdown == Spec => []ShutdownReachesEveryRun
  BY LifetimeInvariant, LifetimeInvImplies, PTL

\* No settled request stays in the live set, no released run keeps a listener,
\* and activeRequests is the number of open bodies, each counted down once.
THEOREM LifetimeSettled == Spec => []SettledRequestsLeaveNothing
  BY LifetimeInvariant, LifetimeInvImplies, PTL DEF SettledRequestsLeaveNothing

\* A close() that returned within its deadline left nothing behind that it drains on.
THEOREM LifetimeClosed == Spec => []ClosedMeansDrained
  BY LifetimeInvariant, LifetimeInvImplies, PTL
=============================================================================
