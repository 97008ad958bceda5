------------------------ MODULE ApprovalResumeProofs ------------------------
(***************************************************************************)
(* Proofs about ApprovalResume for any prompts, requests and processes.    *)
(* GateInv is the inductive invariant behind at-most-once delivery: what a *)
(* resume still has to check, what it still has to consume and what it     *)
(* consumed together cover the prompts it will answer, and a prompt id is  *)
(* never given a row twice.                                                *)
(***************************************************************************)
EXTENDS ApprovalResume, TLAPS

\* TypeOK without its Boolean-valued parts, which the solvers treat apart.
Shapes ==
  /\ GrantsTypeOK
  /\ mode \in {"optional", "required"}
  /\ parked \subseteq Prompts
  /\ at \in [Requests -> Stages]
  /\ proc \in [Requests -> Processes \cup {None}]
  /\ snap \in [Requests -> SUBSET Prompts]
  /\ todo \in [Requests -> SUBSET Prompts]
  /\ consumable \in [Requests -> SUBSET Prompts]
  /\ keep \in [Requests -> SUBSET Prompts]
  /\ cancelled \subseteq Requests
  /\ graph \in [Requests -> {"none", "live", "advanced", "done"}]
  /\ minted \in [Requests -> SUBSET Prompts]
  /\ claim \in [Processes -> Resumes \cup {None}]
  /\ slot \in [Processes -> Requests \cup {None}]
  /\ delivered \subseteq Requests \X Prompts

Flags ==
  /\ parkedRoute \in BOOLEAN
  /\ presents \in [Requests -> BOOLEAN]
  /\ prev \in [Requests -> BOOLEAN]
  /\ saw \in [Requests -> BOOLEAN]

\* Prompts whose row, if they ever get one, they got already.
Known == Legacy \cup UNION {minted[q] : q \in Requests}

\* Nothing unknown is pending or answered, only a minted prompt has a row, and
\* each is minted by one request.
RowsAreMinted ==
  /\ parked \subseteq Known
  /\ \A r \in Requests : snap[r] \subseteq Known
  /\ issued \subseteq Known \ Legacy
  /\ \A q, r \in Requests : q # r => minted[q] \cap minted[r] = {}

\* The answer of r to p is covered: its row is r's, or it has none and needs none.
Covered(r, p) == consumer[p] = r \/ (mode = "optional" /\ p \notin issued)

\* A resume past its checks covers what it has not still to check or consume.
GateCovers ==
  /\ \A r \in Requests : at[r] \in {"checking", "consuming"} =>
        \A p \in snap[r] \ (todo[r] \cup consumable[r]) : Covered(r, p)
  /\ \A r \in Requests : at[r] = "consuming" => todo[r] = {}
  /\ \A r \in Requests : at[r] \in {"new", "loaded"} =>
        snap[r] = {} /\ todo[r] = {} /\ consumable[r] = {}

\* Every answer handed to a graph stays covered.
DeliveriesCovered == \A d \in delivered : d[2] \in Known /\ Covered(d[1], d[2])

\* The settle of a turn that drained its stream read the pending prompts after
\* its graph had ended.
SettleReadsLast ==
  /\ \A r \in Requests \ cancelled :
        at[r] \in {"settling", "voiding", "clearing", "settled"} => graph[r] = "done"
  /\ \A r \in Requests \ cancelled :
        at[r] = "voiding" => parked \cap minted[r] \subseteq keep[r]

GateInv ==
  /\ Shapes /\ Flags /\ RowsAreMinted /\ GateCovers /\ DeliveriesCovered /\ SettleReadsLast

----------------------------------------------------------------------------
\* The initial states satisfy the invariant.
LEMMA GateInitInv == Init => GateInv
<1> SUFFICES ASSUME Init PROVE GateInv
  OBVIOUS
<1>1. Flags
  BY Zenon DEF Init, Flags
<1>2. Shapes
  BY ResumeAssumption DEF Init, GrantsInit, Shapes, GrantsTypeOK, Stages
<1> QED
  BY <1>1, <1>2, ResumeAssumption
  DEF Init, GrantsInit, GateInv, RowsAreMinted, GateCovers, DeliveriesCovered,
     SettleReadsLast, Known

\* The Boolean-valued variables keep their types.
LEMMA StepFlags ==
  ASSUME Flags, [Next]_vars
  PROVE  Flags'
<1> USE ResumeAssumption DEF Flags, threadVars, gateVars, turnVars, giveUp
<1>1. ASSUME NEW r \in Requests, NEW p \in Prompts,
             CheckEntry(r, p) \/ RefuseEntry(r, p) \/ ConsumeEntry(r, p) \/ Mint(r, p) \/ Park(r, p)
      PROVE  Flags'
  BY <1>1 DEF CheckEntry, checked, RefuseEntry, ConsumeEntry, Mint, Park
<1>2. ASSUME NEW r \in Requests, NEW c \in Processes, Snapshot(r, c) \/ LoadThread(r, c)
      PROVE  Flags'
  BY <1>2 DEF Snapshot, LoadThread
<1>3. ASSUME NEW r \in Requests, BeginRun(r) \/ SlotBusy(r) \/ Advance(r) \/ GraphEnds(r) \/ Cancel(r)
      PROVE  Flags'
  BY <1>3 DEF BeginRun, SlotBusy, Advance, GraphEnds, Cancel
<1>4. ASSUME NEW r \in Requests, SettleRead(r) \/ SettleVoid(r) \/ SettleClear(r) \/ Release(r)
      PROVE  Flags'
  BY <1>4 DEF SettleRead, SettleVoid, SettleClear, Release
<1>5. ASSUME NEW c \in Processes, Crash(c)
      PROVE  Flags'
  BY <1>5 DEF Crash
<1>6. CASE UNCHANGED vars
  BY <1>6 DEF vars
<1> QED
  BY <1>1, <1>2, <1>3, <1>4, <1>5, <1>6 DEF Next, Turns

\* Every step preserves the invariant, one action at a time.
LEMMA GateStepInv == GateInv /\ [Next]_vars => GateInv'
<1> SUFFICES ASSUME GateInv, [Next]_vars
             PROVE  GateInv'
  OBVIOUS
<1>0. Flags'
  BY StepFlags DEF GateInv
<1> DEFINE Rest == /\ Shapes /\ RowsAreMinted /\ GateCovers /\ DeliveriesCovered
                   /\ SettleReadsLast
<1> SUFFICES Rest'
  BY <1>0 DEF GateInv
<1> USE ResumeAssumption, GrantsAssumption
    DEF GateInv, Shapes, GrantsTypeOK, Stages, RowsAreMinted, GateCovers, DeliveriesCovered,
        SettleReadsLast, Known, Covered,
        grantVars, threadVars, gateVars, turnVars, graphVars, lockVars
<1>1. ASSUME NEW r \in Resumes, NEW c \in Processes, Snapshot(r, c)
      PROVE  Rest'
  BY <1>1 DEF Snapshot
<1>2. ASSUME NEW r \in Resumes, NEW p \in Prompts, CheckEntry(r, p)
      PROVE  Rest'
  BY <1>2 DEF CheckEntry, checked, Outstanding
<1>3. ASSUME NEW r \in Resumes, NEW p \in Prompts, RefuseEntry(r, p)
      PROVE  Rest'
  BY <1>3 DEF RefuseEntry, giveUp
<1>4. ASSUME NEW r \in Resumes, NEW p \in Prompts, ConsumeEntry(r, p)
      PROVE  Rest'
  <2>1. CASE outcome(p) = "consumed"
    <3>1. consumer[p] = None /\ consumer' = [consumer EXCEPT ![p] = r]
      BY <1>4, <2>1 DEF ConsumeEntry, consume, outcome
    <3>2. Shapes'
      BY <1>4, <2>1, <3>1 DEF ConsumeEntry, consume
    <3>3. RowsAreMinted'
      BY <1>4, <2>1, <3>1 DEF ConsumeEntry, consume
    <3>4. GateCovers'
      BY <1>4, <2>1, <3>1 DEF ConsumeEntry, consume
    <3>5. DeliveriesCovered'
      BY <1>4, <2>1, <3>1 DEF ConsumeEntry, consume
    <3>6. SettleReadsLast'
      BY <1>4, <2>1, <3>1 DEF ConsumeEntry, consume
    <3> QED
      BY <3>2, <3>3, <3>4, <3>5, <3>6
  <2>2. CASE outcome(p) # "consumed"
    <3>1. UNCHANGED grantVars /\ giveUp(r, "refused")
      BY <1>4, <2>2 DEF ConsumeEntry, consume
    <3> QED
      BY <1>4, <2>2, <3>1 DEF ConsumeEntry, giveUp
  <2> QED
    BY <2>1, <2>2
<1>5. ASSUME NEW t \in Turns, NEW c \in Processes, LoadThread(t, c)
      PROVE  Rest'
  BY <1>5 DEF LoadThread, Turns
<1>6. ASSUME NEW r \in Requests, BeginRun(r)
      PROVE  Rest'
  <2>1. Shapes'
    <3>1. at' \in [Requests -> Stages]
      BY <1>6 DEF BeginRun, Stages
    <3>2. graph' \in [Requests -> {"none", "live", "advanced", "done"}]
      BY <1>6 DEF BeginRun
    <3>3. slot' \in [Processes -> Requests \cup {None}]
      BY <1>6 DEF BeginRun
    <3>4. GrantsTypeOK'
      BY <1>6 DEF BeginRun, grantVars, GrantsTypeOK
    <3> QED
      BY <1>6, <3>1, <3>2, <3>3, <3>4 DEF BeginRun
  <2>2. RowsAreMinted'
    BY <1>6 DEF BeginRun, AtSlot
  <2>3. GateCovers'
    BY <1>6 DEF BeginRun, AtSlot
  <2>4. DeliveriesCovered'
    BY <1>6 DEF BeginRun, AtSlot
  <2>5. SettleReadsLast'
    BY <1>6 DEF BeginRun, AtSlot
  <2> QED
    BY <2>1, <2>2, <2>3, <2>4, <2>5
<1>7. ASSUME NEW r \in Requests, SlotBusy(r)
      PROVE  Rest'
  BY <1>7 DEF SlotBusy, giveUp, AtSlot
<1>8. ASSUME NEW r \in Requests, NEW p \in Prompts, Mint(r, p)
      PROVE  Rest'
  BY <1>8 DEF Mint, issue, Live
<1>9. ASSUME NEW r \in Requests, Advance(r)
      PROVE  Rest'
  BY <1>9 DEF Advance
<1>10. ASSUME NEW r \in Requests, NEW p \in Prompts, Park(r, p)
      PROVE  Rest'
  BY <1>10 DEF Park
<1>11. ASSUME NEW r \in Requests, GraphEnds(r)
      PROVE  Rest'
  BY <1>11 DEF GraphEnds, Live
<1>12. ASSUME NEW r \in Requests, Cancel(r)
      PROVE  Rest'
  BY <1>12 DEF Cancel
<1>13. ASSUME NEW r \in Requests, SettleRead(r)
      PROVE  Rest'
  <2>1. Shapes'
    BY <1>13 DEF SettleRead
  <2>2. RowsAreMinted'
    BY <1>13 DEF SettleRead
  <2>3. GateCovers'
    BY <1>13 DEF SettleRead
  <2>4. DeliveriesCovered'
    BY <1>13 DEF SettleRead
  <2>5. SettleReadsLast'
    BY <1>13 DEF SettleRead
  <2> QED
    BY <2>1, <2>2, <2>3, <2>4, <2>5
<1>14. ASSUME NEW r \in Requests, SettleVoid(r)
      PROVE  Rest'
  BY <1>14 DEF SettleVoid, voidSuperseded
<1>15. ASSUME NEW r \in Requests, SettleClear(r)
      PROVE  Rest'
  BY <1>15 DEF SettleClear
<1>16. ASSUME NEW r \in Requests, Release(r)
      PROVE  Rest'
  <2>1. Shapes'
    BY <1>16 DEF Release
  <2>2. RowsAreMinted'
    BY <1>16 DEF Release
  <2>3. GateCovers'
    BY <1>16 DEF Release
  <2>4. DeliveriesCovered'
    BY <1>16 DEF Release
  <2>5. SettleReadsLast'
    BY <1>16 DEF Release
  <2> QED
    BY <2>1, <2>2, <2>3, <2>4, <2>5
<1>17. ASSUME NEW c \in Processes, Crash(c)
      PROVE  Rest'
  BY <1>17 DEF Crash
<1>18. ASSUME UNCHANGED vars
      PROVE  Rest'
  BY <1>18 DEF vars
<1> QED
  BY <1>1, <1>2, <1>3, <1>4, <1>5, <1>6, <1>7, <1>8, <1>9, <1>10, <1>11, <1>12, <1>13,
     <1>14, <1>15, <1>16, <1>17, <1>18 DEF Next

----------------------------------------------------------------------------
\* The invariant holds in every reachable state.
LEMMA GateInvariant == Spec => []GateInv
  BY GateInitInv, GateStepInv, PTL DEF Spec

\* Type correctness, for any prompts, requests and processes.
THEOREM ResumeTypeOK == Spec => []TypeOK
<1>1. GateInv => TypeOK
  BY DEF GateInv, Shapes, Flags, TypeOK
<1> QED
  BY <1>1, GateInvariant, PTL

\* At-most-once delivery: an answer that reached a graph was handed over by the
\* request that won the prompt's row (consumeGrants).
THEOREM ResumeDelivery == Spec => []DeliveryIsTheConsumers
<1>1. GateInv => DeliveryIsTheConsumers
  BY DEF GateInv, DeliveriesCovered, Covered, DeliveryIsTheConsumers
<1> QED
  BY <1>1, GateInvariant, PTL

\* A step changes grant rows only through the store's operations.
LEMMA StepOnRows ==
  ASSUME [Next]_vars
  PROVE  \/ UNCHANGED grantVars
         \/ \E r \in Requests, p \in Prompts : consume(r, p)
         \/ \E p \in Prompts : issue(p)
         \/ \E r \in Requests, sweep \in BOOLEAN :
              /\ at[r] = "voiding" /\ at' = [at EXCEPT ![r] = at'[r]]
              /\ voidSuperseded(keep[r], sweep) /\ UNCHANGED parked
<1>1. ASSUME NEW r \in Requests, NEW p \in Prompts, ConsumeEntry(r, p)
      PROVE  consume(r, p)
  BY <1>1 DEF ConsumeEntry
<1>2. ASSUME NEW r \in Requests, NEW p \in Prompts, Mint(r, p)
      PROVE  issue(p)
  BY <1>2 DEF Mint
<1>3. ASSUME NEW r \in Requests, SettleVoid(r)
      PROVE  \E sweep \in BOOLEAN : /\ at[r] = "voiding" /\ at' = [at EXCEPT ![r] = at'[r]]
                                    /\ voidSuperseded(keep[r], sweep) /\ UNCHANGED parked
  BY <1>3 DEF SettleVoid, threadVars
<1> QED
  BY <1>1, <1>2, <1>3, ResumeAssumption
  DEF Next, Turns, vars, Snapshot, CheckEntry, RefuseEntry, LoadThread, BeginRun, SlotBusy,
     Advance, Park,
      GraphEnds, Cancel, SettleRead, SettleClear, Release, Crash

\* Consumption is final and only a voided row is ever deleted.
THEOREM ResumeRows == Spec => RowsOnlyMoveForward
<1>1. ASSUME [Next]_vars
      PROVE  [/\ \A p \in Prompts : consumer[p] # None => consumer'[p] = consumer[p]
              /\ issued \ issued' \subseteq voided]_vars
  <2>1. CASE UNCHANGED grantVars
    BY <2>1 DEF grantVars
  <2>2. ASSUME NEW r \in Requests, NEW p \in Prompts, consume(r, p)
        PROVE  /\ \A q \in Prompts : consumer[q] # None => consumer'[q] = consumer[q]
               /\ issued \ issued' \subseteq voided
    <3>1. CASE outcome(p) = "consumed"
      <4>1. consumer[p] = None
        BY <3>1 DEF outcome
      <4> QED
        BY <2>2, <3>1, <4>1 DEF consume
    <3> QED
      BY <2>2, <3>1 DEF consume
  <2>3. ASSUME NEW p \in Prompts, issue(p)
        PROVE  consumer' = consumer /\ issued \subseteq issued'
    BY <2>3 DEF issue
  <2>4. ASSUME NEW K, NEW sweep \in BOOLEAN, voidSuperseded(K, sweep)
        PROVE  consumer' = consumer /\ issued \ issued' \subseteq voided
    BY <2>4 DEF voidSuperseded
  <2> QED
    BY <1>1, StepOnRows, <2>1, <2>2, <2>3, <2>4
<1> QED
  BY <1>1, PTL DEF Spec, RowsOnlyMoveForward

\* A turn that drained its stream voids no prompt it leaves parked.
THEOREM ResumeVoids == Spec => VoidSparesOwnPark
<1>1. ASSUME GateInv, [Next]_vars, NEW r \in Requests \ cancelled,
             at[r] = "voiding", at'[r] # at[r]
      PROVE  (voided' \ voided) \cap parked \cap minted[r] = {}
  <2>1. parked \cap minted[r] \subseteq keep[r]
    BY <1>1 DEF GateInv, SettleReadsLast
  <2>2. CASE voided' \subseteq voided
    BY <2>2
  <2>3. ASSUME NEW q \in Requests, NEW sweep \in BOOLEAN, at[q] = "voiding",
               at' = [at EXCEPT ![q] = at'[q]], voidSuperseded(keep[q], sweep)
        PROVE  (voided' \ voided) \cap keep[r] = {}
    <3>1. q = r
      BY <1>1, <2>3 DEF GateInv, Shapes
    <3> QED
      BY <2>3, <3>1 DEF voidSuperseded
  <2>4. ASSUME NEW q \in Requests, NEW p \in Prompts, consume(q, p)
        PROVE  voided' \subseteq voided
    BY <2>4 DEF consume
  <2>5. ASSUME NEW p \in Prompts, issue(p)
        PROVE  voided' \subseteq voided
    BY <2>5 DEF issue
  <2> QED
    BY <1>1, StepOnRows, <2>1, <2>2, <2>3, <2>4, <2>5 DEF grantVars
<1>2. GateInv /\ [Next]_vars
        => [\A r \in Requests \ cancelled :
              at[r] = "voiding" /\ at'[r] # at[r] =>
                 (voided' \ voided) \cap parked \cap minted[r] = {}]_vars
  BY <1>1
<1> QED
  BY <1>2, GateInvariant, PTL DEF Spec, VoidSparesOwnPark
=============================================================================
