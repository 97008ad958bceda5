--------------------------- MODULE ApprovalResume ---------------------------
(***************************************************************************)
(* Answering approval prompts of one thread: turns that park prompts with  *)
(* a grant, resumes that verify, consume and deliver, and turns that       *)
(* settle and void, over several server processes that share the thread,   *)
(* its checkpoints and the grant store but not their resume claims or run  *)
(* slots.  Sources: gateResumeWithGrants, checkGrants, consumeGrants and   *)
(* voidSupersededGrants (packages/cli/src/lib/dev/approval-grants.ts),     *)
(* settleParkedRoute (parked-route.ts), createPendingResumeClaims          *)
(* (pending-interrupts.ts), the stream and resume handlers of              *)
(* runtime-fetch-core.ts, and the park site of                             *)
(* packages/core/src/capabilities/permission-gate.ts.                      *)
(*                                                                         *)
(* parked is the pending-interrupt set of the thread's head checkpoint.    *)
(* The graph is external: it re-executes the parked tasks of a resume from *)
(* the top (and so mints grants nobody sees), advances the checkpoint past *)
(* the prompts it got answers for, and may park new ones; each of these is *)
(* a step of its own, and a cancelled turn's graph goes on taking them     *)
(* while its handler settles.                                              *)
(***************************************************************************)
EXTENDS InterruptGrants, FiniteSets

CONSTANTS Resumes,    \* POST /threads/:id/resume requests; the others start a turn
          Processes,  \* server processes
          Legacy      \* prompts parked when grants were off: never given a row

ASSUME ResumeAssumption == Resumes \subseteq Requests /\ Legacy \subseteq Prompts

\* POST /threads/:id/runs/stream requests.
Turns == Requests \ Resumes

VARIABLES mode,         \* approvals.grants: "optional" or "required"
          parked,       \* prompts pending at the head checkpoint
          parkedRoute,  \* metadata.parked_route is recorded
          at,           \* how far a request got
          proc,         \* the process that is serving a request
          snap,         \* the pending set a resume read and was matched against
          presents,     \* a resume carries the right grants
          todo,         \* entries still to check
          consumable,   \* entries whose grant was verified and is still to consume
          prev,         \* previousParkedRoute, sampled before the slot is claimed
          keep,         \* stillPending, read by a settling turn
          saw,          \* sawInterrupt: the handler saw an interrupt chunk
          cancelled,    \* runs cancelled while they streamed, until they release
          graph,        \* the execution of a turn: "none", "live", "advanced", "done"
          minted,       \* prompts a turn issued a grant for
          claim,        \* per process, the resume that holds the resume claim
          slot,         \* per process, the request that holds the run slot
          delivered     \* history: <<request, prompt>> an answer was handed to the graph for

threadVars == <<mode, parked, parkedRoute>>
gateVars == <<snap, presents, todo, consumable>>
turnVars == <<prev, keep, saw, cancelled>>
graphVars == <<graph, minted>>
lockVars == <<claim, slot>>
vars == <<grantVars, threadVars, at, proc, gateVars, turnVars, graphVars, lockVars, delivered>>

Stages == {"new", "checking", "consuming", "loaded", "streaming", "settling", "voiding",
           "clearing", "settled", "over", "refused", "busy", "lost"}
Live(r) == graph[r] \in {"live", "advanced"}

Init ==
  /\ GrantsInit
  /\ mode \in {"optional", "required"}
  /\ parked \in {{}, Legacy}
  /\ parkedRoute = (parked # {})
  /\ at = [r \in Requests |-> "new"]
  /\ proc = [r \in Requests |-> None]
  /\ snap = [r \in Requests |-> {}]
  /\ presents = [r \in Requests |-> FALSE]
  /\ todo = [r \in Requests |-> {}]
  /\ consumable = [r \in Requests |-> {}]
  /\ prev = [r \in Requests |-> FALSE]
  /\ keep = [r \in Requests |-> {}]
  /\ saw = [r \in Requests |-> FALSE]
  /\ cancelled = {}
  /\ graph = [r \in Requests |-> "none"]
  /\ minted = [r \in Requests |-> {}]
  /\ claim = [c \in Processes |-> None]
  /\ slot = [c \in Processes |-> None]
  /\ delivered = {}

----------------------------------------------------------------------------
\* A request ends without a run: it gives its resume claim back and its
\* locals are gone; consumed grants stay consumed.
giveUp(r, stage) ==
  /\ at' = [at EXCEPT ![r] = stage]
  /\ proc' = [proc EXCEPT ![r] = None]
  /\ claim' = [c \in Processes |-> IF claim[c] = r THEN None ELSE claim[c]]
  /\ snap' = [snap EXCEPT ![r] = {}]
  /\ presents' = [presents EXCEPT ![r] = FALSE]
  /\ todo' = [todo EXCEPT ![r] = {}]
  /\ consumable' = [consumable EXCEPT ![r] = {}]
  /\ prev' = [prev EXCEPT ![r] = FALSE]

\* A resume takes its process's claim, reads the pending prompts, finds that its
\* entries name exactly those, and samples the parked route.
Snapshot(r, c) ==
  /\ at[r] = "new"
  /\ claim[c] = None
  /\ parked # {}
  /\ at' = [at EXCEPT ![r] = "checking"]
  /\ proc' = [proc EXCEPT ![r] = c]
  /\ snap' = [snap EXCEPT ![r] = parked]
  /\ todo' = [todo EXCEPT ![r] = parked]
  /\ presents' \in {presents, [presents EXCEPT ![r] = TRUE]}
  /\ prev' = [prev EXCEPT ![r] = parkedRoute]
  /\ claim' = [claim EXCEPT ![c] = r]
  /\ UNCHANGED <<grantVars, threadVars, consumable, keep, saw, cancelled, graphVars, slot,
                 delivered>>

\* The next entry was checked; after the last one consumption begins.
checked(r, p) ==
  /\ todo' = [todo EXCEPT ![r] = @ \ {p}]
  /\ at' = IF todo[r] = {p} THEN [at EXCEPT ![r] = "consuming"] ELSE at

\* checkGrants, one entry: no row passes only in "optional" mode; a row makes
\* the grant mandatory and must be outstanding.
CheckEntry(r, p) ==
  /\ at[r] = "checking" /\ p \in todo[r]
  /\ \/ p \notin issued /\ mode = "optional" /\ UNCHANGED consumable
     \/ presents[r] /\ p \in Outstanding /\ consumable' = [consumable EXCEPT ![r] = @ \cup {p}]
  /\ checked(r, p)
  /\ UNCHANGED <<grantVars, threadVars, proc, snap, presents, turnVars, graphVars, lockVars,
                 delivered>>

\* 400, 403 or 409: grant_required, _invalid, _consumed, _unavailable, stale.
RefuseEntry(r, p) ==
  /\ at[r] = "checking" /\ p \in todo[r]
  /\ IF p \in issued THEN ~presents[r] \/ p \notin Outstanding ELSE mode = "required"
  /\ giveUp(r, "refused")
  /\ UNCHANGED <<grantVars, threadVars, keep, saw, cancelled, graphVars, slot, delivered>>

\* A loop that ignores the outcome of the conditional update.
ConsumeUnchecked(r, p) ==
  /\ at[r] = "consuming" /\ p \in consumable[r]
  /\ consume(r, p)
  /\ consumable' = [consumable EXCEPT ![r] = @ \ {p}]
  /\ UNCHANGED <<threadVars, at, proc, snap, presents, todo, turnVars, graphVars, lockVars,
                 delivered>>

\* consumeGrants, one entry in the client's order: the first loss refuses.
ConsumeEntry(r, p) ==
  /\ at[r] = "consuming" /\ p \in consumable[r]
  /\ consume(r, p)
  /\ IF outcome(p) = "consumed"
       THEN /\ consumable' = [consumable EXCEPT ![r] = @ \ {p}]
            /\ UNCHANGED <<at, proc, claim, snap, presents, todo, prev>>
       ELSE giveUp(r, "refused")
  /\ UNCHANGED <<threadVars, keep, saw, cancelled, graphVars, slot, delivered>>

\* A turn loads its thread and samples the parked route.
LoadThread(t, c) ==
  /\ at[t] = "new"
  /\ at' = [at EXCEPT ![t] = "loaded"]
  /\ proc' = [proc EXCEPT ![t] = c]
  /\ prev' = [prev EXCEPT ![t] = parkedRoute]
  /\ UNCHANGED <<grantVars, threadVars, gateVars, keep, saw, cancelled, graphVars, lockVars,
                 delivered>>

\* The request is about to claim the run slot: the grant gate let it pass.
AtSlot(r) == at[r] = "loaded" \/ (at[r] = "consuming" /\ consumable[r] = {})

\* runRegistry.begin, then the route stream starts: the answers reach the graph.
BeginRun(r) ==
  /\ AtSlot(r)
  /\ slot[proc[r]] = None
  /\ slot' = [slot EXCEPT ![proc[r]] = r]
  /\ at' = [at EXCEPT ![r] = "streaming"]
  /\ graph' = [graph EXCEPT ![r] = "live"]
  /\ delivered' = delivered \cup ({r} \X (snap[r] \cap parked))
  /\ UNCHANGED <<grantVars, threadVars, proc, gateVars, turnVars, minted, claim>>

\* 409 run_in_flight, after the grants were consumed.
SlotBusy(r) ==
  /\ AtSlot(r)
  /\ slot[proc[r]] # None
  /\ giveUp(r, "busy")
  /\ UNCHANGED <<grantVars, threadVars, keep, saw, cancelled, graphVars, slot, delivered>>

----------------------------------------------------------------------------
\* The park site issues a row before it interrupts; on a resume it does so
\* again, under a fresh id, for the call that is about to be answered.
Mint(r, p) ==
  /\ Live(r)
  /\ p \notin Legacy \cup UNION {minted[q] : q \in Requests}
  /\ issue(p)
  /\ minted' = [minted EXCEPT ![r] = @ \cup {p}]
  /\ UNCHANGED <<threadVars, at, proc, gateVars, turnVars, graph, lockVars, delivered>>

\* The head checkpoint moves past the answered prompts (a resume) or past all
\* of them (new input on a parked thread).
Advance(r) ==
  /\ graph[r] = "live"
  /\ graph' = [graph EXCEPT ![r] = "advanced"]
  /\ parked' = IF r \in Resumes THEN parked \ snap[r] ELSE {}
  /\ UNCHANGED <<grantVars, mode, parkedRoute, at, proc, gateVars, turnVars, minted,
                 lockVars, delivered>>

\* The interrupt write of a minted prompt lands; a handler still attached sees it.
Park(r, p) ==
  /\ graph[r] = "advanced"
  /\ p \in minted[r] \ parked
  /\ parked' = parked \cup {p}
  /\ saw' = IF at[r] = "streaming" THEN [saw EXCEPT ![r] = TRUE] ELSE saw
  /\ UNCHANGED <<grantVars, mode, parkedRoute, at, proc, gateVars, prev, keep, cancelled,
                 graphVars, lockVars, delivered>>

\* The graph ends; an attached handler drains its stream and settles the turn.
GraphEnds(r) ==
  /\ Live(r)
  /\ graph' = [graph EXCEPT ![r] = "done"]
  /\ at' = IF at[r] = "streaming" THEN [at EXCEPT ![r] = "settling"] ELSE at
  /\ UNCHANGED <<grantVars, threadVars, proc, gateVars, turnVars, minted, lockVars, delivered>>

\* POST /threads/:id/cancel: the handler stops consuming a graph that goes on.
Cancel(r) ==
  /\ at[r] = "streaming"
  /\ at' = [at EXCEPT ![r] = "settling"]
  /\ cancelled' = cancelled \cup {r}
  /\ UNCHANGED <<grantVars, threadVars, proc, gateVars, prev, keep, saw, graphVars, lockVars,
                 delivered>>

----------------------------------------------------------------------------
\* settleParkedRoute: record the route of a turn that parked; a turn that did
\* not park, on a thread that had no parked route, has nothing to settle.
SettleRead(r) ==
  /\ at[r] = "settling"
  /\ IF saw[r] \/ prev[r]
       THEN /\ at' = [at EXCEPT ![r] = "voiding"]
            /\ keep' = [keep EXCEPT ![r] = parked]
       ELSE at' = [at EXCEPT ![r] = "settled"] /\ UNCHANGED keep
  /\ parkedRoute' = (parkedRoute \/ saw[r])
  /\ UNCHANGED <<grantVars, mode, parked, proc, gateVars, prev, saw, cancelled, graphVars,
                 lockVars, delivered>>

\* voidGrants(stillPending), with or without the hourly sweep.
SettleVoid(r) ==
  /\ at[r] = "voiding"
  /\ \E sweep \in BOOLEAN : voidSuperseded(keep[r], sweep)
  /\ at' = [at EXCEPT ![r] = IF ~saw[r] /\ keep[r] = {} THEN "clearing" ELSE "settled"]
  /\ UNCHANGED <<threadVars, proc, gateVars, turnVars, graphVars, lockVars, delivered>>

\* Nothing is pending any more: parked_route is cleared.
SettleClear(r) ==
  /\ at[r] = "clearing"
  /\ parkedRoute' = FALSE
  /\ at' = [at EXCEPT ![r] = "settled"]
  /\ UNCHANGED <<grantVars, mode, parked, proc, gateVars, turnVars, graphVars, lockVars,
                 delivered>>

\* The finally: a cancelled turn keeps its slot and claim until its graph ended.
Release(r) ==
  /\ at[r] = "settled"
  /\ graph[r] = "done"
  /\ at' = [at EXCEPT ![r] = "over"]
  /\ slot' = [slot EXCEPT ![proc[r]] = None]
  /\ claim' = [c \in Processes |-> IF claim[c] = r THEN None ELSE claim[c]]
  /\ snap' = [snap EXCEPT ![r] = {}]
  /\ presents' = [presents EXCEPT ![r] = FALSE]
  /\ prev' = [prev EXCEPT ![r] = FALSE]
  /\ keep' = [keep EXCEPT ![r] = {}]
  /\ saw' = [saw EXCEPT ![r] = FALSE]
  /\ proc' = [proc EXCEPT ![r] = None]
  /\ cancelled' = cancelled \ {r}
  /\ UNCHANGED <<grantVars, threadVars, todo, consumable, graphVars, delivered>>

\* A process dies: its requests, claims, slots and graphs are gone; the stores stay.
Crash(c) ==
  LET gone == {r \in Requests : proc[r] = c}
      without(f, v) == [r \in Requests |-> IF r \in gone THEN v ELSE f[r]]
  IN  /\ gone # {}
      /\ at' = without(at, "lost")
      /\ proc' = without(proc, None)
      /\ snap' = without(snap, {}) /\ presents' = without(presents, FALSE)
      /\ todo' = without(todo, {}) /\ consumable' = without(consumable, {})
      /\ prev' = without(prev, FALSE) /\ keep' = without(keep, {})
      /\ saw' = without(saw, FALSE) /\ cancelled' = cancelled \ gone
      /\ graph' = without(graph, "done")
      /\ claim' = [claim EXCEPT ![c] = None]
      /\ slot' = [slot EXCEPT ![c] = None]
      /\ UNCHANGED <<grantVars, threadVars, minted, delivered>>

Next ==
  \/ \E r \in Resumes :
        \/ \E c \in Processes : Snapshot(r, c)
        \/ \E p \in Prompts : CheckEntry(r, p) \/ RefuseEntry(r, p) \/ ConsumeEntry(r, p)
  \/ \E t \in Turns, c \in Processes : LoadThread(t, c)
  \/ \E r \in Requests :
        \/ BeginRun(r) \/ SlotBusy(r) \/ Advance(r) \/ GraphEnds(r) \/ Cancel(r)
        \/ \E p \in Prompts : Mint(r, p) \/ Park(r, p)
        \/ SettleRead(r) \/ SettleVoid(r) \/ SettleClear(r) \/ Release(r)
  \/ \E c \in Processes : Crash(c)

Spec == Init /\ [][Next]_vars

----------------------------------------------------------------------------
TypeOK ==
  /\ GrantsTypeOK
  /\ mode \in {"optional", "required"}
  /\ parked \subseteq Prompts
  /\ parkedRoute \in BOOLEAN
  /\ at \in [Requests -> Stages]
  /\ proc \in [Requests -> Processes \cup {None}]
  /\ snap \in [Requests -> SUBSET Prompts]
  /\ presents \in [Requests -> BOOLEAN]
  /\ todo \in [Requests -> SUBSET Prompts]
  /\ consumable \in [Requests -> SUBSET Prompts]
  /\ prev \in [Requests -> BOOLEAN]
  /\ keep \in [Requests -> SUBSET Prompts]
  /\ saw \in [Requests -> BOOLEAN]
  /\ cancelled \subseteq Requests
  /\ graph \in [Requests -> {"none", "live", "advanced", "done"}]
  /\ minted \in [Requests -> SUBSET Prompts]
  /\ claim \in [Processes -> Resumes \cup {None}]
  /\ slot \in [Processes -> Requests \cup {None}]
  /\ delivered \subseteq Requests \X Prompts

(***************************************************************************)
(* A grant authorizes one delivery: an answer handed to the graph was      *)
(* handed over by the request that won the prompt's row, so a prompt with  *)
(* a row is answered at most once, whatever several processes do at the    *)
(* same time and wherever they crash; in "required" mode that holds of     *)
(* every prompt, and one parked without a row is never answered            *)
(* (consumeGrants: "at-most-once DELIVERY").                               *)
(***************************************************************************)
DeliveryIsTheConsumers ==
  \A d \in delivered : mode = "required" \/ d[2] \in issued => consumer[d[2]] = d[1]

(***************************************************************************)
(* A turn that drained its stream does not void the prompts it leaves      *)
(* parked: its settle reads the pending set after its graph ended.  (A     *)
(* cancelled turn settles while its graph runs on, and may void a prompt   *)
(* that is parked just then.)                                              *)
(***************************************************************************)
VoidSparesOwnPark ==
  [][\A r \in Requests \ cancelled :
        at[r] = "voiding" /\ at'[r] # at[r] =>
           (voided' \ voided) \cap parked \cap minted[r] = {}]_vars

(***************************************************************************)
(* Consumption is final and a parked prompt's row is never deleted under   *)
(* it unless it was voided before: an unvoided row is the only thing that  *)
(* keeps its prompt gated in "optional" mode (pruneSettledGrants).         *)
(***************************************************************************)
RowsOnlyMoveForward ==
  [][/\ \A p \in Prompts : consumer[p] # None => consumer'[p] = consumer[p]
     /\ issued \ issued' \subseteq voided]_vars

----------------------------------------------------------------------------
(***************************************************************************)
(* A crash "loses the approval and the human is prompted again": a prompt  *)
(* that is parked while no request works on the thread can be answered.    *)
(***************************************************************************)
PromptedAgainMeansAnswerable ==
  (\A r \in Requests : at[r] \in {"new", "over", "refused", "busy", "lost"}) =>
     \A p \in parked : consumer[p] = None
=============================================================================
