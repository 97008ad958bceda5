# A TLA+ development of b4run's runtime

b4run compiles agent routes and serves them over HTTP: an agent turn streams,
may stop to ask a person for approval, may run commands in a sandbox, and may be
watched, cancelled or cut short by a shutdown. This directory models the parts
of that runtime in which the difficulty is *concurrency and failure*: what one
request keeps alive, who may end what, what happens between two awaits, and what
a crash or a second process leaves behind. All paths below are relative to the
repository; the modelled code is in `packages/cli/src/lib/dev`,
`packages/cli/src/lib/runtime`, `packages/sandbox/src/docker`, and the stores
(`packages/sdk`, `packages/postgres-storage`, `packages/sqlite-storage`).

Running it, in this directory:

    tlc -workers 2 -config MCLiveTurnHub.cfg MCLiveTurnHub.tla    # a model-checking run
    tlapm LiveTurnHubProofs.tla                                   # the proofs of a module

`PROJECT.json` lists the components, the runs with their properties, the source
lines each definition stands for, the hazards and the theorems.

## 1. Inventory of the system

A server is one Node process: every synchronous stretch of code between two
awaits is atomic, and that is the grain of the actions here. Several processes
may serve the same threads over shared Postgres stores.

| Component (source) | State it keeps | Operations | What is hard | What makes it correct |
|---|---|---|---|---|
| Run registry (`run-registry.ts`) | thread -> handle; per handle an abort controller, `released`, shutdown listener | `begin`, `release`, `claim`/`cancel`, `has`, `activeCount` | a release that comes late, a cancel that awaited authorization | one run per thread; a late release or cancel hits only its own run |
| Request lifetime and shutdown (`runtime-fetch-core.ts`) | `activeRequests`, live shutdown controllers, per request `bodySettled`, `pendingRuns`, `settled`; pending disposals; `close` state | `serveRoutes`, tracked bodies, `getShutdownSignal`, `maybeSettle`, `close` | a run outlives its response; shutdown between two steps of a handler; a lost lease | stores outlive what writes through them and are disposed in the end; close drains everything |
| Approval grants and resume (`approval-grants.ts`, `parked-route.ts`, `pending-interrupts.ts`, stores, `permission-gate.ts`) | grant rows; the parked prompts; `parked_route`; resume claims; run slots | mint, check, consume, void, prune, resume, settle | several processes, crashes, cancels while the graph runs on | an approval is delivered at most once; no pending prompt loses its grant |
| Live turn hub and attach (`live-turn-hub.ts`) | per thread the live turn: digest, bytes, subscribers with queue, bytes, wake | `open`, `publish`, `close`, `closeAll`, `attach`, `next`, `detach` | joining while the turn publishes, slow viewers, replaced turns, lost wake-ups | each viewer sees one gapless stretch of its turn or is told that it does not, and its stream ends |
| Sandbox manager and Docker provider (`sandbox-manager.ts`, `thread-lifecycle.ts`, `docker-sandbox.ts`, `docker-exec.ts`) | entries and use counts per thread; the gate's queue; lifecycle state and generation; container and volume | `retain`, `getForThread`, `reapIdle`, `destroyThread`, `releaseAll`; `acquire`, `release`, `destroy`; commands with recovery | exclusive recovery beside shared commands, stale recovery tokens, reaping against use | no command loses its container; a recovery replaces only what it could not start in; nobody starves |
| Shared run admission (`run-admission.ts`, `fenced-pool.ts`) | a Postgres row per thread (owner token, expiry), a heartbeat, transactions that lock and check the row | `tryAcquire`, heartbeat, `release`, fenced queries and transactions | two replicas on one thread, a lease lost between validation and COMMIT, lost answers, dead processes | stored state is read and written by one owner at a time, on top of what it read; a stale owner stops; an abandoned thread becomes free |
| Thread status and turn-end stamp (`terminal-status.ts`, `turn-end-stamp.ts`) | the thread row's status and `parked_route`; the head checkpoint's stamp | begin, settle, stamp, DELETE | settle order, cancel against a natural end | the row agrees with the head checkpoint when nothing runs |
| Client tool calls (`client-tool-*.ts`, `client-tool-calls.ts`, `agui-handler.ts`) | a record per call (outstanding with an expiry, answered, voided), the parked interrupts, the resume claim and run slot of the thread | record, park, answer, resume, abandon, close, settle, sweep | a decision over parks that another run is about to change; results stored one by one; an aborted turn that still parks | a parked call stays answerable, is taken down only with a result, and a stored result reaches the model |
| AG-UI handler and translation (`agui-handler.ts`, `ag-ui`) | open messages and tool calls of a stream | run, resume, translate | every start is closed, in order, on every exit | a well-bracketed event stream |
| Development session (`dev-session.ts`, `dev-child.ts`) | the current child and its process, the restart in flight, a pending one, closed flag, two promises | start, restart on change, close, the child's ready message and close event | edits, close and a dying child between the awaits of a restart | one child at a time and in somebody's charge, no change forgotten, a session comes to its end |
| Managed workspaces (`managed-workspace-manager.ts`, `docker/managed-workspace.ts`, `association-store.ts`, `staged-source-store.ts`) | per thread a durable association, its source bundle and staged reference; in memory the session, the one to release, who retains the thread, a queue for lifecycle and one for commands | `getForThread`, a handle's commands, `settle`, `reapIdle`, `destroyThread`/`completeDelete`, `releaseAll`, staged upload/attach/reclaim, boot reconciliation | Docker calls that fail with an unknown outcome, a crash between any two steps, commands that outlive their run, a source reclaimed while it is about to be named | a running command keeps its container, no container or volume is orphaned, a named source is there, a deleted id leaves nothing to a later thread |
| Thread gate and endpoint authorization (`thread-gate.ts`) | none | decide | decision order | no endpoint reveals a thread its caller may not see |
| Route execution, agent adapter, model retry, permissions, memory, storage, compiler, build targets, SDK, evals, testing, inspector, scaffolding, examples, docs | | | I/O, text or external libraries | not modelled, see section 8 |

How they interact: a request passes `serveRoutes`, obtains a shutdown signal,
claims its thread's slot in the registry, opens the thread's live turn, and
consumes the route's stream; the route retains the sandbox and may park prompts
with grants. A cancel aborts the run through the registry; a settled turn
updates the row and voids grants; `close()` aborts all live signals, waits for
bodies, slots and disposals, ends the hub's turns and releases the sandboxes.

## 2. Modules

| Module | Models |
|---|---|
| `RunRegistry` | `createRunRegistry`, all operations |
| `RequestLifetime` (EXTENDS RunRegistry) | request lifetimes, disposal and `close()` over the registry |
| `InterruptGrants` | the grant store's contract (memory and Postgres) |
| `ApprovalResume` (EXTENDS InterruptGrants) | turns, resumes, settles, cancels and crashes over several processes |
| `LiveBroadcast` | abstract: what a viewer of a turn is promised |
| `LiveTurnHub` (INSTANCE LiveBroadcast) | the hub and the attach stream; implements `LiveBroadcast` |
| `ClientToolCalls` | client tool calls of one thread over concurrent AG-UI requests |
| `ThreadOwnership` | abstract: exclusive ownership of a thread's stored state |
| `RunAdmission` (INSTANCE ThreadOwnership) | the Postgres lease and its fenced transactions; implements `ThreadOwnership` |
| `ThreadLifecycle` | the shared/exclusive FIFO gate |
| `SandboxThread` (EXTENDS ThreadLifecycle) | manager, provider and commands of one thread over the gate |
| `ManagedWorkspace` | the managed workspace of one thread: admission, commands, cleanup, deletion, staged sources, crash and boot |
| `DevSession` | `b4 dev`: the parent's restart loop and its child processes |
| `MC*` | instances for TLC |
| `*Proofs` | theorems and proofs |

### RunRegistry and RequestLifetime

`entries[t]` is the Map, a handle is named by the request that begun it.
`begin`, `release`, `bindClaim` and `cancelClaim` are the functions of the
source; `onShutdown(S)` is the shutdown event reaching the listening handles
among S. A cancel endpoint is `ClaimRun` (observe), then `CancelRun` (after the
awaited authorization). `RequestLifetime` adds one request's path:
`Accept`/`Refuse` (the accepting gate), `Dispatch` (`getShutdownSignal`),
`BeginRun`, `RouteDone`/`Detach`/`Unwind` (the route ends, is left behind on an
abort, ends later), `FinishRun` (the stream handler's finally and when the slot
is released), `Answer`/`CloseBody`/`ClientGone` (the body), `Dispose`. Each
calls `maybeSettle` where the code does. `CloseBegin`, `Drained`,
`DrainDeadline`, `ReleaseSandboxes` are `performClose`. The shared admission is
one bit per server (`admission`) and an event (`LeaseLost`).

### InterruptGrants and ApprovalResume

A prompt is a value; its row is three facts: issued, consumer, voided. A resume
goes `new -> checking -> consuming -> loaded -> streaming -> ...` entry by entry,
because each entry is an awaited store call. `SettleRead`, `SettleVoid`,
`SettleClear` are the awaits of `settleParkedRoute`. The graph (`Mint`, `Park`,
`Advance`, `GraphEnds`) is external: it runs concurrently with its handler and
goes on after a cancel. `Crash(c)` kills a process with all its claims, slots
and requests. Hash comparison is abstracted to "this resume carries the right
grants"; TTL expiry is left out.

### LiveTurnHub and LiveBroadcast

One action per synchronous operation of the hub. A viewer's stream is
asynchronous: `attach`, later `SendState` (the state frame, with the digest
copied by `attach`), then pulls; a pull that finds nothing sleeps (`NextSleeps`)
until `deliver` or `forceClose` wakes it. `appendCoalesced` merges adjacent
chunks of a message and all tokens of a subagent call. `LiveBroadcast` says what
all that is for: a viewer joins at a place in the log, sees each stream of the
turn in order without a gap from the beginning (or is told that the beginning is
missing), and is either completed, cut off, or still watching. The refinement
mapping computes what a viewer has seen from its snapshot and what it pulled.

### ClientToolCalls

A client tool's call is recorded in the call store by its stub, then interrupts
the graph; the turn ends with the call parked, and a later request brings the
result. `row[c]` is the record, `answers[c]` its stored result (named by the run
whose call it answers), `parks` the interrupts pending in the checkpoint,
`asked`, `asker` and `reply` the latest assistant message with its tool
messages. An AG-UI request goes `new -> read -> answer -> begin`, then into its
turn, entry by entry at the awaits: `Arrive` peeks at the parks and takes the
resume claim or is refused; `Read` reads them again under the claim; `Answer`
stores one result; `Decide` is the end of `resolveClientToolTurn`; `Begin` takes
the run slot and looks again if it saw no client park; `Close` writes the tool
messages of an abandon into the checkpoint and `VoidAbandoned` closes the
records; `StartOver` and `Reenter` start the turn. Within a turn, `Stub` and
`Interrupt` are the two halves of the client tool's stub, `ServerTool` a call
that may park for approval, `Abort`/`Die`/`Unwound` a cancel, disconnect or
shutdown whose tasks may still land what they had begun, `Settle` the void of
the records no park is left for. `Fail` and `Crash` may strike anywhere before
the turn and everywhere.

The graph is external: which calls the model makes, that a resumed step runs the
unresolved calls again, and that a step's parks are complete when it ends. A
model asks once per request (a second step in one request repeats the first).
Left out: the records of server calls (they only reserve the id), the size limit
of results, and other endpoints' runs on the thread, which take the same slot
and never see a client call.

### RunAdmission and ThreadOwnership

One thread, any number of admissions (one per request) in as many processes.
The row is `row` (the owner's token) and `live` (its expiry is in the future by
the database clock); `lock` is the row's lock. An admission's own operations are
serialized: `op[o]` is where its insert, renewal or delete stands; each awaited
statement is an action, whose answer may be lost (`AcquireFails`, `RenewFails`,
`DeleteFails`). The heartbeat locks the row first and renews in a second
statement, so that the expiry is judged after the wait. A fenced transaction is
`TxBegin`, `TxLock` and `TxCheck` (validate), `Statement`s, `TxCheck` again, `Commit` or
`Rollback`. A process may die at any point (`Crash`); Postgres ends its sessions
later (`SessionsEnd`). `Expire` may come at any moment, however late the
heartbeat is.

`head` counts the writes to the thread's state and `seen` is what an owner knows
of it, so that a lost update is visible: `ThreadOwnership` says owners follow
each other, only the present one reads and writes, and it writes on top of what
it read. An explicit transaction validates again before each statement; the
model leaves the further validations out, which allows more interleavings.
Queries outside an active admission (no fence is asked for) and the lexical
screening of the SQL text are not modelled.

### ThreadLifecycle and SandboxThread

`enqueue` and `finish` are the gate's two synchronous steps (`finish` runs
`drain`, as the code does before it resolves the caller). Every operation of the
provider passes it. `SandboxThread` has a route execution's
`retain`, `getForThread` (handle, shared pending acquire, or one's own),
`runCommand`, `release`; a cancelled execution may release while its command
runs. A command captures its recovery token under its lease (`attempt`), may
turn out exhausted (`attempted`), asks for the exclusive fence
(`recoverAndRetry`) and then finds its token stale (`recoverStale`), replaces
the keeper or finds it replaced (`recover`), or fails (`recoverFails`). The
cleanups are the idle reaper (a copy of the entries, visited later), DELETE and
`releaseAll`, ending in the provider's `release`/`destroy`. Any Docker call of
an operation may fail; what it may leave behind is `LeftBehind`.

### ManagedWorkspace

One thread in one worker. The durable side is `assoc` (the association's state),
`row` and `staged` (the thread and its staged reference) and `source` (the
content store's copy); the Docker side `phys` (volume and record container) and
`alive` (session containers); the manager's memory `session`, `retired` and
`active`. `serial` with `step` is `#serial`'s queue: who holds it and what that
operation awaits. Actors take it in any order, which includes the code's first
come, first served. `backend` is the head of the command queue.

An admission (`Enter`, by a run or by one of its commands) decides as
`getForThread` does, in its order: aborted or deleted, the cached session, the
missing source, a session to release, the cached or creating association. What
it then awaits are steps of their own (`Resolved`, `ReleaseRetired`,
`InspectCreation`, `Create`, `Reconnect`), each of which may fail; a Docker call
that fails may have had its effect (`MayRemove`). A command goes `Call` (retain,
queue), `Dequeue` (its turn, then admitted again), `CommandEnds` or
`CommandFails` and `Invalidate`, where it may have outlived its aborted run. A
run goes `Look`, `CreateRow`, `Begin` (slot and retain), its admission, `Finish`
and `Settle`; an aborted one keeps its slot until its settle. `Reap`/`Reaped` is
the idle reaper, `Delete`, `Destroy`, `Destroyed`, `DeleteRow`, `CompleteDelete`
a DELETE or the deletion a boot finishes. `CreateStaged` and `Attach` are the
two halves of POST /threads with a staged source; `Upload`, `Age` and `Reclaim`
its retention. `Close`, `ReleaseAll`, `Crash` and `Boot` end and begin a worker.

Assumed or left out: the thread's id is unknown to other clients until its
creation is answered; a Docker call has its effect before it answers; subagents
share the root's key; the definition comes from a resolver; the deletion of
checkpoints and row is one await; a workspace's own retention (Docker keeps it
until it is destroyed), the sandbox record's contents and the workspace reader
are not modelled.

### DevSession

`proc[c]` is the c-th child process, `news[c]` what its ready promise was told
first, `gone` the children whose close event the parent has seen, `stop[c]`
where the handle's `stop()` stands. `loop` is the place of `startOrRestart`
between its awaits: stopping the old child (`Stopped`), validating, generating
types and spawning (`Check`), waiting for readiness and health (`Judge`),
stopping a child that failed (`Abandoned`, "quit" when the port is in use).
`start()` and `requestRestart` run the same loop and differ in what a failure
does (`Fails`; `first` says which of them runs). `Succeeds` makes the child the
current one, or starts over for a pending change at once. `Boot`, `Terminate`
and `Dies` are the child's own steps; `Exits` is its close event, which settles
its ready promise, lets a waiting `stop()` return, and ends the session if the
child was the current one (`FailFatal`). `Edit` is a change that is not
ignored. `ParentExits` ends the command's process once the session's promise is
settled, `ParentKilled` at any time: by SIGKILL, or by a signal that comes before
`dev.ts` has its handlers (which it registers only when `start()` has returned) or
after they were used up. Children live on without it. `late` notes that a restart was in flight
when the session ended (or that it began after `start()` had failed, whose
watcher stays open).

## 3. Runs

All runs that pass are exhaustive. Deadlock is not checked: the inputs are finite (each
request, prompt, viewer and command is used once), so every instance stops when
they are used up; progress is stated as liveness instead.

| Run | Shows | Bounds, and why they are enough |
|---|---|---|
| `lifetime` | slots, stores, signals, counter and drain stay sound; a cancel hits only the run it observed; the stores of every finished request are disposed | 3 requests that contend for 1 thread, 1 cancel: an owner, a successor, and a late comer during shutdown. Threads do not share registry state |
| `lifetime_drain` | violation, see section 4 | 1 request |
| `grants` | at-most-once delivery, rows only move forward, a settling turn spares its own prompts | 2 prompts (one without a row), 2 resumes and 1 turn, 2 processes: the smallest instance with two rivals in two processes and a settle in between |
| `grants_reprompt` | violation, see section 4 | the smallest instance that shows it |
| `hub` | the hub implements the broadcast; live entries; no lost wake-up; queue accounting; viewers of ended turns finish | 2 turns of one thread (replacement), 2 viewers with a limit of 1 or 2, 3 chunks in the first turn and none in the second; sizes chosen so that the digest overflows, a queue overflows by bytes and by frames, and one event never fits a queue. No symmetry, because the run checks liveness |
| `client_calls` | parked calls stay answerable and leave only with a result; stored results reach the model; records close once; nothing is held beyond its request | 2 client calls and 1 gated call (mixed parks, partial results), 3 requests (the turn that parks and two rivals to resolve it), 1 crash |
| `client_deadend` | violation, see section 4 | 1 client call, 1 gated call, no crash |
| `admission` | the lease implements exclusive ownership; an expired owner stays expired; a stale owner stops; an abandoned thread becomes free | 2 replicas (an owner and its successor), 2 writes: enough for a stale write on top of a successor's |
| `sandbox` | the gate, the containers of running commands, handles in use, recoveries; every operation of the gate is served | 2 executions with one command each (that fail together, or one after the other's recovery), 2 cleanups of any kind. The safety properties are proved for any number. No symmetry, because the run checks liveness |
| `workspace` | sources that are named are there and leave with their thread; containers and volumes belong to an association, and the manager knows its only session; commands keep their container | 2 runs (one that leaves a late command, one that starts another session), 3 commands (two of one run, so that one queues behind the other), 1 DELETE and the boot's own, 1 crash |
| `workspace_reuse` | violation, see section 4 | 2 runs, 1 DELETE, no crash |
| `dev` | one child at a time and in somebody's charge, none after the session's orderly end, no edit forgotten; restarts and sessions come to their end while the parent lives | 3 spawns (`MaxSpawns`: the one that serves, one that fails, one after it) and 3 edits (`MaxEdits`: one that restarts, one that comes meanwhile, one after a failure) |

Each property of a passing run has a mutant: a definition changed the way a bug
would change it (kept in the module, before the real one), under which TLC finds
the property violated.

## 4. Where the code and its text disagree

* `lifetime_drain`: `run-registry.ts` says a slot is held as long as route work
  may execute, so that `close()` does not release sandboxes under it. After a
  shutdown without a shared admission the slot is freed at once; the drain can
  end with a route still unwinding, and `releaseAll` then throws.
* `grants_reprompt`: the docs promise that after a crash between consumption and
  delivery the person is prompted again; the prompt stays parked with a consumed
  row and is refused ever after.
* `client_deadend`: the AG-UI docs (`ag-ui.mdx:197`, `217-220`) promise that a
  client that never answers must not leave the thread stuck, because a new
  message abandons the call. A client call parked in the same step as a
  permission prompt can be neither abandoned (an approval is pending) nor, once
  it has expired, resumed: every further request is refused.
* `workspace_reuse`: `sandbox.mdx:88` says that deleting the thread deletes the
  record, so a thread id reused after deletion is resolved again. The association
  stays behind as a "deleted" tombstone which nothing removes, and `retain` and
  `getForThread` refuse a thread that has one: every run of a reused id fails.

## 5. Fairness

* `RequestLifetime`: weak fairness of `FinishRun` and `Dispose` only: a handler's
  finally runs once its condition holds, and a disposal promise settles. Clients,
  routes and cancels owe nothing.
* `LiveTurnHub`: weak fairness of a viewer's `SendState` and pulls: the stream is
  read. This is an assumption on the HTTP client, made for the viewer the
  property is about; the turn's producer owes nothing.
* `SandboxThread`: weak fairness of an operation's own steps and of cleanups that
  were admitted: Docker calls end (by their result, a timeout or a signal) and
  promises continue. Nobody has to start a command. A command without
  `resources.timeoutMs` that nobody aborts is outside this assumption.
* `RunAdmission`: weak fairness of each admission's serialized operations, of the
  end of an open transaction, and of Postgres ending a dead client's sessions;
  a lease expires if its owner is no longer active, so nobody renews it. Nothing
  forces an expiry under a healthy owner, and a crashed process owes nothing.
* `DevSession`: weak fairness of the parent's continuations, of its timers
  (`Deadline`) and of the delivery of its children's exits, while it lives. A child need not
  boot, heed SIGTERM or die; nobody has to edit or close.
* `ApprovalResume` and `ClientToolCalls` state no liveness: a person may never
  answer. `ManagedWorkspace` states none either: a Docker call may fail at every
  attempt.

## 6. What is proved

For every value of the constants satisfying the named assumptions (requests,
prompts, processes, viewers... any sets, finite or not, except that the runs of
the counter theorem are counted by finite sets). Each proof has an inductive
invariant, one step per action, and the implied properties. Every invariant,
action property and refinement that a passing run checks is also a theorem.

* `RequestLifetimeProofs`: `RegistryInv` (types, slots are the held runs, claims
  name begun runs) for the registry alone. Of the lifetime, every step is a registry step or a stutter
  (`LifetimeImplementsRegistry`), so the slot invariant and the identity of
  cancels carry over. `LifetimeInv` adds: which stages go with which work and
  slot (`RunStages`), `pendingRuns` counts the held slot (`SlotsCounted`), bodies
  and stores follow stages and runs, signals reach held runs
  (`SignalsReachRuns`), who may have a released slot while its route is busy
  (`ReleasedWhileBusy`), what a finished drain still knows (`DrainStands`) and the
  counter as a cardinality. `StoresOutliveRouteWork` is not inductive: a settle
  tests `pendingRuns`, so it needs `SlotsCounted` and `ReleasedWhileBusy`.
* `ApprovalResumeProofs`: `GateInv`. Delivery at most once needs that every entry
  a request is past checking or consuming is covered (`GateCovers`: it is the
  row's consumer, or the prompt has no row and the mode is optional), that a row
  appears only by the mint of its own park (`RowsAreMinted`), and that a settle
  reads after its graph ended unless it was cancelled (`SettleReadsLast`).
* `LiveTurnHubProofs`: `HubInv`. No lost wake-up needs that a subscription is held
  by exactly the attached viewers of a live turn or of one whose terminal they
  were given (`Subscriptions`, `TerminalIsServed`), and that an entry is a live
  turn. `deliver` is treated once (`DeliverEffect`, `DeliverKeepsViewers`) for
  publish and for every way a turn ends.
  That `queueBytes` stays a natural number (`HubTypeOK`) needs that it is what
  the chunks of the queue add up to. `Counted(q, b)` says so with a witness, the
  bytes from each place of the queue to its end, from which `Append` and `Tail`
  make the next one.
  The refinement (`HubImplementsBroadcast`) needs `RefInv`: a digest holds, stream
  by stream, what was published, or it was dropped (`DigestsHold`); a queue is
  exactly the part of the log that its viewer was not told yet, with the
  terminal chunk after it once the turn has ended (`QueuesAreTheRest`); and
  nobody was told anything before joining (`OutsidersAreBlank`). `DigestsHold`
  is kept because a digest has at most one entry for a call
  (`OneEntryPerCall`): then no chunk of the same stream lies behind the entry a
  chunk is merged into, and merging reorders no stream (`CoalescedParts`). The
  lemmas `Shown...` map each step of the hub to a step of the broadcast or to
  none: `open`, `close` and `closeAll` to `EndAndBegin`, `publish` to `Publish`,
  an accepted `attach` to `Join`, `NextChunk` to `See` or, for the terminal
  chunk, to `Complete`, `Leave` to `Leave` unless the viewer was already cut off.
  `FlattenSeq`, by which the mapping concatenates, is a recursive function, so
  what it does to a prolonged sequence is proved from the least counterexample
  (`NatMin`, by well-foundedness) instead of an induction rule.
  `HubCompleteIsWhole` says the same of one viewer without the broadcast: it was
  served the terminal chunk and was not told that the digest was truncated, so
  what it was shown, stream by stream, is all the turn published. Its invariant
  (`StoryInv`) is that such a viewer was shown exactly the prefix of the log up
  to its place; the log only grows, and not once the turn has ended.

* `SandboxThreadProofs`: for the gate alone, `LifecycleInv` (and `LifecycleIsFair`).
  First come, first served needs the queue to be the latest arrivals place by
  place (`InOrder`) and an operation to be in one place only (`OnePlace`).
  `EnqueueEffect` and `FinishEffect` say what an invocation and a completion do;
  the sandbox's proofs use nothing else of the gate.
  For the sandbox, `SandboxInv`. That a command keeps its container needs
  its lease (`HoldsLease`): every step that replaces or removes the container is
  exclusive. That a handle in use stays good needs the manager and the gate
  together: whoever uses or awaits a handle does so through the present entry
  (`EntryStages`), every cleanup that waits was invoked before that entry's
  acquire (`CleanupsPrecede`, where first come, first served is what counts), so
  the acquire starts from no state and none is cleaned up after it
  (`EntryIsGood`). That a recovery replaces the exhausted container only needs a
  token of the current generation to stand for the present one
  (`TokensNameKeepers`).

* `ClientToolCallsProofs`: `CallsInv`. That no parked call is voided needs that tasks
  run only in the turn that holds the slot and for calls of its message
  (`TasksAreOfTheTurn`), that the record of a call about to interrupt was not
  voided (`RecordedIsAnswerable`), that only the holder of the resume claim
  decides on parked calls (`DecidersHoldTheClaim`), what a decision was founded
  on (`RequestsAreFounded`), and that the model is called on top of no park
  (`NothingParkedUnderTheModel`). That an abandon does not overwrite a result
  stored by another request needs the claim to be held from the decision to the
  close (`AbandonedIsUnanswered`).

* `RunAdmissionProofs`: `AdmissionInv`. That a validated transaction keeps the row
  (`ValidatedTxKeepsTheRow`) needs that one which locked its own row has the lock
  (`LockedTxHoldsTheLock`); since the row moves only while it is unlocked, an
  expired or released owner can still commit, but nobody reads before it has. The
  refinement then needs that the row's owner knows the head once it has looked
  (`OwnersAreCurrent`), that nobody comes back (`Fresh`: an admission takes the
  row at most once, before it knows anything) and that writers looked first
  (`WritersLooked`).

* `ManagedWorkspaceProofs`: `IInv`. That a command keeps its container needs that
  whoever is admitted or asks to be retains the thread, and nothing is retained
  beside a deletion or a shutdown (`RetainInv`), that an await in the queue
  belongs to whom holds it (`QueueInv`), and that a session is started only when
  there is none, so that the manager's session, or the one it has to release, is
  all that runs (`SessionInv`). That a referenced source is there needs that a
  staged one is forgotten before its thread is (`StagedInv`). That nothing
  physical is lost needs that what is marked deleted was destroyed
  (`DeletionInv`), which holds with one DELETE beside the boot's own deletion
  (`OneDelete`, the hypothesis of `WorkspaceNothingLost`): with two, one may
  complete after the row what the other has not destroyed (the hazard at
  `runtime-fetch-core.ts:1974`).

* `DevSessionProofs`: `DevInv`. That the children are accounted for needs that only
  the latest child can run, and none whose stop has returned (`Placed`), what
  each stage of a restart knows of it (`Awaited`), and that nothing goes on in a
  session that has ended unless a restart was in flight (`Over`).

Only model-checked: liveness (`StoresEventuallyDisposed`,
`ViewersOfEndedTurnsFinish`, `EverybodyIsServed`, `LeasesEnd`, `SessionsSettle`),
because the prover has no rule for fairness; the violations of section 4, which
are behaviours, not theorems.

## 7. Hazards

`PROJECT.json` lists them at their lines with the properties that would catch
them. Four have none, because the code does what they describe. After a failed
recovery the manager keeps handing out the dead handle until the thread is
reaped for idleness. DELETE holds no slot while it awaits, so two that overlap
can lose track of a volume (the proof's `OneDelete`). The other two are of
`b4 dev`, and its properties hold them out, so they would not catch them:

* `startOrRestart` never looks at `closed` after its awaits, so a restart in
  flight when the session ends may leave a child behind (`late` in
  `ChildrenAreAccountedFor`).
* `stop()` recognises a child that has ended by its exit code; one that a signal
  killed has none, so a stop that begins after its close event waits for ever
  (`Hung` in `SessionsSettle`): the session's failure with "exited unexpectedly
  with code unknown" is never reported. And a child that never boots holds up
  its restart, for `waitForReady` has no deadline (`Booting`).

What the two properties do catch is listed apart from these: a child that does
not heed SIGTERM while it is replaced, given up or stopped with its session.
The parent's own death by a signal leaves its child to itself; there
`ChildrenAreAccountedFor` says only that at most one child is left.

`VoidSparesOwnPark` is about turns that drained their stream. A cancelled turn
settles while its graph may go on (`Cancel`, then `Park`): a prompt parked between
the read of the pending set and the void stays parked with a void grant, and its
answer is refused as stale, although `approval-grants.mdx:114` calls a voided
grant and a vanished interrupt the same event. The model has these steps
(`SettleRead`, `Park`, `SettleVoid`); no run states the claim.

## 8. Not modelled, and the plan

Out of scope: compiler, discovery, build targets and scaffolding (files and
text), memory (search and ranking), SQL storage (used through its contract),
the agent loop (LangChain), SDK types, user interface, evals, tests, examples.

Planned, in this order:

1. `ThreadRuns`: the thread row's status and `parked_route` against the head
   checkpoint and its turn-end stamp over runs, cancels, resumes and DELETE.
   Property: when nothing runs, the row agrees with the head. Abstract
   specification: a thread is idle, running or interrupted.
2. `AguiStream`: the translation of stream chunks to AG-UI events as a sequential
   machine. Property: brackets match on every exit.
3. Pure operators, in one module and one run: the thread gate's decision order,
   model-call retry, terminal status.

Proofs to come with them: the inductive invariant of `ThreadRuns`.
