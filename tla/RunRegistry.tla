---------------------------- MODULE RunRegistry ----------------------------
(***************************************************************************)
(* The process-local registry of in-flight runs: createRunRegistry in      *)
(* packages/cli/src/lib/dev/run-registry.ts.  A thread has at most one     *)
(* slot; the thread id is the identity of the run that holds it.  A cancel *)
(* request first binds a claim to the entry it observes and aborts later,  *)
(* after an awaited authorization check, so other runs may come and go in  *)
(* between.  Every operation is synchronous in the source (no await inside *)
(* it) and therefore one atomic action here.                               *)
(*                                                                         *)
(* Runs are the RunHandle objects ever returned by begin: each is begun at *)
(* most once.  Cancels are cancel requests: each binds at most one claim.  *)
(***************************************************************************)
EXTENDS Naturals, FiniteSets

CONSTANTS Threads,   \* thread ids
          Runs,      \* run handles
          Cancels,   \* POST /threads/:id/cancel requests
          None       \* JavaScript's undefined

ASSUME RegistryAssumption == None \notin Runs /\ None \notin Threads

VARIABLES entries,    \* the Map: thread -> the run whose entry is stored
          runThread,  \* the thread a handle was begun for
          released,   \* handles whose release() ran
          aborted,    \* handles whose AbortController is aborted
          cancelled,  \* handles cancelled through the registry
          listening,  \* handles still listening to their shutdown signal
          claim       \* the run a cancel request bound to

registryVars == <<entries, runThread, released, aborted, cancelled, listening, claim>>

Begun == {r \in Runs : runThread[r] # None}

\* A handle that was begun and not yet released.
Held == Begun \ released

\* The number begin's callers and close() see as activeCount().
activeCount == Cardinality({t \in Threads : entries[t] # None})

has(t) == entries[t] # None

RegistryInit ==
  /\ entries = [t \in Threads |-> None]
  /\ runThread = [r \in Runs |-> None]
  /\ released = {}
  /\ aborted = {}
  /\ cancelled = {}
  /\ listening = {}
  /\ claim = [c \in Cancels |-> None]

----------------------------------------------------------------------------
(***************************************************************************)
(* begin(threadId, shutdownSignal).  shuttingDown says whether the signal  *)
(* the caller passes is already aborted: then the new controller is        *)
(* aborted at once and no listener is attached.                            *)
(***************************************************************************)
\* A begin that forgets the check-and-set and takes an occupied slot over.
BeginOverwrites(r, t, shuttingDown) ==
  /\ runThread[r] = None
  /\ entries' = [entries EXCEPT ![t] = r]
  /\ runThread' = [runThread EXCEPT ![r] = t]
  /\ aborted' = IF shuttingDown THEN aborted \cup {r} ELSE aborted
  /\ listening' = IF shuttingDown THEN listening ELSE listening \cup {r}
  /\ UNCHANGED <<released, cancelled, claim>>

begin(r, t, shuttingDown) ==
  /\ runThread[r] = None
  /\ ~has(t)
  /\ entries' = [entries EXCEPT ![t] = r]
  /\ runThread' = [runThread EXCEPT ![r] = t]
  /\ aborted' = IF shuttingDown THEN aborted \cup {r} ELSE aborted
  /\ listening' = IF shuttingDown THEN listening ELSE listening \cup {r}
  /\ UNCHANGED <<released, cancelled, claim>>

(***************************************************************************)
(* handle.release().  A second call returns early and changes nothing; the *)
(* identity guard keeps a late release from clearing a successor's entry.  *)
(***************************************************************************)
\* A release that is neither idempotent nor guarded by identity.
ReleaseUnguarded(r) ==
  /\ r \in Begun
  /\ released' = released \cup {r}
  /\ listening' = listening \ {r}
  /\ entries' = [entries EXCEPT ![runThread[r]] = None]
  /\ UNCHANGED <<runThread, aborted, cancelled, claim>>

release(r) ==
  /\ r \in Begun
  /\ IF r \in released
       THEN UNCHANGED <<entries, released, listening>>
       ELSE /\ released' = released \cup {r}
            /\ listening' = listening \ {r}
            /\ entries' = IF entries[runThread[r]] = r
                            THEN [entries EXCEPT ![runThread[r]] = None]
                            ELSE entries
  /\ UNCHANGED <<runThread, aborted, cancelled, claim>>

\* registry.claim(threadId): bind to the entry that holds the slot right now.
bindClaim(c, t) ==
  /\ claim[c] = None
  /\ has(t)
  /\ claim' = [claim EXCEPT ![c] = entries[t]]
  /\ UNCHANGED <<entries, runThread, released, aborted, cancelled, listening>>

\* A cancel that resolves the entry when it is called, as cancel(threadId) does.
CancelLatest(c) ==
  LET now == entries[runThread[claim[c]]]
  IN  /\ claim[c] # None
      /\ now # None
      /\ cancelled' = cancelled \cup {now}
      /\ aborted' = aborted \cup {now}
      /\ UNCHANGED <<entries, runThread, released, listening, claim>>

\* claim.cancel(): false, and nothing happens, once the entry was replaced.
cancelClaim(c) ==
  /\ claim[c] # None
  /\ entries[runThread[claim[c]]] = claim[c]
  /\ cancelled' = cancelled \cup {claim[c]}
  /\ aborted' = aborted \cup {claim[c]}
  /\ UNCHANGED <<entries, runThread, released, listening, claim>>

\* The shutdown signals of the runs in S fire: every listener aborts its run.
\* A listener that a release() removed too early hears nothing.
onShutdown(S) ==
  /\ aborted' = aborted \cup (S \cap listening)
  /\ listening' = listening \ S
  /\ UNCHANGED <<entries, runThread, released, cancelled, claim>>

RegistryNext ==
  \/ \E r \in Runs, t \in Threads, b \in BOOLEAN : begin(r, t, b)
  \/ \E r \in Runs : release(r)
  \/ \E c \in Cancels, t \in Threads : bindClaim(c, t)
  \/ \E c \in Cancels : cancelClaim(c)
  \/ \E S \in SUBSET Runs : onShutdown(S)

RegistrySpec == RegistryInit /\ [][RegistryNext]_registryVars

----------------------------------------------------------------------------
\* Every variable has the type the registry's Map and handles give it.
RegistryTypeOK ==
  /\ entries \in [Threads -> Runs \cup {None}]
  /\ runThread \in [Runs -> Threads \cup {None}]
  /\ released \subseteq Runs
  /\ aborted \subseteq Runs
  /\ cancelled \subseteq Runs
  /\ listening \subseteq Runs
  /\ claim \in [Cancels -> Runs \cup {None}]

(***************************************************************************)
(* No run is orphaned: the slot of a thread is occupied exactly by the     *)
(* handle begun for it that is not released.  This is what makes the       *)
(* thread id a run identity: a second run never overwrites the first one's *)
(* entry, and a late or repeated release never frees a successor's slot    *)
(* (run-registry.ts:4-8 and the identity guard of release).                *)
(***************************************************************************)
SlotIsTheHeldRun ==
  /\ \A r \in Held : entries[runThread[r]] = r
  /\ \A t \in Threads : has(t) => entries[t] \in Held /\ runThread[entries[t]] = t

(***************************************************************************)
(* A registry cancel aborts only the run its request observed, and only    *)
(* while that run still holds its slot: whatever happened during the       *)
(* awaited authorization, run N+1 is never cancelled by a request that     *)
(* bound to run N, and a finished run is never reported as cancelled       *)
(* (RunRegistry.claim's contract).                                         *)
(***************************************************************************)
CancelHitsTheObservedRun ==
  [][\A r \in cancelled' \ cancelled :
        r \in Held /\ \E c \in Cancels : claim[c] = r]_registryVars

(***************************************************************************)
(* A live run hears its shutdown signal until it is released: every held   *)
(* run either still listens or is already aborted, and a released run      *)
(* keeps no listener on the process-long signal (the leak the module's     *)
(* header measures).                                                       *)
(***************************************************************************)
HeldRunsHearShutdown ==
  /\ Held \subseteq listening \cup aborted
  /\ listening \cap released = {}
=============================================================================
