-------------------------- MODULE InterruptGrants --------------------------
(***************************************************************************)
(* The store of single-use approval grants of one thread: the              *)
(* InterruptGrantStore contract of packages/sdk/src/interrupt-grants.ts    *)
(* and its memory, SQLite and Postgres implementations.  A row is issued   *)
(* when an approval prompt is about to park, consumed by the resume that   *)
(* answers it, voided once the thread moved past it, and deleted by the    *)
(* retention sweep after it was voided.  Each operation is one conditional *)
(* statement (or one synchronous method), hence one atomic step; the       *)
(* re-SELECT with which Postgres explains a lost consume only names the    *)
(* reason of a refusal that is already decided.                            *)
(*                                                                         *)
(* The hash, the timestamps and the recorded decision are left out: only   *)
(* whether a column is NULL decides anything.                              *)
(***************************************************************************)
CONSTANTS Prompts,    \* interrupt ids; perm-<time>-<random>, never reused
          Requests,   \* the requests that may consume a grant
          None        \* SQL NULL, JavaScript's undefined

ASSUME GrantsAssumption == None \notin Requests

VARIABLES issued,    \* prompts that have a row
          consumer,  \* the request that consumed a row; kept after deletion
          voided     \* rows whose voided_at is set

grantVars == <<issued, consumer, voided>>

GrantsInit ==
  /\ issued = {}
  /\ consumer = [p \in Prompts |-> None]
  /\ voided = {}

Outstanding == {p \in issued \ voided : consumer[p] = None}

\* What consume answers: voided is tested before consumed, staleness wins.
outcome(p) ==
  CASE p \notin issued      -> "missing"
    [] p \in voided         -> "voided"
    [] consumer[p] # None   -> "already_consumed"
    [] OTHER                -> "consumed"

\* issue: a duplicate id throws.
issue(p) ==
  /\ p \notin issued
  /\ issued' = issued \cup {p}
  /\ UNCHANGED <<consumer, voided>>

\* A consume that reads first and writes unconditionally later.
ConsumeBlind(r, p) ==
  /\ consumer' = [consumer EXCEPT ![p] = r]
  /\ UNCHANGED <<issued, voided>>

\* consume: the conditional UPDATE decides the winner; a loser changes nothing.
consume(r, p) ==
  /\ consumer' = IF outcome(p) = "consumed" THEN [consumer EXCEPT ![p] = r] ELSE consumer
  /\ UNCHANGED <<issued, voided>>

\* A sweep that also deletes consumed rows that were never voided.
SweepConsumed(stillPending, sweep) ==
  /\ voided' = (voided \cup (issued \ stillPending))
                  \ (IF sweep THEN voided ELSE {})
  /\ issued' = IF sweep THEN issued \ (voided \cup {p \in issued : consumer[p] # None})
                        ELSE issued
  /\ UNCHANGED consumer

\* A void that forgets the list of prompts to keep.
VoidAll(stillPending, sweep) ==
  /\ voided' = (voided \cup issued) \ (IF sweep THEN voided ELSE {})
  /\ issued' = IF sweep THEN issued \ voided ELSE issued
  /\ UNCHANGED consumer

\* voidSupersededGrants: voidOutstanding (consumed rows included), then, at most
\* hourly, prune: of the rows voided earlier, those past their retention.
voidSuperseded(stillPending, sweep) ==
  /\ voided' = (voided \cup (issued \ stillPending)) \ (IF sweep THEN voided ELSE {})
  /\ issued' = IF sweep THEN issued \ voided ELSE issued
  /\ UNCHANGED consumer

GrantsTypeOK ==
  /\ issued \subseteq Prompts
  /\ consumer \in [Prompts -> Requests \cup {None}]
  /\ voided \subseteq issued
=============================================================================
