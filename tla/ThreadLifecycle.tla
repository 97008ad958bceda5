-------------------------- MODULE ThreadLifecycle --------------------------
(***************************************************************************)
(* The fair shared/exclusive gate of one thread's container:               *)
(* createThreadLifecycleCoordinator in                                     *)
(* packages/sandbox/src/docker/thread-lifecycle.ts.  Shared operations run *)
(* together, exclusive ones alone, and nobody overtakes the queue.  The    *)
(* gate is keyed by thread and threads do not interact, so one thread is   *)
(* modelled; forgetting the state of an idle thread is not observable.     *)
(*                                                                         *)
(* An operation is invoked at most once.  enqueue and finish are           *)
(* synchronous in the source; the operation itself runs in between.        *)
(***************************************************************************)
EXTENDS Naturals, Sequences, FiniteSets

CONSTANTS Operations, Exclusive, None

ASSUME LifecycleAssumption == Exclusive \subseteq Operations /\ None \notin Operations

VARIABLES shared,     \* the running shared operations (activeShared is their number)
          exclusive,  \* the running exclusive operation
          queue,      \* the operations that wait
          arrivals    \* the operations invoked so far, in order (history)

gateVars == <<shared, exclusive, queue, arrivals>>

Invoked == {arrivals[i] : i \in 1..Len(arrivals)}
Waiting == {queue[i] : i \in 1..Len(queue)}
Running == shared \cup ({exclusive} \ {None})

LifecycleInit ==
  /\ shared = {}
  /\ exclusive = None
  /\ queue = <<>>
  /\ arrivals = <<>>

\* drain once nothing runs: the exclusive head, or all the leading shared operations.
startWaiting(q) ==
  \/ /\ q[1] \in Exclusive
     /\ shared' = {} /\ exclusive' = q[1] /\ queue' = Tail(q)
  \/ \E n \in 1..Len(q) :
       /\ \A i \in 1..n : q[i] \notin Exclusive
       /\ n < Len(q) => q[n + 1] \in Exclusive
       /\ shared' = {q[i] : i \in 1..n} /\ exclusive' = None
       /\ queue' = SubSeq(q, n + 1, Len(q))

\* A drain that starts everything that waits.
DrainStartsAll(running, busy, q) ==
  IF busy # None \/ running # {} \/ q = <<>>
    THEN shared' = running /\ exclusive' = busy /\ queue' = q
    ELSE shared' = {q[i] : i \in 1..Len(q)} /\ exclusive' = None /\ queue' = <<>>

\* A drain that lets an exclusive operation start beside shared ones.
DrainBesideShared(running, busy, q) ==
  IF busy # None \/ q = <<>> \/ (running # {} /\ q[1] \notin Exclusive)
    THEN shared' = running /\ exclusive' = busy /\ queue' = q
  ELSE IF running # {}
    THEN shared' = running /\ exclusive' = q[1] /\ queue' = Tail(q)
  ELSE startWaiting(q)

\* drain(threadId, state), from what is running and waiting after a change.
drain(running, busy, q) ==
  IF busy # None \/ running # {} \/ q = <<>>
    THEN shared' = running /\ exclusive' = busy /\ queue' = q
    ELSE startWaiting(q)

\* enqueue(threadId, kind, operation).
enqueue(op) ==
  /\ op \notin Invoked
  /\ arrivals' = Append(arrivals, op)
  /\ IF op \notin Exclusive /\ exclusive = None /\ queue = <<>>
       THEN shared' = shared \cup {op} /\ UNCHANGED <<exclusive, queue>>
       ELSE drain(shared, exclusive, Append(queue, op))

\* A completion that starts what waits only after an exclusive operation.
FinishForgetsToDrain(op) ==
  /\ op \in Running
  /\ IF op \in Exclusive THEN drain(shared, None, queue)
                         ELSE shared' = shared \ {op} /\ UNCHANGED <<exclusive, queue>>
  /\ UNCHANGED arrivals

\* The operation settled, either way.
finish(op) ==
  /\ op \in Running
  /\ IF op \in Exclusive THEN drain(shared, None, queue)
                         ELSE drain(shared \ {op}, exclusive, queue)
  /\ UNCHANGED arrivals

LifecycleNext == \E op \in Operations : enqueue(op) \/ finish(op)

LifecycleSpec == LifecycleInit /\ [][LifecycleNext]_gateVars

----------------------------------------------------------------------------
LifecycleTypeOK ==
  /\ shared \subseteq Operations \ Exclusive
  /\ exclusive \in Exclusive \cup {None}
  /\ queue \in Seq(Operations)
  /\ arrivals \in Seq(Operations)

(***************************************************************************)
(* An exclusive operation runs alone, and the gate is never stuck: if an   *)
(* operation waits then something runs whose completion will drain the     *)
(* queue, and what waits first behind shared operations is exclusive.      *)
(***************************************************************************)
ExclusiveRunsAlone == exclusive # None => shared = {}

QueueIsNeverStuck ==
  queue # <<>> => Running # {} /\ (exclusive = None => queue[1] \in Exclusive)

GateIsSound == ExclusiveRunsAlone /\ QueueIsNeverStuck

(***************************************************************************)
(* First come, first served: the waiting operations are the latest         *)
(* arrivals, in their order.  No shared operation slips in before an       *)
(* exclusive one that was invoked earlier, so a stream of commands cannot  *)
(* starve a release (the module's header comment).                         *)
(***************************************************************************)
FirstComeFirstServed ==
  /\ Len(queue) <= Len(arrivals)
  /\ queue = SubSeq(arrivals, Len(arrivals) - Len(queue) + 1, Len(arrivals))

\* What the coordinator promises of its exclusive operations and of its queue.
GateIsFair == GateIsSound /\ FirstComeFirstServed
=============================================================================
