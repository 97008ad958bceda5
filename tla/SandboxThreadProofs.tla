------------------------- MODULE SandboxThreadProofs -------------------------
(***************************************************************************)
(* The sandbox of a thread, for any executions and cleanups: no command    *)
(* loses the container it entered, a handle in use stays good, and a       *)
(* recovery replaces only the container its command could not start in.    *)
(***************************************************************************)
EXTENDS SandboxThread, TLAPS

(***************************************************************************)
(* First the gate alone, for any set of operations: exclusive operations   *)
(* run alone, the queue is never stuck, and nobody is overtaken.           *)
(***************************************************************************)
\* The waiting operations are the latest arrivals, place by place.
InOrder ==
  /\ Len(queue) <= Len(arrivals)
  /\ \A i \in 1..Len(queue) : queue[i] = arrivals[Len(arrivals) - Len(queue) + i]

\* An operation is in one place: it runs or it waits, and it waits once.
OnePlace ==
  /\ Running \subseteq Invoked
  /\ \A i \in 1..Len(queue) : queue[i] \notin Running
  /\ \A i, j \in 1..Len(queue) : queue[i] = queue[j] => i = j

LifecycleInv == LifecycleTypeOK /\ GateIsSound /\ InOrder /\ OnePlace

\* From the running operations R and the waiting ones q, the first n of q are
\* started.
Starts(q, R, n) ==
  /\ n \in 0..Len(q)
  /\ Len(queue') = Len(q) - n
  /\ \A i \in 1..Len(queue') : queue'[i] = q[n + i]
  /\ Running' = R \cup {q[i] : i \in 1..n}

\* What a step that ended the operations in S leaves running goes on.
Keeps(S) ==
  /\ shared \ S \subseteq shared'
  /\ exclusive \notin S \cup {None} => exclusive' = exclusive

Typed ==
  /\ shared' \subseteq Operations \ Exclusive
  /\ exclusive' \in Exclusive \cup {None}
  /\ queue' \in Seq(Operations)

LEMMA DrainEffect ==
  ASSUME NEW R \in SUBSET (Operations \ Exclusive), NEW busy \in Exclusive \cup {None},
         NEW q \in Seq(Operations), busy # None => R = {}, drain(R, busy, q),
         q # <<>> /\ busy = None /\ R # {} => q[1] \in Exclusive
  PROVE  /\ Typed
         /\ GateIsSound'
         /\ \E n \in Nat : Starts(q, R \cup ({busy} \ {None}), n)
         /\ R \subseteq shared' /\ (busy # None => exclusive' = busy)
<1> USE LifecycleAssumption
<1>1. CASE busy # None \/ R # {} \/ q = <<>>
  <2>1. shared' = R /\ exclusive' = busy /\ queue' = q
    BY <1>1 DEF drain
  <2>2. Starts(q, R \cup ({busy} \ {None}), 0)
    BY <2>1 DEF Starts, Running
  <2>3. Typed /\ GateIsSound'
    BY <1>1, <2>1 DEF Typed, GateIsSound, ExclusiveRunsAlone, QueueIsNeverStuck, Running
  <2> QED BY <2>1, <2>2, <2>3
<1>2. CASE ~(busy # None \/ R # {} \/ q = <<>>)
  <2>0. q[1] \in Operations /\ Len(q) \in Nat /\ Len(q) > 0
    BY <1>2
  <2>1. CASE q[1] \in Exclusive /\ shared' = {} /\ exclusive' = q[1] /\ queue' = Tail(q)
    <3>1. Starts(q, R \cup ({busy} \ {None}), 1)
      BY <1>2, <2>0, <2>1 DEF Starts, Running
    <3>2. Typed /\ GateIsSound'
      BY <1>2, <2>0, <2>1 DEF Typed, GateIsSound, ExclusiveRunsAlone, QueueIsNeverStuck, Running
    <3> QED BY <1>2, <3>1, <3>2
  <2>2. CASE \E n \in 1..Len(q) :
                /\ \A i \in 1..n : q[i] \notin Exclusive
                /\ n < Len(q) => q[n + 1] \in Exclusive
                /\ shared' = {q[i] : i \in 1..n} /\ exclusive' = None
                /\ queue' = SubSeq(q, n + 1, Len(q))
    <3>1. PICK n \in 1..Len(q) :
                /\ \A i \in 1..n : q[i] \notin Exclusive
                /\ n < Len(q) => q[n + 1] \in Exclusive
                /\ shared' = {q[i] : i \in 1..n} /\ exclusive' = None
                /\ queue' = SubSeq(q, n + 1, Len(q))
      BY <2>2
    <3>2. /\ queue' \in Seq(Operations) /\ Len(queue') = Len(q) - n
          /\ \A i \in 1..Len(queue') : queue'[i] = q[n + i]
      BY <2>0, <3>1
    <3>3. Starts(q, R \cup ({busy} \ {None}), n)
      BY <1>2, <2>0, <3>1, <3>2 DEF Starts, Running
    <3>4. \A i \in 1..n : q[i] \in Operations
      BY <2>0, <3>1
    <3>5. Typed
      BY <3>1, <3>2, <3>4 DEF Typed
    <3>6. q[1] \in shared'
      BY <2>0, <3>1
    <3>7. queue' # <<>> => queue'[1] \in Exclusive
      BY <2>0, <3>1, <3>2
    <3>8. GateIsSound'
      BY <3>1, <3>6, <3>7 DEF GateIsSound, ExclusiveRunsAlone, QueueIsNeverStuck, Running
    <3> QED BY <1>2, <3>3, <3>5, <3>8
  <2> QED BY <1>2, <2>1, <2>2 DEF drain, startWaiting
<1> QED BY <1>1, <1>2

\* What an invocation does: the new operation waits last, then some start.
LEMMA EnqueueEffect ==
  ASSUME LifecycleInv, NEW op \in Operations, enqueue(op)
  PROVE  /\ Typed /\ GateIsSound' /\ Keeps({})
         /\ \E n \in Nat : Starts(Append(queue, op), Running, n)
         /\ arrivals' = Append(arrivals, op) /\ op \notin Invoked
<1> USE LifecycleAssumption DEF LifecycleInv, LifecycleTypeOK
<1>0. arrivals' = Append(arrivals, op) /\ op \notin Invoked
  BY DEF enqueue
<1>1. CASE op \notin Exclusive /\ exclusive = None /\ queue = <<>>
  <2>1. shared' = shared \cup {op} /\ exclusive' = exclusive /\ queue' = queue
    BY <1>1 DEF enqueue
  <2>2. Starts(Append(queue, op), Running, 1)
    BY <1>1, <2>1 DEF Starts, Running
  <2>3. Typed /\ GateIsSound' /\ Keeps({})
    BY <1>1, <2>1 DEF Typed, GateIsSound, ExclusiveRunsAlone, QueueIsNeverStuck, Running, Keeps
  <2> QED BY <1>0, <2>2, <2>3
<1>2. CASE ~(op \notin Exclusive /\ exclusive = None /\ queue = <<>>)
  <2>1. drain(shared, exclusive, Append(queue, op))
    BY <1>2 DEF enqueue
  <2>2. Append(queue, op) \in Seq(Operations)
    OBVIOUS
  <2>3. exclusive # None => shared = {}
    BY DEF GateIsSound, ExclusiveRunsAlone
  <2>4. exclusive = None /\ shared # {} => Append(queue, op)[1] \in Exclusive
    BY <1>2 DEF GateIsSound, QueueIsNeverStuck
  <2>5. /\ Typed /\ GateIsSound'
        /\ \E n \in Nat : Starts(Append(queue, op), shared \cup ({exclusive} \ {None}), n)
        /\ shared \subseteq shared' /\ (exclusive # None => exclusive' = exclusive)
    BY <2>1, <2>2, <2>3, <2>4, DrainEffect
  <2> QED BY <1>0, <2>5 DEF Running, Keeps
<1> QED BY <1>1, <1>2

\* What a completion does: some of the waiting operations start.
LEMMA FinishEffect ==
  ASSUME LifecycleInv, NEW op \in Operations, finish(op)
  PROVE  /\ Typed /\ GateIsSound' /\ Keeps({op})
         /\ \E n \in Nat : Starts(queue, Running \ {op}, n)
         /\ arrivals' = arrivals
<1> USE LifecycleAssumption DEF LifecycleInv, LifecycleTypeOK
<1>0. arrivals' = arrivals /\ op \in Running
  BY DEF finish
<1>1. exclusive # None => shared = {}
  BY DEF GateIsSound, ExclusiveRunsAlone
<1>2. CASE op \in Exclusive
  <2>1. exclusive = op /\ shared = {} /\ drain(shared, None, queue)
    BY <1>0, <1>1, <1>2 DEF finish, Running
  <2>2. /\ Typed /\ GateIsSound'
        /\ \E n \in Nat : Starts(queue, shared \cup ({None} \ {None}), n)
    BY <2>1, DrainEffect
  <2>3. Running \ {op} = shared \cup ({None} \ {None})
    BY <2>1 DEF Running
  <2> QED BY <1>0, <2>1, <2>2, <2>3 DEF Keeps
<1>3. CASE op \notin Exclusive
  <2>1. op \in shared /\ exclusive = None /\ drain(shared \ {op}, exclusive, queue)
    BY <1>0, <1>1, <1>3 DEF finish, Running
  <2>2. queue # <<>> /\ shared \ {op} # {} => queue[1] \in Exclusive
    BY <2>1 DEF GateIsSound, QueueIsNeverStuck
  <2>3. /\ Typed /\ GateIsSound'
        /\ \E n \in Nat : Starts(queue, (shared \ {op}) \cup ({exclusive} \ {None}), n)
        /\ shared \ {op} \subseteq shared'
    BY <2>1, <2>2, DrainEffect
  <2>4. Running \ {op} = (shared \ {op}) \cup ({exclusive} \ {None})
    BY <2>1 DEF Running
  <2> QED BY <1>0, <2>1, <2>3, <2>4 DEF Keeps
<1> QED BY <1>2, <1>3

LEMMA LifecycleInitInv == LifecycleInit => LifecycleInv
BY LifecycleAssumption
DEF LifecycleInit, LifecycleInv, LifecycleTypeOK, GateIsSound, ExclusiveRunsAlone,
    QueueIsNeverStuck, InOrder, OnePlace, Running, Invoked

LEMMA EnqueueInv ==
  ASSUME LifecycleInv, NEW op \in Operations, enqueue(op)
  PROVE  LifecycleInv'
<1> DEFINE q == Append(queue, op)
<1>1. /\ Typed /\ GateIsSound'
      /\ arrivals' = Append(arrivals, op) /\ op \notin Invoked
  BY EnqueueEffect
<1>2. PICK n \in Nat : Starts(q, Running, n)
  BY EnqueueEffect
<1>3. queue \in Seq(Operations) /\ arrivals \in Seq(Operations)
  BY DEF LifecycleInv, LifecycleTypeOK
<1>4. LifecycleTypeOK'
  BY <1>1, <1>3 DEF Typed, LifecycleTypeOK
<1>q. /\ q \in Seq(Operations) /\ Len(q) = Len(queue) + 1 /\ q[Len(q)] = op
      /\ \A i \in 1..Len(queue) : q[i] = queue[i]
      /\ Len(arrivals') = Len(arrivals) + 1 /\ arrivals'[Len(arrivals')] = op
      /\ \A i \in 1..Len(arrivals) : arrivals'[i] = arrivals[i]
      /\ Len(queue) \in Nat /\ Len(arrivals) \in Nat /\ Len(queue') \in Nat
  BY <1>1, <1>3, <1>4 DEF LifecycleTypeOK
<1> HIDE DEF q
<1>5. \A i \in 1..Len(q) : q[i] = arrivals'[Len(arrivals') - Len(q) + i]
  <2> SUFFICES ASSUME NEW i \in 1..Len(q)
               PROVE  q[i] = arrivals'[Len(arrivals') - Len(q) + i]
    OBVIOUS
  <2>1. CASE i = Len(q)
    BY <2>1, <1>q
  <2>2. CASE i \in 1..Len(queue)
    <3>1. Len(queue) <= Len(arrivals) /\ queue[i] = arrivals[Len(arrivals) - Len(queue) + i]
      BY <2>2 DEF LifecycleInv, InOrder
    <3>2. Len(arrivals) - Len(queue) + i \in 1..Len(arrivals)
      BY <2>2, <3>1, <1>q
    <3>3. Len(arrivals') - Len(q) + i = Len(arrivals) - Len(queue) + i
      BY <2>2, <1>q
    <3> QED BY <2>2, <3>1, <3>2, <3>3, <1>q
  <2> QED BY <2>1, <2>2, <1>q
<1>6. InOrder'
  <2>1. Len(queue') <= Len(arrivals')
    BY <1>2, <1>q DEF LifecycleInv, InOrder, Starts
  <2>2. ASSUME NEW i \in 1..Len(queue')
        PROVE  queue'[i] = arrivals'[Len(arrivals') - Len(queue') + i]
    <3>1. queue'[i] = q[n + i] /\ n + i \in 1..Len(q)
      BY <1>2, <1>q DEF Starts
    <3>2. Len(arrivals') - Len(q) + (n + i) = Len(arrivals') - Len(queue') + i
      BY <1>2, <1>q DEF Starts
    <3> QED BY <3>1, <3>2, <1>5
  <2> QED BY <2>1, <2>2 DEF InOrder
<1>7. Invoked \cup {op} \subseteq Invoked'
  BY <1>1, <1>3 DEF Invoked
<1>8. \A i \in 1..Len(queue) : queue[i] \in Invoked
  BY <1>3 DEF LifecycleInv, InOrder, Invoked
<1>9. \A i, j \in 1..Len(q) : q[i] = q[j] => i = j
  BY <1>1, <1>8, <1>q DEF LifecycleInv, OnePlace
<1>10. \A i \in 1..Len(q) : q[i] \notin Running /\ q[i] \in Invoked \cup {op}
  BY <1>1, <1>8, <1>q DEF LifecycleInv, OnePlace
<1>11. OnePlace'
  <2>1. Running' \subseteq Invoked'
    <3>1. Running' = Running \cup {q[i] : i \in 1..n} /\ n \in 0..Len(q)
      BY <1>2 DEF Starts
    <3>2. \A i \in 1..n : q[i] \in Invoked \cup {op}
      BY <3>1, <1>10, <1>q
    <3>3. Running \subseteq Invoked
      BY DEF LifecycleInv, OnePlace
    <3> QED BY <3>1, <3>2, <3>3, <1>7
  <2>2. \A i \in 1..Len(queue') : queue'[i] = q[n + i] /\ n + i \in 1..Len(q)
    BY <1>2, <1>q DEF Starts
  <2>3. \A i \in 1..Len(queue') : queue'[i] \notin Running'
    <3> SUFFICES ASSUME NEW i \in 1..Len(queue'), queue'[i] \in Running' PROVE FALSE
      OBVIOUS
    <3>1. PICK j \in 1..n : q[n + i] = q[j]
      BY <2>2, <1>2, <1>10 DEF Starts
    <3>2. j \in 1..Len(q)
      BY <1>2, <1>q DEF Starts
    <3>3. n + i = j
      BY <3>1, <3>2, <2>2, <1>9
    <3> QED BY <3>3, <1>q
  <2>4. \A i, j \in 1..Len(queue') : queue'[i] = queue'[j] => i = j
    <3> SUFFICES ASSUME NEW i \in 1..Len(queue'), NEW j \in 1..Len(queue'), queue'[i] = queue'[j]
                 PROVE  i = j
      OBVIOUS
    <3>1. n + i = n + j
      BY <2>2, <1>9
    <3> QED BY <3>1, <1>q
  <2> QED BY <2>1, <2>3, <2>4 DEF OnePlace
<1> QED BY <1>1, <1>4, <1>6, <1>11 DEF LifecycleInv

LEMMA FinishInv ==
  ASSUME LifecycleInv, NEW op \in Operations, finish(op)
  PROVE  LifecycleInv'
<1>1. Typed /\ GateIsSound' /\ arrivals' = arrivals
  BY FinishEffect
<1>2. PICK n \in Nat : Starts(queue, Running \ {op}, n)
  BY FinishEffect
<1>3. queue \in Seq(Operations) /\ arrivals \in Seq(Operations)
  BY DEF LifecycleInv, LifecycleTypeOK
<1>4. LifecycleTypeOK'
  BY <1>1, <1>3 DEF Typed, LifecycleTypeOK
<1>5. InOrder'
  BY <1>1, <1>2, <1>3, <1>4 DEF LifecycleInv, InOrder, Starts, LifecycleTypeOK
<1>6. Invoked' = Invoked /\ \A i \in 1..Len(queue) : queue[i] \in Invoked
  BY <1>1, <1>3 DEF LifecycleInv, InOrder, Invoked
<1>7. OnePlace'
  <2>1. Running' \subseteq Invoked'
    BY <1>2, <1>3, <1>6 DEF Starts, LifecycleInv, OnePlace
  <2>2. \A i \in 1..Len(queue') : queue'[i] \notin Running'
    <3> SUFFICES ASSUME NEW i \in 1..Len(queue'), queue'[i] \in Running' PROVE FALSE
      OBVIOUS
    <3>1. queue'[i] = queue[n + i] /\ n + i \in 1..Len(queue)
      BY <1>2, <1>3 DEF Starts
    <3>2. queue[n + i] \in Running \/ \E j \in 1..n : queue[n + i] = queue[j]
      BY <3>1, <1>2 DEF Starts
    <3>3. \A j \in 1..n : j \in 1..Len(queue)
      BY <1>2, <1>3 DEF Starts
    <3> QED BY <3>1, <3>2, <3>3 DEF LifecycleInv, OnePlace
  <2>3. \A i, j \in 1..Len(queue') : queue'[i] = queue'[j] => i = j
    BY <1>2, <1>3 DEF Starts, LifecycleInv, OnePlace
  <2> QED BY <2>1, <2>2, <2>3 DEF OnePlace
<1> QED BY <1>1, <1>4, <1>5, <1>7 DEF LifecycleInv

LEMMA LifecycleStutterInv ==
  ASSUME LifecycleInv, UNCHANGED gateVars
  PROVE  LifecycleInv'
<1>1. shared' = shared /\ exclusive' = exclusive /\ queue' = queue /\ arrivals' = arrivals
  BY DEF gateVars
<1>2. Running' = Running /\ Invoked' = Invoked
  BY <1>1 DEF Running, Invoked
<1>3. LifecycleTypeOK' /\ InOrder'
  BY <1>1 DEF LifecycleInv, LifecycleTypeOK, InOrder
<1>4. GateIsSound'
  BY <1>1, <1>2 DEF LifecycleInv, GateIsSound, ExclusiveRunsAlone, QueueIsNeverStuck
<1>5. OnePlace'
  BY <1>1, <1>2 DEF LifecycleInv, OnePlace
<1> QED BY <1>3, <1>4, <1>5 DEF LifecycleInv

LEMMA LifecycleInvImplies == LifecycleInv => GateIsFair
<1> SUFFICES ASSUME LifecycleInv PROVE FirstComeFirstServed
  BY DEF LifecycleInv, GateIsFair
<1> DEFINE n == Len(arrivals) - Len(queue)
           s == SubSeq(arrivals, n + 1, Len(arrivals))
<1>1. /\ queue \in Seq(Operations) /\ arrivals \in Seq(Operations)
      /\ Len(queue) <= Len(arrivals)
      /\ \A i \in 1..Len(queue) : queue[i] = arrivals[n + i]
  BY DEF LifecycleInv, LifecycleTypeOK, InOrder
<1>2. s \in Seq(Operations) /\ Len(s) = Len(queue) /\ \A i \in 1..Len(queue) : s[i] = arrivals[n + i]
  BY <1>1
<1>3. queue = s
  BY <1>1, <1>2
<1> QED BY <1>1, <1>3 DEF FirstComeFirstServed

(***************************************************************************)
(* The coordinator's promise for any set of operations: an exclusive one   *)
(* runs alone, a queue always has somebody running who will drain it, and  *)
(* nobody overtakes an operation that was invoked before.                  *)
(***************************************************************************)
THEOREM LifecycleIsFair == LifecycleSpec => []GateIsFair
<1>1. LifecycleInv /\ [LifecycleNext]_gateVars => LifecycleInv'
  BY EnqueueInv, FinishInv, LifecycleStutterInv DEF LifecycleNext
<1> QED BY LifecycleInitInv, <1>1, LifecycleInvImplies, PTL DEF LifecycleSpec

(***************************************************************************)
(* Now the sandbox behind the gate.                                        *)
(***************************************************************************)

Shapes ==
  /\ stage \in [Executions -> {"new", "retained", "awaiting", "using", "ended"}]
  /\ cmd \in [Executions -> Commands]
  /\ entry \in Executions \cup {None}
  /\ handleOf \in [Executions -> Executions \cup {None}]
  /\ acquiring \subseteq Executions
  /\ awaits \in [Executions -> Executions \cup {None}]
  /\ handle \in [Executions -> Executions \cup {None}]
  /\ snapshot \in [Cleanups -> Executions \cup {None}]
  /\ work \in [Cleanups -> {"new", "release", "destroy", "none"}]
  /\ token \in [Executions -> [state : Executions \cup {None}, generation : Nat]]
  /\ inside \in [Executions -> Operations \cup {found, None}]
  /\ current \in Executions \cup {None}
  /\ generation \in [Executions -> Nat]
  /\ keeper \in Operations \cup {found, None}
  /\ volume \in {"none", "kept"}
  /\ retired \subseteq Executions

Pending == Running \cup Waiting
CleanupOps == {cleanupOp(k) : k \in Cleanups}

\* An acquire under way is that of the entry, and who awaits it awaits the
\* entry; who uses a handle uses the entry's.
EntryStages ==
  /\ acquiring \subseteq {entry}
  /\ \A x \in acquiring : stage[x] = "awaiting"
  /\ \A x \in Executions :
       /\ stage[x] = "awaiting" => awaits[x] = entry /\ entry \in acquiring
       /\ stage[x] # "awaiting" => awaits[x] = None
       /\ stage[x] = "using" => entry \in Executions \ acquiring /\ handle[x] = handleOf[entry]

\* Commands are issued through a handle and leave a token of its state.
CommandsHaveHandles ==
  \A x \in Executions :
    /\ handle[x] # None => stage[x] \in {"using", "ended"}
    /\ cmd[x] # "idle" => handle[x] # None
    /\ cmd[x] \notin {"idle", "waiting"} => token[x].state # None

\* States are named by executions whose acquire settled.
Named == {x \in Executions : stage[x] \in {"using", "ended"}} \cup {None}
NamesAreSettled ==
  /\ current \in Named
  /\ \A x \in Executions : handle[x] \in Named /\ handleOf[x] \in Named /\ token[x].state \in Named

\* Nothing is cleaned up after the acquire of e.
NoCleanupAfter(q, R, e) ==
  /\ acquireOp(e) \in R => \A i \in 1..Len(q) : q[i] \notin CleanupOps
  /\ \A i, j \in 1..Len(q) : q[i] = acquireOp(e) /\ i < j => q[j] \notin CleanupOps

\* The gate holds the acquire of the entry at most, and every pending cleanup
\* was invoked before it; an entry with a handle has no pending cleanup.
CleanupsPrecede ==
  /\ \A x \in Executions : acquireOp(x) \in Pending => x \in acquiring
  /\ entry \in Executions => NoCleanupAfter(queue, Running, entry)
  /\ entry \in Executions \ acquiring => Pending \cap CleanupOps = {}

\* The entry's handle is good; a state is current for the entry or until its cleanup.
EntryIsGood ==
  /\ entry \in Executions \ acquiring /\ handleOf[entry] \notin retired =>
       handleOf[entry] = current /\ keeper # None /\ volume = "kept"
  /\ current # None =>
       (entry \in Executions \ acquiring /\ handleOf[entry] = current) \/ Pending \cap CleanupOps # {}

HoldsLease ==
  \A x \in Executions :
    /\ cmd[x] = "in" => execOp(x) \in shared
    /\ cmd[x] = "retrying" => exclusive = recoverOp(x)

\* A token of the current generation stands for the present keeper.
TokensNameKeepers ==
  \A x \in Executions :
    /\ token[x].state # None => token[x].generation <= generation[token[x].state]
    /\ cmd[x] \in {"in", "exhausted", "fencing"} /\ current # None /\ token[x].state = current
          /\ token[x].generation = generation[current] => inside[x] = keeper

SandboxInv ==
  /\ LifecycleInv
  /\ Shapes
  /\ EntryStages
  /\ CommandsHaveHandles
  /\ NamesAreSettled
  /\ CleanupsPrecede
  /\ EntryIsGood
  /\ HoldsLease
  /\ CommandsKeepTheirKeeper
  /\ TokensNameKeepers
----------------------------------------------------------------------------
LEMMA OpsDiffer ==
  /\ \A x, y \in Executions :
       /\ acquireOp(x) = acquireOp(y) => x = y
       /\ execOp(x) = execOp(y) => x = y
       /\ recoverOp(x) = recoverOp(y) => x = y
       /\ acquireOp(x) # execOp(y) /\ acquireOp(x) # recoverOp(y) /\ execOp(x) # recoverOp(y)
  /\ \A x \in Executions :
       {acquireOp(x), execOp(x), recoverOp(x)} \cap CleanupOps = {}
BY DEF acquireOp, execOp, recoverOp, cleanupOp, CleanupOps

LEMMA OpsAreOperations ==
  /\ \A x \in Executions : /\ acquireOp(x) \in Exclusive /\ recoverOp(x) \in Exclusive
                           /\ execOp(x) \in Operations \ Exclusive
  /\ \A k \in Cleanups : cleanupOp(k) \in Exclusive
  /\ CleanupOps \subseteq Exclusive /\ Exclusive \subseteq Operations
<1>1. \A x \in Executions : execOp(x) \notin Exclusives
  BY DEF acquireOp, execOp, recoverOp, cleanupOp, Exclusives
<1> QED BY <1>1, SandboxAssumption, LifecycleAssumption DEF Exclusives, Shareds, CleanupOps

\* What is pending changes by the invoked and the completed operation alone.
LEMMA PendingSteps ==
  ASSUME LifecycleInv, NEW op \in Operations
  PROVE  /\ enqueue(op) => Pending' = Pending \cup {op} /\ op \notin Pending
         /\ finish(op) => Pending' = Pending \ {op} /\ op \in Pending
<1>0. queue \in Seq(Operations) /\ arrivals \in Seq(Operations) /\ Len(queue) \in Nat
  BY DEF LifecycleInv, LifecycleTypeOK
<1>1. ASSUME NEW q \in Seq(Operations), NEW R, NEW n \in Nat, Starts(q, R, n)
      PROVE  Pending' = R \cup {q[i] : i \in 1..Len(q)}
  <2>1. Running' = R \cup {q[i] : i \in 1..n}
    BY <1>1 DEF Starts
  <2>2. Waiting' = {q[n + i] : i \in 1..(Len(q) - n)}
    BY <1>1 DEF Starts, Waiting
  <2>3. \A i \in 1..Len(q) : i \in 1..n \/ (i - n \in 1..(Len(q) - n) /\ i = n + (i - n))
    BY <1>1
  <2>4. \A i \in 1..(Len(q) - n) : n + i \in 1..Len(q)
    BY <1>1
  <2>5. \A i \in 1..n : i \in 1..Len(q)
    BY <1>1 DEF Starts
  <2> QED BY <2>1, <2>2, <2>3, <2>4, <2>5 DEF Pending
<1>2. ASSUME enqueue(op) PROVE Pending' = Pending \cup {op} /\ op \notin Pending
  <2>1. PICK n \in Nat : Starts(Append(queue, op), Running, n)
    BY <1>2, EnqueueEffect
  <2>2. Append(queue, op) \in Seq(Operations)
    BY <1>0
  <2>3. Pending' = Running \cup {Append(queue, op)[i] : i \in 1..Len(Append(queue, op))}
    BY <1>1, <2>1, <2>2
  <2>4. {Append(queue, op)[i] : i \in 1..Len(Append(queue, op))} = Waiting \cup {op}
    BY <1>0 DEF Waiting
  <2>5. op \notin Invoked
    BY <1>2, EnqueueEffect
  <2>6. Waiting \subseteq Invoked /\ Running \subseteq Invoked
    BY <1>0 DEF LifecycleInv, InOrder, OnePlace, Waiting, Invoked
  <2> QED BY <2>3, <2>4, <2>5, <2>6 DEF Pending
<1>3. ASSUME finish(op) PROVE Pending' = Pending \ {op} /\ op \in Pending
  <2>1. PICK n \in Nat : Starts(queue, Running \ {op}, n)
    BY <1>3, FinishEffect
  <2>2. Pending' = (Running \ {op}) \cup Waiting
    BY <1>0, <1>1, <2>1 DEF Waiting
  <2>3. op \in Running /\ op \notin Waiting
    BY <1>3 DEF finish, LifecycleInv, OnePlace, Waiting
  <2> QED BY <2>2, <2>3 DEF Pending
<1> QED BY <1>2, <1>3

\* The order of acquires and cleanups survives a start.
LEMMA StartsKeepOrder ==
  ASSUME NEW q \in Seq(Operations), NEW R, NEW n \in Nat, NEW e, Starts(q, R, n),
         NoCleanupAfter(q, R, e), queue' \in Seq(Operations)
  PROVE  NoCleanupAfter(queue', Running', e)
<1>1. \A i \in 1..Len(queue') : queue'[i] = q[n + i] /\ n + i \in 1..Len(q)
  BY DEF Starts
<1>2. ASSUME acquireOp(e) \in Running', NEW i \in 1..Len(queue')
      PROVE  queue'[i] \notin CleanupOps
  <2>1. CASE acquireOp(e) \in R
    BY <1>1, <2>1 DEF NoCleanupAfter
  <2>2. CASE acquireOp(e) \notin R
    <3>1. PICK j \in 1..n : q[j] = acquireOp(e)
      BY <1>2, <2>2 DEF Starts
    <3>2. j \in 1..Len(q) /\ j < n + i
      BY <3>1 DEF Starts
    <3> QED BY <1>1, <3>1, <3>2 DEF NoCleanupAfter
  <2> QED BY <2>1, <2>2
<1>3. ASSUME NEW i \in 1..Len(queue'), NEW j \in 1..Len(queue'), queue'[i] = acquireOp(e), i < j
      PROVE  queue'[j] \notin CleanupOps
  <2>1. n + i < n + j
    BY <1>3
  <2> QED BY <1>1, <1>3, <2>1 DEF NoCleanupAfter
<1> QED BY <1>2, <1>3 DEF NoCleanupAfter

LEMMA OrderSteps ==
  ASSUME LifecycleInv, NEW op \in Operations, NEW e
  PROVE  /\ enqueue(op) /\ op \notin CleanupOps /\ NoCleanupAfter(queue, Running, e) =>
              NoCleanupAfter(queue', Running', e)
         /\ enqueue(op) /\ op = acquireOp(e) /\ op \notin CleanupOps =>
              NoCleanupAfter(queue', Running', e)
         /\ finish(op) /\ NoCleanupAfter(queue, Running, e) => NoCleanupAfter(queue', Running', e)
<1>0. queue \in Seq(Operations) /\ Len(queue) \in Nat
  BY DEF LifecycleInv, LifecycleTypeOK
<1> DEFINE q == Append(queue, op)
<1>q. /\ q \in Seq(Operations) /\ Len(q) = Len(queue) + 1 /\ q[Len(q)] = op
      /\ \A i \in 1..Len(queue) : q[i] = queue[i]
  BY <1>0
<1> HIDE DEF q
<1>1. ASSUME enqueue(op), op \notin CleanupOps,
             NoCleanupAfter(queue, Running, e) \/ op = acquireOp(e)
      PROVE  NoCleanupAfter(queue', Running', e)
  <2>1. PICK n \in Nat : Starts(q, Running, n)
    BY <1>1, EnqueueEffect DEF q
  <2>2. queue' \in Seq(Operations)
    BY <1>1, EnqueueEffect DEF Typed
  <2>3. CASE NoCleanupAfter(queue, Running, e)
    <3>1. NoCleanupAfter(q, Running, e)
      BY <1>0, <1>q, <1>1, <2>3 DEF NoCleanupAfter
    <3> QED BY <1>q, <2>1, <2>2, <3>1, StartsKeepOrder
  <2>4. CASE op = acquireOp(e)
    <3>1. op \notin Invoked
      BY <1>1, EnqueueEffect
    <3>2. op \notin Running /\ \A i \in 1..Len(queue) : queue[i] # op
      BY <3>1, <1>0 DEF LifecycleInv, LifecycleTypeOK, InOrder, OnePlace, Invoked
    <3>3. NoCleanupAfter(q, Running, e)
      BY <1>0, <1>q, <2>4, <3>2 DEF NoCleanupAfter
    <3> QED BY <1>q, <2>1, <2>2, <3>3, StartsKeepOrder
  <2> QED BY <1>1, <2>3, <2>4
<1>2. ASSUME finish(op), NoCleanupAfter(queue, Running, e)
      PROVE  NoCleanupAfter(queue', Running', e)
  <2>1. PICK n \in Nat : Starts(queue, Running \ {op}, n)
    BY <1>2, FinishEffect
  <2>2. queue' \in Seq(Operations)
    BY <1>2, FinishEffect DEF Typed
  <2>3. NoCleanupAfter(queue, Running \ {op}, e)
    BY <1>2 DEF NoCleanupAfter
  <2> QED BY <1>0, <2>1, <2>2, <2>3, StartsKeepOrder
<1> QED BY <1>1, <1>2
----------------------------------------------------------------------------
LEMMA SandboxInitInv == Init => SandboxInv
<1> SUFFICES ASSUME Init PROVE SandboxInv
  OBVIOUS
<1> USE SandboxAssumption
<1>1. LifecycleInv /\ Pending = {}
  BY LifecycleInitInv DEF Init, LifecycleInit, Pending, Running, Waiting
<1>2. Shapes
  BY DEF Init, Shapes, Commands
<1>3. EntryStages /\ CommandsHaveHandles /\ NamesAreSettled
  BY DEF Init, EntryStages, CommandsHaveHandles, NamesAreSettled, Named
<1>4. CleanupsPrecede /\ EntryIsGood
  BY <1>1 DEF Init, CleanupsPrecede, EntryIsGood
<1>5. HoldsLease /\ CommandsKeepTheirKeeper /\ TokensNameKeepers
  BY DEF Init, HoldsLease, CommandsKeepTheirKeeper, TokensNameKeepers
<1> QED BY <1>1, <1>2, <1>3, <1>4, <1>5 DEF SandboxInv

\* What every step is, for one execution or one cleanup.
LEMMA GateStep ==
  ASSUME SandboxInv, [Next]_vars
  PROVE  LifecycleInv'
<1> USE OpsAreOperations
<1>0. LifecycleInv
  BY DEF SandboxInv
<1>1. (\E op \in Operations : enqueue(op) \/ finish(op)) \/ UNCHANGED gateVars
  <2>1. ASSUME NEW x \in Executions, retain(x) \/ getForThread(x) \/ release(x) \/ runCommand(x)
        PROVE  (\E op \in Operations : enqueue(op)) \/ UNCHANGED gateVars
    BY <2>1 DEF retain, getForThread, release, runCommand
  <2>2. ASSUME NEW x \in Executions, Proceed(x)
        PROVE  (\E op \in Operations : enqueue(op) \/ finish(op)) \/ UNCHANGED gateVars
    BY <2>2 DEF Proceed, acquire, acquireFails, attempt, attempted, recoverAndRetry, recoverStale,
                recover, recoverFails, retried, Retry
  <2>3. ASSUME NEW k \in Cleanups, reapIdle(k) \/ reapVisit(k) \/ destroyThread(k) \/ releaseAll(k) \/ cleanup(k)
        PROVE  (\E op \in Operations : enqueue(op) \/ finish(op)) \/ UNCHANGED gateVars
    BY <2>3 DEF reapIdle, reapVisit, destroyThread, releaseAll, cleanup, drop
  <2>4. UNCHANGED vars => UNCHANGED gateVars
    BY DEF vars
  <2> QED BY <2>1, <2>2, <2>3, <2>4 DEF Next
<1> QED BY <1>0, <1>1, EnqueueInv, FinishInv, LifecycleStutterInv

LEMMA StepShapes ==
  ASSUME SandboxInv, [Next]_vars
  PROVE  Shapes'
<1> USE SandboxAssumption, OpsAreOperations DEF SandboxInv, Shapes
<1>1. ASSUME NEW x \in Executions, retain(x) PROVE Shapes'
  BY <1>1 DEF retain, commandVars, dockerVars
<1>2. ASSUME NEW x \in Executions, getForThread(x) PROVE Shapes'
  <2>0. /\ handleOf' = handleOf /\ snapshot' = snapshot /\ work' = work
        /\ cmd' = cmd /\ token' = token /\ inside' = inside
        /\ current' = current /\ generation' = generation /\ keeper' = keeper
        /\ volume' = volume /\ retired' = retired
    BY <1>2 DEF getForThread, commandVars, dockerVars
  <2>1. CASE entry # None /\ entry \notin acquiring
    <3>1. /\ stage' = [stage EXCEPT ![x] = "using"]
          /\ handle' = [handle EXCEPT ![x] = handleOf[entry]]
          /\ entry' = entry /\ acquiring' = acquiring /\ awaits' = awaits
      BY <1>2, <2>1 DEF getForThread
    <3>2. handleOf[entry] \in Executions \cup {None}
      BY <2>1
    <3> QED BY <2>0, <3>1, <3>2
  <2>2. CASE entry # None /\ entry \in acquiring
    BY <1>2, <2>0, <2>2 DEF getForThread
  <2>3. CASE entry = None
    <3>1. /\ stage' = [stage EXCEPT ![x] = "awaiting"]
          /\ awaits' = [awaits EXCEPT ![x] = x]
          /\ entry' = x /\ acquiring' = acquiring \cup {x} /\ handle' = handle
      BY <1>2, <2>3 DEF getForThread
    <3> QED BY <2>0, <3>1
  <2> QED BY <2>1, <2>2, <2>3
<1>3. ASSUME NEW x \in Executions, release(x) PROVE Shapes'
  BY <1>3 DEF release, commandVars, dockerVars
<1>4. ASSUME NEW x \in Executions, runCommand(x) PROVE Shapes'
  BY <1>4 DEF runCommand, managerVars, dockerVars, Commands
<1>5. ASSUME NEW x \in Executions, NEW s \in Executions \cup {None}, settleAcquire(x, s)
      PROVE  /\ stage' \in [Executions -> {"new", "retained", "awaiting", "using", "ended"}]
             /\ entry' \in Executions \cup {None}
             /\ handleOf' \in [Executions -> Executions \cup {None}]
             /\ acquiring' \subseteq Executions
             /\ awaits' \in [Executions -> Executions \cup {None}]
             /\ handle' \in [Executions -> Executions \cup {None}]
             /\ snapshot' = snapshot /\ work' = work
             /\ cmd' = cmd /\ token' = token /\ inside' = inside
  BY <1>5 DEF settleAcquire, commandVars
<1>6. ASSUME NEW x \in Executions, acquire(x) PROVE Shapes'
  <2>1. settleAcquire(x, IF current # None THEN current ELSE x)
    BY <1>6 DEF acquire
  <2>2. (IF current # None THEN current ELSE x) \in Executions \cup {None}
    OBVIOUS
  <2> QED BY <1>5, <1>6, <2>1, <2>2 DEF acquire
<1>7. ASSUME NEW x \in Executions, acquireFails(x) PROVE Shapes'
  BY <1>5, <1>7 DEF acquireFails, LeftBehind
<1>8. ASSUME NEW x \in Executions, attempt(x) PROVE Shapes'
  <2>1. [state |-> handle[x], generation |-> generation[handle[x]]]
           \in [state : Executions \cup {None}, generation : Nat]
    BY <1>8 DEF attempt, CommandsHaveHandles
  <2> QED BY <1>8, <2>1 DEF attempt, managerVars, dockerVars, Commands
<1>9. ASSUME NEW x \in Executions, attempted(x) PROVE Shapes'
  BY <1>9 DEF attempted, managerVars, dockerVars, Commands
<1>10. ASSUME NEW x \in Executions, recoverAndRetry(x) PROVE Shapes'
  BY <1>10 DEF recoverAndRetry, managerVars, dockerVars, Commands
<1>11. ASSUME NEW x \in Executions, recoverStale(x) PROVE Shapes'
  BY <1>11 DEF recoverStale, managerVars, dockerVars, Commands
<1>12. ASSUME NEW x \in Executions, recover(x) PROVE Shapes'
  BY <1>12 DEF recover, ReplaceKeeper, Retry, Fenced, Fresh, managerVars, dockerVars, Commands
<1>13. ASSUME NEW x \in Executions, recoverFails(x) PROVE Shapes'
  <2>1. current \in Executions
    BY <1>13 DEF recoverFails, Fenced, Fresh, CommandsHaveHandles
  <2> QED BY <1>13, <2>1 DEF recoverFails, LeftBehind, managerVars, Commands
<1>14. ASSUME NEW x \in Executions, retried(x) PROVE Shapes'
  BY <1>14 DEF retried, managerVars, dockerVars, Commands
<1>15. ASSUME NEW k \in Cleanups, reapIdle(k) PROVE Shapes'
  BY <1>15 DEF reapIdle, commandVars, dockerVars
<1>16. ASSUME NEW k \in Cleanups, reapVisit(k) PROVE Shapes'
  BY <1>16 DEF reapVisit, drop, commandVars, dockerVars
<1>17. ASSUME NEW k \in Cleanups, destroyThread(k) PROVE Shapes'
  BY <1>17 DEF destroyThread, drop, commandVars, dockerVars
<1>18. ASSUME NEW k \in Cleanups, releaseAll(k) PROVE Shapes'
  BY <1>18 DEF releaseAll, drop, commandVars, dockerVars
<1>19. ASSUME NEW k \in Cleanups, cleanup(k) PROVE Shapes'
  BY <1>19 DEF cleanup, managerVars, commandVars
<1>20. ASSUME UNCHANGED vars PROVE Shapes'
  BY <1>20 DEF vars, managerVars, commandVars, dockerVars
<1> QED BY <1>1, <1>2, <1>3, <1>4, <1>6, <1>7, <1>8, <1>9, <1>10, <1>11, <1>12, <1>13, <1>14,
           <1>15, <1>16, <1>17, <1>18, <1>19, <1>20 DEF Next, Proceed

\* An acquire that runs is the entry's, and the released state before it is gone.
LEMMA AcquireStartsAfresh ==
  ASSUME SandboxInv, NEW x \in Executions, exclusive = acquireOp(x)
  PROVE  /\ x \in acquiring /\ entry = x /\ acquiring = {x} /\ stage[x] = "awaiting"
         /\ current = None /\ Pending \cap CleanupOps = {}
<1> USE SandboxAssumption
<1>1. x \in acquiring /\ entry = x /\ acquiring = {x} /\ stage[x] = "awaiting"
  <2>1. acquireOp(x) \in Pending
    BY OpsAreOperations, LifecycleAssumption DEF Pending, Running
  <2> QED BY <2>1 DEF SandboxInv, CleanupsPrecede, EntryStages
<1>2. current = None /\ Pending \cap CleanupOps = {}
  <2>1. NoCleanupAfter(queue, Running, x) /\ acquireOp(x) \in Running
    BY <1>1, OpsAreOperations, LifecycleAssumption DEF SandboxInv, CleanupsPrecede, Running
  <2>2. Waiting \cap CleanupOps = {}
    BY <2>1 DEF NoCleanupAfter, Waiting
  <2>3. Running = {acquireOp(x)}
    BY OpsAreOperations, LifecycleAssumption
    DEF SandboxInv, LifecycleInv, GateIsSound, ExclusiveRunsAlone, Running
  <2>4. Pending \cap CleanupOps = {}
    BY <2>2, <2>3, OpsDiffer DEF Pending
  <2>5. current = None
    BY <1>1, <2>4 DEF SandboxInv, EntryIsGood
  <2> QED BY <2>4, <2>5
<1> QED BY <1>1, <1>2

\* What settleAcquire does to an entry whose acquire is under way.
LEMMA SettleEffect ==
  ASSUME SandboxInv, NEW x \in Executions, exclusive = acquireOp(x),
         NEW s \in {x, None}, settleAcquire(x, s)
  PROVE  /\ EntryStages' /\ CommandsHaveHandles'
         /\ x = entry /\ current = None /\ stage'[x] \in {"using", "ended"}
         /\ \A y \in Executions : /\ y \in Named => y \in Named'
                                 /\ handle'[y] \in Named' /\ handleOf'[y] \in Named'
<1> USE SandboxAssumption
<1>1. x \in acquiring /\ entry = x /\ acquiring = {x} /\ stage[x] = "awaiting" /\ current = None
  BY AcquireStartsAfresh
<1>3. /\ acquiring' = {}
      /\ entry' = IF s = None THEN None ELSE x
      /\ handleOf' = [handleOf EXCEPT ![x] = s]
      /\ cmd' = cmd /\ token' = token
      /\ \A y \in Executions :
           /\ awaits'[y] = None
           /\ stage[y] = "awaiting" => /\ handle'[y] = s
                                       /\ stage'[y] = IF s = None THEN "ended" ELSE "using"
           /\ stage[y] # "awaiting" => /\ handle'[y] = handle[y]
                                       /\ stage'[y] = stage[y] /\ stage[y] # "using"
  BY <1>1 DEF settleAcquire, SandboxInv, Shapes, EntryStages, commandVars
<1>4. EntryStages'
  BY <1>1, <1>3 DEF SandboxInv, Shapes, EntryStages
<1>5. CommandsHaveHandles'
  BY <1>3 DEF SandboxInv, CommandsHaveHandles
<1>6. \A y \in Executions : y \in Named => y \in Named'
  BY <1>3 DEF Named
<1>7. x \in Named'
  BY <1>1, <1>3 DEF Named
<1>8. \A y \in Executions : handle'[y] \in Named' /\ handleOf'[y] \in Named'
  BY <1>3, <1>6, <1>7 DEF SandboxInv, Shapes, NamesAreSettled, Named
<1> QED BY <1>1, <1>3, <1>4, <1>5, <1>6, <1>7, <1>8 DEF Named

LEMMA StepManager ==
  ASSUME SandboxInv, [Next]_vars
  PROVE  EntryStages' /\ CommandsHaveHandles' /\ NamesAreSettled'
<1> DEFINE Goal == EntryStages' /\ CommandsHaveHandles' /\ NamesAreSettled'
<1> USE SandboxAssumption DEF SandboxInv, Shapes, EntryStages, CommandsHaveHandles, NamesAreSettled, Named
<1>1. ASSUME NEW x \in Executions, retain(x) PROVE Goal
  BY <1>1 DEF retain, commandVars, dockerVars
<1>2. ASSUME NEW x \in Executions, getForThread(x) PROVE Goal
  <2>1. CASE entry # None /\ entry \notin acquiring
    <3>1. /\ stage' = [stage EXCEPT ![x] = "using"] /\ stage[x] = "retained"
          /\ handle' = [handle EXCEPT ![x] = handleOf[entry]]
          /\ entry' = entry /\ acquiring' = acquiring /\ awaits' = awaits
          /\ handleOf' = handleOf /\ cmd' = cmd /\ token' = token /\ current' = current
      BY <1>2, <2>1 DEF getForThread, commandVars, dockerVars
    <3>2. entry \in Executions \ acquiring /\ handleOf[entry] \in Executions \cup {None}
      BY <2>1
    <3>3. EntryStages'
      BY <3>1, <3>2
    <3>4. CommandsHaveHandles'
      BY <3>1, <3>2
    <3>5. NamesAreSettled'
      BY <3>1, <3>2
    <3> QED BY <3>3, <3>4, <3>5
  <2>2. CASE entry # None /\ entry \in acquiring
    BY <1>2, <2>2 DEF getForThread, commandVars, dockerVars
  <2>3. CASE entry = None
    BY <1>2, <2>3 DEF getForThread, commandVars, dockerVars
  <2> QED BY <2>1, <2>2, <2>3
<1>3. ASSUME NEW x \in Executions, release(x) PROVE Goal
  BY <1>3 DEF release, commandVars, dockerVars
<1>4. ASSUME NEW x \in Executions, runCommand(x) PROVE Goal
  BY <1>4 DEF runCommand, managerVars, dockerVars
<1>6. ASSUME NEW x \in Executions, acquire(x) PROVE Goal
  <2>1. exclusive = acquireOp(x) /\ settleAcquire(x, IF current # None THEN current ELSE x)
    BY <1>6 DEF acquire
  <2>2. current = None
    BY <2>1, AcquireStartsAfresh
  <2>3. current' = x /\ token' = token
    BY <1>6, <2>2 DEF acquire, settleAcquire, commandVars
  <2> QED BY <2>1, <2>2, <2>3, SettleEffect
<1>7. ASSUME NEW x \in Executions, acquireFails(x) PROVE Goal
  <2>1. exclusive = acquireOp(x) /\ settleAcquire(x, None) /\ current' = current /\ token' = token
    BY <1>7 DEF acquireFails, settleAcquire, commandVars
  <2> QED BY <2>1, SettleEffect
<1>8. ASSUME NEW x \in Executions, attempt(x) PROVE Goal
  BY <1>8 DEF attempt, managerVars, dockerVars
<1>9. ASSUME NEW x \in Executions, attempted(x) PROVE Goal
  BY <1>9 DEF attempted, managerVars, dockerVars
<1>10. ASSUME NEW x \in Executions, recoverAndRetry(x) PROVE Goal
  BY <1>10 DEF recoverAndRetry, managerVars, dockerVars
<1>11. ASSUME NEW x \in Executions, recoverStale(x) PROVE Goal
  BY <1>11 DEF recoverStale, Fenced, managerVars, dockerVars
<1>12. ASSUME NEW x \in Executions, recover(x) PROVE Goal
  BY <1>12 DEF recover, Fenced, ReplaceKeeper, Retry, managerVars, dockerVars
<1>13. ASSUME NEW x \in Executions, recoverFails(x) PROVE Goal
  BY <1>13 DEF recoverFails, Fenced, managerVars
<1>14. ASSUME NEW x \in Executions, retried(x) PROVE Goal
  BY <1>14 DEF retried, managerVars, dockerVars
<1>15. ASSUME NEW k \in Cleanups, reapIdle(k) PROVE Goal
  BY <1>15 DEF reapIdle, commandVars, dockerVars
<1>d. ASSUME NEW k \in Cleanups, NEW what, drop(k, what), Uses = {} PROVE Goal
  BY <1>d DEF drop, Uses, commandVars, dockerVars
<1>16. ASSUME NEW k \in Cleanups, reapVisit(k) PROVE Goal
  <2>1. CASE Uses = {} /\ snapshot[k] \notin acquiring
    BY <1>16, <1>d, <2>1 DEF reapVisit
  <2>2. CASE ~(Uses = {} /\ snapshot[k] \notin acquiring)
    BY <1>16, <2>2 DEF reapVisit, commandVars, dockerVars
  <2> QED BY <2>1, <2>2
<1>17. ASSUME NEW k \in Cleanups, destroyThread(k) \/ releaseAll(k) PROVE Goal
  BY <1>17, <1>d DEF destroyThread, releaseAll
<1>19. ASSUME NEW k \in Cleanups, cleanup(k) PROVE Goal
  BY <1>19 DEF cleanup, managerVars, commandVars
<1>20. ASSUME UNCHANGED vars PROVE Goal
  BY <1>20 DEF vars, managerVars, commandVars, dockerVars
<1> QED BY <1>1, <1>2, <1>3, <1>4, <1>6, <1>7, <1>8, <1>9, <1>10, <1>11, <1>12, <1>13, <1>14,
           <1>15, <1>16, <1>17, <1>19, <1>20 DEF Next, Proceed

\* What pends and in which order, after each step.
LEMMA StepOrder ==
  ASSUME SandboxInv, [Next]_vars
  PROVE  CleanupsPrecede'
<1> USE SandboxAssumption, OpsAreOperations
<1>0. LifecycleInv /\ Shapes /\ EntryStages /\ CleanupsPrecede
  BY DEF SandboxInv
<1>s. ASSUME UNCHANGED <<gateVars, entry, acquiring>> PROVE CleanupsPrecede'
  BY <1>0, <1>s DEF CleanupsPrecede, NoCleanupAfter, Pending, Running, Waiting, gateVars
\* An operation of a command comes or goes.
<1>e. ASSUME NEW op \in Operations, \A x \in Executions : op # acquireOp(x), op \notin CleanupOps,
             enqueue(op), UNCHANGED <<entry, acquiring>>
      PROVE  CleanupsPrecede'
  <2>1. Pending' = Pending \cup {op}
    BY <1>0, <1>e, PendingSteps
  <2>2. entry \in Executions => NoCleanupAfter(queue', Running', entry)
    BY <1>0, <1>e, OrderSteps DEF CleanupsPrecede
  <2> QED BY <1>0, <1>e, <2>1, <2>2 DEF CleanupsPrecede
<1>f. ASSUME NEW op \in Operations, finish(op), UNCHANGED <<entry, acquiring>>
      PROVE  CleanupsPrecede'
  <2>1. Pending' = Pending \ {op}
    BY <1>0, <1>f, PendingSteps
  <2>2. entry \in Executions => NoCleanupAfter(queue', Running', entry)
    BY <1>0, <1>f, OrderSteps DEF CleanupsPrecede
  <2> QED BY <1>0, <1>f, <2>1, <2>2 DEF CleanupsPrecede
<1>2. ASSUME NEW x \in Executions, getForThread(x), entry = None PROVE CleanupsPrecede'
  <2>1. enqueue(acquireOp(x)) /\ entry' = x /\ acquiring' = acquiring \cup {x}
    BY <1>2 DEF getForThread
  <2>2. Pending' = Pending \cup {acquireOp(x)}
    BY <1>0, <2>1, PendingSteps
  <2>3. NoCleanupAfter(queue', Running', x)
    BY <1>0, <2>1, OrderSteps, OpsDiffer
  <2> QED BY <1>0, <2>1, <2>2, <2>3, OpsDiffer DEF CleanupsPrecede
<1>6. ASSUME NEW x \in Executions, exclusive = acquireOp(x), finish(acquireOp(x)),
             NEW s \in {x, None}, settleAcquire(x, s)
      PROVE  CleanupsPrecede'
  <2>1. entry = x /\ acquiring' = {} /\ entry' \in {x, None} /\ Pending \cap CleanupOps = {}
    BY <1>6, AcquireStartsAfresh DEF settleAcquire
  <2>2. Pending' = Pending \ {acquireOp(x)}
    BY <1>0, <1>6, PendingSteps
  <2>3. \A y \in Executions : acquireOp(y) \in Pending => y = x
    BY <1>0, <2>1 DEF CleanupsPrecede, EntryStages
  <2>4. NoCleanupAfter(queue', Running', x)
    BY <1>0, <1>6, <2>1, OrderSteps DEF CleanupsPrecede
  <2> QED BY <2>1, <2>2, <2>3, <2>4 DEF CleanupsPrecede
<1>7. ASSUME NEW x \in Executions, acquire(x) \/ acquireFails(x) PROVE CleanupsPrecede'
  <2>1. CASE acquire(x)
    <3>1. exclusive = acquireOp(x) /\ settleAcquire(x, IF current # None THEN current ELSE x)
      BY <2>1 DEF acquire
    <3>2. current = None
      BY <3>1, AcquireStartsAfresh
    <3> QED BY <1>6, <2>1, <3>1, <3>2 DEF acquire
  <2>2. CASE acquireFails(x)
    BY <1>6, <2>2 DEF acquireFails
  <2> QED BY <1>7, <2>1, <2>2
<1>d. ASSUME NEW k \in Cleanups, NEW what, drop(k, what), Uses = {} PROVE CleanupsPrecede'
  <2>1. enqueue(cleanupOp(k)) /\ entry' = None /\ acquiring' = acquiring
    BY <1>d DEF drop
  <2>2. Pending' = Pending \cup {cleanupOp(k)} /\ cleanupOp(k) \in CleanupOps
    BY <1>0, <2>1, PendingSteps DEF CleanupOps
  <2> QED BY <1>0, <2>1, <2>2, OpsDiffer DEF CleanupsPrecede
<1>8. ASSUME NEW x \in Executions,
             retain(x) \/ getForThread(x) \/ release(x) \/ runCommand(x) PROVE CleanupsPrecede'
  <2>1. retain(x) \/ release(x) => UNCHANGED <<gateVars, entry, acquiring>>
    BY DEF retain, release
  <2>2. getForThread(x) /\ entry # None => UNCHANGED <<gateVars, entry, acquiring>>
    BY DEF getForThread
  <2>3. runCommand(x) => enqueue(execOp(x)) /\ UNCHANGED <<entry, acquiring>>
    BY DEF runCommand, managerVars
  <2> QED BY <1>s, <1>e, <1>2, <1>8, <2>1, <2>2, <2>3, OpsDiffer
<1>9. ASSUME NEW x \in Executions, Proceed(x) PROVE CleanupsPrecede'
  <2>1. attempt(x) \/ recover(x) => UNCHANGED <<gateVars, entry, acquiring>>
    BY DEF attempt, recover, Retry, managerVars
  <2>2. attempted(x) => finish(execOp(x)) /\ UNCHANGED <<entry, acquiring>>
    BY DEF attempted, managerVars
  <2>3. recoverAndRetry(x) => enqueue(recoverOp(x)) /\ UNCHANGED <<entry, acquiring>>
    BY DEF recoverAndRetry, managerVars
  <2>4. recoverStale(x) \/ recoverFails(x) \/ retried(x) =>
          finish(recoverOp(x)) /\ UNCHANGED <<entry, acquiring>>
    BY DEF recoverStale, recoverFails, retried, managerVars
  <2> QED BY <1>s, <1>e, <1>f, <1>7, <1>9, <2>1, <2>2, <2>3, <2>4, OpsDiffer DEF Proceed
<1>10. ASSUME NEW k \in Cleanups,
              reapIdle(k) \/ reapVisit(k) \/ destroyThread(k) \/ releaseAll(k) \/ cleanup(k)
       PROVE  CleanupsPrecede'
  <2>1. reapIdle(k) => UNCHANGED <<gateVars, entry, acquiring>>
    BY DEF reapIdle
  <2>2. reapVisit(k) => (Uses = {} /\ drop(k, "release")) \/ UNCHANGED <<gateVars, entry, acquiring>>
    BY DEF reapVisit
  <2>3. destroyThread(k) \/ releaseAll(k) => Uses = {} /\ (drop(k, "destroy") \/ drop(k, "release"))
    BY DEF destroyThread, releaseAll
  <2>4. cleanup(k) => finish(cleanupOp(k)) /\ UNCHANGED <<entry, acquiring>>
    BY DEF cleanup, managerVars
  <2> QED BY <1>s, <1>f, <1>d, <1>10, <2>1, <2>2, <2>3, <2>4
<1>11. UNCHANGED vars => CleanupsPrecede'
  BY <1>s DEF vars, managerVars
<1> QED BY <1>8, <1>9, <1>10, <1>11 DEF Next

\* The entry's handle stays good, and nothing but an entry keeps a state current.
LEMMA StepGood ==
  ASSUME SandboxInv, [Next]_vars
  PROVE  EntryIsGood'
<1> USE SandboxAssumption, OpsAreOperations
<1>0. LifecycleInv /\ Shapes /\ EntryStages /\ CleanupsPrecede /\ EntryIsGood
  BY DEF SandboxInv
<1>s. ASSUME UNCHANGED <<entry, acquiring, handleOf, retired, current, volume>>,
             keeper # None => keeper' # None, Pending \cap CleanupOps \subseteq Pending'
      PROVE  EntryIsGood'
  BY <1>0, <1>s DEF EntryIsGood
\* The gate's part of a step of a command.
<1>e. ASSUME NEW op \in Operations, enqueue(op) PROVE Pending \subseteq Pending'
  BY <1>0, <1>e, PendingSteps
<1>f. ASSUME NEW op \in Operations, finish(op), op \notin CleanupOps
      PROVE  Pending \cap CleanupOps \subseteq Pending'
  BY <1>0, <1>f, PendingSteps
<1>g. ASSUME UNCHANGED gateVars PROVE Pending' = Pending
  BY <1>g DEF gateVars, Pending, Running, Waiting
<1>1. ASSUME NEW x \in Executions, retain(x) \/ release(x) \/ runCommand(x) PROVE EntryIsGood'
  <2>1. UNCHANGED <<entry, acquiring, handleOf, retired, current, volume, keeper>>
    BY <1>1 DEF retain, release, runCommand, managerVars, dockerVars
  <2>2. UNCHANGED gateVars \/ enqueue(execOp(x))
    BY <1>1 DEF retain, release, runCommand
  <2> QED BY <1>s, <1>e, <1>g, <2>1, <2>2
<1>2. ASSUME NEW x \in Executions, getForThread(x) PROVE EntryIsGood'
  <2>1. CASE entry # None
    BY <1>2, <1>s, <1>g, <2>1 DEF getForThread, dockerVars
  <2>2. CASE entry = None
    <3>1. /\ enqueue(acquireOp(x)) /\ entry' = x /\ acquiring' = acquiring \cup {x}
          /\ current' = current
      BY <1>2, <2>2 DEF getForThread, dockerVars
    <3>2. Pending \subseteq Pending'
      BY <1>e, <3>1
    <3> QED BY <1>0, <2>2, <3>1, <3>2 DEF EntryIsGood
  <2> QED BY <2>1, <2>2
<1>3. ASSUME NEW x \in Executions, acquire(x) PROVE EntryIsGood'
  <2>1. exclusive = acquireOp(x) /\ settleAcquire(x, IF current # None THEN current ELSE x)
    BY <1>3 DEF acquire
  <2>2. current = None /\ entry = x /\ acquiring = {x}
    BY <2>1, AcquireStartsAfresh
  <2>3. /\ entry' = x /\ acquiring' = {} /\ handleOf'[x] = x /\ current' = x
        /\ keeper' # None /\ volume' = "kept"
    BY <1>0, <1>3, <2>1, <2>2, LifecycleAssumption DEF acquire, settleAcquire, Shapes
  <2> QED BY <2>3 DEF EntryIsGood
<1>4. ASSUME NEW x \in Executions, acquireFails(x) PROVE EntryIsGood'
  <2>1. exclusive = acquireOp(x) /\ entry' = None /\ current' = current
    BY <1>4 DEF acquireFails, settleAcquire
  <2> QED BY <2>1, AcquireStartsAfresh DEF EntryIsGood
<1>5. ASSUME NEW x \in Executions,
             attempt(x) \/ attempted(x) \/ recoverAndRetry(x) \/ recoverStale(x) \/ retried(x)
      PROVE  EntryIsGood'
  <2>1. UNCHANGED <<entry, acquiring, handleOf, retired, current, volume, keeper>>
    BY <1>5 DEF attempt, attempted, recoverAndRetry, recoverStale, retried, managerVars, dockerVars
  <2>2. UNCHANGED gateVars \/ finish(execOp(x)) \/ enqueue(recoverOp(x)) \/ finish(recoverOp(x))
    BY <1>5 DEF attempt, attempted, recoverAndRetry, recoverStale, retried
  <2> QED BY <1>s, <1>e, <1>f, <1>g, <2>1, <2>2, OpsDiffer
<1>6. ASSUME NEW x \in Executions, recover(x) PROVE EntryIsGood'
  <2>1. /\ UNCHANGED <<entry, acquiring, handleOf, retired, current, gateVars>>
        /\ \/ keeper' = keeper /\ volume' = volume
           \/ keeper' = recoverOp(x) /\ volume' = "kept"
    BY <1>6 DEF recover, Retry, ReplaceKeeper, managerVars
  <2>2. recoverOp(x) # None
    BY LifecycleAssumption
  <2> QED BY <1>0, <1>g, <2>1, <2>2 DEF EntryIsGood
<1>7. ASSUME NEW x \in Executions, recoverFails(x) PROVE EntryIsGood'
  <2>1. UNCHANGED <<entry, acquiring, handleOf>> /\ current' = None /\ retired' = retired \cup {current}
    BY <1>7 DEF recoverFails, managerVars
  <2> QED BY <1>0, <2>1 DEF EntryIsGood
<1>8. ASSUME NEW k \in Cleanups, NEW what, drop(k, what) PROVE EntryIsGood'
  <2>1. enqueue(cleanupOp(k)) /\ entry' = None
    BY <1>8 DEF drop
  <2>2. cleanupOp(k) \in Pending' /\ cleanupOp(k) \in CleanupOps
    BY <1>0, <2>1, PendingSteps DEF CleanupOps
  <2> QED BY <2>1, <2>2 DEF EntryIsGood
<1>9. ASSUME NEW k \in Cleanups, reapIdle(k) \/ reapVisit(k) \/ destroyThread(k) \/ releaseAll(k)
      PROVE  EntryIsGood'
  <2>1. \/ drop(k, "release") \/ drop(k, "destroy")
        \/ UNCHANGED <<gateVars, entry, acquiring, handleOf, retired, current, volume, keeper>>
    BY <1>9 DEF reapIdle, reapVisit, destroyThread, releaseAll, dockerVars
  <2> QED BY <1>s, <1>g, <1>8, <2>1
<1>10. ASSUME NEW k \in Cleanups, cleanup(k) PROVE EntryIsGood'
  <2>1. UNCHANGED <<entry, acquiring>> /\ current' = None /\ finish(cleanupOp(k))
    BY <1>10 DEF cleanup, managerVars
  <2>2. cleanupOp(k) \in Pending \cap CleanupOps
    BY <1>0, <2>1, PendingSteps DEF CleanupOps
  <2> QED BY <1>0, <2>1, <2>2 DEF CleanupsPrecede, EntryIsGood
<1>11. UNCHANGED vars => EntryIsGood'
  BY <1>s, <1>g DEF vars, managerVars, dockerVars
<1> QED BY <1>1, <1>2, <1>3, <1>4, <1>5, <1>6, <1>7, <1>9, <1>10, <1>11 DEF Next, Proceed

CommandParts == HoldsLease /\ CommandsKeepTheirKeeper /\ TokensNameKeepers

\* What runs in the container, when a step leaves the container alone.
LEMMA StepLeavesKeeper ==
  ASSUME SandboxInv,
         UNCHANGED <<keeper, generation, inside, token>>, current' \in {current, None},
         NEW x \in Executions, NEW stop \in {{}, {execOp(x)}, {recoverOp(x)}, CleanupOps},
         Keeps(stop),
         \A y \in Executions : y # x => cmd'[y] = cmd[y],
         \/ cmd'[x] = cmd[x] /\ stop \in {{}, CleanupOps}
         \/ cmd'[x] \in {"waiting", "done"}
         \/ cmd[x] \in {"in", "exhausted"} /\ cmd'[x] \in {"exhausted", "fencing"}
  PROVE  CommandParts'
<1>1. HoldsLease'
  BY OpsDiffer, OpsAreOperations, LifecycleAssumption DEF SandboxInv, HoldsLease, Keeps
<1>2. CommandsKeepTheirKeeper'
  BY DEF SandboxInv, CommandsKeepTheirKeeper
<1>3. TokensNameKeepers'
  BY DEF SandboxInv, TokensNameKeepers
<1> QED BY <1>1, <1>2, <1>3 DEF CommandParts

\* What runs in the container, when an exclusive operation changes it.
LEMMA StepCommands ==
  ASSUME SandboxInv, [Next]_vars
  PROVE  CommandParts'
<1> USE SandboxAssumption, OpsAreOperations
<1>0. LifecycleInv /\ Shapes /\ CommandsHaveHandles /\ NamesAreSettled
        /\ HoldsLease /\ CommandsKeepTheirKeeper /\ TokensNameKeepers
  BY DEF SandboxInv
<1>g. UNCHANGED gateVars => Keeps({})
  BY DEF gateVars, Keeps
<1>e. \A op \in Operations : enqueue(op) => Keeps({})
  BY <1>0, EnqueueEffect
<1>f. \A op \in Operations : finish(op) => Keeps({op})
  BY <1>0, FinishEffect
\* While an exclusive operation runs no attempt does, and no retry but its own.
<1>x. ASSUME NEW x \in Executions, exclusive # None
      PROVE  cmd[x] # "in" /\ (cmd[x] = "retrying" => exclusive = recoverOp(x))
  BY <1>0, <1>x DEF HoldsLease, LifecycleInv, GateIsSound, ExclusiveRunsAlone
<1>m. ASSUME Keeps({}), UNCHANGED <<commandVars, dockerVars>> PROVE CommandParts'
  <2>1. CASE Executions = {}
    BY <2>1 DEF CommandParts, HoldsLease, CommandsKeepTheirKeeper, TokensNameKeepers
  <2>2. ASSUME NEW x \in Executions PROVE CommandParts'
    BY <1>m, <2>2, StepLeavesKeeper DEF commandVars, dockerVars
  <2> QED BY <2>1, <2>2
<1>1. ASSUME NEW x \in Executions, retain(x) \/ getForThread(x) \/ release(x) PROVE CommandParts'
  <2>1. /\ UNCHANGED <<commandVars, dockerVars>>
        /\ UNCHANGED gateVars \/ enqueue(acquireOp(x))
    BY <1>1 DEF retain, getForThread, release
  <2> QED BY <1>g, <1>e, <1>m, <2>1
<1>2. ASSUME NEW k \in Cleanups, reapIdle(k) \/ reapVisit(k) \/ destroyThread(k) \/ releaseAll(k)
      PROVE  CommandParts'
  <2>1. /\ UNCHANGED <<commandVars, dockerVars>>
        /\ UNCHANGED gateVars \/ enqueue(cleanupOp(k))
    BY <1>2 DEF reapIdle, reapVisit, destroyThread, releaseAll, drop
  <2> QED BY <1>g, <1>e, <1>m, <2>1
<1>3. ASSUME NEW x \in Executions,
             runCommand(x) \/ attempted(x) \/ recoverAndRetry(x) \/ recoverStale(x) \/ retried(x)
      PROVE  CommandParts'
  <2>1. /\ UNCHANGED <<keeper, generation, inside, token, current>>
        /\ \E c : cmd' = [cmd EXCEPT ![x] = c]
    BY <1>3 DEF runCommand, attempted, recoverAndRetry, recoverStale, retried, dockerVars
  <2>0. \A y \in Executions : y # x => cmd'[y] = cmd[y]
    BY <1>0, <2>1 DEF Shapes
  <2>2. CASE runCommand(x)
    <3>1. Keeps({}) /\ cmd'[x] = "waiting"
      BY <1>0, <1>e, <2>2 DEF runCommand, Shapes
    <3> QED BY <2>0, <2>1, <3>1, StepLeavesKeeper
  <2>3. CASE attempted(x)
    <3>1. Keeps({execOp(x)}) /\ cmd[x] = "in" /\ cmd'[x] \in {"done", "exhausted"}
      BY <1>0, <1>f, <2>3 DEF attempted, Shapes
    <3> QED BY <2>0, <2>1, <3>1, StepLeavesKeeper
  <2>4. CASE recoverAndRetry(x)
    <3>1. Keeps({}) /\ cmd[x] = "exhausted" /\ cmd'[x] = "fencing"
      BY <1>0, <1>e, <2>4 DEF recoverAndRetry, Shapes
    <3> QED BY <2>0, <2>1, <3>1, StepLeavesKeeper
  <2>5. CASE recoverStale(x) \/ retried(x)
    <3>1. Keeps({recoverOp(x)}) /\ cmd'[x] = "done"
      BY <1>0, <1>f, <2>5 DEF recoverStale, retried, Shapes
    <3> QED BY <2>0, <2>1, <3>1, StepLeavesKeeper
  <2> QED BY <1>3, <2>2, <2>3, <2>4, <2>5
<1>4. ASSUME NEW x \in Executions, attempt(x) PROVE CommandParts'
  <2>1. /\ handle[x] \in Executions /\ execOp(x) \in shared
        /\ cmd' = [cmd EXCEPT ![x] = "in"]
        /\ token'[x].state = handle[x] /\ token'[x].generation = generation[handle[x]]
        /\ inside'[x] = keeper
        /\ \A y \in Executions : y # x => token'[y] = token[y] /\ inside'[y] = inside[y]
        /\ UNCHANGED <<shared, exclusive, keeper, generation, current>>
    BY <1>0, <1>4 DEF attempt, Shapes, CommandsHaveHandles, gateVars, dockerVars
  <2>2. HoldsLease'
    BY <1>0, <2>1 DEF HoldsLease, Shapes
  <2>3. CommandsKeepTheirKeeper'
    BY <1>0, <2>1 DEF CommandsKeepTheirKeeper, Shapes
  <2>4. TokensNameKeepers'
    BY <1>0, <2>1 DEF TokensNameKeepers, Shapes
  <2> QED BY <2>2, <2>3, <2>4 DEF CommandParts
<1>5. ASSUME NEW x \in Executions, acquire(x) \/ acquireFails(x) PROVE CommandParts'
  <2>1. /\ exclusive = acquireOp(x) /\ current' \in {x, None}
        /\ UNCHANGED <<cmd, token, inside, generation>>
    BY <1>5, AcquireStartsAfresh DEF acquire, acquireFails, settleAcquire, commandVars
  <2>2. \A y \in Executions : cmd'[y] \notin {"in", "retrying"}
    BY <1>x, <2>1, OpsDiffer, LifecycleAssumption
  <2>3. \A y \in Executions : token[y].state # x
    BY <1>0, <2>1, AcquireStartsAfresh DEF NamesAreSettled, Named
  <2>4. HoldsLease' /\ CommandsKeepTheirKeeper'
    BY <2>2 DEF HoldsLease, CommandsKeepTheirKeeper
  <2>5. TokensNameKeepers'
    BY <1>0, <2>1, <2>3 DEF TokensNameKeepers
  <2> QED BY <2>4, <2>5 DEF CommandParts
<1>6. ASSUME NEW k \in Cleanups, cleanup(k) PROVE CommandParts'
  <2>1. exclusive = cleanupOp(k) /\ current' = None /\ UNCHANGED <<cmd, token, inside, generation>>
    BY <1>6 DEF cleanup, commandVars
  <2>2. \A y \in Executions : cmd'[y] \notin {"in", "retrying"}
    BY <1>x, <2>1, OpsDiffer, LifecycleAssumption DEF CleanupOps
  <2>3. TokensNameKeepers'
    BY <1>0, <2>1 DEF TokensNameKeepers
  <2> QED BY <2>2, <2>3 DEF CommandParts, HoldsLease, CommandsKeepTheirKeeper
<1>7. ASSUME NEW x \in Executions, recover(x) PROVE CommandParts'
  <2>1. /\ exclusive = recoverOp(x) /\ cmd[x] = "fencing" /\ current = token[x].state
        /\ cmd' = [cmd EXCEPT ![x] = "retrying"] /\ inside' = [inside EXCEPT ![x] = keeper']
        /\ UNCHANGED <<exclusive, token, current>>
    BY <1>7 DEF recover, Fenced, Fresh, Retry, gateVars
  <2>2. current \in Executions
    BY <1>0, <2>1 DEF Shapes, CommandsHaveHandles
  <2>3. \A y \in Executions : y # x => cmd'[y] \notin {"in", "retrying"}
    BY <1>0, <1>x, <2>1, OpsDiffer, LifecycleAssumption DEF Shapes
  <2>4. HoldsLease' /\ CommandsKeepTheirKeeper'
    BY <1>0, <2>1, <2>3 DEF HoldsLease, CommandsKeepTheirKeeper, Shapes
  <2>5. \/ generation' = generation /\ keeper' = keeper
        \/ generation' = [generation EXCEPT ![current] = @ + 1]
    BY <1>7 DEF recover, ReplaceKeeper
  <2>6. TokensNameKeepers'
    BY <1>0, <2>1, <2>2, <2>5 DEF TokensNameKeepers, Shapes
  <2> QED BY <2>4, <2>6 DEF CommandParts
<1>8. ASSUME NEW x \in Executions, recoverFails(x) PROVE CommandParts'
  <2>1. /\ exclusive = recoverOp(x) /\ cmd[x] = "fencing" /\ current' = None
        /\ cmd' = [cmd EXCEPT ![x] = "done"] /\ UNCHANGED <<token, inside, generation>>
    BY <1>8 DEF recoverFails, Fenced
  <2>2. \A y \in Executions : cmd'[y] \notin {"in", "retrying"}
    BY <1>0, <1>x, <2>1, OpsDiffer, LifecycleAssumption DEF Shapes
  <2>3. TokensNameKeepers'
    BY <1>0, <2>1 DEF TokensNameKeepers
  <2> QED BY <2>2, <2>3 DEF CommandParts, HoldsLease, CommandsKeepTheirKeeper
<1>9. UNCHANGED vars => CommandParts'
  BY <1>g, <1>m DEF vars
<1> QED BY <1>1, <1>2, <1>3, <1>4, <1>5, <1>6, <1>7, <1>8, <1>9 DEF Next, Proceed
----------------------------------------------------------------------------
LEMMA SandboxStepInv == SandboxInv /\ [Next]_vars => SandboxInv'
BY GateStep, StepShapes, StepManager, StepOrder, StepGood, StepCommands DEF SandboxInv, CommandParts

LEMMA SandboxInvariant == Spec => []SandboxInv
BY SandboxInitInv, SandboxStepInv, PTL DEF Spec

\* Type correctness, for any number of executions and cleanups of a thread.
THEOREM SandboxTypeOK == Spec => []TypeOK
<1>1. SandboxInv => TypeOK
  BY DEF SandboxInv, LifecycleInv, Shapes, TypeOK
<1> QED BY SandboxInvariant, <1>1, PTL

(***************************************************************************)
(* The provider uses its gate as the gate demands: acquires, recoveries    *)
(* and cleanups run alone, commands wait for the queue, nobody overtakes.  *)
(***************************************************************************)
THEOREM SandboxGate == Spec => []GateIsFair
<1>1. SandboxInv => GateIsFair
  BY LifecycleInvImplies DEF SandboxInv
<1> QED BY SandboxInvariant, <1>1, PTL

\* No command loses the container it entered (docker-exec.ts under its lease).
THEOREM SandboxCommands == Spec => []CommandsKeepTheirKeeper
<1>1. SandboxInv => CommandsKeepTheirKeeper
  BY DEF SandboxInv
<1> QED BY SandboxInvariant, <1>1, PTL

\* A handle in use stays good whatever is reaped, deleted or shut down beside
\* it (sandbox-manager.ts), unless a recovery of its state failed.
THEOREM SandboxHandles == Spec => []HandlesInUseAreLive
<1>1. SandboxInv => HandlesInUseAreLive
  BY DEF SandboxInv, EntryStages, EntryIsGood, HandlesInUseAreLive
<1> QED BY SandboxInvariant, <1>1, PTL

\* A recovery replaces only the keeper its own command could not start in.
THEOREM SandboxRecovery == Spec => RecoveryReplacesTheExhausted
<1>1. ASSUME SandboxInv, [Next]_vars, NEW x \in Executions,
             Fenced(x), cmd'[x] # "fencing", keeper' # keeper
      PROVE  inside[x] = keeper
  <2> USE SandboxAssumption DEF SandboxInv, Shapes
  <2>1. cmd[x] = "fencing" /\ exclusive = recoverOp(x)
    BY <1>1 DEF Fenced
  <2>2. recover(x) \/ recoverFails(x)
    <3>1. ASSUME NEW y \in Executions, Proceed(y) PROVE recover(x) \/ recoverFails(x)
      BY <1>1, <2>1, <3>1, OpsDiffer
      DEF Proceed, acquire, acquireFails, settleAcquire, attempt, attempted, recoverAndRetry,
          recoverStale, recover, recoverFails, retried, Retry, Fenced, commandVars, dockerVars
    <3>2. ASSUME NEW y \in Executions, retain(y) \/ getForThread(y) \/ release(y) \/ runCommand(y)
          PROVE FALSE
      BY <1>1, <3>2 DEF retain, getForThread, release, runCommand, dockerVars
    <3>3. ASSUME NEW k \in Cleanups,
                 reapIdle(k) \/ reapVisit(k) \/ destroyThread(k) \/ releaseAll(k) \/ cleanup(k)
          PROVE FALSE
      BY <1>1, <2>1, <3>3 DEF reapIdle, reapVisit, destroyThread, releaseAll, drop, cleanup, commandVars
    <3> QED BY <1>1, <3>1, <3>2, <3>3 DEF Next, vars, dockerVars
  <2>3. token[x].state = current /\ token[x].generation = generation[current]
    BY <1>1, <2>2 DEF recover, recoverFails, Fresh
  <2>4. token[x].state # None
    BY <1>1, <2>1 DEF CommandsHaveHandles
  <2> QED BY <1>1, <2>1, <2>3, <2>4 DEF TokensNameKeepers
<1>2. SandboxInv /\ [Next]_vars
        => [\A x \in Executions :
              Fenced(x) /\ cmd'[x] # "fencing" /\ keeper' # keeper => inside[x] = keeper]_vars
  BY <1>1
<1> QED BY <1>2, SandboxInvariant, PTL DEF Spec, RecoveryReplacesTheExhausted
=============================================================================
