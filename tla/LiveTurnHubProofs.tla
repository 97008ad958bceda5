------------------------- MODULE LiveTurnHubProofs -------------------------
(***************************************************************************)
(* Proofs about LiveTurnHub, for any threads, turns, viewers, sizes and    *)
(* limits: every turn can be ended by its producer, no viewer sleeps       *)
(* through something it had to be told, the states are well-typed, and the *)
(* hub implements the broadcast of LiveBroadcast.                          *)
(*                                                                         *)
(* The second needs to know that a viewer that was not dropped is          *)
(* subscribed to the turn it watches, and that the terminal chunk of an    *)
(* ended turn is the last of its queue until it is pulled; the third that  *)
(* queueBytes is what the chunks of the queue add up to; the refinement    *)
(* that a digest holds, stream by stream, what was published, and a queue  *)
(* exactly the part of the log that its viewer was not told yet.           *)
(***************************************************************************)
EXTENDS LiveTurnHub, SequenceTheorems, WellFoundedInduction, TLAPS

Stages == {"new", "durable", "capacity", "attached", "following", "left", "done", "overflow"}

Shapes ==
  /\ entries \in [Threads -> Turns \cup {None}]
  /\ turnThread \in [Turns -> Threads \cup {None}]
  /\ log \in [Turns -> Seq(Sources)]
  /\ ended \subseteq Opened
  /\ subscribers \in [Turns -> SUBSET Viewers]
  /\ stage \in [Viewers -> Stages]
  /\ watches \in [Viewers -> Turns \cup {None}]
  /\ queue \in [Viewers -> Seq(Chunks)]
  /\ dropped \subseteq Viewers
  /\ asleep \subseteq Viewers
  /\ terminalDelivered \subseteq Viewers

\* Subscriptions are those of the attached viewers that were not dropped.
Subscriptions ==
  /\ \A t \in Turns : \A v \in subscribers[t] :
        v \in Attached /\ watches[v] = t /\ v \notin dropped
  /\ \A v \in Attached :
        watches[v] \in Opened /\ (v \in dropped \/ v \in subscribers[watches[v]])

\* Nothing was queued, pulled or dropped before the viewer attached.
NewViewersAreBlank ==
  \A v \in Viewers : stage[v] = "new" =>
    v \notin dropped /\ v \notin terminalDelivered /\ queue[v] = <<>>

LastIsTerminal(v) == queue[v] # <<>> /\ queue[v][Len(queue[v])].src = Done

\* The terminal chunk of an ended turn waits at the end of the queue, or was pulled.
TerminalIsServed ==
  \A v \in Attached :
    v \notin dropped /\ watches[v] \in ended => v \in terminalDelivered \/ LastIsTerminal(v)

HubInv ==
  /\ Shapes
  /\ EntriesAreTheLiveTurns
  /\ Subscriptions
  /\ NewViewersAreBlank
  /\ TerminalIsServed
  /\ SleepersHaveNothingToRead

----------------------------------------------------------------------------
(* The invariant of the safety properties: HubInv. *)

\* The initial state satisfies the invariant.
LEMMA HubInitInv == Init => HubInv
<1> USE HubAssumption DEF Init
<1>1. Init => Shapes
  BY DEF Shapes, Stages, Opened
<1> QED
  BY <1>1 DEF HubInv, EntriesAreTheLiveTurns, Subscriptions, NewViewersAreBlank, Opened,
              TerminalIsServed, SleepersHaveNothingToRead, Attached

Delivered(T, src, n) ==
  /\ \A v \in Viewers :
       /\ v \notin Subscribed(T) => queue'[v] = queue[v] /\ (v \in dropped' <=> v \in dropped)
       /\ v \in Subscribed(T) => v \notin asleep'
       /\ v \in Subscribed(T) /\ v \notin dropped' =>
            queue'[v] = Append(queue[v], [src |-> src, n |-> n])
  /\ \A t \in Turns : subscribers'[t] = subscribers[t] \ dropped'

(***************************************************************************)
(* What deliver does to one viewer: nothing unless it is subscribed; a     *)
(* subscriber is dropped and unsubscribed, or gets the chunk at the end of *)
(* its queue; either way it is awake.                                      *)
(***************************************************************************)
LEMMA DeliverEffect ==
  ASSUME Shapes, Subscriptions, NEW T \in SUBSET Turns, NEW src \in Sources \cup {Done},
         NEW n \in Nat, deliver(T, src, n)
  PROVE  /\ subscribers' \in [Turns -> SUBSET Viewers]
         /\ queue' \in [Viewers -> Seq(Chunks)]
         /\ dropped' \subseteq Viewers /\ asleep' \subseteq asleep
         /\ Delivered(T, src, n)
<1>1. subscribers' \in [Turns -> SUBSET Viewers] /\ dropped' \subseteq Viewers
  BY DEF deliver, Shapes, Overrun, Subscribed
<1>2. asleep' \subseteq asleep /\ \A v \in Subscribed(T) : v \notin asleep'
  BY DEF deliver, wakes
<1>3. [src |-> src, n |-> n] \in Chunks
  BY DEF Chunks
<1>4. queue' \in [Viewers -> Seq(Chunks)]
  BY <1>3 DEF deliver, enqueue, Shapes
<1>5. \A v \in Viewers :
        /\ v \notin Subscribed(T) => queue'[v] = queue[v] /\ (v \in dropped' <=> v \in dropped)
        /\ v \in Subscribed(T) /\ v \notin dropped' =>
             queue'[v] = Append(queue[v], [src |-> src, n |-> n])
  BY DEF deliver, enqueue, Overrun
<1>6. \A t \in Turns : subscribers'[t] = subscribers[t] \ dropped'
  <2> SUFFICES ASSUME NEW t \in Turns
               PROVE  subscribers'[t] = subscribers[t] \ dropped'
    OBVIOUS
  <2>1. subscribers[t] \cap dropped = {}
    BY DEF Subscriptions
  <2>2. CASE t \in T
    BY <2>1, <2>2 DEF deliver, Shapes
  <2>3. CASE t \notin T
    <3>1. subscribers[t] \cap Overrun(T, src) = {}
      BY <2>3 DEF Overrun, Subscribed, Subscriptions
    <3> QED
      BY <2>1, <2>3, <3>1 DEF deliver, Shapes
  <2> QED
    BY <2>2, <2>3
<1> QED
  BY <1>1, <1>2, <1>4, <1>5, <1>6 DEF Delivered

(***************************************************************************)
(* A deliver keeps what the invariant says of the viewers: to turns that   *)
(* go on (ended is unchanged), or the terminal chunk to turns that end.    *)
(***************************************************************************)
LEMMA DeliverKeepsViewers ==
  ASSUME HubInv, NEW T \in SUBSET Turns, NEW src \in Sources \cup {Done}, NEW n \in Nat,
         deliver(T, src, n), UNCHANGED viewerVars, Opened \subseteq Opened',
         \/ ended' = ended /\ T \cap ended = {}
         \/ ended' = ended \cup T /\ src = Done
  PROVE  Subscriptions' /\ NewViewersAreBlank' /\ TerminalIsServed' /\ SleepersHaveNothingToRead'
<1>0. Shapes /\ Subscriptions /\ NewViewersAreBlank /\ TerminalIsServed /\ SleepersHaveNothingToRead
  BY DEF HubInv
<1>e. Delivered(T, src, n) /\ asleep' \subseteq asleep
  BY <1>0, DeliverEffect
<1>1. /\ \A v \in Viewers :
           /\ v \notin Subscribed(T) => queue'[v] = queue[v] /\ (v \in dropped' <=> v \in dropped)
           /\ v \in Subscribed(T) => v \notin asleep'
           /\ v \in Subscribed(T) /\ v \notin dropped' =>
                queue'[v] = Append(queue[v], [src |-> src, n |-> n])
      /\ \A t \in Turns : subscribers'[t] = subscribers[t] \ dropped'
      /\ asleep' \subseteq asleep
  BY <1>e DEF Delivered
<1>d. dropped \subseteq dropped'
  BY DEF deliver
<1>2. UNCHANGED <<stage, watches, terminalDelivered>> /\ Attached' = Attached
  BY DEF viewerVars, attachmentVars, pullVars, Attached
<1>3. \A v \in Attached : v \in Subscribed(T) <=> watches[v] \in T /\ v \notin dropped
  BY <1>0 DEF Subscribed, Subscriptions, Opened, Attached
<1>4. \A v \in Subscribed(T) : v \in Attached
  BY <1>0 DEF Subscribed, Subscriptions
<1>5. Subscriptions'
  BY <1>0, <1>1, <1>d, <1>2, <1>4 DEF Subscriptions, Subscribed, Opened, Attached
<1>6. NewViewersAreBlank'
  BY <1>0, <1>1, <1>d, <1>2, <1>4 DEF NewViewersAreBlank, Attached
<1>7. TerminalIsServed'
  <2> SUFFICES ASSUME NEW v \in Attached, v \notin dropped', watches[v] \in ended',
                      v \notin terminalDelivered
               PROVE  LastIsTerminal(v)'
    BY <1>2 DEF TerminalIsServed
  <2>0. v \in Viewers /\ v \notin dropped
    BY <1>d DEF Attached
  <2>1. CASE v \in Subscribed(T)
    <3>1. watches[v] \in T
      BY <1>3, <2>1
    <3>2. CASE ended' = ended \cup T /\ src = Done
      <4>1. queue'[v] = Append(queue[v], [src |-> Done, n |-> n])
        BY <1>1, <2>0, <2>1, <3>2
      <4>2. queue[v] \in Seq(Chunks)
        BY <1>0, <2>0 DEF Shapes
      <4>3. /\ Append(queue[v], [src |-> Done, n |-> n]) # <<>>
            /\ Len(Append(queue[v], [src |-> Done, n |-> n])) = Len(queue[v]) + 1
            /\ Append(queue[v], [src |-> Done, n |-> n])[Len(queue[v]) + 1] = [src |-> Done, n |-> n]
        BY <4>2
      <4> QED
        BY <4>1, <4>3 DEF LastIsTerminal
    <3>3. CASE ended' = ended /\ T \cap ended = {}
      BY <3>1, <3>3
    <3> QED
      BY <3>2, <3>3
  <2>2. CASE v \notin Subscribed(T)
    <3>1. watches[v] \notin T
      BY <1>3, <2>0, <2>2
    <3>2. watches[v] \in ended
      BY <3>1
    <3>3. LastIsTerminal(v)
      BY <1>0, <2>0, <3>2 DEF TerminalIsServed
    <3> QED
      BY <1>1, <2>0, <2>2, <3>3 DEF LastIsTerminal
  <2> QED
    BY <2>1, <2>2
<1>8. SleepersHaveNothingToRead'
  <2> SUFFICES ASSUME NEW v \in asleep'
               PROVE  /\ stage[v] = "following" /\ queue'[v] = <<>> /\ v \notin dropped'
                      /\ watches[v] \notin ended' /\ v \in subscribers'[watches[v]]
    BY <1>2 DEF SleepersHaveNothingToRead
  <2>1. v \in asleep /\ v \in Viewers /\ v \notin Subscribed(T)
    BY <1>0, <1>1 DEF Shapes
  <2>2. v \in Attached /\ watches[v] \in Turns
    BY <1>0, <2>1 DEF SleepersHaveNothingToRead, Attached, Subscriptions, Opened
  <2> QED
    BY <1>0, <1>1, <1>3, <2>1, <2>2 DEF SleepersHaveNothingToRead
<1> QED
  BY <1>5, <1>6, <1>7, <1>8

----------------------------------------------------------------------------
(* What producers do. *)

\* Opening, publishing and closing keep the invariant.
LEMMA ProducerSteps ==
  ASSUME HubInv,
         \/ \E t \in Turns, th \in Threads : open(t, th)
         \/ \E t \in Turns, src \in Sources : publish(t, src)
         \/ \E t \in Turns : close(t)
         \/ closeAll
  PROVE  HubInv'
<1> USE HubAssumption DEF HubInv
<1>1. ASSUME NEW T \in SUBSET Opened, forceClose(T), UNCHANGED viewerVars, UNCHANGED log,
             entries' \in [Threads -> Turns \cup {None}],
             turnThread' \in [Turns -> Threads \cup {None}],
             Opened \subseteq Opened', EntriesAreTheLiveTurns'
      PROVE  HubInv'
  <2>1. deliver(T, Done, 0) /\ ended' = ended \cup T /\ T \in SUBSET Turns
    BY <1>1 DEF forceClose, Opened
  <2>2. Subscriptions' /\ NewViewersAreBlank' /\ TerminalIsServed' /\ SleepersHaveNothingToRead'
    BY <1>1, <2>1, DeliverKeepsViewers
  <2>3. /\ subscribers' \in [Turns -> SUBSET Viewers] /\ queue' \in [Viewers -> Seq(Chunks)]
        /\ dropped' \subseteq Viewers /\ asleep' \subseteq asleep
    BY <2>1, DeliverEffect
  <2>4. Shapes'
    BY <1>1, <2>1, <2>3 DEF Shapes, viewerVars, attachmentVars, pullVars
  <2> QED
    BY <1>1, <2>2, <2>4
<1>2. ASSUME NEW t \in Turns, NEW th \in Threads, open(t, th)
      PROVE  HubInv'
  <2> DEFINE T == {entries[th]} \ {None}
  <2>1. T \in SUBSET Opened
    BY DEF EntriesAreTheLiveTurns
  <2>2. /\ entries' \in [Threads -> Turns \cup {None}]
        /\ turnThread' \in [Turns -> Threads \cup {None}]
        /\ Opened' = Opened \cup {t}
    BY <1>2 DEF open, Shapes, Opened
  <2>3. ended' = ended \cup T
    BY <1>2 DEF open, forceClose
  <2>4. EntriesAreTheLiveTurns'
    <3>1. t \notin ended'
      BY <1>2, <2>3 DEF open, EntriesAreTheLiveTurns, Shapes
    <3> QED
      BY <1>2, <2>2, <2>3, <3>1 DEF open, EntriesAreTheLiveTurns, Shapes, Opened
  <2>5. forceClose(T) /\ UNCHANGED viewerVars /\ UNCHANGED log
    BY <1>2 DEF open
  <2> QED
    BY <1>1, <2>1, <2>2, <2>4, <2>5
<1>3. ASSUME NEW t \in Turns, NEW src \in Sources, publish(t, src)
      PROVE  HubInv'
  <2>1. /\ deliver({t}, src, Len(log[t]) + 1) /\ t \notin ended
        /\ UNCHANGED <<entries, turnThread, ended, viewerVars>>
        /\ log' = [log EXCEPT ![t] = Append(@, src)]
    BY <1>3 DEF publish, Current
  <2>2. log' \in [Turns -> Seq(Sources)] /\ Len(log[t]) + 1 \in Nat
    BY <2>1 DEF Shapes
  <2>3. Opened' = Opened
    BY <2>1 DEF Opened
  <2>4. Subscriptions' /\ NewViewersAreBlank' /\ TerminalIsServed' /\ SleepersHaveNothingToRead'
    BY <2>1, <2>2, <2>3, DeliverKeepsViewers
  <2>5. /\ subscribers' \in [Turns -> SUBSET Viewers] /\ queue' \in [Viewers -> Seq(Chunks)]
        /\ dropped' \subseteq Viewers /\ asleep' \subseteq asleep
    BY <2>1, <2>2, DeliverEffect
  <2>6. Shapes'
    BY <2>1, <2>2, <2>3, <2>5 DEF Shapes, viewerVars, attachmentVars, pullVars
  <2>7. EntriesAreTheLiveTurns'
    BY <2>1, <2>3 DEF EntriesAreTheLiveTurns
  <2> QED
    BY <2>4, <2>6, <2>7
<1>4. ASSUME NEW t \in Turns, close(t)
      PROVE  HubInv'
  <2>1. forceClose({t}) /\ UNCHANGED viewerVars /\ UNCHANGED log /\ {t} \in SUBSET Opened
    BY <1>4 DEF close, Current
  <2>2. /\ entries' \in [Threads -> Turns \cup {None}] /\ UNCHANGED turnThread
        /\ Opened' = Opened /\ ended' = ended \cup {t}
    BY <1>4 DEF close, forceClose, Shapes, Opened
  <2>3. EntriesAreTheLiveTurns'
    BY <1>4, <2>2 DEF close, Current, EntriesAreTheLiveTurns, Shapes, Opened
  <2> QED
    BY <1>1, <2>1, <2>2, <2>3 DEF Shapes
<1>5. ASSUME closeAll
      PROVE  HubInv'
  <2> DEFINE T == {entries[th] : th \in Threads} \ {None}
  <2>1. forceClose(T) /\ UNCHANGED viewerVars /\ UNCHANGED log /\ T \in SUBSET Opened
    BY <1>5 DEF closeAll, EntriesAreTheLiveTurns
  <2>2. /\ entries' \in [Threads -> Turns \cup {None}] /\ UNCHANGED turnThread
        /\ Opened' = Opened /\ ended' = ended \cup T
    BY <1>5 DEF closeAll, forceClose, Shapes, Opened
  <2>3. EntriesAreTheLiveTurns'
    BY <1>5, <2>2 DEF closeAll, EntriesAreTheLiveTurns, Shapes, Opened
  <2> QED
    BY <1>1, <2>1, <2>2, <2>3 DEF Shapes
<1> QED
  BY <1>2, <1>3, <1>4, <1>5

----------------------------------------------------------------------------
(* What viewers do. *)

\* The last element of a sequence of two or more stays last when the first leaves.
LEMMA TailKeepsLast ==
  ASSUME NEW S, NEW q \in Seq(S), q # <<>>, Len(q) # 1
  PROVE  Len(Tail(q)) = Len(q) - 1 /\ Tail(q) # <<>> /\ Tail(q)[Len(Tail(q))] = q[Len(q)]
<1>1. Len(q) \in Nat \ {0}
  BY EmptySeq
<1>2. Len(Tail(q)) = Len(q) - 1 /\ \A i \in 1..Len(Tail(q)) : Tail(q)[i] = q[i + 1]
  BY HeadTailProperties
<1>3. Len(Tail(q)) # 0 /\ Len(<<>>) = 0
  BY <1>1, <1>2, EmptySeq
<1>4. Tail(q)[Len(q) - 1] = q[(Len(q) - 1) + 1]
  BY <1>1, <1>2, <1>3
<1>5. Tail(q)[Len(Tail(q))] = q[Len(q)]
  BY <1>1, <1>2, <1>4
<1> QED
  BY <1>2, <1>3, <1>5

\* What the viewers do keeps the invariant.
LEMMA ViewerSteps ==
  ASSUME HubInv, NEW v \in Viewers,
         \/ \E th \in Threads, limit \in ViewerLimits : attach(v, th, limit)
         \/ SendState(v) \/ Leave(v) \/ Pull(v)
  PROVE  HubInv'
<1> USE HubAssumption DEF HubInv, turnVars, attachmentVars, pullVars
<1>1. ASSUME NEW how \in {"left", "done", "overflow"}, v \in Attached, detach(v, how)
      PROVE  HubInv'
  <2>1. watches[v] \in Turns
    BY <1>1 DEF Subscriptions, Opened
  <2>2. /\ Shapes' /\ EntriesAreTheLiveTurns' /\ Attached' = Attached \ {v}
        /\ \A w \in Viewers \ {v} : queue'[w] = queue[w] /\ stage'[w] = stage[w]
        /\ stage'[v] = how /\ queue'[v] = <<>>
    BY <1>1, <2>1 DEF detach, Shapes, Stages, Attached, EntriesAreTheLiveTurns, Opened
  <2>3. Subscriptions'
    BY <1>1, <2>1, <2>2 DEF detach, Subscriptions, Shapes, Opened
  <2>4. NewViewersAreBlank'
    BY <1>1, <2>2 DEF detach, NewViewersAreBlank
  <2>5. TerminalIsServed'
    BY <1>1, <2>2 DEF detach, TerminalIsServed, LastIsTerminal, Attached
  <2>6. SleepersHaveNothingToRead'
    <3> SUFFICES ASSUME NEW w \in asleep'
                 PROVE  /\ stage'[w] = "following" /\ queue'[w] = <<>> /\ w \notin dropped'
                        /\ watches'[w] \notin ended' /\ w \in subscribers'[watches'[w]]
      BY DEF SleepersHaveNothingToRead
    <3>1. w \in asleep /\ w # v /\ w \in Viewers
      BY <1>1 DEF detach, Shapes
    <3>2. watches[w] \in Turns
      BY <3>1 DEF SleepersHaveNothingToRead, Subscriptions, Attached, Opened
    <3> QED
      BY <1>1, <2>1, <2>2, <3>1, <3>2 DEF detach, SleepersHaveNothingToRead, Shapes
  <2> QED
    BY <2>2, <2>3, <2>4, <2>5, <2>6
<1>2. ASSUME NEW th \in Threads, NEW limit \in ViewerLimits, attach(v, th, limit)
      PROVE  HubInv'
  <2>0. v \notin Attached /\ v \notin asleep /\ v \notin dropped /\ queue[v] = <<>>
        /\ \A t \in Turns : v \notin subscribers[t]
    BY <1>2 DEF attach, Attached, SleepersHaveNothingToRead, NewViewersAreBlank, Subscriptions
  <2>1. ASSUME NEW how \in {"durable", "capacity"}, stage' = [stage EXCEPT ![v] = how],
               UNCHANGED <<attachmentVars, subscribers>>
        PROVE  HubInv'
    <3>1. Shapes' /\ EntriesAreTheLiveTurns' /\ Attached' = Attached
      BY <1>2, <2>0, <2>1 DEF attach, Shapes, Stages, Attached, EntriesAreTheLiveTurns, Opened
    <3>2. Subscriptions' /\ TerminalIsServed'
      BY <1>2, <2>1, <3>1 DEF attach, Subscriptions, Opened, TerminalIsServed, LastIsTerminal
    <3>3. NewViewersAreBlank' /\ SleepersHaveNothingToRead'
      BY <1>2, <2>0, <2>1 DEF attach, NewViewersAreBlank, SleepersHaveNothingToRead, Shapes
    <3> QED
      BY <3>1, <3>2, <3>3
  <2>2. CASE attachTo(v, entries[th]) /\ entries[th] # None
    <3> DEFINE t == entries[th]
    <3>0. t \in Opened \ ended /\ t \in Turns
      BY <2>2 DEF EntriesAreTheLiveTurns, Opened
    <3>1. /\ stage' = [stage EXCEPT ![v] = "attached"] /\ watches' = [watches EXCEPT ![v] = t]
          /\ subscribers' = [subscribers EXCEPT ![t] = @ \cup {v}]
          /\ UNCHANGED <<turnVars, queue, dropped, asleep, terminalDelivered>>
      BY <1>2, <2>2 DEF attachTo, attach
    <3>2. Shapes' /\ EntriesAreTheLiveTurns' /\ Attached' = Attached \cup {v}
      BY <3>0, <3>1 DEF Shapes, Stages, Attached, EntriesAreTheLiveTurns, Opened
    <3>3. Subscriptions'
      BY <2>0, <3>0, <3>1, <3>2 DEF Subscriptions, Shapes, Opened
    <3>4. TerminalIsServed'
      BY <2>0, <3>0, <3>1, <3>2 DEF TerminalIsServed, LastIsTerminal, Shapes, Attached
    <3>5. NewViewersAreBlank'
      BY <3>1 DEF NewViewersAreBlank, Shapes
    <3>6. SleepersHaveNothingToRead'
      <4> SUFFICES ASSUME NEW w \in asleep
                   PROVE  /\ stage'[w] = "following" /\ queue[w] = <<>> /\ w \notin dropped
                          /\ watches'[w] \notin ended /\ w \in subscribers'[watches'[w]]
        BY <3>1 DEF SleepersHaveNothingToRead
      <4>1. w # v /\ w \in Viewers /\ watches[w] \in Turns
        BY <2>0 DEF Shapes, SleepersHaveNothingToRead, Subscriptions, Attached, Opened
      <4> QED
        BY <3>0, <3>1, <4>1 DEF SleepersHaveNothingToRead, Shapes
    <3> QED
      BY <3>2, <3>3, <3>4, <3>5, <3>6
  <2> QED
    BY <1>2, <2>1, <2>2 DEF attach
<1>3. ASSUME SendState(v)
      PROVE  HubInv'
  <2>1. Shapes' /\ EntriesAreTheLiveTurns' /\ Attached' = Attached /\ v \notin asleep
    BY <1>3 DEF SendState, deliveryVars, Shapes, Stages, Attached, EntriesAreTheLiveTurns, Opened,
                SleepersHaveNothingToRead
  <2>2. Subscriptions' /\ TerminalIsServed'
    BY <1>3, <2>1 DEF SendState, deliveryVars, Subscriptions, Opened, TerminalIsServed, LastIsTerminal
  <2>3. NewViewersAreBlank' /\ SleepersHaveNothingToRead'
    BY <1>3, <2>1 DEF SendState, deliveryVars, NewViewersAreBlank, SleepersHaveNothingToRead, Shapes
  <2> QED
    BY <2>1, <2>2, <2>3
<1>4. ASSUME Leave(v)
      PROVE  HubInv'
  BY <1>1, <1>4 DEF Leave
<1>5. ASSUME NextIsOver(v) \/ NextIsDropped(v)
      PROVE  HubInv'
  BY <1>1, <1>5 DEF NextIsOver, NextIsDropped, Pulls, Attached
<1>6. ASSUME NextChunk(v)
      PROVE  HubInv'
  <2>1. /\ queue[v] \in Seq(Chunks) /\ queue[v] # <<>> /\ v \notin asleep /\ v \in Attached
        /\ stage[v] = "following"
        /\ queue' = [queue EXCEPT ![v] = Tail(@)]
        /\ terminalDelivered' = IF queue[v][1].src = Done THEN terminalDelivered \cup {v}
                                ELSE terminalDelivered
        /\ UNCHANGED <<turnVars, subscribers, dropped, asleep, stage, watches>>
    BY <1>6 DEF NextChunk, Pulls, Attached, Shapes
  <2>2. Tail(queue[v]) \in Seq(Chunks)
    BY <2>1
  <2>3. Shapes' /\ EntriesAreTheLiveTurns' /\ Attached' = Attached
    BY <2>1, <2>2 DEF Shapes, Attached, EntriesAreTheLiveTurns, Opened
  <2>4. Subscriptions' /\ NewViewersAreBlank' /\ SleepersHaveNothingToRead'
    BY <2>1, <2>3 DEF Subscriptions, Opened, NewViewersAreBlank, SleepersHaveNothingToRead, Shapes
  <2>5. LastIsTerminal(v) => v \in terminalDelivered' \/ LastIsTerminal(v)'
    <3> DEFINE q == queue[v]
    <3>1. CASE Len(q) = 1
      BY <2>1, <3>1 DEF LastIsTerminal
    <3>2. CASE Len(q) # 1
      <4>1. /\ Len(Tail(q)) = Len(q) - 1 /\ Tail(q) # <<>> /\ Tail(q)[Len(Tail(q))] = q[Len(q)]
        BY <2>1, <3>2, TailKeepsLast
      <4>2. queue'[v] = Tail(q)
        BY <2>1 DEF Shapes
      <4> QED
        BY <4>1, <4>2 DEF LastIsTerminal
    <3> QED
      BY <3>1, <3>2
  <2>6. TerminalIsServed'
    BY <2>1, <2>3, <2>5 DEF TerminalIsServed, LastIsTerminal, Shapes, Attached
  <2> QED
    BY <2>3, <2>4, <2>6
<1>7. ASSUME NextSleeps(v)
      PROVE  HubInv'
  <2>1. /\ v \in Attached /\ stage[v] = "following" /\ v \notin dropped /\ queue[v] = <<>>
        /\ asleep' = asleep \cup {v}
        /\ UNCHANGED <<turnVars, subscribers, queue, dropped, stage, watches, terminalDelivered>>
    BY <1>7 DEF NextSleeps, Pulls, Attached, viewerVars
  <2>2. watches[v] \notin ended
    BY <1>7, <2>1 DEF NextSleeps, Over, TerminalIsServed, LastIsTerminal
  <2>3. v \in subscribers[watches[v]]
    BY <2>1 DEF Subscriptions
  <2>4. Shapes' /\ EntriesAreTheLiveTurns' /\ Attached' = Attached
    BY <2>1 DEF Shapes, Attached, EntriesAreTheLiveTurns, Opened
  <2>5. Subscriptions' /\ NewViewersAreBlank' /\ TerminalIsServed'
    BY <2>1, <2>4 DEF Subscriptions, Opened, NewViewersAreBlank, TerminalIsServed, LastIsTerminal
  <2>6. SleepersHaveNothingToRead'
    BY <2>1, <2>2, <2>3 DEF SleepersHaveNothingToRead
  <2> QED
    BY <2>4, <2>5, <2>6
<1> QED
  BY <1>2, <1>3, <1>4, <1>5, <1>6, <1>7 DEF Pull

\* Every step preserves the invariant.
LEMMA HubStepInv == HubInv /\ [Next]_vars => HubInv'
<1> SUFFICES ASSUME HubInv, [Next]_vars
             PROVE  HubInv'
  OBVIOUS
<1>1. CASE Next
  BY <1>1, ProducerSteps, ViewerSteps DEF Next
<1>2. CASE UNCHANGED vars
  BY <1>2 DEF vars, turnVars, deliveryVars, viewerVars, attachmentVars, pullVars, HubInv, Shapes,
              EntriesAreTheLiveTurns, Subscriptions, NewViewersAreBlank, TerminalIsServed,
              LastIsTerminal, SleepersHaveNothingToRead, Opened, Attached
<1> QED
  BY <1>1, <1>2

\* The invariant holds in every reachable state.
LEMMA HubInvariant == Spec => []HubInv
<1>1. Init => HubInv
  BY HubInitInv
<1>2. HubInv /\ [Next]_vars => HubInv'
  BY HubStepInv
<1> QED
  BY <1>1, <1>2, PTL DEF Spec

(***************************************************************************)
(* In every reachable state a turn that has not ended is the one its       *)
(* thread's entry holds, so the identity guards of publish and close       *)
(* refuse only turns that are over (live-turn-hub.ts, open and close).     *)
(***************************************************************************)
THEOREM HubTurnsCanEnd == Spec => []EntriesAreTheLiveTurns
<1>1. HubInv => EntriesAreTheLiveTurns
  BY DEF HubInv
<1> QED
  BY <1>1, HubInvariant, PTL

(***************************************************************************)
(* No wake-up is lost: a sleeping stream has nothing to read, was not      *)
(* dropped, watches a turn that goes on, and is subscribed to it, for any  *)
(* queue limits and chunk sizes (live-turn-hub.ts, deliver and next).      *)
(***************************************************************************)
THEOREM HubNoLostWakeup == Spec => []SleepersHaveNothingToRead
<1>1. HubInv => SleepersHaveNothingToRead
  BY DEF HubInv
<1> QED
  BY <1>1, HubInvariant, PTL

(***************************************************************************)
(* A stream that was not dropped always has the terminal chunk of its      *)
(* ended turn behind it or still in its queue: whatever its timing, it is  *)
(* never left without an end (live-turn-hub.ts, forceClose and next).      *)
(***************************************************************************)
THEOREM HubTerminalIsServed == Spec => []TerminalIsServed
<1>1. HubInv => TerminalIsServed
  BY DEF HubInv
<1> QED
  BY <1>1, HubInvariant, PTL

----------------------------------------------------------------------------
(***************************************************************************)
(* Type correctness.  The bytes of a queue are a natural number because    *)
(* they are the sum of what it holds, and what is pulled is subtracted: f  *)
(* counts the bytes from each place of the queue to its end.               *)
(***************************************************************************)
Counted(q, bytes) ==
  \E f \in [1..(Len(q) + 1) -> Nat] :
    /\ f[1] = bytes /\ f[Len(q) + 1] = 0
    /\ \A i \in 1..Len(q) : f[i] = Size[q[i].src] + f[i + 1]

QueuesAreCounted == \A v \in Viewers : Counted(queue[v], queueBytes[v])

LEMMA CountedEmpty == Counted(<<>>, 0)
<1> DEFINE f == [i \in 1..1 |-> 0]
<1>1. f \in [1..(Len(<<>>) + 1) -> Nat] /\ f[1] = 0 /\ Len(<<>>) = 0
  OBVIOUS
<1> HIDE DEF f
<1> QED BY <1>1 DEF Counted

LEMMA CountedIsNat ==
  ASSUME NEW q \in Seq(Chunks), NEW bytes, Counted(q, bytes)
  PROVE  bytes \in Nat
<1>1. 1 \in 1..(Len(q) + 1)
  OBVIOUS
<1> QED BY <1>1 DEF Counted

LEMMA CountedAppend ==
  ASSUME NEW q \in Seq(Chunks), NEW bytes, Counted(q, bytes), NEW c \in Chunks
  PROVE  Counted(Append(q, c), bytes + Size[c.src])
<1> DEFINE n == Len(q)
           r == Append(q, c)
           size == Size[c.src]
<1>1. PICK f \in [1..(n + 1) -> Nat] :
        /\ f[1] = bytes /\ f[n + 1] = 0
        /\ \A i \in 1..n : f[i] = Size[q[i].src] + f[i + 1]
  BY DEF Counted
<1> DEFINE g == [i \in 1..(n + 2) |-> IF i <= n + 1 THEN f[i] + size ELSE 0]
<1>2. n \in Nat /\ size \in Nat
  BY HubAssumption DEF Chunks
<1>3. /\ Len(r) = n + 1 /\ r[n + 1] = c /\ \A i \in 1..n : r[i] = q[i]
  OBVIOUS
<1> HIDE DEF r, size
<1>4. g \in [1..(Len(r) + 1) -> Nat]
  BY <1>1, <1>2, <1>3
<1>5. g[1] = bytes + size /\ g[Len(r) + 1] = 0
  BY <1>1, <1>2, <1>3
<1>6. ASSUME NEW i \in 1..Len(r)
      PROVE  g[i] = Size[r[i].src] + g[i + 1]
  <2>1. CASE i = n + 1
    <3>1. g[i] = size /\ g[i + 1] = 0
      BY <1>1, <1>2, <2>1
    <3> QED BY <1>2, <1>3, <2>1, <3>1 DEF size
  <2>2. CASE i \in 1..n
    <3>1. g[i] = f[i] + size /\ g[i + 1] = f[i + 1] + size
      BY <1>2, <2>2
    <3>2. f[i] = Size[q[i].src] + f[i + 1]
      BY <1>1, <2>2
    <3>3. r[i] = q[i] /\ q[i] \in Chunks
      BY <1>3, <2>2
    <3>4. Size[q[i].src] \in Nat
      BY <3>3, HubAssumption DEF Chunks
    <3> HIDE DEF g
    <3>5. size \in Nat /\ f[i + 1] \in Nat
      <4>1. i + 1 \in 1..(n + 1)
        BY <1>2, <2>2
      <4> HIDE DEF n
      <4> QED BY <1>1, <1>2, <4>1
    <3>6. (Size[q[i].src] + f[i + 1]) + size = Size[q[i].src] + (f[i + 1] + size)
      BY ONLY <3>4, <3>5
    <3> QED BY ONLY <3>1, <3>2, <3>3, <3>6, Zenon
  <2> QED BY <1>2, <1>3, <2>1, <2>2
<1> HIDE DEF g
<1> QED BY <1>4, <1>5, <1>6 DEF Counted, r, size

LEMMA CountedTail ==
  ASSUME NEW q \in Seq(Chunks), NEW bytes, Counted(q, bytes), q # <<>>
  PROVE  Counted(Tail(q), bytes - Size[q[1].src])
<1> DEFINE n == Len(q)
           r == Tail(q)
<1>1. PICK f \in [1..(n + 1) -> Nat] :
        /\ f[1] = bytes /\ f[n + 1] = 0
        /\ \A i \in 1..n : f[i] = Size[q[i].src] + f[i + 1]
  BY DEF Counted
<1> DEFINE g == [i \in 1..n |-> f[i + 1]]
<1>2. n \in Nat /\ n > 0 /\ Len(r) + 1 = n /\ \A i \in 1..Len(r) : r[i] = q[i + 1]
  BY EmptySeq, HeadTailProperties
<1> HIDE DEF r
<1>3. g \in [1..(Len(r) + 1) -> Nat]
  BY <1>1, <1>2
<1>4. g[Len(r) + 1] = 0
  BY <1>1, <1>2
<1>5. g[1] = bytes - Size[q[1].src]
  <2>1. f[1] = Size[q[1].src] + f[2] /\ f[1] \in Nat /\ f[2] \in Nat /\ g[1] = f[2]
    BY <1>1, <1>2
  <2>2. q[1] \in Chunks
    BY <1>2
  <2>3. Size[q[1].src] \in Nat
    BY <2>2, HubAssumption DEF Chunks
  <2> QED BY <1>1, <2>1, <2>3
<1>6. ASSUME NEW i \in 1..Len(r)
      PROVE  g[i] = Size[r[i].src] + g[i + 1]
  BY <1>1, <1>2
<1> HIDE DEF g
<1> QED BY <1>3, <1>4, <1>5, <1>6 DEF Counted, r

Digests == Seq([src : Sources, parts : Seq(Nat)])

LEMMA MergePlacesFacts ==
  ASSUME NEW d \in Digests, NEW src
  PROVE  /\ MergePlaces(d, src) \subseteq 1..Len(d)
         /\ MergePlaces(d, src) # {} => (CHOOSE i \in MergePlaces(d, src) : TRUE) \in MergePlaces(d, src)
BY DEF MergePlaces

\* A digest stays a sequence of sources with their parts.
LEMMA DigestTyped ==
  ASSUME NEW d \in Digests, NEW src \in Sources, NEW n \in Nat
  PROVE  appendCoalesced(d, src, n) \in Digests
<1>1. CASE MergePlaces(d, src) = {}
  <2>1. Entry(src, n) \in [src : Sources, parts : Seq(Nat)]
    BY DEF Entry
  <2> QED BY <1>1, <2>1 DEF appendCoalesced, Digests
<1>2. CASE MergePlaces(d, src) # {}
  <2> DEFINE m == CHOOSE i \in MergePlaces(d, src) : TRUE
  <2>1. m \in 1..Len(d)
    BY <1>2, MergePlacesFacts
  <2> HIDE DEF m
  <2>2. /\ d[m] \in [src : Sources, parts : Seq(Nat)]
        /\ d[m].src \in Sources /\ d[m].parts \in Seq(Nat)
    <3>1. d[m] \in [src : Sources, parts : Seq(Nat)]
      BY <2>1, ElementOfSeq DEF Digests
    <3> QED BY <3>1
  <2>3. Append(d[m].parts, n) \in Seq(Nat)
    BY <2>2
  <2>4. [d[m] EXCEPT !.parts = Append(@, n)] \in [src : Sources, parts : Seq(Nat)]
    BY <2>2, <2>3
  <2>5. [d EXCEPT ![m] = [d[m] EXCEPT !.parts = Append(@, n)]] \in Digests
    BY <2>1, <2>4, ExceptSeq DEF Digests
  <2> QED BY <1>2, <2>5 DEF appendCoalesced, m
<1> QED BY <1>1, <1>2

Quantities ==
  /\ digest \in [Turns -> Digests]
  /\ digestBytes \in [Turns -> Nat]
  /\ truncated \subseteq Opened
  /\ snapshot \in [Viewers -> Digests]
  /\ whole \subseteq Viewers
  /\ queueBytes \in [Viewers -> Nat]
  /\ got \in [Viewers -> Seq(Chunks)]
  /\ start \in [Viewers -> Nat]
  /\ QueuesAreCounted

LEMMA QuantitiesInit == Init => Quantities
<1> SUFFICES ASSUME Init PROVE Quantities
  OBVIOUS
<1>1. QueuesAreCounted
  BY CountedEmpty DEF Init, QueuesAreCounted
<1>2. <<>> \in Digests /\ <<>> \in Seq(Chunks)
  BY DEF Digests
<1> QED BY <1>1, <1>2 DEF Init, Quantities, Opened

\* A delivery counts what it queues, and clears the queue it drops.
LEMMA DeliverCounts ==
  ASSUME Shapes, Quantities, NEW T \in SUBSET Turns, NEW src \in Sources \cup {Done},
         NEW n \in Nat, deliver(T, src, n)
  PROVE  queueBytes' \in [Viewers -> Nat] /\ QueuesAreCounted'
<1> DEFINE c == [src |-> src, n |-> n]
<1>0. c \in Chunks /\ c.src = src
  BY DEF Chunks
<1> HIDE DEF c
<1>1. ASSUME NEW v \in Viewers
      PROVE  queueBytes'[v] \in Nat /\ Counted(queue'[v], queueBytes'[v])
  <2>0. queue[v] \in Seq(Chunks) /\ Counted(queue[v], queueBytes[v]) /\ queueBytes[v] \in Nat
    BY DEF Shapes, Quantities, QueuesAreCounted
  <2>1. CASE queue'[v] = <<>> /\ queueBytes'[v] = 0
    BY <2>1, CountedEmpty
  <2>2. CASE queue'[v] = queue[v] /\ queueBytes'[v] = queueBytes[v]
    BY <2>0, <2>2
  <2>3. CASE queue'[v] = Append(queue[v], c) /\ queueBytes'[v] = queueBytes[v] + Size[c.src]
    <3>1. Counted(Append(queue[v], c), queueBytes[v] + Size[c.src])
      BY <1>0, <2>0, CountedAppend
    <3>2. Append(queue[v], c) \in Seq(Chunks)
      BY <1>0, <2>0
    <3> QED BY <2>3, <3>1, <3>2, CountedIsNat
  <2> QED BY <1>0, <2>1, <2>2, <2>3 DEF deliver, enqueue, bytesWith, c
<1>2. queueBytes' = [v \in Viewers |-> queueBytes'[v]]
  BY DEF deliver, enqueue
<1> QED BY <1>1, <1>2 DEF QueuesAreCounted

LEMMA QuantitiesStep ==
  ASSUME HubInv, Quantities, [Next]_vars
  PROVE  Quantities'
<1> USE DEF turnVars, digestVars, deliveryVars, attachmentVars, pullVars, viewerVars
<1>0. Shapes
  BY DEF HubInv
<1>1. ASSUME NEW T \in SUBSET Turns, forceClose(T), UNCHANGED <<digestVars, viewerVars>>,
             Opened \subseteq Opened'
      PROVE  Quantities'
  <2>1. deliver(T, Done, 0)
    BY <1>1 DEF forceClose
  <2>2. queueBytes' \in [Viewers -> Nat] /\ QueuesAreCounted'
    BY <1>0, <2>1, DeliverCounts
  <2> QED BY <1>1, <2>2 DEF Quantities
<1>2. ASSUME NEW t \in Turns, NEW th \in Threads, open(t, th)
      PROVE  Quantities'
  <2>1. /\ {entries[th]} \ {None} \in SUBSET Turns /\ forceClose({entries[th]} \ {None})
        /\ UNCHANGED <<digestVars, viewerVars>> /\ Opened \subseteq Opened'
    BY <1>0, <1>2, HubAssumption DEF open, Shapes, Opened
  <2> QED BY <1>1, <2>1
<1>3. ASSUME NEW t \in Turns, close(t)
      PROVE  Quantities'
  <2>1. forceClose({t}) /\ UNCHANGED <<digestVars, viewerVars>> /\ Opened' = Opened
    BY <1>3 DEF close, Opened
  <2> QED BY <1>1, <2>1
<1>4. ASSUME closeAll
      PROVE  Quantities'
  <2>1. /\ {entries[th] : th \in Threads} \ {None} \in SUBSET Turns
        /\ forceClose({entries[th] : th \in Threads} \ {None})
        /\ UNCHANGED <<digestVars, viewerVars>> /\ Opened' = Opened
    BY <1>0, <1>4 DEF closeAll, Opened, Shapes
  <2> QED BY <1>1, <2>1
<1>5. ASSUME NEW t \in Turns, NEW src \in Sources, publish(t, src)
      PROVE  Quantities'
  <2> DEFINE n == Len(log[t]) + 1
             bytes == digestBytes[t] + Size[src]
  <2>1. /\ deliver({t}, src, n) /\ n \in Nat /\ bytes \in Nat
        /\ t \in Opened /\ Opened' = Opened /\ UNCHANGED viewerVars
    BY <1>0, <1>5, HubAssumption DEF publish, Current, Shapes, Quantities, Opened
  <2>2. queueBytes' \in [Viewers -> Nat] /\ QueuesAreCounted'
    BY <1>0, <2>1, DeliverCounts
  <2>3. appendCoalesced(digest[t], src, n) \in Digests /\ <<>> \in Digests
    <3>1. digest[t] \in Digests
      BY DEF Quantities
    <3>2. <<>> \in Digests
      BY DEF Digests
    <3> HIDE DEF n
    <3>3. appendCoalesced(digest[t], src, n) \in Digests
      BY <2>1, <3>1, DigestTyped
    <3> QED BY <3>2, <3>3
  <2>4. /\ digest' \in [Turns -> Digests] /\ digestBytes' \in [Turns -> Nat]
        /\ truncated' \subseteq Opened'
    <3>1. CASE t \in truncated
      BY <1>5, <2>1, <3>1 DEF publish, Quantities
    <3>2. CASE t \notin truncated /\ bytes > DigestMaxBytes
      BY <1>5, <2>1, <2>3, <3>2 DEF publish, Quantities
    <3>3. CASE t \notin truncated /\ ~(bytes > DigestMaxBytes)
      BY <1>5, <2>1, <2>3, <3>3 DEF publish, Quantities
    <3> QED BY <3>1, <3>2, <3>3
  <2> QED BY <2>1, <2>2, <2>4 DEF Quantities
<1>6. ASSUME NEW v \in Viewers, NEW th \in Threads, NEW limit \in ViewerLimits, attach(v, th, limit)
      PROVE  Quantities'
  <2>1. UNCHANGED <<turnThread, digestVars, queue, queueBytes, got>>
    BY <1>6 DEF attach
  <2>2. CASE UNCHANGED attachmentVars
    BY <2>1, <2>2 DEF Quantities, QueuesAreCounted, Opened
  <2>3. CASE entries[th] # None /\ attachTo(v, entries[th])
    <3>1. entries[th] \in Turns
      BY <1>0, <2>3 DEF Shapes
    <3>2. /\ snapshot' \in [Viewers -> Digests] /\ whole' \subseteq Viewers
          /\ start' \in [Viewers -> Nat]
      BY <1>0, <2>3, <3>1 DEF attachTo, Quantities, Shapes
    <3> QED BY <2>1, <3>2 DEF Quantities, QueuesAreCounted, Opened
  <2> QED BY <1>6, <2>2, <2>3 DEF attach
<1>7. ASSUME NEW v \in Viewers, SendState(v) \/ NextSleeps(v)
      PROVE  Quantities'
  BY <1>7 DEF SendState, NextSleeps, Quantities, QueuesAreCounted, Opened
<1>8. ASSUME NEW v \in Viewers, NEW how, detach(v, how)
      PROVE  Quantities'
  <2>1. /\ queue' = [queue EXCEPT ![v] = <<>>] /\ queueBytes' = [queueBytes EXCEPT ![v] = 0]
        /\ UNCHANGED <<turnVars, digestVars, attachmentVars, pullVars>>
    BY <1>8 DEF detach
  <2>2. QueuesAreCounted'
    BY <1>0, <2>1, CountedEmpty DEF Quantities, QueuesAreCounted, Shapes
  <2> QED BY <2>1, <2>2 DEF Quantities, Opened
<1>9. ASSUME NEW v \in Viewers, NextChunk(v)
      PROVE  Quantities'
  <2> DEFINE c == queue[v][1]
  <2>1. /\ queue' = [queue EXCEPT ![v] = Tail(queue[v])]
        /\ queueBytes' = [queueBytes EXCEPT ![v] = queueBytes[v] - Size[c.src]]
        /\ got' = [got EXCEPT ![v] = Append(got[v], c)] /\ queue[v] # <<>>
        /\ UNCHANGED <<turnVars, digestVars, attachmentVars>>
    BY <1>9 DEF NextChunk
  <2>2. queue[v] \in Seq(Chunks) /\ c \in Chunks /\ Tail(queue[v]) \in Seq(Chunks)
    BY <1>0, <2>1 DEF Shapes
  <2>3. Counted(Tail(queue[v]), queueBytes[v] - Size[c.src])
    BY <2>1, <2>2, CountedTail DEF Quantities, QueuesAreCounted
  <2>4. queueBytes[v] - Size[c.src] \in Nat
    BY <2>2, <2>3, CountedIsNat
  <2> HIDE DEF c
  <2>5. queueBytes' \in [Viewers -> Nat] /\ got' \in [Viewers -> Seq(Chunks)]
    BY <2>1, <2>2, <2>4 DEF Quantities
  <2>6. QueuesAreCounted'
    BY <1>0, <2>1, <2>3 DEF Quantities, QueuesAreCounted, Shapes
  <2> QED BY <2>1, <2>5, <2>6 DEF Quantities, Opened
<1>10. CASE UNCHANGED vars
  BY <1>10 DEF vars, Quantities, QueuesAreCounted, Opened
<1> QED
  BY <1>2, <1>3, <1>4, <1>5, <1>6, <1>7, <1>8, <1>9, <1>10
  DEF Next, Leave, Pull, NextIsOver, NextIsDropped

(***************************************************************************)
(* Type correctness of the hub; in particular the bytes that next()        *)
(* subtracts were added before: a queue's byte count never goes below zero *)
(* (live-turn-hub.ts, deliver and next).                                   *)
(***************************************************************************)
THEOREM HubTypeOK == Spec => []TypeOK
<1>1. Init => HubInv /\ Quantities
  BY HubInitInv, QuantitiesInit
<1>2. HubInv /\ Quantities /\ [Next]_vars => (HubInv /\ Quantities)'
  BY HubStepInv, QuantitiesStep
<1>3. HubInv /\ Quantities => TypeOK
  BY DEF HubInv, Shapes, Stages, Quantities, Digests, TypeOK
<1> QED BY <1>1, <1>2, <1>3, PTL DEF Spec

----------------------------------------------------------------------------
(***************************************************************************)
(* The refinement.  First, what is needed of the concatenation of a        *)
(* sequence of sequences, which is recursive: every set of naturals has a  *)
(* least member, and so a least counterexample.                            *)
(***************************************************************************)
LEMMA NatMin ==
  ASSUME NEW T \in SUBSET Nat, T # {}
  PROVE  \E m \in T : \A k \in T : m <= k
<1> DEFINE R == {ss \in Nat \X Nat : ss[1] < ss[2]}
<1>1. IsWellFoundedOn(R, Nat)
  BY NatLessThanWellFounded DEF OpToRel
<1>2. PICK m \in T : \A k \in T : ~ (<<k, m>> \in R)
  <2> HIDE DEF R
  <2> QED BY <1>1, WFMin
<1>3. ASSUME NEW k \in T PROVE m <= k
  <2>1. k \in Nat /\ m \in Nat
    OBVIOUS
  <2>2. k < m => <<k, m>> \in R
    BY <2>1
  <2> QED BY <1>2, <2>1, <2>2
<1> QED BY <1>3

\* g[i] is the concatenation of the first i members of q.
Flat(q, g) == g = [i \in 1..Len(q) |-> IF i = 1 THEN q[i] ELSE g[i - 1] \o q[i]]

\* There is at most one such g,
LEMMA FlatIsUnique ==
  ASSUME NEW q, Len(q) \in Nat, NEW g, Flat(q, g), NEW h, Flat(q, h), NEW n \in 1..Len(q)
  PROVE  g[n] = h[n]
<1> DEFINE T == {i \in 1..Len(q) : g[i] # h[i]}
<1>1. SUFFICES ASSUME T # {} PROVE FALSE
  OBVIOUS
<1>0. T \in SUBSET Nat
  OBVIOUS
<1>2. PICK m \in T : \A k \in T : m <= k
  <2> HIDE DEF T
  <2> QED BY <1>0, <1>1, NatMin
<1>3. g[m] = IF m = 1 THEN q[m] ELSE g[m - 1] \o q[m]
  BY DEF Flat
<1>4. h[m] = IF m = 1 THEN q[m] ELSE h[m - 1] \o q[m]
  BY DEF Flat
<1>5. m # 1 => m - 1 \in 1..Len(q) /\ m - 1 \notin T
  BY <1>2
<1>6. m # 1 => g[m - 1] = h[m - 1]
  BY <1>5
<1> QED BY <1>3, <1>4, <1>6

\* so FlattenSeq finds it.
LEMMA FlatIsFlatten ==
  ASSUME NEW q, Len(q) \in Nat \ {0}, NEW g, Flat(q, g)
  PROVE  FlattenSeq(q) = g[Len(q)]
<1> DEFINE h == CHOOSE h : h = [i \in 1..Len(q) |-> IF i = 1 THEN q[i] ELSE h[i - 1] \o q[i]]
<1>1. Flat(q, h)
  BY DEF Flat
<1>2. FlattenSeq(q) = h[Len(q)]
  BY DEF FlattenSeq
<1> HIDE DEF h
<1> QED BY <1>1, <1>2, FlatIsUnique
\* A concatenation can be prolonged by one member,
LEMMA FlatGrows ==
  ASSUME NEW S, NEW q \in Seq(Seq(S)), NEW f \in [1..Len(q) -> Seq(S)], Flat(q, f),
         NEW x \in Seq(S), q # <<>>, NEW r, r = Append(q, x)
  PROVE  /\ \E g \in [1..Len(r) -> Seq(S)] : Flat(r, g)
         /\ FlattenSeq(Append(q, x)) = FlattenSeq(q) \o x
<1> DEFINE n == Len(q)
           g == [i \in 1..Len(r) |-> IF i <= n THEN f[i] ELSE f[n] \o x]
<1>0. n \in Nat \ {0}
  BY EmptySeq
<1>1. /\ n \in Nat \ {0} /\ Len(r) = n + 1 /\ r[n + 1] = x
      /\ \A i \in 1..n : r[i] = q[i] /\ q[i] \in Seq(S) /\ f[i] \in Seq(S)
  <2>1. /\ Len(r) = n + 1 /\ r[n + 1] = x
        /\ \A i \in 1..n : r[i] = q[i]
    BY AppendProperties
  <2>2. \A i \in 1..n : q[i] \in Seq(S)
    BY ElementOfSeq
  <2>3. \A i \in 1..n : f[i] \in Seq(S)
    OBVIOUS
  <2> QED BY <1>0, <2>1, <2>2, <2>3
<1>2. \A i \in 1..n : f[i] = IF i = 1 THEN q[i] ELSE f[i - 1] \o q[i]
  BY DEF Flat
<1> HIDE DEF n
<1>3. f[n] \o x \in Seq(S)
  BY <1>1
<1>4. \A i \in 1..Len(r) : g[i] = IF i <= n THEN f[i] ELSE f[n] \o x
  OBVIOUS
<1>5. g \in [1..Len(r) -> Seq(S)]
  BY <1>1, <1>3
<1>6. ASSUME NEW i \in 1..Len(r)
      PROVE  g[i] = IF i = 1 THEN r[i] ELSE g[i - 1] \o r[i]
  <2>1. CASE i = n + 1
    <3>1. i # 1 /\ ~(i <= n) /\ i - 1 = n /\ i - 1 \in 1..Len(r) /\ i - 1 <= n
      BY <1>1, <2>1
    <3>2. g[i] = f[n] \o x /\ g[i - 1] = f[n] /\ r[i] = x
      BY <1>1, <1>4, <2>1, <3>1
    <3> QED BY <3>1, <3>2
  <2>2. CASE i \in 1..n
    <3>1. g[i] = f[i] /\ r[i] = q[i]
      BY <1>1, <1>4, <2>2
    <3>2. i # 1 => g[i - 1] = f[i - 1]
      BY <1>1, <1>4, <2>2
    <3> QED BY <1>2, <2>2, <3>1, <3>2
  <2> QED BY <1>1, <2>1, <2>2
<1>7. Flat(r, g)
  <2> DEFINE h == [i \in 1..Len(r) |-> IF i = 1 THEN r[i] ELSE g[i - 1] \o r[i]]
  <2>1. g = h
    <3> SUFFICES ASSUME NEW i \in 1..Len(r) PROVE g[i] = h[i]
      OBVIOUS
    <3> QED BY <1>6
  <2> HIDE DEF g
  <2> QED BY <2>1 DEF Flat
<1>8. g[Len(r)] = f[n] \o x
  BY <1>1
<1> HIDE DEF g
<1>9. FlattenSeq(q) = f[n]
  BY <1>1, FlatIsFlatten DEF n
<1>10. FlattenSeq(r) = g[Len(r)]
  <2>1. Len(r) \in Nat \ {0}
    BY <1>1
  <2> QED BY <1>7, <2>1, FlatIsFlatten
<1>11. FlattenSeq(r) = FlattenSeq(q) \o x
  BY <1>8, <1>9, <1>10
<1>12. \E h \in [1..Len(r) -> Seq(S)] : Flat(r, h)
  BY <1>5, <1>7
<1> QED BY <1>11, <1>12

\* so that each sequence of sequences has one.
LEMMA FlatExists ==
  ASSUME NEW S, NEW q \in Seq(Seq(S)), q # <<>>
  PROVE  \E g \in [1..Len(q) -> Seq(S)] : Flat(q, g)
<1> DEFINE Good(r) == \E g \in [1..Len(r) -> Seq(S)] : Flat(r, g)
           T == {n \in Nat : \E r \in Seq(Seq(S)) : r # <<>> /\ Len(r) = n /\ ~Good(r)}
<1>1. SUFFICES ASSUME T # {} PROVE FALSE
  <2>1. Len(q) \in Nat
    OBVIOUS
  <2> QED BY <2>1
<1>2. PICK m \in T : \A k \in T : m <= k
  <2>1. T \in SUBSET Nat
    OBVIOUS
  <2> HIDE DEF T
  <2> QED BY <1>1, <2>1, NatMin
<1>3. PICK r \in Seq(Seq(S)) : r # <<>> /\ Len(r) = m /\ ~Good(r)
  BY <1>2
<1>4. PICK p \in Seq(Seq(S)), x \in Seq(S) : r = Append(p, x)
  BY <1>3, SequenceEmptyOrAppend
<1>5. Len(p) \in Nat /\ m = Len(p) + 1 /\ m \in Nat
  BY <1>3, <1>4
<1>6. CASE p = <<>>
  <2> DEFINE g == [i \in 1..1 |-> x]
  <2>1. Len(r) = 1 /\ r[1] = x
    BY <1>4, <1>6
  <2>2. g \in [1..Len(r) -> Seq(S)]
    BY <2>1
  <2>3. g = [i \in 1..Len(r) |-> IF i = 1 THEN r[i] ELSE g[i - 1] \o r[i]]
    BY <2>1
  <2> HIDE DEF g
  <2>4. Good(r)
    BY <2>2, <2>3 DEF Flat
  <2> QED BY <1>3, <2>4
<1>7. CASE p # <<>>
  <2>1. Good(p)
    <3>1. Len(p) \notin T
      <4> HIDE DEF T
      <4> QED BY <1>2, <1>5
    <3> HIDE DEF Good
    <3> QED BY <1>5, <1>7, <3>1
  <2>2. PICK f \in [1..Len(p) -> Seq(S)] : Flat(p, f)
    BY <2>1
  <2>3. \E g : g \in [1..Len(r) -> Seq(S)] /\ Flat(r, g)
    <3> HIDE DEF Good, T
    <3> QED BY <1>4, <1>7, <2>2, FlatGrows
  <2> QED BY <1>3, <2>3
<1> QED BY <1>6, <1>7

\* The concatenation of nothing, of typed sequences, and of one sequence more.
LEMMA FlattenEmpty == FlattenSeq(<<>>) = <<>>
BY DEF FlattenSeq

\* It is a sequence of what the members are sequences of,
LEMMA FlattenTyped ==
  ASSUME NEW S, NEW q \in Seq(Seq(S))
  PROVE  FlattenSeq(q) \in Seq(S)
<1>1. CASE q = <<>>
  BY <1>1, FlattenEmpty, EmptySeq
<1>2. CASE q # <<>>
  <2>1. Len(q) \in Nat \ {0}
    BY <1>2, EmptySeq
  <2>2. PICK g \in [1..Len(q) -> Seq(S)] : Flat(q, g)
    BY <1>2, FlatExists
  <2>3. FlattenSeq(q) = g[Len(q)]
    BY <2>1, <2>2, FlatIsFlatten
  <2>4. Len(q) \in 1..Len(q)
    BY <2>1
  <2> QED BY <2>2, <2>3, <2>4, Zenon
<1> QED BY <1>1, <1>2

\* and one more member is appended to it.
LEMMA FlattenAppend ==
  ASSUME NEW S, NEW q \in Seq(Seq(S)), NEW x \in Seq(S)
  PROVE  FlattenSeq(Append(q, x)) = FlattenSeq(q) \o x
<1> DEFINE r == Append(q, x)
<1>0. Len(r) = Len(q) + 1 /\ Len(q) \in Nat /\ r \in Seq(Seq(S))
  OBVIOUS
<1>1. CASE q = <<>>
  <2> DEFINE g == [i \in 1..1 |-> x]
  <2>1. Len(r) = 1 /\ r[1] = x
    BY <1>1
  <2>2. Flat(r, g) /\ g[1] = x
    BY <2>1 DEF Flat
  <2>3. FlattenSeq(r) = x
    <3>1. Len(r) \in Nat \ {0}
      BY <2>1
    <3> HIDE DEF g, r
    <3> QED BY <2>1, <2>2, <3>1, FlatIsFlatten
  <2> QED BY <1>1, <2>3, FlattenEmpty, ConcatEmptySeq
<1>2. CASE q # <<>>
  <2>1. Len(q) \in Nat \ {0}
    BY <1>2, EmptySeq
  <2>2. PICK f \in [1..Len(q) -> Seq(S)] : Flat(q, f)
    BY <1>2, FlatExists
  <2> QED BY <1>2, <2>2, FlatGrows
<1> QED BY <1>1, <1>2

----------------------------------------------------------------------------
(* Joining two sequences, and merging into a member of a sequence of sequences. *)

\* Concatenation under a name, which the provers do not take apart.
Joined(a, b) == a \o b

\* Joining is associative,
LEMMA JoinedAssociates ==
  ASSUME NEW S, NEW a \in Seq(S), NEW b \in Seq(S), NEW c \in Seq(S)
  PROVE  Joined(Joined(a, b), c) = Joined(a, Joined(b, c))
<1>1. (a \o b) \o c = a \o (b \o c)
  BY ConcatAssociative
<1> QED BY <1>1 DEF Joined

\* yields a sequence of the same elements,
LEMMA JoinedTyped ==
  ASSUME NEW S, NEW a \in Seq(S), NEW b \in Seq(S)
  PROVE  Joined(a, b) \in Seq(S)
BY DEF Joined

\* and has the empty sequence as its unit.
LEMMA JoinedEmpty ==
  ASSUME NEW S, NEW a \in Seq(S)
  PROVE  Joined(a, <<>>) = a /\ Joined(<<>>, a) = a
BY ConcatEmptySeq DEF Joined

\* r is q with x appended to its m-th member, the last that is not empty.
Merged(q, r, m, x) ==
  /\ m \in 1..Len(q) /\ Len(r) = Len(q)
  /\ \A i \in 1..Len(q) : i > m => q[i] = <<>>
  /\ \A i \in 1..Len(q) : r[i] = IF i = m THEN Joined(q[i], x) ELSE q[i]

\* Prolonging one member, where only empty ones follow, prolongs the whole.
LEMMA FlattenMerge ==
  ASSUME NEW S, NEW q \in Seq(Seq(S)), NEW m,
         NEW x \in Seq(S), NEW r \in Seq(Seq(S)), Merged(q, r, m, x)
  PROVE  FlattenSeq(r) = Joined(FlattenSeq(q), x)
<1> DEFINE n == Len(q)
<1>1. n \in Nat \ {0} /\ q # <<>> /\ m \in 1..n
  BY EmptySeq DEF Merged
<1>2. PICK f \in [1..n -> Seq(S)] : Flat(q, f)
  BY <1>1, FlatExists
<1>3. FlattenSeq(q) = f[n]
  BY <1>1, <1>2, FlatIsFlatten
<1> DEFINE g == [i \in 1..n |-> IF i < m THEN f[i] ELSE Joined(f[i], x)]
<1>4. /\ \A i \in 1..n : q[i] \in Seq(S) /\ r[i] \in Seq(S)
      /\ \A i \in 1..n : f[i] \in Seq(S)
  <2>1. \A i \in 1..n : f[i] \in Seq(S)
    OBVIOUS
  <2>2. \A i \in 1..n : q[i] \in Seq(S)
    BY ElementOfSeq
  <2>3. \A i \in 1..n : r[i] \in Seq(S)
    BY ElementOfSeq DEF Merged
  <2> QED BY <2>1, <2>2, <2>3
<1>5. \A i \in 1..n : f[i] = IF i = 1 THEN q[i] ELSE Joined(f[i - 1], q[i])
  BY <1>2 DEF Flat, Joined
<1>6. \A i \in 1..n : g[i] = IF i < m THEN f[i] ELSE Joined(f[i], x)
  OBVIOUS
<1>a. /\ Len(r) = n
      /\ \A i \in 1..n : i > m => q[i] = <<>>
      /\ \A i \in 1..n : r[i] = IF i = m THEN Joined(q[i], x) ELSE q[i]
  BY DEF Merged
<1> HIDE DEF n, g
<1>7. ASSUME NEW i \in 1..n
      PROVE  g[i] = IF i = 1 THEN r[i] ELSE Joined(g[i - 1], r[i])
  <2>0. i # 1 => i - 1 \in 1..n /\ (i - 1 < m <=> i <= m)
    BY <1>1
  <2>1. CASE i < m
    <3>1. g[i] = f[i] /\ r[i] = q[i] /\ (i # 1 => g[i - 1] = f[i - 1])
      <4>1. i # m /\ i <= m
        BY <1>1, <2>1
      <4> QED BY <1>6, <1>a, <2>0, <2>1, <4>1
    <3> QED BY <1>5, <3>1
  <2>2. CASE i = m
    <3>1. g[i] = Joined(f[i], x) /\ r[i] = Joined(q[i], x) /\ (i # 1 => g[i - 1] = f[i - 1])
      <4>1. ~(i < m) /\ i <= m
        BY <1>1, <2>2
      <4> QED BY <1>6, <1>a, <2>0, <2>2, <4>1
    <3>2. CASE i = 1
      BY <1>5, <3>1, <3>2
    <3>3. CASE i # 1
      <4>1. PICK j \in 1..n : j = i - 1
        BY <2>0, <3>3
      <4>2. f[i] = Joined(f[j], q[i]) /\ g[i - 1] = f[j]
        BY <1>5, <3>1, <3>3, <4>1
      <4>3. f[j] \in Seq(S) /\ q[i] \in Seq(S) /\ x \in Seq(S)
        BY <1>4
      <4>4. Joined(Joined(f[j], q[i]), x) = Joined(f[j], Joined(q[i], x))
        BY <4>3, JoinedAssociates
      <4> QED BY ONLY <3>1, <3>3, <4>2, <4>4, Zenon
    <3> QED BY <3>2, <3>3
  <2>3. CASE i > m
    <3>1. q[i] = <<>> /\ r[i] = <<>> /\ i # 1 /\ i - 1 \in 1..n
      <4>1. i # m /\ i # 1
        BY <1>1, <2>3
      <4> QED BY <1>a, <2>0, <2>3, <4>1
    <3>2. g[i] = Joined(f[i], x) /\ g[i - 1] = Joined(f[i - 1], x)
      <4>1. ~(i < m) /\ ~(i - 1 < m)
        BY <1>1, <2>3
      <4> QED BY <1>6, <3>1, <4>1
    <3>3. f[i] = Joined(f[i - 1], <<>>)
      BY <1>5, <3>1
    <3>4. f[i - 1] \in Seq(S) /\ Joined(f[i - 1], x) \in Seq(S)
      BY <1>4, <3>1, JoinedTyped
    <3>5. Joined(f[i - 1], <<>>) = f[i - 1] /\ Joined(Joined(f[i - 1], x), <<>>) = Joined(f[i - 1], x)
      BY <3>4, JoinedEmpty
    <3> QED BY ONLY <3>1, <3>2, <3>3, <3>5, Zenon
  <2> QED BY <1>1, <2>1, <2>2, <2>3
<1>8. Flat(r, g)
  <2> DEFINE h == [i \in 1..Len(r) |-> IF i = 1 THEN r[i] ELSE Joined(g[i - 1], r[i])]
  <2>1. g = h
    <3>1. \A i \in 1..n : g[i] = h[i]
      BY <1>7, <1>a
    <3>2. DOMAIN g = 1..n /\ DOMAIN h = 1..n /\ g = [i \in 1..n |-> g[i]]
      BY <1>a DEF g
    <3>3. h = [i \in 1..n |-> h[i]]
      BY <1>a
    <3> HIDE DEF h
    <3> QED BY <3>1, <3>2, <3>3
  <2> QED BY <2>1 DEF Flat, Joined
<1>9. FlattenSeq(r) = g[n]
  BY <1>1, <1>8, <1>a, FlatIsFlatten
<1>10. g[n] = Joined(f[n], x)
  <2>1. n \in 1..n /\ ~(n < m)
    BY <1>1
  <2> QED BY <1>6, <2>1
<1> QED BY <1>3, <1>9, <1>10 DEF n

\* A longer sequence of sequences, given by its members.
LEMMA FlattenLonger ==
  ASSUME NEW S, NEW q \in Seq(Seq(S)), NEW r \in Seq(Seq(S)), NEW x \in Seq(S),
         Len(r) = Len(q) + 1, r[Len(r)] = x, \A i \in 1..Len(q) : r[i] = q[i]
  PROVE  FlattenSeq(r) = Joined(FlattenSeq(q), x)
<1>1. /\ Append(q, x) \in Seq(Seq(S)) /\ Len(Append(q, x)) = Len(q) + 1
      /\ Append(q, x)[Len(q) + 1] = x /\ \A i \in 1..Len(q) : Append(q, x)[i] = q[i]
  BY AppendProperties
<1>2. Len(q) \in Nat
  OBVIOUS
<1>3. \A i \in 1..Len(r) : r[i] = Append(q, x)[i]
  BY <1>1, <1>2
<1>4. r = Append(q, x)
  BY <1>1, <1>3, SeqEqual
<1>5. FlattenSeq(Append(q, x)) = FlattenSeq(q) \o x
  BY FlattenAppend
<1> QED BY <1>4, <1>5 DEF Joined

----------------------------------------------------------------------------
(* What a digest holds of a stream, and how it grows. *)

\* An entry of a digest, and what it adds to stream s.
Entries == [src : Sources, parts : Seq(Nat)]

Part(e, s) == IF StreamOf(e.src) = s THEN e.parts ELSE <<>>

\* A chunk, or nothing.
Single(b, n) == IF b THEN <<n>> ELSE <<>>

\* Either is a sequence of numbers.
LEMMA SingleTyped == \A b : \A n \in Nat : Single(b, n) \in Seq(Nat)
BY DEF Single

\* A digest consists of entries.
LEMMA DigestEntries ==
  ASSUME NEW d \in Digests
  PROVE  Len(d) \in Nat /\ \A i \in 1..Len(d) : d[i] \in Entries
<1>1. d \in Seq(Entries)
  BY DEF Digests, Entries
<1> QED BY <1>1, ElementOfSeq

\* The members that PartsOf concatenates.
LEMMA PartsMembers ==
  ASSUME NEW d \in Digests, NEW s
  PROVE  \E p \in Seq(Seq(Nat)) :
           /\ Len(p) = Len(d) /\ PartsOf(d, s) = FlattenSeq(p)
           /\ \A i \in 1..Len(d) : p[i] = Part(d[i], s)
<1> DEFINE p == [i \in 1..Len(d) |-> Part(d[i], s)]
<1>1. \A i \in 1..Len(d) : Part(d[i], s) \in Seq(Nat)
  BY DigestEntries DEF Part, Entries
<1>2. p \in Seq(Seq(Nat)) /\ Len(p) = Len(d)
  BY <1>1, DigestEntries
<1>3. PartsOf(d, s) = FlattenSeq(p)
  BY DEF PartsOf, Part
<1>4. \A i \in 1..Len(d) : p[i] = Part(d[i], s)
  OBVIOUS
<1> HIDE DEF p
<1> QED BY <1>2, <1>3, <1>4

\* They are numbers of chunks.
LEMMA PartsTyped == \A d \in Digests : \A s : PartsOf(d, s) \in Seq(Nat)
BY PartsMembers, FlattenTyped

\* What a chunk of src with number n adds to stream s of a digest.
Added(src, n, s) == Single(StreamOf(src) = s, n)

\* A new entry adds its chunks to its stream.
LEMMA PartsGrow ==
  ASSUME NEW d \in Digests, NEW e \in Entries, NEW s
  PROVE  PartsOf(Append(d, e), s) = Joined(PartsOf(d, s), Part(e, s))
<1>1. PICK d2 \in Digests : d2 = Append(d, e)
  <2>1. d \in Seq(Entries)
    BY DEF Digests, Entries
  <2>2. Append(d, e) \in Seq(Entries)
    BY <2>1
  <2> QED BY <2>2 DEF Digests, Entries
<1>2. Len(d2) = Len(d) + 1 /\ d2[Len(d) + 1] = e /\ \A i \in 1..Len(d) : d2[i] = d[i]
  BY <1>1, AppendProperties DEF Digests, Entries
<1>3. PICK p \in Seq(Seq(Nat)) : /\ Len(p) = Len(d) /\ PartsOf(d, s) = FlattenSeq(p)
                                 /\ \A i \in 1..Len(d) : p[i] = Part(d[i], s)
  BY PartsMembers
<1>4. PICK r \in Seq(Seq(Nat)) : /\ Len(r) = Len(d2) /\ PartsOf(d2, s) = FlattenSeq(r)
                                 /\ \A i \in 1..Len(d2) : r[i] = Part(d2[i], s)
  BY PartsMembers
<1>5. Part(e, s) \in Seq(Nat)
  BY DEF Part, Entries
<1>6. /\ Len(r) = Len(p) + 1 /\ r[Len(r)] = Part(e, s)
      /\ \A i \in 1..Len(p) : r[i] = p[i]
  BY <1>2, <1>3, <1>4, DigestEntries
<1>7. FlattenSeq(r) = Joined(FlattenSeq(p), Part(e, s))
  BY <1>5, <1>6, FlattenLonger
<1> QED BY <1>1, <1>3, <1>4, <1>7

\* d2 is d with chunk n merged into its m-th entry, the last one of its stream.
MergedEntry(d, d2, m, n, src) ==
  /\ m \in 1..Len(d) /\ StreamOf(d[m].src) = StreamOf(src)
  /\ \A i \in 1..Len(d) : i > m => StreamOf(d[i].src) # StreamOf(src)
  /\ Len(d2) = Len(d) /\ d2[m] = [d[m] EXCEPT !.parts = Append(@, n)]
  /\ \A i \in 1..Len(d) : i # m => d2[i] = d[i]

\* A merged chunk is added to its stream, and to no other.
LEMMA PartsMerge ==
  ASSUME NEW d \in Digests, NEW m, NEW n \in Nat, NEW s, NEW src, NEW d2 \in Digests,
         MergedEntry(d, d2, m, n, src)
  PROVE  PartsOf(d2, s) = Joined(PartsOf(d, s), Added(src, n, s))
<1>0. /\ m \in 1..Len(d) /\ StreamOf(d[m].src) = StreamOf(src)
      /\ \A i \in 1..Len(d) : i > m => StreamOf(d[i].src) # StreamOf(src)
      /\ Len(d2) = Len(d) /\ d2[m] = [d[m] EXCEPT !.parts = Append(@, n)]
      /\ \A i \in 1..Len(d) : i # m => d2[i] = d[i]
  BY DEF MergedEntry
<1>1. d[m] \in Entries /\ Len(d) \in Nat
  BY <1>0, DigestEntries
<1>2. d2[m].src = d[m].src /\ d2[m].parts = Append(d[m].parts, n) /\ d[m].parts \in Seq(Nat)
  BY <1>0, <1>1 DEF Entries
<1>3. PICK p \in Seq(Seq(Nat)) : /\ Len(p) = Len(d) /\ PartsOf(d, s) = FlattenSeq(p)
                                 /\ \A i \in 1..Len(d) : p[i] = Part(d[i], s)
  BY PartsMembers
<1>4. PICK r \in Seq(Seq(Nat)) : /\ Len(r) = Len(d2) /\ PartsOf(d2, s) = FlattenSeq(r)
                                 /\ \A i \in 1..Len(d2) : r[i] = Part(d2[i], s)
  BY PartsMembers
<1>5. CASE StreamOf(src) = s
  <2>0. Added(src, n, s) \in Seq(Nat)
    BY SingleTyped DEF Added
  <2>1. Added(src, n, s) = <<n>>
    BY <1>5 DEF Added, Single
  <2> DEFINE x == Added(src, n, s)
  <2>2. r[m] = Joined(p[m], x)
    <3>1. r[m] = Append(d[m].parts, n) /\ p[m] = d[m].parts
      BY <1>0, <1>2, <1>3, <1>4, <1>5 DEF Part
    <3>2. PICK w \in Seq(Nat) : w = d[m].parts
      BY <1>2
    <3>3. Append(w, n) = w \o <<n>>
      BY AppendIsConcat
    <3> QED BY <2>1, <3>1, <3>2, <3>3 DEF Joined
  <2>3. \A i \in 1..Len(p) : i > m => p[i] = <<>>
    BY <1>0, <1>3, <1>5 DEF Part
  <2>4. \A i \in 1..Len(p) : r[i] = IF i = m THEN Joined(p[i], x) ELSE p[i]
    <3>1. \A i \in 1..Len(d) : i # m => r[i] = p[i]
      BY <1>0, <1>3, <1>4
    <3> QED BY <1>0, <1>3, <2>2, <3>1
  <2>5. m \in 1..Len(p) /\ Len(r) = Len(p)
    BY <1>0, <1>3, <1>4
  <2>6. FlattenSeq(r) = Joined(FlattenSeq(p), x)
    <3>1. Merged(p, r, m, x)
      BY <2>3, <2>4, <2>5 DEF Merged
    <3> QED BY <2>0, <3>1, FlattenMerge
  <2> QED BY <1>0, <1>3, <1>4, <2>6
<1>6. CASE StreamOf(src) # s
  <2>1. Added(src, n, s) = <<>>
    BY <1>6 DEF Added, Single
  <2>2. \A i \in 1..Len(d) : Part(d2[i], s) = Part(d[i], s)
    BY <1>0, <1>2, <1>6 DEF Part
  <2>3. r = p
    BY <1>0, <1>3, <1>4, <2>2, SeqEqual
  <2> QED BY <1>0, <1>3, <1>4, <2>1, <2>3, JoinedEmpty, PartsTyped
<1> QED BY <1>5, <1>6

\* A digest has at most one entry for a call (the entry its tokens coalesce into).
OneEntryPerCall(d) ==
  \A i, j \in 1..Len(d) : d[i].src \in Calls /\ d[j].src = d[i].src => i = j

(***************************************************************************)
(* Merging reorders no stream: a call has one entry, so its tokens are in  *)
(* it, and a message is only merged into the last entry.                   *)
(***************************************************************************)
LEMMA CoalescedParts ==
  ASSUME NEW d \in Digests, OneEntryPerCall(d), NEW src \in Sources, NEW n \in Nat
  PROVE  /\ OneEntryPerCall(appendCoalesced(d, src, n))
         /\ \A s : PartsOf(appendCoalesced(d, src, n), s) = Joined(PartsOf(d, s), Added(src, n, s))
<1>0. Len(d) \in Nat /\ \A i \in 1..Len(d) : d[i] \in Entries /\ d[i].src \in Sources
  BY DigestEntries DEF Entries
<1>1. CASE MergePlaces(d, src) = {}
  <2>1. PICK e \in Entries : e = Entry(src, n)
    <3>1. Entry(src, n) \in Entries
      BY DEF Entry, Entries
    <3> QED BY <3>1
  <2>2. e.src = src /\ \A s : Part(e, s) = Added(src, n, s)
    BY <2>1 DEF Entry, Part, Added, Single
  <2>3. appendCoalesced(d, src, n) = Append(d, e)
    BY <1>1, <2>1 DEF appendCoalesced
  <2>4. \A s : PartsOf(Append(d, e), s) = Joined(PartsOf(d, s), Part(e, s))
    BY PartsGrow
  <2>5. PICK d2 : /\ d2 = Append(d, e) /\ Len(d2) = Len(d) + 1 /\ d2[Len(d) + 1] = e
                  /\ \A i \in 1..Len(d) : d2[i] = d[i]
    <3>1. d \in Seq(Entries)
      BY DEF Digests, Entries
    <3>2. /\ Len(Append(d, e)) = Len(d) + 1 /\ Append(d, e)[Len(d) + 1] = e
          /\ \A i \in 1..Len(d) : Append(d, e)[i] = d[i]
      BY <3>1, AppendProperties
    <3> QED BY <3>2
  <2>6. src \in Calls => \A i \in 1..Len(d) : d[i].src # src
    BY <1>1 DEF MergePlaces
  <2>7. OneEntryPerCall(d2)
    <3> SUFFICES ASSUME NEW i \in 1..Len(d2), NEW j \in 1..Len(d2), d2[i].src \in Calls,
                        d2[j].src = d2[i].src
                 PROVE  i = j
      BY DEF OneEntryPerCall
    <3>1. (i \in 1..Len(d) \/ i = Len(d) + 1) /\ (j \in 1..Len(d) \/ j = Len(d) + 1)
      BY <1>0, <2>5
    <3>2. CASE i \in 1..Len(d) /\ j \in 1..Len(d)
      BY <2>5, <3>2 DEF OneEntryPerCall
    <3>3. CASE i = Len(d) + 1 \/ j = Len(d) + 1
      BY <2>2, <2>5, <2>6, <3>1, <3>3
    <3> QED BY <3>1, <3>2, <3>3
  <2> QED BY <2>2, <2>3, <2>4, <2>5, <2>7
<1>2. CASE MergePlaces(d, src) # {}
  <2>1. PICK m \in MergePlaces(d, src) :
          appendCoalesced(d, src, n) = [d EXCEPT ![m].parts = Append(@, n)]
    BY <1>2, MergePlacesFacts DEF appendCoalesced
  <2>2. /\ m \in 1..Len(d) /\ d[m].src = src
        /\ src \in Calls \/ m = Len(d)
    BY <2>1 DEF MergePlaces
  <2>3. PICK d2 \in Digests : d2 = appendCoalesced(d, src, n)
    BY DigestTyped
  <2>4. /\ Len(d2) = Len(d) /\ d2[m] = [d[m] EXCEPT !.parts = Append(@, n)]
        /\ \A i \in 1..Len(d) : i # m => d2[i] = d[i]
    <3>1. d \in Seq(Entries) /\ d[m] \in Entries /\ d[m].parts \in Seq(Nat)
      BY <1>0, <2>2 DEF Digests, Entries
    <3>2. Append(d[m].parts, n) \in Seq(Nat)
      BY <3>1
    <3>3. PICK e \in Entries : e = [d[m] EXCEPT !.parts = Append(@, n)]
      BY <3>1, <3>2 DEF Entries
    <3>4. d2 = [d EXCEPT ![m] = e]
      BY <2>1, <2>3, <3>3
    <3>5. /\ Len([d EXCEPT ![m] = e]) = Len(d)
          /\ \A i \in 1..Len(d) : [d EXCEPT ![m] = e][i] = IF i = m THEN e ELSE d[i]
      BY <2>2, <3>1, ExceptSeq
    <3> QED BY <2>2, <3>3, <3>4, <3>5
  <2>5. \A i \in 1..Len(d) : d2[i].src = d[i].src
    BY <1>0, <2>2, <2>4 DEF Entries
  <2>6. OneEntryPerCall(d2)
    BY <2>4, <2>5 DEF OneEntryPerCall
  <2>7. \A i \in 1..Len(d) : i > m => StreamOf(d[i].src) # StreamOf(src)
    <3> SUFFICES ASSUME NEW i \in 1..Len(d), i > m
                 PROVE  StreamOf(d[i].src) # StreamOf(src)
      OBVIOUS
    <3>1. src \in Calls
      BY <1>0, <2>2
    <3>2. d[i].src # src
      BY <1>0, <2>2, <3>1 DEF OneEntryPerCall
    <3>3. StreamOf(src) = src /\ src # Done
      BY <3>1, HubAssumption DEF StreamOf
    <3> QED BY <3>2, <3>3 DEF StreamOf, Main
  <2>8. ASSUME NEW s PROVE PartsOf(d2, s) = Joined(PartsOf(d, s), Added(src, n, s))
    <3>1. MergedEntry(d, d2, m, n, src)
      BY <2>2, <2>4, <2>7 DEF MergedEntry
    <3> QED BY <3>1, PartsMerge
  <2> QED BY <2>3, <2>6, <2>8
<1> QED BY <1>1, <1>2

----------------------------------------------------------------------------
(* What was published of a stream, and what was pulled of it. *)

\* The chunks of stream s among the published ones, by their places in the log.
Sent(l, s) == FlattenSeq([i \in 1..Len(l) |-> IF StreamOf(l[i]) = s THEN <<i>> ELSE <<>>])

\* The members that Sent concatenates.
LEMMA SentMembers ==
  ASSUME NEW l \in Seq(Sources), NEW s
  PROVE  \E p \in Seq(Seq(Nat)) :
           /\ Len(p) = Len(l) /\ Sent(l, s) = FlattenSeq(p)
           /\ \A i \in 1..Len(l) : p[i] = Added(l[i], i, s)
<1> DEFINE p == [i \in 1..Len(l) |-> Added(l[i], i, s)]
<1>0. Len(l) \in Nat
  OBVIOUS
<1>1. \A i \in 1..Len(l) : Added(l[i], i, s) \in Seq(Nat)
  BY SingleTyped DEF Added
<1>2. p \in Seq(Seq(Nat)) /\ Len(p) = Len(l)
  BY <1>0, <1>1
<1>3. Sent(l, s) = FlattenSeq(p)
  BY DEF Sent, Added, Single
<1>4. \A i \in 1..Len(l) : p[i] = Added(l[i], i, s)
  OBVIOUS
<1> HIDE DEF p
<1> QED BY <1>2, <1>3, <1>4

\* Nothing was sent in an empty log.
LEMMA SentEmpty == \A s : Sent(<<>>, s) = <<>>
BY FlattenEmpty DEF Sent

\* What was sent are places in the log.
LEMMA SentTyped == \A l \in Seq(Sources) : \A s : Sent(l, s) \in Seq(Nat)
BY SentMembers, FlattenTyped

\* A published chunk is sent in its stream, and in no other.
LEMMA SentGrows ==
  ASSUME NEW l \in Seq(Sources), NEW src \in Sources, NEW s
  PROVE  Sent(Append(l, src), s) = Joined(Sent(l, s), Added(src, Len(l) + 1, s))
<1>0. Append(l, src) \in Seq(Sources)
  BY AppendProperties
<1>1. PICK l2 \in Seq(Sources) : l2 = Append(l, src)
  BY <1>0
<1>2. /\ Len(l) \in Nat /\ Len(l2) = Len(l) + 1 /\ l2[Len(l) + 1] = src
      /\ \A i \in 1..Len(l) : l2[i] = l[i]
  BY <1>1, AppendProperties
<1>3. PICK p \in Seq(Seq(Nat)) : /\ Len(p) = Len(l) /\ Sent(l, s) = FlattenSeq(p)
                                 /\ \A i \in 1..Len(l) : p[i] = Added(l[i], i, s)
  BY SentMembers
<1>4. PICK r \in Seq(Seq(Nat)) : /\ Len(r) = Len(l2) /\ Sent(l2, s) = FlattenSeq(r)
                                 /\ \A i \in 1..Len(l2) : r[i] = Added(l2[i], i, s)
  BY SentMembers
<1> DEFINE x == Added(src, Len(l) + 1, s)
<1>5. x \in Seq(Nat)
  BY <1>2, SingleTyped DEF Added
<1> HIDE DEF x
<1>6. /\ Len(r) = Len(p) + 1 /\ r[Len(r)] = x
      /\ \A i \in 1..Len(p) : r[i] = p[i]
  BY <1>2, <1>3, <1>4 DEF x
<1>7. FlattenSeq(r) = Joined(FlattenSeq(p), x)
  BY <1>5, <1>6, FlattenLonger
<1> QED BY <1>1, <1>3, <1>4, <1>7 DEF x

\* The chunks of stream s among those pulled.
Shown(c, s) == Single(c.src # Done /\ StreamOf(c.src) = s, c.n)

\* The members that ChunksOf concatenates.
LEMMA ChunksMembers ==
  ASSUME NEW cs \in Seq(Chunks), NEW s
  PROVE  \E p \in Seq(Seq(Nat)) :
           /\ Len(p) = Len(cs) /\ ChunksOf(cs, s) = FlattenSeq(p)
           /\ \A i \in 1..Len(cs) : p[i] = Shown(cs[i], s)
<1> DEFINE p == [i \in 1..Len(cs) |-> Shown(cs[i], s)]
<1>0. Len(cs) \in Nat /\ \A i \in 1..Len(cs) : cs[i].n \in Nat
  <2>1. \A i \in 1..Len(cs) : cs[i] \in Chunks
    BY ElementOfSeq
  <2> QED BY <2>1 DEF Chunks
<1>1. \A i \in 1..Len(cs) : Shown(cs[i], s) \in Seq(Nat)
  BY <1>0, SingleTyped DEF Shown
<1>2. p \in Seq(Seq(Nat)) /\ Len(p) = Len(cs)
  BY <1>0, <1>1
<1>3. ChunksOf(cs, s) = FlattenSeq(p)
  BY DEF ChunksOf, Shown, Single
<1>4. \A i \in 1..Len(cs) : p[i] = Shown(cs[i], s)
  OBVIOUS
<1> HIDE DEF p
<1> QED BY <1>2, <1>3, <1>4

\* Nothing was pulled yet.
LEMMA ChunksEmpty == \A s : ChunksOf(<<>>, s) = <<>>
BY FlattenEmpty DEF ChunksOf

\* What was pulled are places in the log.
LEMMA ChunksTyped == \A cs \in Seq(Chunks) : \A s : ChunksOf(cs, s) \in Seq(Nat)
BY ChunksMembers, FlattenTyped

\* A pulled chunk is shown in its stream, and in no other.
LEMMA ChunksGrow ==
  ASSUME NEW cs \in Seq(Chunks), NEW c \in Chunks, NEW s
  PROVE  ChunksOf(Append(cs, c), s) = Joined(ChunksOf(cs, s), Shown(c, s))
<1>0. Append(cs, c) \in Seq(Chunks)
  BY AppendProperties
<1>1. PICK cs2 \in Seq(Chunks) : cs2 = Append(cs, c)
  BY <1>0
<1>2. /\ Len(cs) \in Nat /\ Len(cs2) = Len(cs) + 1 /\ cs2[Len(cs) + 1] = c
      /\ \A i \in 1..Len(cs) : cs2[i] = cs[i]
  BY <1>1, AppendProperties
<1>3. PICK p \in Seq(Seq(Nat)) : /\ Len(p) = Len(cs) /\ ChunksOf(cs, s) = FlattenSeq(p)
                                 /\ \A i \in 1..Len(cs) : p[i] = Shown(cs[i], s)
  BY ChunksMembers
<1>4. PICK r \in Seq(Seq(Nat)) : /\ Len(r) = Len(cs2) /\ ChunksOf(cs2, s) = FlattenSeq(r)
                                 /\ \A i \in 1..Len(cs2) : r[i] = Shown(cs2[i], s)
  BY ChunksMembers
<1>5. Shown(c, s) \in Seq(Nat)
  BY SingleTyped DEF Shown, Chunks
<1>6. /\ Len(r) = Len(p) + 1 /\ r[Len(r)] = Shown(c, s)
      /\ \A i \in 1..Len(p) : r[i] = p[i]
  BY <1>2, <1>3, <1>4
<1>7. FlattenSeq(r) = Joined(FlattenSeq(p), Shown(c, s))
  BY <1>5, <1>6, FlattenLonger
<1> QED BY <1>1, <1>3, <1>4, <1>7

----------------------------------------------------------------------------
(* What a viewer has still to be told. *)

\* A chunk, and the one of forceClose.
Chunk(src, n) == [src |-> src, n |-> n]
Terminal == Chunk(Done, 0)

\* The chunks that follow the first p of the log l.
Rest(l, p) == [i \in 1..(Len(l) - p) |-> Chunk(l[p + i], p + i)]

\* Rest, by its elements.
LEMMA RestShape ==
  ASSUME NEW l \in Seq(Sources), NEW p \in 0..Len(l)
  PROVE  \E r \in Seq(Chunks) :
           /\ r = Rest(l, p) /\ Len(r) = Len(l) - p
           /\ \A i \in 1..(Len(l) - p) : r[i] = Chunk(l[p + i], p + i)
<1> DEFINE r == [i \in 1..(Len(l) - p) |-> Chunk(l[p + i], p + i)]
<1>1. Len(l) \in Nat /\ p \in Nat /\ Len(l) - p \in Nat
  OBVIOUS
<1>2. \A i \in 1..(Len(l) - p) : l[p + i] \in Sources /\ p + i \in Nat
  <2>1. \A i \in 1..(Len(l) - p) : p + i \in 1..Len(l)
    BY <1>1
  <2>2. \A j \in 1..Len(l) : l[j] \in Sources
    BY ElementOfSeq
  <2> QED BY <2>1, <2>2
<1>3. \A i \in 1..(Len(l) - p) : Chunk(l[p + i], p + i) \in Chunks
  BY <1>2 DEF Chunk, Chunks
<1>4. r \in Seq(Chunks) /\ Len(r) = Len(l) - p
  BY <1>1, <1>3
<1>5. \A i \in 1..(Len(l) - p) : r[i] = Chunk(l[p + i], p + i)
  OBVIOUS
<1>6. r = Rest(l, p)
  BY DEF Rest
<1> HIDE DEF r
<1> QED BY <1>4, <1>5, <1>6

\* It consists of chunks.
LEMMA RestTyped == \A l \in Seq(Sources) : \A p \in 0..Len(l) : Rest(l, p) \in Seq(Chunks)
BY RestShape

\* It grows with the log.
LEMMA RestGrows ==
  ASSUME NEW l \in Seq(Sources), NEW p \in 0..Len(l), NEW src \in Sources
  PROVE  Rest(Append(l, src), p) = Append(Rest(l, p), Chunk(src, Len(l) + 1))
<1>0. Append(l, src) \in Seq(Sources) /\ Chunk(src, Len(l) + 1) \in Chunks
  BY DEF Chunk, Chunks
<1>1. PICK l2 \in Seq(Sources) : l2 = Append(l, src)
  BY <1>0
<1>2. /\ Len(l) \in Nat /\ Len(l2) = Len(l) + 1 /\ l2[Len(l) + 1] = src /\ p \in 0..Len(l2)
      /\ \A i \in 1..Len(l) : l2[i] = l[i]
  BY <1>1
<1>3. PICK r \in Seq(Chunks) :
        /\ r = Rest(l, p) /\ Len(r) = Len(l) - p
        /\ \A i \in 1..(Len(l) - p) : r[i] = Chunk(l[p + i], p + i)
  BY RestShape
<1>4. PICK r2 \in Seq(Chunks) :
        /\ r2 = Rest(l2, p) /\ Len(r2) = Len(l2) - p
        /\ \A i \in 1..(Len(l2) - p) : r2[i] = Chunk(l2[p + i], p + i)
  BY <1>2, RestShape
<1>5. PICK c \in Chunks : c = Chunk(src, Len(l) + 1)
  BY <1>0
<1>6. /\ Append(r, c) \in Seq(Chunks) /\ Len(Append(r, c)) = Len(r) + 1
      /\ Append(r, c)[Len(r) + 1] = c /\ \A i \in 1..Len(r) : Append(r, c)[i] = r[i]
  BY AppendProperties
<1>7. p \in Nat /\ Len(l) \in Nat /\ Len(r) \in Nat /\ Len(r) = Len(l) - p
  <2>1. p \in Nat /\ Len(l) \in Nat
    OBVIOUS
  <2>2. Len(r) \in Nat
    BY LenProperties
  <2> QED BY <1>3, <2>1, <2>2
<1>8. Len(r2) = (Len(l) + 1) - p
  BY <1>2, <1>4
<1>9. Len(r2) = Len(Append(r, c)) /\ Len(r2) = Len(r) + 1
  BY <1>6, <1>7, <1>8
<1>10. ASSUME NEW i \in 1..Len(r2)
      PROVE  r2[i] = Append(r, c)[i]
  <2>1. i \in 1..(Len(l2) - p) /\ r2[i] = Chunk(l2[p + i], p + i)
    BY <1>4
  <2>2. CASE i \in 1..Len(r)
    <3>1. p + i \in 1..Len(l) /\ i \in 1..(Len(l) - p)
      BY <1>7, <2>2
    <3> QED BY <1>2, <1>3, <1>6, <2>1, <2>2, <3>1
  <2>3. CASE i = Len(r) + 1
    <3>1. p + i = Len(l) + 1
      BY <1>7, <2>3
    <3> QED BY <1>2, <1>5, <1>6, <2>1, <2>3, <3>1
  <2>4. i \in 1..Len(r) \/ i = Len(r) + 1
    BY <1>7, <1>9
  <2> QED BY <2>2, <2>3, <2>4
<1>11. r2 = Append(r, c)
  BY <1>6, <1>9, <1>10, SeqEqual
<1> QED BY <1>1, <1>3, <1>4, <1>5, <1>11

\* Its first chunk is the next one of the log.
LEMMA RestNext ==
  ASSUME NEW l \in Seq(Sources), NEW p \in 0..Len(l), p # Len(l)
  PROVE  /\ p + 1 \in 0..Len(l) /\ l[p + 1] \in Sources
         /\ Rest(l, p) # <<>> /\ Rest(l, p)[1] = Chunk(l[p + 1], p + 1)
         /\ Tail(Rest(l, p)) = Rest(l, p + 1)
<1>1. Len(l) \in Nat /\ p \in Nat /\ p < Len(l) /\ p + 1 \in 0..Len(l)
  OBVIOUS
<1>2. PICK r \in Seq(Chunks) :
        /\ r = Rest(l, p) /\ Len(r) = Len(l) - p
        /\ \A i \in 1..(Len(l) - p) : r[i] = Chunk(l[p + i], p + i)
  BY RestShape
<1>3. PICK r2 \in Seq(Chunks) :
        /\ r2 = Rest(l, p + 1) /\ Len(r2) = Len(l) - (p + 1)
        /\ \A i \in 1..(Len(l) - (p + 1)) : r2[i] = Chunk(l[(p + 1) + i], (p + 1) + i)
  BY <1>1, RestShape
<1>4. r # <<>>
  BY <1>1, <1>2
<1>5. /\ Tail(r) \in Seq(Chunks) /\ Len(Tail(r)) = Len(r) - 1
      /\ \A i \in 1..Len(Tail(r)) : Tail(r)[i] = r[i + 1]
  BY <1>4, HeadTailProperties
<1>6. Len(Tail(r)) = Len(r2) /\ Len(r2) = Len(l) - p - 1
  <2>1. Len(Tail(r)) = Len(r) - 1 /\ Len(r) = Len(l) - p /\ Len(r2) = Len(l) - (p + 1)
    BY <1>2, <1>3, <1>5
  <2> QED BY ONLY <1>1, <2>1
<1>7. ASSUME NEW i \in 1..Len(r2)
      PROVE  r2[i] = Tail(r)[i]
  <2>1. Tail(r)[i] = r[i + 1]
    BY <1>5, <1>6
  <2>2. i \in 1..(Len(l) - (p + 1)) /\ i + 1 \in 1..(Len(l) - p) /\ p + (i + 1) = (p + 1) + i
    BY <1>1, <1>6
  <2> QED BY <1>2, <1>3, <2>1, <2>2
<1>8. Tail(r) = r2
  BY <1>5, <1>6, <1>7, SeqEqual
<1>9. r[1] = Chunk(l[p + 1], p + 1)
  BY <1>1, <1>2
<1>10. l[p + 1] \in Sources
  <2>1. p + 1 \in 1..Len(l)
    BY <1>1
  <2> QED BY <2>1, ElementOfSeq
<1> QED BY <1>1, <1>2, <1>3, <1>4, <1>8, <1>9, <1>10

\* In the end nothing is left of it.
LEMMA RestLast ==
  ASSUME NEW l \in Seq(Sources)
  PROVE  Len(l) \in 0..Len(l) /\ Rest(l, Len(l)) = <<>>
<1> DEFINE p == Len(l)
<1>1. p \in 0..Len(l) /\ Len(l) - p = 0
  OBVIOUS
<1> HIDE DEF p
<1>2. PICK r \in Seq(Chunks) : r = Rest(l, p) /\ Len(r) = Len(l) - p
  BY <1>1, RestShape
<1>3. Rest(l, p) = <<>>
  BY <1>1, <1>2, EmptySeq
<1> QED BY <1>1, <1>3 DEF p

\* With the terminal chunk after it.
LEMMA RestTerminated ==
  ASSUME NEW r \in Seq(Chunks)
  PROVE  /\ Append(r, Terminal) # <<>> /\ Append(r, Terminal) \in Seq(Chunks)
         /\ r = <<>> => Append(r, Terminal)[1] = Terminal /\ Tail(Append(r, Terminal)) = <<>>
         /\ r # <<>> => /\ Append(r, Terminal)[1] = r[1]
                        /\ Tail(Append(r, Terminal)) = Append(Tail(r), Terminal)
<1>1. Terminal \in Chunks
  BY DEF Terminal, Chunk, Chunks
<1>2. Append(r, Terminal) # <<>> /\ Append(r, Terminal) \in Seq(Chunks)
  BY <1>1, AppendProperties
<1>3. Tail(Append(r, Terminal)) = IF r = <<>> THEN <<>> ELSE Append(Tail(r), Terminal)
  BY HeadTailAppend
<1>4. r = <<>> => Append(r, Terminal)[1] = Terminal
  OBVIOUS
<1>5. r # <<>> => Append(r, Terminal)[1] = r[1]
  <2> SUFFICES ASSUME r # <<>> PROVE Append(r, Terminal)[1] = r[1]
    OBVIOUS
  <2>1. 1 \in 1..Len(r)
    BY EmptySeq
  <2> QED BY <1>1, <2>1, AppendProperties
<1> QED BY <1>2, <1>3, <1>4, <1>5

----------------------------------------------------------------------------
(* The invariant of the refinement: RefInv. *)

\* The digest of a turn holds what was published, stream by stream, or it is dropped.
DigestsHold ==
  \A t \in Turns :
    /\ OneEntryPerCall(digest[t])
    /\ t \in truncated => digest[t] = <<>>
    /\ t \notin truncated => \A s \in Calls \cup {Main} : PartsOf(digest[t], s) = Sent(log[t], s)

\* How much of the log a viewer was told, or skipped when it joined.
Place(v) == start[v] + Pulled(v)

\* A queue holds exactly what its viewer has still to be told.
Following(v) ==
  LET t == watches[v]
  IN  /\ Place(v) \in 0..Len(log[t])
      /\ v \notin terminalDelivered => queue[v] = IF t \in ended THEN Append(Rest(log[t], Place(v)), Terminal)
                                               ELSE Rest(log[t], Place(v))
      /\ v \in terminalDelivered => queue[v] = <<>> /\ t \in ended

\* That of every attached viewer that was not dropped.
QueuesAreTheRest == \A v \in Attached \ dropped : Following(v)

\* Nobody was told anything before joining.
OutsidersAreBlank ==
  \A v \in Viewers :
    /\ stage[v] = "new" => watches[v] = None
    /\ watches[v] = None =>
         got[v] = <<>> /\ snapshot[v] = <<>> /\ v \notin whole \cup terminalDelivered \cup dropped

\* The inductive invariant of the refinement.
RefInv == HubInv /\ Quantities /\ DigestsHold /\ QueuesAreTheRest /\ OutsidersAreBlank

\* The initial state satisfies it.
LEMMA RefInit == Init => RefInv
<1> SUFFICES ASSUME Init PROVE RefInv
  OBVIOUS
<1>1. HubInv /\ Quantities
  BY HubInitInv, QuantitiesInit
<1>2. DigestsHold
  <2>1. \A s : PartsOf(<<>>, s) = <<>>
    BY FlattenEmpty DEF PartsOf
  <2> QED BY <2>1, SentEmpty DEF Init, DigestsHold, OneEntryPerCall
<1>3. QueuesAreTheRest /\ OutsidersAreBlank
  BY DEF Init, QueuesAreTheRest, Attached, OutsidersAreBlank
<1> QED BY <1>1, <1>2, <1>3 DEF RefInv

\* Who is subscribed to the turns in T, among those that were not dropped.
LEMMA SubscribedFacts ==
  ASSUME HubInv, NEW T \in SUBSET Turns
  PROVE  /\ \A v \in Subscribed(T) : v \in Attached /\ v \notin dropped /\ watches[v] \in T
         /\ \A v \in Attached \ dropped :
              watches[v] \in Turns /\ (v \in Subscribed(T) <=> watches[v] \in T)
BY DEF HubInv, Subscriptions, Subscribed, Opened, Attached

\* A turn that ends: its viewers get the terminal chunk after what they have to be told.
LEMMA EndingKeepsRest ==
  ASSUME RefInv, NEW T \in SUBSET Turns, T \cap ended = {}, deliver(T, Done, 0),
         ended' = ended \cup T, UNCHANGED <<log, viewerVars>>
  PROVE  QueuesAreTheRest'
<1>0. HubInv /\ Shapes /\ Subscriptions /\ QueuesAreTheRest
  BY DEF RefInv, HubInv
<1>1. Delivered(T, Done, 0) /\ dropped \subseteq dropped'
  BY <1>0, DeliverEffect DEF deliver
<1>2. UNCHANGED <<stage, watches, start, got, terminalDelivered, log>> /\ Attached' = Attached
  BY DEF viewerVars, attachmentVars, pullVars, Attached
<1>3. ASSUME NEW v \in Attached, v \notin dropped'
      PROVE  Following(v)'
  <2>0. v \in Viewers /\ v \in Attached \ dropped
    BY <1>1, <1>3 DEF Attached
  <2>1. Following(v) /\ Place(v)' = Place(v) /\ watches[v] \in Turns
    BY <1>0, <1>2, <2>0, SubscribedFacts DEF QueuesAreTheRest, Place, Pulled
  <2>2. PICK l \in Seq(Sources) : l = log[watches[v]] /\ Place(v) \in 0..Len(l)
    BY <1>0, <2>1 DEF Following, Shapes
  <2>3. CASE watches[v] \in T
    <3>1. queue'[v] = Append(queue[v], Chunk(Done, 0))
      BY <1>0, <1>1, <1>3, <2>0, <2>3, SubscribedFacts DEF Delivered, Chunk
    <3>2. v \notin terminalDelivered /\ watches[v] \notin ended /\ watches[v] \in ended'
      BY <2>1, <2>3 DEF Following
    <3>3. queue[v] = Rest(l, Place(v))
      BY <2>1, <2>2, <3>2 DEF Following
    <3>4. queue'[v] = Append(Rest(l, Place(v)), Terminal)
      BY <3>1, <3>3 DEF Terminal
    <3> QED BY <1>2, <2>1, <2>2, <3>2, <3>4 DEF Following
  <2>4. CASE watches[v] \notin T
    <3>1. queue'[v] = queue[v]
      BY <1>0, <1>1, <2>0, <2>4, SubscribedFacts DEF Delivered
    <3>2. watches[v] \in ended' <=> watches[v] \in ended
      BY <2>4
    <3> QED BY <1>2, <2>1, <3>1, <3>2 DEF Following
  <2> QED BY <2>3, <2>4
<1> QED BY <1>2, <1>3 DEF QueuesAreTheRest

\* A chunk is published: the viewers of its turn get it after what they have to be told.
LEMMA PublishingKeepsRest ==
  ASSUME RefInv, NEW t \in Turns, t \notin ended, NEW src \in Sources,
         deliver({t}, src, Len(log[t]) + 1), log' = [log EXCEPT ![t] = Append(@, src)],
         UNCHANGED <<ended, viewerVars>>
  PROVE  QueuesAreTheRest'
<1>0. HubInv /\ Shapes /\ Subscriptions /\ QueuesAreTheRest
  BY DEF RefInv, HubInv
<1>1. Delivered({t}, src, Len(log[t]) + 1) /\ dropped \subseteq dropped'
  <2>1. Len(log[t]) + 1 \in Nat
    BY <1>0 DEF Shapes
  <2> QED BY <1>0, <2>1, DeliverEffect DEF deliver
<1>2. UNCHANGED <<stage, watches, start, got, terminalDelivered, ended>> /\ Attached' = Attached
  BY DEF viewerVars, attachmentVars, pullVars, Attached
<1>3. ASSUME NEW v \in Attached, v \notin dropped'
      PROVE  Following(v)'
  <2>0. v \in Viewers /\ v \in Attached \ dropped
    BY <1>1, <1>3 DEF Attached
  <2>1. Following(v) /\ Place(v)' = Place(v) /\ watches[v] \in Turns
    BY <1>0, <1>2, <2>0, SubscribedFacts DEF QueuesAreTheRest, Place, Pulled
  <2>2. PICK l \in Seq(Sources) : l = log[watches[v]] /\ Place(v) \in 0..Len(l)
    BY <1>0, <2>1 DEF Following, Shapes
  <2>3. CASE watches[v] = t
    <3>1. queue'[v] = Append(queue[v], Chunk(src, Len(l) + 1))
      BY <1>0, <1>1, <1>3, <2>0, <2>2, <2>3, SubscribedFacts DEF Delivered, Chunk
    <3>2. v \notin terminalDelivered
      BY <2>1, <2>3 DEF Following
    <3>3. queue[v] = Rest(l, Place(v))
      BY <2>1, <2>2, <2>3, <3>2 DEF Following
    <3>4. queue'[v] = Rest(Append(l, src), Place(v))
      BY <2>2, <3>1, <3>3, RestGrows
    <3>5. log'[watches[v]] = Append(l, src) /\ Place(v) \in 0..Len(Append(l, src))
      BY <1>0, <2>2, <2>3 DEF Shapes
    <3> QED BY <1>2, <2>1, <2>2, <2>3, <3>2, <3>4, <3>5 DEF Following
  <2>4. CASE watches[v] # t
    <3>1. queue'[v] = queue[v]
      BY <1>0, <1>1, <2>0, <2>4, SubscribedFacts DEF Delivered
    <3>2. log'[watches[v]] = log[watches[v]]
      BY <1>0, <2>1, <2>4 DEF Shapes
    <3> QED BY <1>2, <2>1, <3>1, <3>2 DEF Following
  <2> QED BY <2>3, <2>4
<1> QED BY <1>2, <1>3 DEF QueuesAreTheRest

\* The digest follows the log.
LEMMA PublishingKeepsDigests ==
  ASSUME RefInv, NEW t \in Turns, NEW src \in Sources, publish(t, src)
  PROVE  DigestsHold'
<1>0. Shapes /\ Quantities /\ DigestsHold
  BY DEF RefInv, HubInv
<1> DEFINE n == Len(log[t]) + 1
<1>1. /\ log[t] \in Seq(Sources) /\ n \in Nat /\ digest[t] \in Digests
      /\ log' = [log EXCEPT ![t] = Append(@, src)]
  BY <1>0 DEF Shapes, Quantities, publish
<1>2. ASSUME NEW u \in Turns, u # t
      PROVE  log'[u] = log[u] /\ digest'[u] = digest[u] /\ (u \in truncated' <=> u \in truncated)
  BY <1>0, <1>2 DEF publish, digestVars, Shapes, Quantities
<1>3. log'[t] = Append(log[t], src)
  BY <1>0, <1>1 DEF Shapes
<1>4. CASE t \in truncated'
  <2>1. digest'[t] = <<>>
    BY <1>0, <1>4 DEF publish, digestVars, Quantities, DigestsHold
  <2>2. OneEntryPerCall(<<>>)
    BY DEF OneEntryPerCall
  <2> QED BY <1>0, <1>2, <1>4, <2>1, <2>2 DEF DigestsHold
<1>5. CASE t \notin truncated'
  <2>1. t \notin truncated /\ digest'[t] = appendCoalesced(digest[t], src, n)
    BY <1>0, <1>5 DEF publish, digestVars, Quantities
  <2>2. /\ OneEntryPerCall(appendCoalesced(digest[t], src, n))
        /\ \A s : PartsOf(appendCoalesced(digest[t], src, n), s)
                    = Joined(PartsOf(digest[t], s), Added(src, n, s))
    BY <1>0, <1>1, CoalescedParts DEF DigestsHold
  <2>3. \A s : Sent(log'[t], s) = Joined(Sent(log[t], s), Added(src, n, s))
    BY <1>1, <1>3, SentGrows
  <2>4. \A s \in Calls \cup {Main} : PartsOf(digest'[t], s) = Sent(log'[t], s)
    BY <1>0, <2>1, <2>2, <2>3 DEF DigestsHold
  <2> QED BY <1>0, <1>2, <1>5, <2>1, <2>2, <2>4 DEF DigestsHold
<1> QED BY <1>4, <1>5

\* What the producers do keeps the invariant of the refinement.
LEMMA ProducersKeepRef ==
  ASSUME RefInv,
         \/ \E t \in Turns, th \in Threads : open(t, th)
         \/ \E t \in Turns, src \in Sources : publish(t, src)
         \/ \E t \in Turns : close(t)
         \/ closeAll
  PROVE  DigestsHold' /\ QueuesAreTheRest' /\ OutsidersAreBlank'
<1>0. HubInv /\ Shapes /\ EntriesAreTheLiveTurns /\ DigestsHold /\ QueuesAreTheRest /\ OutsidersAreBlank
  BY DEF RefInv, HubInv
<1>1. ASSUME NEW T \in SUBSET Turns, NEW src \in Sources \cup {Done}, NEW n \in Nat,
             deliver(T, src, n), UNCHANGED viewerVars
      PROVE  OutsidersAreBlank'
  <2>1. \A v \in Viewers : watches[v] = None => v \notin Overrun(T, src)
    <3>1. None \notin Turns /\ T \in SUBSET Turns
      BY HubAssumption
    <3> QED BY <1>0, <3>1, SubscribedFacts DEF Overrun
  <2>2. dropped' = dropped \cup Overrun(T, src)
    BY <1>1 DEF deliver
  <2> QED BY <1>0, <1>1, <2>1, <2>2 DEF OutsidersAreBlank, viewerVars, attachmentVars, pullVars
<1>2. ASSUME NEW T \in SUBSET (Opened \ ended), forceClose(T),
             UNCHANGED <<log, digestVars, viewerVars>>
      PROVE  DigestsHold' /\ QueuesAreTheRest' /\ OutsidersAreBlank'
  <2>1. /\ T \in SUBSET Turns /\ T \cap ended = {} /\ deliver(T, Done, 0) /\ ended' = ended \cup T
    BY <1>2 DEF forceClose, Opened
  <2>2. QueuesAreTheRest'
    BY <1>2, <2>1, EndingKeepsRest
  <2>3. OutsidersAreBlank'
    BY <1>1, <1>2, <2>1
  <2>4. DigestsHold'
    BY <1>0, <1>2 DEF DigestsHold, digestVars
  <2> QED BY <2>2, <2>3, <2>4
<1>3. ASSUME NEW t \in Turns, NEW th \in Threads, open(t, th)
      PROVE  DigestsHold' /\ QueuesAreTheRest' /\ OutsidersAreBlank'
  <2>1. {entries[th]} \ {None} \in SUBSET (Opened \ ended)
    BY <1>0 DEF EntriesAreTheLiveTurns
  <2> QED BY <1>2, <1>3, <2>1 DEF open
<1>4. ASSUME NEW t \in Turns, close(t)
      PROVE  DigestsHold' /\ QueuesAreTheRest' /\ OutsidersAreBlank'
  BY <1>2, <1>4 DEF close, Current
<1>5. ASSUME closeAll
      PROVE  DigestsHold' /\ QueuesAreTheRest' /\ OutsidersAreBlank'
  <2>1. {entries[th] : th \in Threads} \ {None} \in SUBSET (Opened \ ended)
    BY <1>0 DEF EntriesAreTheLiveTurns
  <2> QED BY <1>2, <1>5, <2>1 DEF closeAll
<1>6. ASSUME NEW t \in Turns, NEW src \in Sources, publish(t, src)
      PROVE  DigestsHold' /\ QueuesAreTheRest' /\ OutsidersAreBlank'
  <2>1. /\ deliver({t}, src, Len(log[t]) + 1) /\ t \notin ended
        /\ UNCHANGED <<ended, viewerVars>> /\ log' = [log EXCEPT ![t] = Append(@, src)]
        /\ Len(log[t]) + 1 \in Nat
    BY <1>0, <1>6 DEF publish, Current, Shapes
  <2>2. QueuesAreTheRest'
    BY <2>1, PublishingKeepsRest
  <2>3. OutsidersAreBlank'
    BY <1>1, <2>1
  <2>4. DigestsHold'
    BY <1>6, PublishingKeepsDigests
  <2> QED BY <2>2, <2>3, <2>4
<1> QED BY <1>3, <1>4, <1>5, <1>6

\* The chunk pulled is the next one of the log, or the terminal one when none is left.
LEMMA ChunkIsNext ==
  ASSUME RefInv, NEW v \in Viewers, NextChunk(v)
  PROVE  LET l == log[watches[v]]
             p == Place(v)
             c == queue[v][1]
         IN  /\ watches[v] \in Turns /\ l \in Seq(Sources) /\ p \in 0..Len(l)
             /\ v \in Attached \ dropped /\ v \notin terminalDelivered /\ c \in Chunks
             /\ \/ /\ p # Len(l) /\ c = Chunk(l[p + 1], p + 1) /\ l[p + 1] \in Sources
                   /\ Tail(queue[v]) = IF watches[v] \in ended
                                         THEN Append(Rest(l, p + 1), Terminal) ELSE Rest(l, p + 1)
                   /\ p + 1 \in 0..Len(l)
                \/ /\ p = Len(l) /\ watches[v] \in ended /\ c = Terminal /\ Tail(queue[v]) = <<>>
<1>1. HubInv /\ Shapes /\ v \in Attached /\ v \notin dropped /\ queue[v] # <<>>
  BY DEF RefInv, HubInv, NextChunk, Pulls, Attached
<1>2. Following(v) /\ watches[v] \in Turns
  BY <1>1, SubscribedFacts DEF RefInv, QueuesAreTheRest
<1>3. PICK l \in Seq(Sources) : l = log[watches[v]]
  BY <1>1, <1>2 DEF Shapes
<1>4. PICK p \in 0..Len(l) : p = Place(v)
  BY <1>2, <1>3 DEF Following
<1>5. /\ v \notin terminalDelivered
      /\ queue[v] = IF watches[v] \in ended THEN Append(Rest(l, p), Terminal) ELSE Rest(l, p)
  BY <1>1, <1>2, <1>3, <1>4 DEF Following
<1>6. queue[v][1] \in Chunks
  <2>1. queue[v] \in Seq(Chunks) /\ 1 \in 1..Len(queue[v])
    BY <1>1, EmptySeq DEF Shapes
  <2> QED BY <2>1, ElementOfSeq
<1>7. CASE p # Len(l)
  <2>1. /\ p + 1 \in 0..Len(l) /\ l[p + 1] \in Sources
        /\ Rest(l, p) # <<>> /\ Rest(l, p)[1] = Chunk(l[p + 1], p + 1)
        /\ Tail(Rest(l, p)) = Rest(l, p + 1)
    BY <1>7, RestNext
  <2>2. PICK r \in Seq(Chunks) : r = Rest(l, p)
    BY RestTyped
  <2>3. /\ Append(r, Terminal)[1] = r[1] /\ Tail(Append(r, Terminal)) = Append(Tail(r), Terminal)
    BY <2>1, <2>2, RestTerminated
  <2>4. /\ queue[v][1] = Chunk(l[p + 1], p + 1)
        /\ Tail(queue[v]) = IF watches[v] \in ended
                              THEN Append(Rest(l, p + 1), Terminal) ELSE Rest(l, p + 1)
    BY <1>5, <2>1, <2>2, <2>3
  <2> QED BY <1>1, <1>2, <1>3, <1>4, <1>5, <1>6, <1>7, <2>1, <2>4
<1>8. CASE p = Len(l)
  <2>1. Rest(l, p) = <<>>
    BY <1>8, RestLast
  <2>2. watches[v] \in ended /\ queue[v] = Append(<<>>, Terminal)
    BY <1>1, <1>5, <2>1
  <2>3. queue[v][1] = Terminal /\ Tail(queue[v]) = <<>>
    BY <2>2
  <2> QED BY <1>1, <1>2, <1>3, <1>4, <1>5, <1>6, <1>8, <2>2, <2>3
<1> QED BY <1>7, <1>8

\* Joining: nothing follows the log yet.
LEMMA AttachKeepsRef ==
  ASSUME RefInv, NEW v \in Viewers, NEW t \in Opened \ ended, stage[v] = "new", attachTo(v, t),
         UNCHANGED <<turnVars, digestVars, queue, queueBytes, dropped, asleep, pullVars>>
  PROVE  QueuesAreTheRest' /\ OutsidersAreBlank'
<1>0. Shapes /\ Quantities /\ QueuesAreTheRest /\ OutsidersAreBlank /\ NewViewersAreBlank
  BY DEF RefInv, HubInv
<1>1. t \in Turns /\ log[t] \in Seq(Sources) /\ t # None
  BY <1>0, HubAssumption DEF Opened, Shapes
<1>2. /\ got[v] = <<>> /\ v \notin terminalDelivered /\ queue[v] = <<>> /\ v \notin dropped
  BY <1>0 DEF OutsidersAreBlank, NewViewersAreBlank
<1>3. /\ watches'[v] = t /\ start'[v] = Len(log[t]) /\ stage'[v] = "attached"
      /\ \A w \in Viewers \ {v} : /\ watches'[w] = watches[w] /\ start'[w] = start[w]
                                  /\ stage'[w] = stage[w] /\ snapshot'[w] = snapshot[w]
      /\ whole \subseteq whole' /\ whole' \subseteq whole \cup {v}
      /\ UNCHANGED <<log, ended, queue, dropped, got, terminalDelivered>>
  BY <1>0 DEF attachTo, Shapes, Quantities, turnVars, pullVars
<1>4. ASSUME NEW w \in Attached', w \notin dropped'
      PROVE  Following(w)'
  <2>0. w \in Viewers
    BY <1>4 DEF Attached
  <2>1. CASE w = v
    <3>1. Place(v)' = Len(log[t])
      <4>1. Pulled(v)' = 0
        BY <1>2, <1>3 DEF Pulled
      <4>2. Len(log[t]) \in Nat
        BY <1>1
      <4> QED BY <1>3, <4>1, <4>2 DEF Place
    <3>2. Rest(log[t], Len(log[t])) = <<>> /\ Len(log[t]) \in 0..Len(log[t])
      BY <1>1, RestLast
    <3> QED BY <1>2, <1>3, <2>1, <3>1, <3>2 DEF Following
  <2>2. CASE w # v
    <3>1. w \in Attached \ dropped
      BY <1>3, <1>4, <2>0, <2>2 DEF Attached
    <3>2. Following(w) /\ Place(w)' = Place(w)
      BY <1>0, <1>3, <2>0, <2>2, <3>1 DEF QueuesAreTheRest, Place, Pulled
    <3> QED BY <1>3, <2>0, <2>2, <3>2 DEF Following
  <2> QED BY <2>1, <2>2
<1>5. OutsidersAreBlank'
  BY <1>0, <1>1, <1>3 DEF OutsidersAreBlank
<1> QED BY <1>4, <1>5 DEF QueuesAreTheRest

\* A stage that changes, with the subscription and the queue it ends, or not.
LEMMA StageKeepsRef ==
  ASSUME RefInv, NEW v \in Viewers,
         \A w \in Viewers \ {v} : stage'[w] = stage[w] /\ queue'[w] = queue[w],
         stage'[v] # "new" /\ (stage'[v] \in {"attached", "following"} => v \in Attached),
         v \in Attached' => queue'[v] = queue[v],
         UNCHANGED <<turnVars, dropped, attachmentVars, pullVars>>
  PROVE  QueuesAreTheRest' /\ OutsidersAreBlank'
<1>0. QueuesAreTheRest /\ OutsidersAreBlank
  BY DEF RefInv
<1>1. UNCHANGED <<log, ended, dropped, watches, start, snapshot, whole, got, terminalDelivered>>
  BY DEF turnVars, attachmentVars, pullVars
<1>2. ASSUME NEW w \in Attached', w \notin dropped'
      PROVE  Following(w)'
  <2>1. w \in Viewers /\ w \in Attached /\ queue'[w] = queue[w] /\ w \notin dropped
    BY <1>1, <1>2 DEF Attached
  <2>2. Following(w) /\ Place(w)' = Place(w)
    BY <1>0, <1>1, <2>1 DEF QueuesAreTheRest, Place, Pulled
  <2> QED BY <1>1, <2>1, <2>2 DEF Following
<1>3. OutsidersAreBlank'
  BY <1>0, <1>1 DEF OutsidersAreBlank
<1> QED BY <1>2, <1>3 DEF QueuesAreTheRest

\* Pulling: what is left of the log gets shorter by its first chunk.
LEMMA PullKeepsRef ==
  ASSUME RefInv, NEW v \in Viewers, NextChunk(v)
  PROVE  QueuesAreTheRest' /\ OutsidersAreBlank'
<1>0. Shapes /\ Quantities /\ QueuesAreTheRest /\ OutsidersAreBlank
  BY DEF RefInv, HubInv
<1>1. PICK l \in Seq(Sources) : l = log[watches[v]] /\ watches[v] \in Turns
  BY ChunkIsNext
<1>2. PICK p \in 0..Len(l) : p = Place(v)
  BY <1>1, ChunkIsNext
<1>3. PICK c \in Chunks : c = queue[v][1]
  BY ChunkIsNext
<1>4. /\ v \in Attached \ dropped /\ v \notin terminalDelivered
      /\ \/ /\ p # Len(l) /\ c = Chunk(l[p + 1], p + 1) /\ l[p + 1] \in Sources
            /\ Tail(queue[v]) = IF watches[v] \in ended
                                  THEN Append(Rest(l, p + 1), Terminal) ELSE Rest(l, p + 1)
            /\ p + 1 \in 0..Len(l)
         \/ /\ p = Len(l) /\ watches[v] \in ended /\ c = Terminal /\ Tail(queue[v]) = <<>>
  BY <1>1, <1>2, <1>3, ChunkIsNext
<1>5. /\ queue'[v] = Tail(queue[v]) /\ got'[v] = Append(got[v], c)
      /\ \A w \in Viewers \ {v} : queue'[w] = queue[w] /\ got'[w] = got[w]
      /\ terminalDelivered' = IF c.src = Done THEN terminalDelivered \cup {v} ELSE terminalDelivered
      /\ UNCHANGED <<log, ended, dropped, stage, watches, start, snapshot, whole>>
      /\ Attached' = Attached /\ watches[v] # None
  BY <1>0, <1>1, <1>3, HubAssumption DEF NextChunk, Shapes, Quantities, turnVars, attachmentVars, Attached
<1>6. got[v] \in Seq(Chunks) /\ Len(got'[v]) = Len(got[v]) + 1 /\ Len(got[v]) \in Nat /\ start[v] \in Nat
  BY <1>0, <1>5 DEF Quantities
<1>7. Following(v)'
  <2>1. CASE p # Len(l)
    <3>1. c.src \in Sources /\ c.src # Done /\ v \notin terminalDelivered'
      BY <1>4, <1>5, <2>1, HubAssumption DEF Chunk
    <3>2. Place(v)' = p + 1
      BY <1>2, <1>4, <1>5, <1>6, <3>1 DEF Place, Pulled
    <3> QED BY <1>1, <1>4, <1>5, <2>1, <3>1, <3>2 DEF Following
  <2>2. CASE p = Len(l)
    <3>1. c.src = Done /\ v \in terminalDelivered'
      BY <1>4, <1>5, <2>2, HubAssumption DEF Chunk, Terminal
    <3>2. Place(v)' = p
      BY <1>2, <1>4, <1>5, <1>6, <3>1 DEF Place, Pulled
    <3>3. queue'[v] = <<>> /\ watches[v] \in ended
      BY <1>4, <1>5, <2>2
    <3> QED BY <1>1, <1>5, <2>2, <3>1, <3>2, <3>3 DEF Following
  <2> QED BY <2>1, <2>2
<1>8. ASSUME NEW w \in Attached, w \notin dropped, w # v
      PROVE  Following(w)'
  <2>1. w \in Viewers /\ (w \in terminalDelivered' <=> w \in terminalDelivered)
    BY <1>5, <1>8 DEF Attached
  <2>2. Following(w) /\ Place(w)' = Place(w)
    BY <1>0, <1>5, <1>8, <2>1 DEF QueuesAreTheRest, Place, Pulled
  <2> QED BY <1>5, <1>8, <2>1, <2>2 DEF Following
<1>9. OutsidersAreBlank'
  BY <1>0, <1>5 DEF OutsidersAreBlank
<1> QED BY <1>5, <1>7, <1>8, <1>9 DEF QueuesAreTheRest

\* The viewers' part of the next-state relation.
ViewerMoves(v) ==
  \/ \E th \in Threads, limit \in ViewerLimits : attach(v, th, limit)
  \/ SendState(v) \/ Leave(v) \/ Pull(v)

\* Every step keeps the invariant of the refinement.
LEMMA RefStep ==
  ASSUME RefInv, [Next]_vars
  PROVE  RefInv'
<1>0. HubInv /\ Quantities /\ DigestsHold /\ QueuesAreTheRest /\ OutsidersAreBlank
  BY DEF RefInv
<1>1. HubInv' /\ Quantities'
  BY <1>0, HubStepInv, QuantitiesStep
<1>2. ASSUME NEW v \in Viewers,
             ViewerMoves(v)
      PROVE  DigestsHold' /\ QueuesAreTheRest' /\ OutsidersAreBlank'
  <2>1. UNCHANGED <<turnVars, digestVars>>
    BY <1>2 DEF ViewerMoves, attach, SendState, Leave, Pull, NextChunk, NextIsOver, NextIsDropped, NextSleeps, detach
  <2>2. DigestsHold'
    BY <1>0, <2>1 DEF DigestsHold, turnVars, digestVars
  <2>3. ASSUME NEW how \in {"left", "done", "overflow"}, v \in Attached, detach(v, how)
        PROVE  QueuesAreTheRest' /\ OutsidersAreBlank'
    <3>1. /\ stage'[v] = how
          /\ \A w \in Viewers \ {v} : stage'[w] = stage[w] /\ queue'[w] = queue[w]
          /\ UNCHANGED <<turnVars, dropped, attachmentVars, pullVars>>
      BY <1>0, <2>3 DEF detach, HubInv, Shapes
    <3>2. v \notin Attached'
      BY <3>1 DEF Attached
    <3> QED BY <3>1, <3>2, StageKeepsRef
  <2>4. ASSUME NEW th \in Threads, NEW limit \in ViewerLimits, attach(v, th, limit)
        PROVE  QueuesAreTheRest' /\ OutsidersAreBlank'
    <3>1. CASE entries[th] # None /\ attachTo(v, entries[th])
      <4>1. entries[th] \in Opened \ ended
        BY <1>0, <3>1 DEF HubInv, EntriesAreTheLiveTurns
      <4> QED BY <2>4, <3>1, <4>1, AttachKeepsRef DEF attach
    <3>2. ASSUME NEW how \in {"durable", "capacity"}, stage' = [stage EXCEPT ![v] = how],
                 UNCHANGED <<attachmentVars, subscribers>>
          PROVE  QueuesAreTheRest' /\ OutsidersAreBlank'
      <4>1. /\ stage'[v] = how /\ \A w \in Viewers \ {v} : stage'[w] = stage[w]
            /\ UNCHANGED <<turnVars, queue, dropped, attachmentVars, pullVars>>
        BY <1>0, <2>4, <3>2 DEF attach, HubInv, Shapes
      <4> QED BY <4>1, StageKeepsRef
    <3> QED BY <2>4, <3>1, <3>2 DEF attach
  <2>5. ASSUME SendState(v)
        PROVE  QueuesAreTheRest' /\ OutsidersAreBlank'
    <3>1. /\ stage'[v] = "following" /\ v \in Attached
          /\ \A w \in Viewers \ {v} : stage'[w] = stage[w]
          /\ UNCHANGED <<turnVars, queue, dropped, attachmentVars, pullVars>>
      BY <1>0, <2>5 DEF SendState, deliveryVars, HubInv, Shapes, Attached
    <3> QED BY <3>1, StageKeepsRef
  <2>6. ASSUME Leave(v)
        PROVE  QueuesAreTheRest' /\ OutsidersAreBlank'
    BY <2>3, <2>6 DEF Leave
  <2>7. ASSUME NextIsOver(v) \/ NextIsDropped(v)
        PROVE  QueuesAreTheRest' /\ OutsidersAreBlank'
    BY <2>3, <2>7 DEF NextIsOver, NextIsDropped, Pulls, Attached
  <2>8. ASSUME NextChunk(v)
        PROVE  QueuesAreTheRest' /\ OutsidersAreBlank'
    BY <2>8, PullKeepsRef
  <2>9. ASSUME NextSleeps(v)
        PROVE  QueuesAreTheRest' /\ OutsidersAreBlank'
    <3>1. /\ stage'[v] = "following" /\ v \in Attached
          /\ UNCHANGED <<turnVars, stage, queue, dropped, attachmentVars, pullVars>>
      BY <2>9 DEF NextSleeps, Pulls, viewerVars, Attached
    <3> QED BY <3>1, StageKeepsRef
  <2> QED BY <1>2, <2>2, <2>4, <2>5, <2>6, <2>7, <2>8, <2>9 DEF ViewerMoves, Pull
<1>3. CASE UNCHANGED vars
  <2>1. UNCHANGED <<log, ended, digest, truncated, stage, queue, dropped, watches, start, snapshot,
                    whole, got, terminalDelivered>>
    BY <1>3 DEF vars, turnVars, digestVars, deliveryVars, viewerVars, attachmentVars, pullVars
  <2>2. DigestsHold' /\ OutsidersAreBlank'
    BY <1>0, <2>1 DEF DigestsHold, OutsidersAreBlank
  <2>3. ASSUME NEW w \in Attached', w \notin dropped'
        PROVE  Following(w)'
    <3>1. w \in Viewers /\ w \in Attached \ dropped
      BY <2>1, <2>3 DEF Attached
    <3>2. Following(w) /\ Place(w)' = Place(w)
      BY <1>0, <2>1, <3>1 DEF QueuesAreTheRest, Place, Pulled
    <3> QED BY <2>1, <3>1, <3>2 DEF Following
  <2> QED BY <1>1, <2>2, <2>3 DEF QueuesAreTheRest, RefInv
<1>4. CASE Next
  <2>1. CASE \/ \E t \in Turns, th \in Threads : open(t, th)
             \/ \E t \in Turns, src \in Sources : publish(t, src)
             \/ \E t \in Turns : close(t)
             \/ closeAll
    <3>1. DigestsHold' /\ QueuesAreTheRest' /\ OutsidersAreBlank'
      BY <2>1, ProducersKeepRef
    <3> QED BY <1>1, <3>1 DEF RefInv
  <2>2. CASE \E v \in Viewers : ViewerMoves(v)
    BY <1>1, <1>2, <2>2 DEF RefInv
  <2>3. \/ (\/ \E t \in Turns, th \in Threads : open(t, th)
            \/ \E t \in Turns, src \in Sources : publish(t, src)
            \/ \E t \in Turns : close(t)
            \/ closeAll)
        \/ \E v \in Viewers : ViewerMoves(v)
    BY <1>4 DEF Next, ViewerMoves
  <2> QED BY <2>1, <2>2, <2>3
<1> QED BY <1>3, <1>4

----------------------------------------------------------------------------
(* The refinement, step by step. *)

\* What the refinement shows of a turn and of a viewer.
Phase(t) == IF t \notin Opened THEN "new" ELSE IF t \in ended THEN "over" ELSE "live"
StreamLog(t) == [i \in 1..Len(log[t]) |-> StreamOf(log[t][i])]
State(v) == IF watches[v] = None THEN "out"
            ELSE IF v \in terminalDelivered THEN "complete"
            ELSE IF v \in dropped \/ stage[v] = "left" THEN "cut" ELSE "watching"
Seen(v) == [s \in Calls \cup {Main} |-> Joined(PartsOf(snapshot[v], s), ChunksOf(got[v], s))]
Told == {v \in Viewers : watches[v] # None} \ whole

\* The broadcast concatenates as the hub does.
LEMMA SameFlatten == \A q : Broadcast!FlattenSeq(q) = FlattenSeq(q)
BY DEF FlattenSeq, Broadcast!FlattenSeq

\* What a viewer that joins must see is what was sent.
LEMMA UptoIsSent ==
  ASSUME NEW t \in Turns
  PROVE  Broadcast!Upto(t, Len(log[t])) = [s \in Calls \cup {Main} |-> Sent(log[t], s)]
BY SameFlatten DEF Broadcast!Upto, Sent

\* When these turns end and begin, and only these viewers are lost, EndAndBegin is shown.
LEMMA ShownEnd ==
  ASSUME NEW ending \in SUBSET Turns, NEW beginning \in SUBSET Turns, NEW lost \in SUBSET Viewers,
         \A t \in ending : Phase(t) = "live", \A t \in beginning : Phase(t) = "new",
         \A t \in Turns : Phase(t)' = IF t \in ending THEN "over"
                                      ELSE IF t \in beginning THEN "live" ELSE Phase(t),
         \A v \in lost : State(v) = "watching" /\ watches[v] \in ending,
         \A v \in Viewers : State(v)' = IF v \in lost THEN "cut" ELSE State(v),
         UNCHANGED <<log, attachmentVars, pullVars>>
  PROVE  Broadcast!EndAndBegin(ending, beginning)
<1> USE DEF Phase, State
<1>1. UNCHANGED <<log, watches, start, snapshot, whole, got, terminalDelivered>>
  BY DEF attachmentVars, pullVars
<1>2. Broadcast!CutSome(ending)
  <2>1. lost \in SUBSET Broadcast!Watchers(ending)
    BY DEF Broadcast!Watchers
  <2> QED BY <2>1 DEF Broadcast!CutSome
<1> QED BY <1>1, <1>2 DEF Broadcast!EndAndBegin, Pulled

\* A chunk at the end of the log of a live turn is shown as a publication.
LEMMA ShownPublish ==
  ASSUME NEW t \in Turns, NEW src \in Sources, NEW lost \in SUBSET Viewers,
         log \in [Turns -> Seq(Sources)], log' = [log EXCEPT ![t] = Append(@, src)],
         Phase(t) = "live",
         \A v \in lost : State(v) = "watching" /\ watches[v] = t,
         \A v \in Viewers : State(v)' = IF v \in lost THEN "cut" ELSE State(v),
         UNCHANGED <<turnThread, ended, attachmentVars, pullVars>>
  PROVE  Broadcast!Publish(t, StreamOf(src))
<1>1. UNCHANGED <<watches, start, snapshot, whole, got, terminalDelivered>> /\ Opened' = Opened
  BY DEF attachmentVars, pullVars, Opened
<1>2. Broadcast!CutSome({t})
  <2>1. lost \in SUBSET Broadcast!Watchers({t})
    BY DEF Broadcast!Watchers, State
  <2> QED BY <2>1 DEF Broadcast!CutSome, State
<1>3. \A u \in Turns : StreamLog(u)' = IF u = t THEN Append(StreamLog(t), StreamOf(src)) ELSE StreamLog(u)
  <2> SUFFICES ASSUME NEW u \in Turns
               PROVE  StreamLog(u)' = IF u = t THEN Append(StreamLog(t), StreamOf(src)) ELSE StreamLog(u)
    OBVIOUS
  <2>1. CASE u = t
    <3> DEFINE x == StreamLog(t)
               y == [i \in 1..Len(log'[t]) |-> StreamOf(log'[t][i])]
               S == {StreamOf(z) : z \in Sources}
    <3>1. /\ log[t] \in Seq(Sources) /\ log'[t] \in Seq(Sources) /\ Len(log'[t]) = Len(log[t]) + 1
          /\ log'[t][Len(log[t]) + 1] = src /\ \A i \in 1..Len(log[t]) : log'[t][i] = log[t][i]
          /\ Len(log[t]) \in Nat
      BY AppendProperties
    <3>2. x \in Seq(S) /\ y \in Seq(S) /\ Len(x) = Len(log[t]) /\ Len(y) = Len(x) + 1
      <4>1. \A i \in 1..Len(log[t]) : log[t][i] \in Sources
        BY <3>1, ElementOfSeq
      <4>2. \A i \in 1..Len(log'[t]) : log'[t][i] \in Sources
        BY <3>1, ElementOfSeq
      <4>3. \A i \in 1..Len(log[t]) : StreamOf(log[t][i]) \in S
        BY <4>1
      <4>4. \A i \in 1..Len(log'[t]) : StreamOf(log'[t][i]) \in S
        BY <4>2
      <4>5. Len(log'[t]) \in Nat
        BY <3>1
      <4> HIDE DEF S
      <4>6. x \in Seq(S) /\ Len(x) = Len(log[t])
        BY <3>1, <4>3 DEF StreamLog
      <4>7. y \in Seq(S) /\ Len(y) = Len(log'[t])
        BY <4>4, <4>5
      <4> QED BY <3>1, <4>6, <4>7
    <3>3. \A i \in 1..Len(x) : x[i] = StreamOf(log[t][i]) /\ y[i] = x[i]
      BY <3>1, <3>2 DEF StreamLog
    <3>4. y[Len(x) + 1] = StreamOf(src)
      BY <3>1, <3>2
    <3>5. StreamLog(t)' = y
      BY DEF StreamLog
    <3>6. StreamOf(src) \in S
      OBVIOUS
    <3> HIDE DEF x, y, S
    <3>7. y = Append(x, StreamOf(src))
      <4>1. /\ Append(x, StreamOf(src)) \in Seq(S) /\ Len(Append(x, StreamOf(src))) = Len(x) + 1
            /\ Append(x, StreamOf(src))[Len(x) + 1] = StreamOf(src)
            /\ \A i \in 1..Len(x) : Append(x, StreamOf(src))[i] = x[i]
        BY <3>2, <3>6, AppendProperties
      <4>2. \A i \in 1..Len(y) : y[i] = Append(x, StreamOf(src))[i]
        <5>1. Len(x) \in Nat
          BY <3>2, LenProperties
        <5> QED BY <3>2, <3>3, <3>4, <4>1, <5>1
      <4> QED BY <3>2, <4>1, <4>2, SeqEqual
    <3> QED BY <2>1, <3>5, <3>7 DEF x
  <2>2. CASE u # t
    BY <2>2 DEF StreamLog
  <2> QED BY <2>1, <2>2
<1>4. Broadcast!Publish(t, StreamOf(src)) <=>
        /\ Broadcast!CutSome({t})
        /\ [u \in Turns |-> StreamLog(u)]' =
             [[u \in Turns |-> StreamLog(u)] EXCEPT ![t] = Append(@, StreamOf(src))]
  BY <1>1 DEF Broadcast!Publish, StreamLog, Pulled, Phase
<1> QED BY <1>2, <1>3, <1>4

\* A viewer that starts with all that was sent, or is told that it does not, joins.
LEMMA ShownJoin ==
  ASSUME NEW v \in Viewers, NEW t \in Turns,
         State(v) = "out", State(v)' = "watching", Phase(t) = "live", log[t] \in Seq(Sources),
         got[v] = <<>>, snapshot \in [Viewers -> Digests],
         watches' = [watches EXCEPT ![v] = t], start' = [start EXCEPT ![v] = Len(log[t])],
         watches \in [Viewers -> Turns \cup {None}], start \in [Viewers -> Nat],
         \A u \in Viewers \ {v} : State(u)' = State(u),
         v \notin terminalDelivered, t # None,
         \/ /\ \A s \in Calls \cup {Main} : PartsOf(snapshot'[v], s) = Sent(log[t], s)
            /\ whole' = whole \cup {v}
         \/ /\ snapshot'[v] = snapshot[v] /\ v \notin whole /\ whole' = whole
         , \A u \in Viewers \ {v} : snapshot'[u] = snapshot[u],
         snapshot' \in [Viewers -> Digests],
         UNCHANGED <<turnVars, pullVars>>
  PROVE  Broadcast!Join(v, t)
<1>1. UNCHANGED <<log, ended, turnThread, got, terminalDelivered>> /\ Opened' = Opened
  BY DEF turnVars, pullVars, Opened
<1>2. \A u \in Viewers \ {v} : Seen(u)' = Seen(u)
  BY <1>1 DEF Seen
<1>3. \/ Seen(v)' = [s \in Calls \cup {Main} |-> Sent(log[t], s)] /\ Told' = Told
      \/ Told' = Told \cup {v} /\ Seen(v)' = Seen(v)
  <2>1. CASE /\ \A s \in Calls \cup {Main} : PartsOf(snapshot'[v], s) = Sent(log[t], s)
             /\ whole' = whole \cup {v}
    <3>1. Told' = Told
      BY <2>1 DEF Told, State
    <3>2. \A s \in Calls \cup {Main} : Joined(PartsOf(snapshot'[v], s), ChunksOf(got'[v], s)) = Sent(log[t], s)
      BY <1>1, <2>1, SentTyped, ChunksEmpty, JoinedEmpty
    <3> QED BY <3>1, <3>2 DEF Seen
  <2>2. CASE snapshot'[v] = snapshot[v] /\ v \notin whole /\ whole' = whole
    BY <1>1, <2>2 DEF Told, Seen, State
  <2> QED BY <2>1, <2>2
<1>4. \A u \in Viewers : Pulled(u)' = Pulled(u) /\ Pulled(v) = 0
  BY <1>1 DEF Pulled
<1>5. [u \in Viewers |-> Place(u)]' = [[u \in Viewers |-> Place(u)] EXCEPT ![v] = Len(StreamLog(t))]
  <2>1. Len(StreamLog(t)) = Len(log[t]) /\ Len(log[t]) \in Nat
    <3>1. Len(log[t]) \in Nat
      OBVIOUS
    <3> QED BY <3>1 DEF StreamLog
  <2>2. \A u \in Viewers : Place(u)' = IF u = v THEN Len(log[t]) ELSE Place(u)
    BY <1>4, <2>1 DEF Place
  <2> QED BY <2>1, <2>2
<1>6. \/ /\ [u \in Viewers |-> Seen(u)]' = [[u \in Viewers |-> Seen(u)] EXCEPT ![v] = Broadcast!Upto(t, Len(log[t]))]
         /\ Told' = Told
      \/ Told' = Told \cup {v} /\ [u \in Viewers |-> Seen(u)]' = [u \in Viewers |-> Seen(u)]
  BY <1>2, <1>3, UptoIsSent
<1>7. [u \in Viewers |-> State(u)]' = [[u \in Viewers |-> State(u)] EXCEPT ![v] = "watching"]
  OBVIOUS
<1>8. watches[v] = None
  BY DEF State
<1>9. Len(StreamLog(t)) = Len(log[t])
  <2>1. Len(log[t]) \in Nat
    OBVIOUS
  <2> QED BY <2>1 DEF StreamLog
<1>10. Broadcast!Join(v, t) <=>
         /\ watches[v] = None
         /\ [u \in Turns |-> Phase(u)][t] = "live"
         /\ watches' = [watches EXCEPT ![v] = t]
         /\ [u \in Viewers |-> State(u)]' = [[u \in Viewers |-> State(u)] EXCEPT ![v] = "watching"]
         /\ [u \in Viewers |-> Place(u)]' =
              [[u \in Viewers |-> Place(u)] EXCEPT ![v] = Len([u \in Turns |-> StreamLog(u)][t])]
         /\ \/ /\ [u \in Viewers |-> Seen(u)]' =
                   [[u \in Viewers |-> Seen(u)] EXCEPT
                      ![v] = Broadcast!Upto(t, Len([u \in Turns |-> StreamLog(u)][t]))]
               /\ Told' = Told
            \/ Told' = Told \cup {v} /\ [u \in Viewers |-> Seen(u)]' = [u \in Viewers |-> Seen(u)]
         /\ [u \in Turns |-> Phase(u)]' = [u \in Turns |-> Phase(u)]
         /\ [u \in Turns |-> StreamLog(u)]' = [u \in Turns |-> StreamLog(u)]
  BY DEF Broadcast!Join, Phase, StreamLog, State, Place, Pulled, Seen, Told, Joined
<1>11. /\ [u \in Turns |-> Phase(u)]' = [u \in Turns |-> Phase(u)]
       /\ [u \in Turns |-> StreamLog(u)]' = [u \in Turns |-> StreamLog(u)]
  BY <1>1 DEF Phase, StreamLog
<1> QED BY <1>5, <1>6, <1>7, <1>8, <1>9, <1>10, <1>11

\* Joining one chunk appends it.
LEMMA JoinedSingle ==
  ASSUME NEW a \in Seq(Nat), NEW n \in Nat
  PROVE  Joined(a, <<n>>) = Append(a, n)
<1>1. Append(a, n) = a \o <<n>>
  BY AppendIsConcat
<1> QED BY <1>1 DEF Joined

\* A pulled chunk is shown in its stream, after what was shown before.
LEMMA SeenGrows ==
  ASSUME NEW v \in Viewers, NEW src \in Sources, NEW n \in Nat,
         snapshot[v] \in Digests, got[v] \in Seq(Chunks), snapshot'[v] = snapshot[v],
         got'[v] = Append(got[v], Chunk(src, n))
  PROVE  /\ StreamOf(src) \in Calls \cup {Main}
         /\ Seen(v)' = [Seen(v) EXCEPT ![StreamOf(src)] = Append(@, n)]
<1>1. StreamOf(src) \in Calls \cup {Main}
  BY DEF StreamOf
<1>2. ASSUME NEW s \in Calls \cup {Main}
      PROVE  Joined(PartsOf(snapshot'[v], s), ChunksOf(got'[v], s)) =
               IF s = StreamOf(src) THEN Append(Joined(PartsOf(snapshot[v], s), ChunksOf(got[v], s)), n)
               ELSE Joined(PartsOf(snapshot[v], s), ChunksOf(got[v], s))
  <2>1. PICK a \in Seq(Nat) : a = PartsOf(snapshot[v], s)
    BY PartsTyped
  <2>2. PICK b \in Seq(Nat) : b = ChunksOf(got[v], s)
    BY ChunksTyped
  <2>3. PICK c \in Chunks : c = Chunk(src, n)
    BY DEF Chunk, Chunks
  <2>4. PICK x \in Seq(Nat) : x = Shown(c, s) /\ x = IF s = StreamOf(src) THEN <<n>> ELSE <<>>
    <3>1. Shown(c, s) = IF s = StreamOf(src) THEN <<n>> ELSE <<>>
      BY <2>3, HubAssumption DEF Shown, Single, Chunk
    <3>2. (IF s = StreamOf(src) THEN <<n>> ELSE <<>>) \in Seq(Nat)
      OBVIOUS
    <3> QED BY <3>1, <3>2
  <2>5. ChunksOf(got'[v], s) = Joined(b, x)
    <3>1. ChunksOf(Append(got[v], c), s) = Joined(ChunksOf(got[v], s), Shown(c, s))
      BY ChunksGrow
    <3> QED BY <2>2, <2>3, <2>4, <3>1
  <2>6. Joined(a, Joined(b, x)) = Joined(Joined(a, b), x) /\ Joined(a, b) \in Seq(Nat)
    BY JoinedAssociates, JoinedTyped
  <2>7. Joined(Joined(a, b), x) = IF s = StreamOf(src) THEN Append(Joined(a, b), n) ELSE Joined(a, b)
    BY <2>4, <2>6, JoinedSingle, JoinedEmpty
  <2> QED BY <2>1, <2>2, <2>5, <2>6, <2>7
<1> QED BY <1>1, <1>2 DEF Seen

\* A viewer that pulls the next chunk of the log is shown to see it.
LEMMA ShownSee ==
  ASSUME NEW v \in Viewers, NEW l \in Seq(Sources), watches[v] \in Turns, l = log[watches[v]],
         Place(v) \in 0..Len(l), Place(v) # Len(l), l[Place(v) + 1] \in Sources,
         State(v) = "watching", snapshot[v] \in Digests, got[v] \in Seq(Chunks),
         got'[v] = Append(got[v], Chunk(l[Place(v) + 1], Place(v) + 1)),
         Place(v)' = Place(v) + 1,
         \A u \in Viewers \ {v} : got'[u] = got[u],
         UNCHANGED <<turnVars, stage, dropped, attachmentVars, terminalDelivered>>
  PROVE  Broadcast!See(v)
<1> DEFINE n == Place(v) + 1
<1>1. UNCHANGED <<log, ended, turnThread, watches, start, snapshot, whole, stage, dropped, terminalDelivered>>
      /\ Opened' = Opened
  BY DEF turnVars, attachmentVars, Opened
<1>2. n \in 1..Len(l) /\ n <= Len(l) /\ n \in Nat
  OBVIOUS
<1>3. [u \in Viewers |-> Place(u)]' = [[u \in Viewers |-> Place(u)] EXCEPT ![v] = n]
  <2>1. \A u \in Viewers \ {v} : Place(u)' = Place(u)
    BY <1>1 DEF Place, Pulled
  <2> QED BY <2>1
<1>4. [u \in Turns |-> StreamLog(u)][watches[v]] = StreamLog(watches[v])
      /\ Len(StreamLog(watches[v])) = Len(l) /\ StreamLog(watches[v])[n] = StreamOf(l[n])
  <2>1. Len(l) \in Nat
    OBVIOUS
  <2>2. StreamLog(watches[v]) = [i \in 1..Len(l) |-> StreamOf(l[i])]
    BY DEF StreamLog
  <2> HIDE DEF n
  <2> QED BY <1>2, <2>1, <2>2
<1>5. [u \in Viewers |-> Seen(u)]' =
        [[u \in Viewers |-> Seen(u)] EXCEPT ![v][StreamOf(l[n])] = Append(@, n)]
  <2>1. \A u \in Viewers \ {v} : Seen(u)' = Seen(u)
    BY <1>1 DEF Seen
  <2>2. Seen(v)' = [Seen(v) EXCEPT ![StreamOf(l[n])] = Append(@, n)]
    <3>1. /\ got'[v] = Append(got[v], Chunk(l[n], n)) /\ snapshot'[v] = snapshot[v]
          /\ l[n] \in Sources /\ n \in Nat
      BY <1>1, <1>2
    <3> HIDE DEF n
    <3> QED BY <3>1, SeenGrows
  <2> QED BY <2>1, <2>2
<1>6. Broadcast!See(v) <=>
        /\ [u \in Viewers |-> State(u)][v] = "watching"
        /\ [u \in Viewers |-> Place(u)][v] + 1 <= Len([u \in Turns |-> StreamLog(u)][watches[v]])
        /\ [u \in Viewers |-> Place(u)]' =
             [[u \in Viewers |-> Place(u)] EXCEPT ![v] = [u \in Viewers |-> Place(u)][v] + 1]
        /\ [u \in Viewers |-> Seen(u)]' =
             [[u \in Viewers |-> Seen(u)] EXCEPT
                ![v][[u \in Turns |-> StreamLog(u)][watches[v]][[u \in Viewers |-> Place(u)][v] + 1]]
                  = Append(@, [u \in Viewers |-> Place(u)][v] + 1)]
        /\ [u \in Turns |-> Phase(u)]' = [u \in Turns |-> Phase(u)]
        /\ [u \in Turns |-> StreamLog(u)]' = [u \in Turns |-> StreamLog(u)]
        /\ watches' = watches
        /\ [u \in Viewers |-> State(u)]' = [u \in Viewers |-> State(u)]
        /\ Told' = Told
  BY DEF Broadcast!See, Phase, StreamLog, State, Place, Pulled, Seen, Told, Joined
<1>7. /\ [u \in Turns |-> Phase(u)]' = [u \in Turns |-> Phase(u)]
      /\ [u \in Turns |-> StreamLog(u)]' = [u \in Turns |-> StreamLog(u)]
      /\ [u \in Viewers |-> State(u)]' = [u \in Viewers |-> State(u)]
      /\ Told' = Told /\ watches' = watches
  BY <1>1 DEF Phase, StreamLog, State, Told
<1>8. [u \in Viewers |-> Place(u)][v] = Place(v) /\ [u \in Viewers |-> State(u)][v] = State(v)
  OBVIOUS
<1> QED BY <1>2, <1>3, <1>4, <1>5, <1>6, <1>7, <1>8

\* A watching viewer that goes away leaves.
LEMMA ShownLeave ==
  ASSUME NEW v \in Viewers, State(v) = "watching", State(v)' = "cut",
         \A u \in Viewers \ {v} : State(u)' = State(u),
         UNCHANGED <<turnVars, attachmentVars, pullVars>>
  PROVE  Broadcast!Leave(v)
<1>1. UNCHANGED <<log, ended, turnThread, watches, start, snapshot, whole, got, terminalDelivered>>
      /\ Opened' = Opened
  BY DEF turnVars, attachmentVars, pullVars, Opened
<1>2. [u \in Viewers |-> State(u)]' = [[u \in Viewers |-> State(u)] EXCEPT ![v] = "cut"]
  OBVIOUS
<1> QED BY <1>1, <1>2 DEF Broadcast!Leave, State, Pulled

\* A viewer with nothing left to see of an ended turn completes.
LEMMA ShownComplete ==
  ASSUME NEW v \in Viewers, watches[v] \in Turns, log[watches[v]] \in Seq(Sources),
         Phase(watches[v]) = "over", Place(v) = Len(log[watches[v]]),
         State(v) = "watching", State(v)' = "complete",
         \A u \in Viewers \ {v} : State(u)' = State(u),
         \A u \in Viewers : Place(u)' = Place(u) /\ Seen(u)' = Seen(u),
         UNCHANGED <<turnVars, attachmentVars>>
  PROVE  Broadcast!Complete(v)
<1>1. UNCHANGED <<log, ended, turnThread, watches, whole>> /\ Opened' = Opened
  BY DEF turnVars, attachmentVars, Opened
<1>2. [u \in Viewers |-> State(u)]' = [[u \in Viewers |-> State(u)] EXCEPT ![v] = "complete"]
  OBVIOUS
<1>3. /\ [u \in Turns |-> Phase(u)]' = [u \in Turns |-> Phase(u)]
      /\ [u \in Turns |-> StreamLog(u)]' = [u \in Turns |-> StreamLog(u)]
      /\ [u \in Viewers |-> Place(u)]' = [u \in Viewers |-> Place(u)]
      /\ [u \in Viewers |-> Seen(u)]' = [u \in Viewers |-> Seen(u)]
      /\ Told' = Told /\ watches' = watches
  BY <1>1 DEF Phase, StreamLog, Told
<1>4. Len(StreamLog(watches[v])) = Len(log[watches[v]])
  <2>1. Len(log[watches[v]]) \in Nat
    OBVIOUS
  <2> QED BY <2>1 DEF StreamLog
<1>5. Broadcast!Complete(v) <=>
        /\ [u \in Viewers |-> State(u)][v] = "watching"
        /\ [u \in Turns |-> Phase(u)][watches[v]] = "over"
        /\ [u \in Viewers |-> Place(u)][v] = Len([u \in Turns |-> StreamLog(u)][watches[v]])
        /\ [u \in Viewers |-> State(u)]' = [[u \in Viewers |-> State(u)] EXCEPT ![v] = "complete"]
        /\ [u \in Turns |-> Phase(u)]' = [u \in Turns |-> Phase(u)]
        /\ [u \in Turns |-> StreamLog(u)]' = [u \in Turns |-> StreamLog(u)]
        /\ watches' = watches
        /\ [u \in Viewers |-> Place(u)]' = [u \in Viewers |-> Place(u)]
        /\ [u \in Viewers |-> Seen(u)]' = [u \in Viewers |-> Seen(u)]
        /\ Told' = Told
  BY DEF Broadcast!Complete, Phase, StreamLog, State, Place, Pulled, Seen, Told, Joined
<1> QED BY <1>2, <1>3, <1>4, <1>5

\* What changes neither turns nor attachments nor states is not shown.
LEMMA ShownStutter ==
  ASSUME \A u \in Viewers : State(u)' = State(u),
         UNCHANGED <<turnVars, attachmentVars, pullVars>>
  PROVE  UNCHANGED Broadcast!broadcastVars
<1>1. UNCHANGED <<log, ended, turnThread, watches, start, snapshot, whole, got, terminalDelivered>>
      /\ Opened' = Opened
  BY DEF turnVars, attachmentVars, pullVars, Opened
<1> QED BY <1>1 DEF Broadcast!broadcastVars, State, Pulled

\* The initial state is shown as the initial state.
LEMMA ShownInit == Init => Broadcast!BroadcastInit
<1> SUFFICES ASSUME Init PROVE Broadcast!BroadcastInit
  OBVIOUS
<1>1. \A v \in Viewers : \A s : snapshot[v] = <<>> /\ got[v] = <<>> /\ Joined(PartsOf(<<>>, s), ChunksOf(<<>>, s)) = <<>>
  <2>1. \A s : PartsOf(<<>>, s) = <<>>
    BY FlattenEmpty DEF PartsOf
  <2>2. <<>> \in Seq(Nat)
    OBVIOUS
  <2> QED BY <2>1, <2>2, ChunksEmpty, JoinedEmpty DEF Init
<1>2. \A v \in Viewers : Seen(v) = Broadcast!Nothing
  BY <1>1 DEF Seen, Broadcast!Nothing
<1>3. \A v \in Viewers : State(v) = "out" /\ Place(v) = 0
  BY DEF Init, State, Place, Pulled
<1>4. \A t \in Turns : Phase(t) = "new" /\ StreamLog(t) = <<>>
  BY DEF Init, Phase, Opened, StreamLog
<1>5. Told = {} /\ watches = [v \in Viewers |-> None]
  BY DEF Init, Told
<1>6. Broadcast!BroadcastInit <=>
        /\ [t \in Turns |-> Phase(t)] = [t \in Turns |-> "new"]
        /\ [t \in Turns |-> StreamLog(t)] = [t \in Turns |-> <<>>]
        /\ watches = [v \in Viewers |-> None]
        /\ [v \in Viewers |-> State(v)] = [v \in Viewers |-> "out"]
        /\ [v \in Viewers |-> Place(v)] = [v \in Viewers |-> 0]
        /\ [v \in Viewers |-> Seen(v)] = [v \in Viewers |-> Broadcast!Nothing]
        /\ Told = {}
  BY DEF Broadcast!BroadcastInit, Phase, StreamLog, State, Place, Pulled, Seen, Told, Joined
<1> QED BY <1>2, <1>3, <1>4, <1>5, <1>6

\* Who is dropped when a chunk is delivered was watching, and is cut off.
LEMMA DeliverShown ==
  ASSUME RefInv, NEW T \in SUBSET Turns, T \cap ended = {},
         NEW src, NEW n, deliver(T, src, n), UNCHANGED viewerVars
  PROVE  /\ Overrun(T, src) \subseteq Viewers
         /\ \A v \in Overrun(T, src) : State(v) = "watching" /\ watches[v] \in T
         /\ \A v \in Viewers : State(v)' = IF v \in Overrun(T, src) THEN "cut" ELSE State(v)
<1>0. HubInv /\ QueuesAreTheRest /\ None \notin Turns
  BY HubAssumption DEF RefInv
<1>1. dropped' = dropped \cup Overrun(T, src) /\ UNCHANGED <<watches, stage, terminalDelivered>>
  BY DEF deliver, viewerVars, attachmentVars, pullVars
<1>2. ASSUME NEW v \in Overrun(T, src)
      PROVE  /\ v \in Attached /\ v \notin dropped /\ watches[v] \in T /\ watches[v] # None
             /\ v \in Viewers /\ v \notin terminalDelivered /\ stage[v] # "left"
  <2>1. v \in Attached /\ v \notin dropped /\ watches[v] \in T
    BY <1>0, SubscribedFacts DEF Overrun
  <2>2. Following(v)
    BY <1>0, <2>1 DEF QueuesAreTheRest
  <2> QED BY <1>0, <2>1, <2>2 DEF Following, Attached
<1> QED BY <1>1, <1>2 DEF State

\* forceClose of the turns in T ends them, as the turns in B are opened.
LEMMA ForceCloseShown ==
  ASSUME RefInv, NEW T \in SUBSET (Opened \ ended), NEW B \in SUBSET (Turns \ Opened),
         forceClose(T), Opened' = Opened \cup B, UNCHANGED <<log, digestVars, viewerVars>>
  PROVE  Broadcast!EndAndBegin(T, B)
<1>1. T \in SUBSET Turns /\ T \cap ended = {} /\ ended \subseteq Opened /\ B \in SUBSET Turns
  BY DEF RefInv, HubInv, Shapes, Opened
<1>2. deliver(T, Done, 0) /\ ended' = ended \cup T
  BY DEF forceClose
<1>3. /\ Overrun(T, Done) \in SUBSET Viewers
      /\ \A v \in Overrun(T, Done) : State(v) = "watching" /\ watches[v] \in T
      /\ \A v \in Viewers : State(v)' = IF v \in Overrun(T, Done) THEN "cut" ELSE State(v)
  BY <1>1, <1>2, DeliverShown
<1>4. /\ \A t \in T : Phase(t) = "live"
      /\ \A t \in B : Phase(t) = "new"
      /\ \A t \in Turns : Phase(t)' = IF t \in T THEN "over" ELSE IF t \in B THEN "live" ELSE Phase(t)
  BY <1>1, <1>2 DEF Phase
<1>5. UNCHANGED <<log, attachmentVars, pullVars>>
  BY DEF viewerVars
<1> QED BY <1>1, <1>3, <1>4, <1>5, ShownEnd

\* Every step of a producer is one of the broadcast.
LEMMA ProducersShown ==
  ASSUME RefInv,
         \/ \E t \in Turns, th \in Threads : open(t, th)
         \/ \E t \in Turns, src \in Sources : publish(t, src)
         \/ \E t \in Turns : close(t)
         \/ closeAll
  PROVE  Broadcast!BroadcastNext
<1>0. Shapes /\ EntriesAreTheLiveTurns
  BY DEF RefInv, HubInv
<1>1. ASSUME NEW T \in SUBSET Turns, NEW B \in SUBSET Turns, Broadcast!EndAndBegin(T, B)
      PROVE  Broadcast!BroadcastNext
  BY <1>1 DEF Broadcast!BroadcastNext
<1>2. ASSUME NEW t \in Turns, NEW th \in Threads, open(t, th)
      PROVE  Broadcast!BroadcastNext
  <2>1. PICK T \in SUBSET (Opened \ ended) : T = {entries[th]} \ {None}
    <3>1. {entries[th]} \ {None} \in SUBSET (Opened \ ended)
      BY <1>0 DEF EntriesAreTheLiveTurns
    <3> QED BY <3>1
  <2>2. PICK B \in SUBSET (Turns \ Opened) : B = {t}
    BY <1>2 DEF open
  <2>3. forceClose(T) /\ UNCHANGED <<log, digestVars, viewerVars>>
    BY <1>2, <2>1 DEF open
  <2>4. Opened' = Opened \cup B
    BY <1>0, <1>2, <2>2, HubAssumption DEF open, Opened, Shapes
  <2>5. Broadcast!EndAndBegin(T, B)
    BY <2>3, <2>4, ForceCloseShown
  <2>6. T \in SUBSET Turns /\ B \in SUBSET Turns
    BY DEF Opened
  <2> QED BY <1>1, <2>5, <2>6
<1>3. ASSUME NEW T \in SUBSET (Opened \ ended), forceClose(T),
             UNCHANGED <<turnThread, log, digestVars, viewerVars>>
      PROVE  Broadcast!BroadcastNext
  <2>1. {} \in SUBSET (Turns \ Opened) /\ Opened' = Opened \cup {}
    BY <1>3 DEF Opened
  <2>2. UNCHANGED <<log, digestVars, viewerVars>>
    BY <1>3
  <2>3. Broadcast!EndAndBegin(T, {})
    BY <1>3, <2>1, <2>2, ForceCloseShown
  <2>4. T \in SUBSET Turns /\ {} \in SUBSET Turns
    BY DEF Opened
  <2> QED BY <1>1, <2>3, <2>4
<1>4. ASSUME NEW t \in Turns, close(t)
      PROVE  Broadcast!BroadcastNext
  BY <1>3, <1>4 DEF close, Current
<1>5. ASSUME closeAll
      PROVE  Broadcast!BroadcastNext
  <2>1. {entries[th] : th \in Threads} \ {None} \in SUBSET (Opened \ ended)
    BY <1>0 DEF EntriesAreTheLiveTurns
  <2> QED BY <1>3, <1>5, <2>1 DEF closeAll
<1>6. ASSUME NEW t \in Turns, NEW src \in Sources, publish(t, src)
      PROVE  Broadcast!BroadcastNext
  <2>1. /\ deliver({t}, src, Len(log[t]) + 1) /\ t \in Opened /\ t \notin ended
        /\ UNCHANGED <<turnThread, ended, viewerVars>> /\ log' = [log EXCEPT ![t] = Append(@, src)]
    BY <1>6 DEF publish, Current
  <2>2. Phase(t) = "live" /\ log \in [Turns -> Seq(Sources)]
    BY <1>0, <2>1 DEF Phase, Shapes
  <2>3. /\ Overrun({t}, src) \in SUBSET Viewers
        /\ \A v \in Overrun({t}, src) : State(v) = "watching" /\ watches[v] = t
        /\ \A v \in Viewers : State(v)' = IF v \in Overrun({t}, src) THEN "cut" ELSE State(v)
    <3>1. {t} \in SUBSET Turns /\ {t} \cap ended = {} /\ UNCHANGED viewerVars
      BY <2>1
    <3>2. /\ Overrun({t}, src) \subseteq Viewers
          /\ \A v \in Overrun({t}, src) : State(v) = "watching" /\ watches[v] \in {t}
          /\ \A v \in Viewers : State(v)' = IF v \in Overrun({t}, src) THEN "cut" ELSE State(v)
      BY <2>1, <3>1, DeliverShown
    <3> QED BY <3>2
  <2>4. UNCHANGED <<turnThread, ended, attachmentVars, pullVars>>
    BY <2>1 DEF viewerVars
  <2>5. Broadcast!Publish(t, StreamOf(src))
    BY <2>1, <2>2, <2>3, <2>4, ShownPublish
  <2>6. StreamOf(src) \in Calls \cup {Main}
    BY DEF StreamOf
  <2> QED BY <2>5, <2>6 DEF Broadcast!BroadcastNext
<1> QED BY <1>2, <1>4, <1>5, <1>6

\* What a viewer's state event, sleep or return changes is not shown.
LEMMA StageShown ==
  ASSUME NEW v \in Viewers, stage[v] # "left", stage'[v] # "left",
         \A u \in Viewers \ {v} : stage'[u] = stage[u],
         UNCHANGED <<turnVars, dropped, attachmentVars, pullVars>>
  PROVE  UNCHANGED Broadcast!broadcastVars
<1>1. \A u \in Viewers : State(u)' = State(u)
  BY DEF State, attachmentVars, pullVars
<1> QED BY <1>1, ShownStutter

\* A successful attach joins: with the whole digest, or told that it is truncated.
LEMMA AttachShown ==
  ASSUME RefInv, RefInv', NEW v \in Viewers, NEW t \in Opened \ ended, stage[v] = "new", attachTo(v, t),
         UNCHANGED <<turnVars, digestVars, queue, queueBytes, dropped, asleep, pullVars>>
  PROVE  Broadcast!Join(v, t)
<1>0. Shapes /\ Quantities /\ Quantities' /\ OutsidersAreBlank /\ DigestsHold
  BY DEF RefInv, HubInv
<1>1. t \in Turns /\ t # None /\ log[t] \in Seq(Sources)
  BY <1>0, HubAssumption DEF Opened, Shapes
<1>2. /\ watches[v] = None /\ got[v] = <<>> /\ snapshot[v] = <<>> /\ v \notin whole
      /\ v \notin terminalDelivered /\ v \notin dropped
  BY <1>0 DEF OutsidersAreBlank
<1>3. /\ watches' = [watches EXCEPT ![v] = t] /\ start' = [start EXCEPT ![v] = Len(log[t])]
      /\ watches \in [Viewers -> Turns \cup {None}] /\ start \in [Viewers -> Nat]
      /\ snapshot \in [Viewers -> Digests] /\ snapshot' \in [Viewers -> Digests]
      /\ snapshot' = [snapshot EXCEPT ![v] = digest[t]] /\ stage \in [Viewers -> Stages]
      /\ stage' = [stage EXCEPT ![v] = "attached"]
      /\ whole' = IF t \in truncated THEN whole ELSE whole \cup {v}
      /\ UNCHANGED <<dropped, terminalDelivered>>
  BY <1>0 DEF attachTo, Shapes, Quantities, pullVars
<1>4. State(v) = "out" /\ State(v)' = "watching" /\ \A u \in Viewers \ {v} : State(u)' = State(u)
  BY <1>1, <1>2, <1>3 DEF State
<1>5. Phase(t) = "live"
  BY DEF Phase
<1>6. \/ /\ \A s \in Calls \cup {Main} : PartsOf(snapshot'[v], s) = Sent(log[t], s)
         /\ whole' = whole \cup {v}
      \/ /\ snapshot'[v] = snapshot[v] /\ v \notin whole /\ whole' = whole
  <2>1. snapshot'[v] = digest[t]
    BY <1>3
  <2>2. CASE t \in truncated
    BY <1>0, <1>1, <1>2, <1>3, <2>1, <2>2 DEF DigestsHold
  <2>3. CASE t \notin truncated
    BY <1>0, <1>1, <1>3, <2>1, <2>3 DEF DigestsHold
  <2> QED BY <2>2, <2>3
<1>7. \A u \in Viewers \ {v} : snapshot'[u] = snapshot[u]
  BY <1>3
<1> QED BY <1>1, <1>2, <1>3, <1>4, <1>5, <1>6, <1>7, ShownJoin

\* A viewer that goes away leaves, unless it was cut off or complete before.
LEMMA LeaveShown ==
  ASSUME RefInv, NEW v \in Viewers, Leave(v)
  PROVE  Broadcast!Leave(v) \/ UNCHANGED Broadcast!broadcastVars
<1>0. Shapes /\ Subscriptions /\ None \notin Turns
  BY HubAssumption DEF RefInv, HubInv
<1>1. /\ v \in Attached /\ stage'[v] = "left" /\ \A u \in Viewers \ {v} : stage'[u] = stage[u]
      /\ UNCHANGED <<turnVars, dropped, attachmentVars, pullVars>>
  BY <1>0 DEF Leave, detach, Shapes
<1>2. watches[v] # None /\ UNCHANGED <<watches, terminalDelivered, dropped>>
  BY <1>0, <1>1 DEF Subscriptions, Opened, attachmentVars, pullVars
<1>3. \A u \in Viewers \ {v} : State(u)' = State(u)
  BY <1>1, <1>2 DEF State
<1>4. CASE State(v) = "watching"
  <2>1. State(v)' = "cut"
    BY <1>1, <1>2, <1>4 DEF State
  <2> QED BY <1>1, <1>3, <1>4, <2>1, ShownLeave
<1>5. CASE State(v) # "watching"
  <2>1. State(v)' = State(v)
    BY <1>1, <1>2, <1>5 DEF State
  <2>2. \A u \in Viewers : State(u)' = State(u)
    BY <1>3, <2>1
  <2> QED BY <1>1, <2>2, ShownStutter
<1> QED BY <1>4, <1>5

\* What pulling a chunk shows: the next of the log, or that nothing follows.
LEMMA PullShows ==
  ASSUME RefInv, NEW v \in Viewers, NextChunk(v)
  PROVE  LET l == log[watches[v]]
             n == Place(v) + 1
         IN  \/ /\ Place(v) # Len(l) /\ l[n] \in Sources /\ Place(v)' = n
                /\ got'[v] = Append(got[v], Chunk(l[n], n))
                /\ Seen(v)' = [Seen(v) EXCEPT ![StreamOf(l[n])] = Append(@, n)]
                /\ terminalDelivered' = terminalDelivered
             \/ /\ Place(v) = Len(l) /\ watches[v] \in ended
                /\ Place(v)' = Place(v) /\ Seen(v)' = Seen(v)
                /\ terminalDelivered' = terminalDelivered \cup {v}
<1>0. Shapes /\ Quantities
  BY DEF RefInv, HubInv
<1>1. PICK l \in Seq(Sources) : l = log[watches[v]] /\ watches[v] \in Turns
  BY ChunkIsNext
<1>2. PICK p \in 0..Len(l) : p = Place(v)
  BY <1>1, ChunkIsNext
<1>3. PICK c \in Chunks : c = queue[v][1]
  BY ChunkIsNext
<1>4. /\ v \notin terminalDelivered
      /\ \/ /\ p # Len(l) /\ c = Chunk(l[p + 1], p + 1) /\ l[p + 1] \in Sources
         \/ /\ p = Len(l) /\ watches[v] \in ended /\ c = Terminal
  BY <1>1, <1>2, <1>3, ChunkIsNext
<1>5. /\ got'[v] = Append(got[v], c)
      /\ terminalDelivered' = IF c.src = Done THEN terminalDelivered \cup {v} ELSE terminalDelivered
      /\ UNCHANGED <<snapshot, start>>
  BY <1>0, <1>3 DEF NextChunk, Quantities, attachmentVars
<1>6. /\ got[v] \in Seq(Chunks) /\ snapshot[v] \in Digests /\ start[v] \in Nat
      /\ Len(got'[v]) = Len(got[v]) + 1 /\ Len(got[v]) \in Nat
  BY <1>0, <1>5 DEF Quantities
<1>7. Pulled(v) = Len(got[v])
  BY <1>4, <1>6 DEF Pulled
<1>8. CASE p # Len(l)
  <2>1. /\ c = Chunk(l[p + 1], p + 1) /\ l[p + 1] \in Sources /\ c.src # Done /\ p + 1 \in Nat
        /\ snapshot'[v] = snapshot[v] /\ got'[v] = Append(got[v], Chunk(l[p + 1], p + 1))
    BY <1>4, <1>5, <1>8, HubAssumption DEF Chunk
  <2>2. terminalDelivered' = terminalDelivered
    BY <1>5, <2>1
  <2>3. Pulled(v)' = Len(got[v]) + 1
    BY <1>4, <1>6, <2>2 DEF Pulled
  <2>4. Place(v)' = p + 1
    BY <1>2, <1>5, <1>6, <1>7, <2>3 DEF Place
  <2>5. PICK n \in Nat : n = p + 1
    BY <2>1
  <2>6. Seen(v)' = [Seen(v) EXCEPT ![StreamOf(l[n])] = Append(@, n)]
    BY <1>6, <2>1, <2>5, SeenGrows
  <2> QED BY <1>1, <1>2, <1>8, <2>1, <2>2, <2>4, <2>5, <2>6
<1>9. CASE p = Len(l)
  <2>1. c.src = Done /\ watches[v] \in ended /\ terminalDelivered' = terminalDelivered \cup {v}
    BY <1>4, <1>5, <1>9, HubAssumption DEF Chunk, Terminal
  <2>2. Pulled(v)' = Len(got[v])
    BY <1>6, <2>1 DEF Pulled
  <2>3. Place(v)' = p
    BY <1>2, <1>5, <1>7, <2>2 DEF Place
  <2>4. Seen(v)' = Seen(v)
    <3>1. ASSUME NEW s PROVE ChunksOf(got'[v], s) = ChunksOf(got[v], s)
      <4>1. ChunksOf(Append(got[v], c), s) = Joined(ChunksOf(got[v], s), Shown(c, s))
        BY <1>6, ChunksGrow
      <4>2. Shown(c, s) = <<>>
        BY <2>1 DEF Shown, Single
      <4>3. ChunksOf(got[v], s) \in Seq(Nat)
        BY <1>6, ChunksTyped
      <4> QED BY <1>5, <4>1, <4>2, <4>3, JoinedEmpty
    <3> QED BY <1>5, <3>1 DEF Seen
  <2> QED BY <1>1, <1>2, <1>9, <2>1, <2>3, <2>4
<1> QED BY <1>8, <1>9

\* The pulled chunk is the next of the log, or the terminal one after the last.
LEMMA ChunkShown ==
  ASSUME RefInv, NEW v \in Viewers, NextChunk(v)
  PROVE  Broadcast!See(v) \/ Broadcast!Complete(v)
<1>0. Shapes /\ Quantities /\ None \notin Turns
  BY HubAssumption DEF RefInv, HubInv
<1>1. PICK l \in Seq(Sources) : l = log[watches[v]]
  BY ChunkIsNext
<1>2. /\ watches[v] \in Turns /\ Place(v) \in 0..Len(l)
      /\ v \in Attached \ dropped /\ v \notin terminalDelivered
  BY <1>1, ChunkIsNext
<1>3. /\ \A u \in Viewers \ {v} : got'[u] = got[u]
      /\ UNCHANGED <<turnVars, dropped, stage, attachmentVars>>
      /\ got[v] \in Seq(Chunks) /\ snapshot[v] \in Digests
  BY <1>0 DEF NextChunk, Quantities
<1>4. UNCHANGED <<watches, snapshot, start>>
  BY <1>3 DEF attachmentVars
<1>5. State(v) = "watching"
  BY <1>0, <1>2 DEF State, Attached
<1>6. CASE /\ Place(v) # Len(l) /\ l[Place(v) + 1] \in Sources /\ Place(v)' = Place(v) + 1
           /\ got'[v] = Append(got[v], Chunk(l[Place(v) + 1], Place(v) + 1))
           /\ terminalDelivered' = terminalDelivered
  BY <1>1, <1>2, <1>3, <1>5, <1>6, ShownSee
<1>7. CASE /\ Place(v) = Len(l) /\ watches[v] \in ended
           /\ Place(v)' = Place(v) /\ Seen(v)' = Seen(v)
           /\ terminalDelivered' = terminalDelivered \cup {v}
  <2>1. Phase(watches[v]) = "over"
    BY <1>0, <1>7 DEF Phase, Shapes
  <2>2. /\ State(v)' = "complete"
        /\ \A u \in Viewers \ {v} : State(u)' = State(u)
    BY <1>0, <1>2, <1>3, <1>4, <1>7 DEF State
  <2>3. \A u \in Viewers \ {v} : Place(u)' = Place(u) /\ Seen(u)' = Seen(u)
    BY <1>3, <1>4, <1>7 DEF Place, Pulled, Seen
  <2>4. \A u \in Viewers : Place(u)' = Place(u) /\ Seen(u)' = Seen(u)
    BY <1>7, <2>3
  <2>5. log[watches[v]] \in Seq(Sources) /\ Place(v) = Len(log[watches[v]]) /\ UNCHANGED <<turnVars, attachmentVars>>
    BY <1>1, <1>3, <1>7
  <2> QED BY <1>2, <1>5, <2>1, <2>2, <2>4, <2>5, ShownComplete
<1> QED BY <1>1, <1>6, <1>7, PullShows

\* Every step of the hub is a step of the broadcast, or none.
LEMMA StepShown ==
  ASSUME RefInv, RefInv', [Next]_vars
  PROVE  [Broadcast!BroadcastNext]_(Broadcast!broadcastVars)
<1>0. Shapes /\ EntriesAreTheLiveTurns
  BY DEF RefInv, HubInv
<1>1. ASSUME NEW v \in Viewers, ViewerMoves(v)
      PROVE  Broadcast!BroadcastNext \/ UNCHANGED Broadcast!broadcastVars
  <2>1. ASSUME NEW th \in Threads, NEW limit \in ViewerLimits, attach(v, th, limit)
        PROVE  Broadcast!BroadcastNext \/ UNCHANGED Broadcast!broadcastVars
    <3>1. CASE entries[th] # None /\ attachTo(v, entries[th])
      <4>1. PICK t \in Opened \ ended : t = entries[th]
        BY <1>0, <3>1 DEF EntriesAreTheLiveTurns
      <4>2. Broadcast!Join(v, t)
        BY <2>1, <3>1, <4>1, AttachShown DEF attach
      <4>3. t \in Turns
        BY <4>1 DEF Opened
      <4> QED BY <4>2, <4>3 DEF Broadcast!BroadcastNext
    <3>2. ASSUME NEW how \in {"durable", "capacity"}, stage' = [stage EXCEPT ![v] = how],
                 UNCHANGED <<attachmentVars, subscribers>>
          PROVE  UNCHANGED Broadcast!broadcastVars
      <4>1. /\ stage[v] # "left" /\ stage'[v] # "left" /\ \A u \in Viewers \ {v} : stage'[u] = stage[u]
            /\ UNCHANGED <<turnVars, dropped, attachmentVars, pullVars>>
        BY <1>0, <2>1, <3>2 DEF attach, Shapes
      <4> QED BY <4>1, StageShown
    <3> QED BY <2>1, <3>1, <3>2 DEF attach
  <2>2. ASSUME SendState(v)
        PROVE  UNCHANGED Broadcast!broadcastVars
    <3>1. /\ stage[v] # "left" /\ stage'[v] # "left" /\ \A u \in Viewers \ {v} : stage'[u] = stage[u]
          /\ UNCHANGED <<turnVars, dropped, attachmentVars, pullVars>>
      BY <1>0, <2>2 DEF SendState, deliveryVars, Shapes
    <3> QED BY <3>1, StageShown
  <2>3. ASSUME Leave(v)
        PROVE  Broadcast!BroadcastNext \/ UNCHANGED Broadcast!broadcastVars
    BY <2>3, LeaveShown DEF Broadcast!BroadcastNext
  <2>4. ASSUME NextChunk(v)
        PROVE  Broadcast!BroadcastNext
    BY <2>4, ChunkShown DEF Broadcast!BroadcastNext
  <2>5. ASSUME NextIsOver(v) \/ NextIsDropped(v)
        PROVE  UNCHANGED Broadcast!broadcastVars
    <3>1. /\ stage[v] # "left" /\ stage'[v] # "left" /\ \A u \in Viewers \ {v} : stage'[u] = stage[u]
          /\ UNCHANGED <<turnVars, dropped, attachmentVars, pullVars>>
      BY <1>0, <2>5 DEF NextIsOver, NextIsDropped, Pulls, detach, Shapes
    <3> QED BY <3>1, StageShown
  <2>6. ASSUME NextSleeps(v)
        PROVE  UNCHANGED Broadcast!broadcastVars
    <3>1. /\ stage[v] # "left" /\ stage'[v] # "left" /\ \A u \in Viewers \ {v} : stage'[u] = stage[u]
          /\ UNCHANGED <<turnVars, dropped, attachmentVars, pullVars>>
      BY <2>6 DEF NextSleeps, Pulls, viewerVars
    <3> QED BY <3>1, StageShown
  <2> QED BY <1>1, <2>1, <2>2, <2>3, <2>4, <2>5, <2>6 DEF ViewerMoves, Pull
<1>2. CASE UNCHANGED vars
  <2>1. /\ UNCHANGED <<turnVars, attachmentVars, pullVars>> /\ UNCHANGED <<stage, dropped>>
    BY <1>2 DEF vars, deliveryVars, viewerVars
  <2>2. \A u \in Viewers : State(u)' = State(u)
    BY <2>1 DEF State, attachmentVars, pullVars
  <2> QED BY <2>1, <2>2, ShownStutter
<1>3. CASE \/ \E t \in Turns, th \in Threads : open(t, th)
           \/ \E t \in Turns, src \in Sources : publish(t, src)
           \/ \E t \in Turns : close(t)
           \/ closeAll
  BY <1>3, ProducersShown
<1>4. CASE \E v \in Viewers : ViewerMoves(v)
  BY <1>1, <1>4
<1>5. Next => \/ (\/ \E t \in Turns, th \in Threads : open(t, th)
                  \/ \E t \in Turns, src \in Sources : publish(t, src)
                  \/ \E t \in Turns : close(t)
                  \/ closeAll)
              \/ \E v \in Viewers : ViewerMoves(v)
  BY DEF Next, ViewerMoves
<1> QED BY <1>2, <1>3, <1>4, <1>5

\* The invariant of the refinement always holds.
LEMMA RefInvariant == Spec => []RefInv
<1>1. Init => RefInv
  BY RefInit
<1>2. RefInv /\ [Next]_vars => RefInv'
  BY RefStep
<1> QED BY <1>1, <1>2, PTL DEF Spec

(***************************************************************************)
(* What a queue holds is determined by the log: a viewer that was not      *)
(* dropped finds in it the chunks that follow its place, each once and in  *)
(* order, and after them the terminal chunk when the turn has ended        *)
(* (live-turn-hub.ts, deliver, next and forceClose).                       *)
(***************************************************************************)
THEOREM HubQueuesAreTheRest == Spec => []QueuesAreTheRest
<1>1. RefInv => QueuesAreTheRest
  BY DEF RefInv
<1> QED BY <1>1, RefInvariant, PTL

(***************************************************************************)
(* The hub implements the broadcast: digest, snapshot, queue and limits    *)
(* together show every viewer one gapless stretch of its turn, stream by   *)
(* stream and in order, from its beginning unless the viewer is told that  *)
(* the digest is truncated, and the terminal chunk only after the last of  *)
(* it (live-turn-hub.ts).                                                  *)
(***************************************************************************)
THEOREM HubImplementsBroadcast == Spec => ImplementsBroadcast
<1>1. Init => Broadcast!BroadcastInit
  BY ShownInit
<1>2. RefInv /\ RefInv' /\ [Next]_vars => [Broadcast!BroadcastNext]_(Broadcast!broadcastVars)
  BY StepShown
<1> QED BY <1>1, <1>2, RefInvariant, PTL DEF Spec, ImplementsBroadcast, Broadcast!BroadcastSpec

----------------------------------------------------------------------------
(* A completed viewer was shown the whole turn. *)

\* The first p sources of the log l.
Prefix(l, p) == [i \in 1..p |-> l[i]]

\* A viewer with the whole digest was shown what was published up to its place,
\* and has nothing left to see once it was served the terminal chunk.
ShownIsSent(v) ==
  LET l == log[watches[v]]
  IN  /\ watches[v] \in Turns /\ Place(v) \in 0..Len(l)
      /\ \A s \in Calls \cup {Main} : Seen(v)[s] = Sent(Prefix(l, Place(v)), s)
      /\ v \in terminalDelivered => watches[v] \in ended /\ Place(v) = Len(l)

\* That of every such viewer.
StoryInv == \A v \in whole : ShownIsSent(v)

\* A prefix, by its elements.
LEMMA PrefixShape ==
  ASSUME NEW l \in Seq(Sources), NEW p \in 0..Len(l)
  PROVE  \E x \in Seq(Sources) :
           x = Prefix(l, p) /\ Len(x) = p /\ \A i \in 1..p : x[i] = l[i]
<1> DEFINE x == [i \in 1..p |-> l[i]]
<1>1. \A i \in 1..p : l[i] \in Sources
  <2>1. \A i \in 1..p : i \in 1..Len(l)
    OBVIOUS
  <2> QED BY <2>1, ElementOfSeq
<1>2. p \in Nat
  OBVIOUS
<1>3. x \in Seq(Sources) /\ Len(x) = p
  BY <1>1, <1>2
<1>4. x = Prefix(l, p) /\ \A i \in 1..p : x[i] = l[i]
  BY DEF Prefix
<1> HIDE DEF x
<1> QED BY <1>3, <1>4

\* All of the log is a prefix of it,
LEMMA PrefixAll ==
  ASSUME NEW l \in Seq(Sources)
  PROVE  Prefix(l, Len(l)) = l
<1> DEFINE p == Len(l)
<1>1. p \in 0..Len(l)
  OBVIOUS
<1> HIDE DEF p
<1>2. PICK x \in Seq(Sources) : x = Prefix(l, p) /\ Len(x) = p /\ \A i \in 1..p : x[i] = l[i]
  BY <1>1, PrefixShape
<1>3. Len(x) = Len(l) /\ \A i \in 1..Len(x) : x[i] = l[i]
  BY <1>2 DEF p
<1>4. x = l
  BY <1>3, SeqEqual
<1> QED BY <1>2, <1>4 DEF p

\* the next one has the next source at its end,
LEMMA PrefixNext ==
  ASSUME NEW l \in Seq(Sources), NEW p \in 0..Len(l), p # Len(l), NEW s
  PROVE  Sent(Prefix(l, p + 1), s) = Joined(Sent(Prefix(l, p), s), Added(l[p + 1], p + 1, s))
<1>1. p \in Nat /\ Len(l) \in Nat /\ p + 1 \in 0..Len(l) /\ p + 1 \in 1..Len(l)
  OBVIOUS
<1>2. PICK x \in Seq(Sources) : x = Prefix(l, p) /\ Len(x) = p /\ \A i \in 1..p : x[i] = l[i]
  BY PrefixShape
<1>3. PICK n \in 0..Len(l) : n = p + 1
  BY <1>1
<1>4. PICK y \in Seq(Sources) : y = Prefix(l, n) /\ Len(y) = n /\ \A i \in 1..n : y[i] = l[i]
  BY PrefixShape
<1>5. PICK src \in Sources : src = l[p + 1]
  BY <1>1, ElementOfSeq
<1>6. /\ Append(x, src) \in Seq(Sources) /\ Len(Append(x, src)) = Len(x) + 1
      /\ Append(x, src)[Len(x) + 1] = src /\ \A i \in 1..Len(x) : Append(x, src)[i] = x[i]
  BY AppendProperties
<1>7. \A i \in 1..n : i \in 1..p \/ i = p + 1
  BY <1>1, <1>3
<1>8. \A i \in 1..Len(y) : y[i] = Append(x, src)[i]
  BY <1>2, <1>3, <1>4, <1>5, <1>6, <1>7
<1>9. y = Append(x, src)
  <2>1. Len(y) = Len(Append(x, src))
    BY <1>2, <1>3, <1>4, <1>6
  <2> QED BY <1>6, <1>8, <2>1, SeqEqual
<1>10. Sent(Append(x, src), s) = Joined(Sent(x, s), Added(src, Len(x) + 1, s))
  BY SentGrows
<1> QED BY <1>2, <1>3, <1>4, <1>5, <1>9, <1>10

\* and prefixes stay as they are when the log grows.
LEMMA PrefixStays ==
  ASSUME NEW l \in Seq(Sources), NEW p \in 0..Len(l), NEW src \in Sources
  PROVE  p \in 0..Len(Append(l, src)) /\ Prefix(Append(l, src), p) = Prefix(l, p)
<1>1. Append(l, src) \in Seq(Sources)
  BY AppendProperties
<1>2. PICK l2 \in Seq(Sources) : l2 = Append(l, src)
  BY <1>1
<1>3. Len(l2) = Len(l) + 1 /\ \A i \in 1..Len(l) : l2[i] = l[i]
  BY <1>2, AppendProperties
<1>4. p \in 0..Len(l2) /\ Len(l) \in Nat
  BY <1>3
<1>5. PICK x \in Seq(Sources) : x = Prefix(l, p) /\ Len(x) = p /\ \A i \in 1..p : x[i] = l[i]
  BY PrefixShape
<1>6. PICK y \in Seq(Sources) : y = Prefix(l2, p) /\ Len(y) = p /\ \A i \in 1..p : y[i] = l2[i]
  BY <1>4, PrefixShape
<1>7. \A i \in 1..Len(x) : i \in 1..p /\ i \in 1..Len(l)
  BY <1>4, <1>5
<1>8. \A i \in 1..Len(x) : x[i] = y[i]
  BY <1>3, <1>5, <1>6, <1>7
<1>9. x = y
  BY <1>5, <1>6, <1>8, SeqEqual
<1> QED BY <1>2, <1>4, <1>5, <1>6, <1>9

\* What happens to the log of a turn, and does not happen to an ended one.
LogGrows(t) == log'[t] = log[t] \/ (t \notin ended /\ \E src \in Sources : log'[t] = Append(log[t], src))

\* Who neither joins nor pulls was shown what it was shown.
LEMMA StoryKept ==
  ASSUME Shapes, NEW v \in Viewers, ShownIsSent(v), ended \subseteq ended',
         \A t \in Turns : LogGrows(t),
         watches'[v] = watches[v], snapshot'[v] = snapshot[v], got'[v] = got[v], start'[v] = start[v],
         v \in terminalDelivered' <=> v \in terminalDelivered
  PROVE  ShownIsSent(v)'
<1>1. Place(v)' = Place(v) /\ Seen(v)' = Seen(v)
  BY DEF Place, Pulled, Seen
<1>2. PICK l \in Seq(Sources) : l = log[watches[v]]
  BY DEF Shapes, ShownIsSent
<1>3. PICK l2 : l2 = log'[watches[v]]
  OBVIOUS
<1>4. /\ watches[v] \in Turns /\ Place(v) \in 0..Len(l)
      /\ \A s \in Calls \cup {Main} : Seen(v)[s] = Sent(Prefix(l, Place(v)), s)
      /\ v \in terminalDelivered => watches[v] \in ended /\ Place(v) = Len(l)
  BY <1>2 DEF ShownIsSent
<1>5. /\ Place(v) \in 0..Len(l2) /\ Prefix(l2, Place(v)) = Prefix(l, Place(v))
      /\ watches[v] \in ended => l2 = l
  <2>1. PICK t \in Turns : t = watches[v]
    BY <1>4
  <2>2. LogGrows(t) /\ l2 = log'[t] /\ l = log[t]
    BY <1>2, <1>3, <2>1
  <2>3. CASE l2 = l
    BY <1>4, <2>3
  <2>4. CASE t \notin ended /\ \E src \in Sources : l2 = Append(l, src)
    <3>1. PICK p \in 0..Len(l) : p = Place(v)
      BY <1>4
    <3>2. PICK src \in Sources : l2 = Append(l, src)
      BY <2>4
    <3> QED BY <2>1, <2>4, <3>1, <3>2, PrefixStays
  <2> QED BY <2>2, <2>3, <2>4 DEF LogGrows
<1> QED BY <1>1, <1>3, <1>4, <1>5 DEF ShownIsSent

\* Who joins was shown all that was published,
LEMMA StoryBegins ==
  ASSUME RefInv, NEW v \in Viewers, NEW t \in Opened \ ended, t \notin truncated, stage[v] = "new",
         attachTo(v, t), UNCHANGED <<turnVars, pullVars>>
  PROVE  ShownIsSent(v)'
<1>0. Shapes /\ Quantities /\ OutsidersAreBlank /\ DigestsHold
  BY DEF RefInv, HubInv
<1>1. t \in Turns /\ log[t] \in Seq(Sources) /\ UNCHANGED <<log, ended, got, terminalDelivered>>
  BY <1>0 DEF Opened, Shapes, turnVars, pullVars
<1>2. watches'[v] = t /\ start'[v] = Len(log[t]) /\ snapshot'[v] = digest[t]
  BY <1>0 DEF attachTo, Shapes, Quantities
<1>3. got[v] = <<>> /\ v \notin terminalDelivered
  BY <1>0 DEF OutsidersAreBlank
<1>4. Pulled(v)' = 0
  BY <1>1, <1>3 DEF Pulled
<1>5. Len(log[t]) \in Nat
  BY <1>1
<1>6. Place(v)' = Len(log[t])
  BY <1>2, <1>4, <1>5 DEF Place
<1>7. ASSUME NEW s \in Calls \cup {Main}
      PROVE  Seen(v)'[s] = Sent(Prefix(log[t], Len(log[t])), s)
  <2>1. PartsOf(snapshot'[v], s) = Sent(log[t], s) /\ Sent(log[t], s) \in Seq(Nat)
    BY <1>0, <1>1, <1>2, SentTyped DEF DigestsHold
  <2>2. ChunksOf(got'[v], s) = <<>>
    BY <1>1, <1>3, ChunksEmpty
  <2>3. Seen(v)'[s] = Joined(PartsOf(snapshot'[v], s), ChunksOf(got'[v], s))
    BY DEF Seen
  <2>4. Prefix(log[t], Len(log[t])) = log[t]
    BY <1>1, PrefixAll
  <2> QED BY <2>1, <2>2, <2>3, <2>4, JoinedEmpty
<1> QED BY <1>1, <1>2, <1>3, <1>5, <1>6, <1>7 DEF ShownIsSent

\* and who pulls a chunk was shown one more.
LEMMA StoryGoesOn ==
  ASSUME RefInv, NEW v \in whole, v \in Viewers, ShownIsSent(v), NextChunk(v)
  PROVE  ShownIsSent(v)'
<1>1. PICK l \in Seq(Sources) : l = log[watches[v]] /\ watches[v] \in Turns
  BY ChunkIsNext
<1>2. PICK p \in 0..Len(l) : p = Place(v)
  BY <1>1, ChunkIsNext
<1>3. UNCHANGED <<log, ended, watches>>
  BY DEF NextChunk, turnVars, attachmentVars
<1>4. /\ \A s \in Calls \cup {Main} : Seen(v)[s] = Sent(Prefix(l, p), s)
      /\ v \notin terminalDelivered
  BY <1>1, <1>2, ChunkIsNext DEF ShownIsSent
<1>5. CASE /\ p # Len(l) /\ l[p + 1] \in Sources /\ Place(v)' = p + 1
           /\ Seen(v)' = [Seen(v) EXCEPT ![StreamOf(l[p + 1])] = Append(@, p + 1)]
           /\ terminalDelivered' = terminalDelivered
  <2>1. p + 1 \in 0..Len(l) /\ p + 1 \in Nat
    BY <1>5
  <2>2. ASSUME NEW s \in Calls \cup {Main}
        PROVE  Seen(v)'[s] = Sent(Prefix(l, p + 1), s)
    <3>1. PICK x \in Seq(Nat) : x = Seen(v)[s] /\ x = Sent(Prefix(l, p), s)
      <4>1. Sent(Prefix(l, p), s) \in Seq(Nat)
        BY PrefixShape, SentTyped
      <4> QED BY <1>4, <4>1
    <3>2. Sent(Prefix(l, p + 1), s) = Joined(x, Added(l[p + 1], p + 1, s))
      BY <1>5, <3>1, PrefixNext
    <3>3. Joined(x, Added(l[p + 1], p + 1, s)) = IF StreamOf(l[p + 1]) = s THEN Append(x, p + 1) ELSE x
      BY <2>1, JoinedSingle, JoinedEmpty DEF Added, Single
    <3>4. Seen(v)'[s] = IF StreamOf(l[p + 1]) = s THEN Append(x, p + 1) ELSE x
      <4>1. s \in DOMAIN Seen(v)
        BY DEF Seen
      <4> QED BY <1>5, <3>1, <4>1
    <3> QED BY <3>2, <3>3, <3>4
  <2> QED BY <1>1, <1>3, <1>4, <1>5, <2>1, <2>2 DEF ShownIsSent
<1>6. CASE /\ p = Len(l) /\ watches[v] \in ended /\ Place(v)' = p /\ Seen(v)' = Seen(v)
           /\ terminalDelivered' = terminalDelivered \cup {v}
  BY <1>1, <1>3, <1>4, <1>6 DEF ShownIsSent
<1> QED BY <1>1, <1>2, <1>5, <1>6, PullShows

\* No step breaks the story of anybody.
LEMMA StoryStep ==
  ASSUME RefInv, StoryInv, [Next]_vars
  PROVE  StoryInv'
<1>0. /\ Shapes /\ Quantities /\ EntriesAreTheLiveTurns /\ OutsidersAreBlank /\ whole \subseteq Viewers
  BY DEF RefInv, HubInv, Quantities
<1>1. ASSUME NEW w \in whole, UNCHANGED turnVars,
             watches'[w] = watches[w], snapshot'[w] = snapshot[w], got'[w] = got[w], start'[w] = start[w],
             w \in terminalDelivered' <=> w \in terminalDelivered
      PROVE  ShownIsSent(w)'
  <2>1. ended \subseteq ended' /\ \A t \in Turns : LogGrows(t)
    BY <1>1 DEF turnVars, LogGrows
  <2>2. ShownIsSent(w) /\ w \in Viewers
    BY <1>0 DEF StoryInv
  <2> QED BY <1>0, <1>1, <2>1, <2>2, StoryKept
<1>2. ASSUME UNCHANGED <<turnVars, attachmentVars, pullVars>>
      PROVE  StoryInv'
  BY <1>1, <1>2 DEF StoryInv, attachmentVars, pullVars
<1>3. ASSUME \/ \E t \in Turns, th \in Threads : open(t, th)
             \/ \E t \in Turns, src \in Sources : publish(t, src)
             \/ \E t \in Turns : close(t)
             \/ closeAll
      PROVE  StoryInv'
  <2>1. UNCHANGED viewerVars /\ ended \subseteq ended'
    BY <1>3 DEF open, publish, close, closeAll, forceClose
  <2>2. \A t \in Turns : LogGrows(t)
    <3>1. CASE \E u \in Turns, src \in Sources : publish(u, src)
      <4>1. PICK u \in Turns, src \in Sources : publish(u, src)
        BY <3>1
      <4>2. u \notin ended /\ log' = [log EXCEPT ![u] = Append(@, src)]
        BY <4>1 DEF publish, Current
      <4>3. \A t \in Turns : log'[t] = IF t = u THEN Append(log[t], src) ELSE log[t]
        BY <1>0, <4>2 DEF Shapes
      <4> QED BY <4>2, <4>3 DEF LogGrows
    <3>2. CASE ~\E u \in Turns, src \in Sources : publish(u, src)
      <4>1. log' = log
        BY <1>3, <3>2 DEF open, close, closeAll
      <4> QED BY <4>1 DEF LogGrows
    <3> QED BY <3>1, <3>2
  <2>3. UNCHANGED <<watches, snapshot, whole, start, got, terminalDelivered>>
    BY <2>1 DEF viewerVars, attachmentVars, pullVars
  <2>4. ASSUME NEW w \in whole PROVE ShownIsSent(w)'
    <3>1. ShownIsSent(w) /\ w \in Viewers
      BY <1>0 DEF StoryInv
    <3> QED BY <1>0, <2>1, <2>2, <2>3, <3>1, StoryKept
  <2> QED BY <2>3, <2>4 DEF StoryInv
<1>4. ASSUME NEW v \in Viewers, ViewerMoves(v)
      PROVE  StoryInv'
  <2>1. ASSUME NEW th \in Threads, NEW limit \in ViewerLimits, attach(v, th, limit)
        PROVE  StoryInv'
    <3>1. CASE entries[th] # None /\ attachTo(v, entries[th])
      <4>1. PICK t \in Opened \ ended : t = entries[th]
        BY <1>0, <3>1 DEF EntriesAreTheLiveTurns
      <4>2. /\ stage[v] = "new" /\ attachTo(v, t) /\ UNCHANGED <<turnVars, pullVars>>
            /\ UNCHANGED <<got, terminalDelivered>>
        BY <2>1, <3>1, <4>1 DEF attach, pullVars
      <4>3. v \notin whole
        BY <1>0, <4>2 DEF OutsidersAreBlank
      <4>4. /\ \A w \in Viewers \ {v} : watches'[w] = watches[w] /\ snapshot'[w] = snapshot[w]
                                        /\ start'[w] = start[w]
            /\ whole' = IF t \in truncated THEN whole ELSE whole \cup {v}
        BY <1>0, <4>2 DEF attachTo, Shapes, Quantities
      <4>5. ASSUME NEW w \in whole' PROVE ShownIsSent(w)'
        <5>1. CASE w = v
          BY <4>2, <4>3, <4>4, <5>1, StoryBegins
        <5>2. CASE w # v
          BY <1>0, <1>1, <4>2, <4>4, <5>2
        <5> QED BY <5>1, <5>2
      <4> QED BY <4>5 DEF StoryInv
    <3>2. CASE UNCHANGED <<attachmentVars, subscribers>>
      BY <1>2, <2>1, <3>2 DEF attach
    <3> QED BY <2>1, <3>1, <3>2 DEF attach
  <2>2. ASSUME NextChunk(v)
        PROVE  StoryInv'
    <3>1. /\ UNCHANGED <<turnVars, watches, snapshot, start, whole>>
          /\ \A w \in Viewers \ {v} : /\ got'[w] = got[w]
                                      /\ w \in terminalDelivered' <=> w \in terminalDelivered
      BY <1>0, <2>2 DEF NextChunk, attachmentVars, Quantities
    <3>2. ASSUME NEW w \in whole PROVE ShownIsSent(w)'
      <4>1. CASE w = v
        BY <2>2, <4>1, StoryGoesOn DEF StoryInv
      <4>2. CASE w # v
        BY <1>0, <1>1, <3>1, <4>2
      <4> QED BY <4>1, <4>2
    <3> QED BY <3>1, <3>2 DEF StoryInv
  <2>3. ASSUME SendState(v) \/ Leave(v) \/ NextIsOver(v) \/ NextIsDropped(v) \/ NextSleeps(v)
        PROVE  StoryInv'
    <3>1. UNCHANGED <<turnVars, attachmentVars, pullVars>>
      BY <2>3 DEF SendState, Leave, NextIsOver, NextIsDropped, NextSleeps, detach, viewerVars
    <3> QED BY <1>2, <3>1
  <2> QED BY <1>4, <2>1, <2>2, <2>3 DEF ViewerMoves, Pull
<1>5. CASE UNCHANGED vars
  BY <1>2, <1>5 DEF vars, viewerVars
<1>6. Next => \/ (\/ \E t \in Turns, th \in Threads : open(t, th)
                  \/ \E t \in Turns, src \in Sources : publish(t, src)
                  \/ \E t \in Turns : close(t)
                  \/ closeAll)
              \/ \E v \in Viewers : ViewerMoves(v)
  BY DEF Next, ViewerMoves
<1> QED BY <1>3, <1>4, <1>5, <1>6

\* A viewer that was told that its turn is over, and not that the digest is
\* truncated, was shown every chunk of the turn, stream by stream.
CompleteIsWhole ==
  \A v \in whole \cap terminalDelivered : \A s \in Calls \cup {Main} :
    PartsOf(snapshot[v], s) \o ChunksOf(got[v], s) = Sent(log[watches[v]], s)

(***************************************************************************)
(* A completed stream is the whole turn: a viewer that was served the      *)
(* terminal chunk, and not told that the digest was truncated, was shown,  *)
(* by the digest it was sent and the chunks it pulled, all that the turn   *)
(* ever published (live-turn-hub.ts, attach, deliver, next, forceClose).   *)
(***************************************************************************)
THEOREM HubCompleteIsWhole == Spec => []CompleteIsWhole
<1>1. Init => RefInv /\ StoryInv
  BY RefInit DEF Init, StoryInv
<1>2. RefInv /\ StoryInv /\ [Next]_vars => (RefInv /\ StoryInv)'
  BY RefStep, StoryStep
<1>3. RefInv /\ StoryInv => CompleteIsWhole
  <2> SUFFICES ASSUME RefInv, StoryInv, NEW v \in whole \cap terminalDelivered, NEW s \in Calls \cup {Main}
               PROVE  PartsOf(snapshot[v], s) \o ChunksOf(got[v], s) = Sent(log[watches[v]], s)
    BY DEF CompleteIsWhole
  <2>1. PICK l \in Seq(Sources) : l = log[watches[v]]
    BY DEF RefInv, HubInv, Shapes, StoryInv, ShownIsSent
  <2>2. Seen(v)[s] = Sent(Prefix(l, Len(l)), s)
    BY <2>1 DEF StoryInv, ShownIsSent
  <2>3. Prefix(l, Len(l)) = l
    BY PrefixAll
  <2>4. Seen(v)[s] = PartsOf(snapshot[v], s) \o ChunksOf(got[v], s)
    BY DEF Seen, Joined
  <2> QED BY <2>1, <2>2, <2>3, <2>4
<1> QED BY <1>1, <1>2, <1>3, PTL DEF Spec
=============================================================================
