---------------------------- MODULE LiveTurnHub ----------------------------
(***************************************************************************)
(* The hub that lets viewers join a turn while it is running:              *)
(* createLiveTurnHub in packages/cli/src/lib/dev/live-turn-hub.ts, and the *)
(* attach stream of handleApAttachRequest that pulls from it.              *)
(*                                                                         *)
(* Every operation of the hub is synchronous: one action each.  A viewer's *)
(* stream is asynchronous: between two of its pulls anything may happen,   *)
(* and a pull that finds nothing sleeps until it is woken.                 *)
(*                                                                         *)
(* A chunk is its source and its place in the turn's log.  log is history: *)
(* the hub itself remembers only the digest, which merges adjacent chunks  *)
(* of one message and all tokens of one subagent call, and drops all of it *)
(* when it grows too large.  Sizes are abstract byte counts.               *)
(***************************************************************************)
EXTENDS Naturals, Sequences, FiniteSets, SequencesExt

CONSTANTS Threads, Turns, Viewers,
          Messages,       \* sources whose adjacent chunks coalesce: a messageId
          Calls,          \* sources whose tokens coalesce anywhere: call_id/messageId
          Events,         \* chunks that never coalesce
          Size,           \* source -> bytes of one chunk of it
          DigestMaxBytes, SubMaxBytes, SubMaxFrames,
          ViewerLimits,   \* values of attach's maxViewers option
          MaxLog,         \* bound: turn -> chunks published
          Done,           \* the source of the terminal chunk
          None

Sources == Messages \cup Calls \cup Events

ASSUME HubAssumption ==
  /\ None \notin Turns /\ None \notin Threads /\ Done \notin Sources
  /\ Size \in [Sources \cup {Done} -> Nat \ {0}]
  /\ {DigestMaxBytes, SubMaxBytes, SubMaxFrames} \cup ViewerLimits \subseteq Nat
  /\ MaxLog \in [Turns -> Nat]

VARIABLES entries,      \* the Map: thread -> its live turn
          turnThread,   \* the thread a turn was opened for
          log,          \* turn -> sources of the chunks published (history)
          ended,        \* turns with ended = true
          digest,       \* turn -> sequence of [src, parts]
          digestBytes,
          truncated,    \* turns whose digest is null
          subscribers,  \* turn -> set of viewers
          stage,        \* how far a viewer's attach request got
          watches,      \* viewer -> the turn its attachment holds
          snapshot,     \* viewer -> the digest copied by attach
          whole,        \* viewers whose snapshot was not truncated
          queue, queueBytes,
          dropped,      \* viewers dropped for overflow
          asleep,       \* viewers whose next() awaits sub.wake
          terminalDelivered,
          got,          \* viewer -> chunks it pulled (history)
          start         \* viewer -> length of the log when it attached (history)

turnVars == <<entries, turnThread, log, ended>>
digestVars == <<digest, digestBytes, truncated>>
deliveryVars == <<subscribers, queue, queueBytes, dropped, asleep>>
attachmentVars == <<watches, snapshot, whole, start>>
pullVars == <<terminalDelivered, got>>
viewerVars == <<stage, attachmentVars, pullVars>>
vars == <<turnVars, digestVars, deliveryVars, viewerVars>>

Opened == {t \in Turns : turnThread[t] # None}

\* "attached": middleware and the anchor read are awaited; "following": the
\* state event was sent.  The other stages but "new" are final.
Attached == {v \in Viewers : stage[v] \in {"attached", "following"}}

Init ==
  /\ entries = [th \in Threads |-> None]
  /\ turnThread = [t \in Turns |-> None]
  /\ log = [t \in Turns |-> <<>>]
  /\ ended = {}
  /\ digest = [t \in Turns |-> <<>>]
  /\ digestBytes = [t \in Turns |-> 0]
  /\ truncated = {}
  /\ subscribers = [t \in Turns |-> {}]
  /\ queue = [v \in Viewers |-> <<>>]
  /\ queueBytes = [v \in Viewers |-> 0]
  /\ dropped = {}
  /\ asleep = {}
  /\ stage = [v \in Viewers |-> "new"]
  /\ watches = [v \in Viewers |-> None]
  /\ snapshot = [v \in Viewers |-> <<>>]
  /\ whole = {}
  /\ terminalDelivered = {}
  /\ got = [v \in Viewers |-> <<>>]
  /\ start = [v \in Viewers |-> 0]

----------------------------------------------------------------------------
Entry(src, n) == [src |-> src, parts |-> <<n>>]

\* The place in the digest that chunks of src are merged into, if there is one.
MergePlaces(d, src) ==
  {i \in 1..Len(d) : d[i].src = src /\ (src \in Calls \/ (src \in Messages /\ i = Len(d)))}

appendCoalesced(d, src, n) ==
  IF MergePlaces(d, src) = {} THEN Append(d, Entry(src, n))
  ELSE [d EXCEPT ![CHOOSE i \in MergePlaces(d, src) : TRUE].parts = Append(@, n)]

Subscribed(T) == UNION {subscribers[t] : t \in T}

\* The bytes a queue holds after the chunk; a sum that forgets to grow.
BytesUncounted(v, src) == queueBytes[v]
bytesWith(v, src) == queueBytes[v] + Size[src]

Fits(v, src) ==
  /\ Len(queue[v]) + 1 <= SubMaxFrames
  /\ bytesWith(v, src) <= SubMaxBytes

Overrun(T, src) == {v \in Subscribed(T) : ~Fits(v, src)}

enqueue(T, src, n) ==
  /\ queue' = [v \in Viewers |->
                 IF v \in Overrun(T, src) THEN <<>>
                 ELSE IF v \in Subscribed(T) THEN Append(queue[v], [src |-> src, n |-> n])
                 ELSE queue[v]]
  /\ queueBytes' = [v \in Viewers |->
                      IF v \in Overrun(T, src) THEN 0
                      ELSE IF v \in Subscribed(T) THEN bytesWith(v, src) ELSE queueBytes[v]]

\* A wake for the subscribers that were given a chunk only.
WakesReceivers(T, src) == Subscribed(T) \ Overrun(T, src)

\* sub.wake?.() of every subscriber, the dropped ones included.
wakes(T, src) == Subscribed(T)

\* deliver(turn, chunk), for every turn in T: a subscriber whose queue cannot
\* take the chunk is dropped, alone.
deliver(T, src, n) ==
  /\ enqueue(T, src, n)
  /\ dropped' = dropped \cup Overrun(T, src)
  /\ subscribers' = [t \in Turns |-> IF t \in T THEN subscribers[t] \ Overrun(T, src)
                                     ELSE subscribers[t]]
  /\ asleep' = asleep \ wakes(T, src)

\* A forceClose that relies on the subscribers to notice.
EndQuietly(T) ==
  /\ ended' = ended \cup T
  /\ UNCHANGED deliveryVars

\* forceClose of every turn in T; entries never hold a turn that ended.
forceClose(T) ==
  /\ ended' = ended \cup T
  /\ deliver(T, Done, 0)

----------------------------------------------------------------------------
\* The producer's side.
Current(t) == t \in Opened /\ entries[turnThread[t]] = t /\ t \notin ended

\* An open that leaves the turn it replaces as it is.
OpenQuietly(t, th) ==
  /\ t \notin Opened
  /\ turnThread' = [turnThread EXCEPT ![t] = th]
  /\ entries' = [entries EXCEPT ![th] = t]
  /\ UNCHANGED <<ended, deliveryVars, log, digestVars, viewerVars>>

open(t, th) ==
  /\ t \notin Opened
  /\ forceClose({entries[th]} \ {None})
  /\ turnThread' = [turnThread EXCEPT ![t] = th]
  /\ entries' = [entries EXCEPT ![th] = t]
  /\ UNCHANGED <<log, digestVars, viewerVars>>

publish(t, src) ==
  LET n == Len(log[t]) + 1
      bytes == digestBytes[t] + Size[src]
  IN  /\ Current(t)
      /\ n <= MaxLog[t]
      /\ log' = [log EXCEPT ![t] = Append(@, src)]
      /\ IF t \in truncated THEN UNCHANGED digestVars
         ELSE /\ digestBytes' = [digestBytes EXCEPT ![t] = bytes]
              /\ IF bytes > DigestMaxBytes
                   THEN truncated' = truncated \cup {t} /\ digest' = [digest EXCEPT ![t] = <<>>]
                   ELSE /\ digest' = [digest EXCEPT ![t] = appendCoalesced(@, src, n)]
                        /\ UNCHANGED truncated
      /\ deliver({t}, src, n)
      /\ UNCHANGED <<entries, turnThread, ended, viewerVars>>

\* close(terminal); without effect unless the turn is the thread's live one.
close(t) ==
  /\ Current(t)
  /\ forceClose({t})
  /\ entries' = [entries EXCEPT ![turnThread[t]] = None]
  /\ UNCHANGED <<turnThread, log, digestVars, viewerVars>>

\* handler.close().
closeAll ==
  /\ \E th \in Threads : entries[th] # None
  /\ forceClose({entries[th] : th \in Threads} \ {None})
  /\ entries' = [th \in Threads |-> None]
  /\ UNCHANGED <<turnThread, log, digestVars, viewerVars>>

----------------------------------------------------------------------------
\* The viewer's side.
attachTo(v, t) ==
  /\ stage' = [stage EXCEPT ![v] = "attached"]
  /\ watches' = [watches EXCEPT ![v] = t]
  /\ snapshot' = [snapshot EXCEPT ![v] = digest[t]]
  /\ whole' = IF t \in truncated THEN whole ELSE whole \cup {v}
  /\ start' = [start EXCEPT ![v] = Len(log[t])]
  /\ subscribers' = [subscribers EXCEPT ![t] = @ \cup {v}]

\* attach(threadId): without a live turn the stream serves the stored state,
\* and with too many viewers it answers "detached"; both are over at once.
attach(v, th, maxViewers) ==
  LET t == entries[th]
  IN  /\ stage[v] = "new"
      /\ CASE t = None -> /\ stage' = [stage EXCEPT ![v] = "durable"]
                          /\ UNCHANGED <<attachmentVars, subscribers>>
           [] t # None /\ Cardinality(subscribers[t]) >= maxViewers ->
                          /\ stage' = [stage EXCEPT ![v] = "capacity"]
                          /\ UNCHANGED <<attachmentVars, subscribers>>
           [] OTHER -> attachTo(v, t)
      /\ UNCHANGED <<turnVars, digestVars, queue, queueBytes, dropped, asleep, pullVars>>

\* A stream that copies the digest when it sends it, after the awaited
\* middleware, though it subscribed before.
SendStateAfresh(v) ==
  /\ stage[v] = "attached"
  /\ stage' = [stage EXCEPT ![v] = "following"]
  /\ snapshot' = [snapshot EXCEPT ![v] = digest[watches[v]]]
  /\ UNCHANGED <<turnVars, digestVars, deliveryVars, watches, whole, start, pullVars>>

\* The state event, from the attachment's copy.
SendState(v) ==
  /\ stage[v] = "attached"
  /\ stage' = [stage EXCEPT ![v] = "following"]
  /\ UNCHANGED <<turnVars, digestVars, deliveryVars, attachmentVars, pullVars>>

\* finish(): detach, then the stream is closed.
detach(v, how) ==
  /\ stage' = [stage EXCEPT ![v] = how]
  /\ queue' = [queue EXCEPT ![v] = <<>>]
  /\ queueBytes' = [queueBytes EXCEPT ![v] = 0]
  /\ subscribers' = [subscribers EXCEPT ![watches[v]] = @ \ {v}]
  /\ asleep' = asleep \ {v}
  /\ UNCHANGED <<turnVars, digestVars, dropped, attachmentVars, pullVars>>

\* The client goes away, a middleware rejects it, or the anchor read fails.
Leave(v) == v \in Attached /\ detach(v, "left")

Pulls(v) == stage[v] = "following" /\ v \notin asleep

\* next() shifts a chunk off the queue.
NextChunk(v) ==
  LET c == queue[v][1]
  IN  /\ Pulls(v) /\ v \notin dropped
      /\ queue[v] # <<>>
      /\ queue' = [queue EXCEPT ![v] = Tail(@)]
      /\ queueBytes' = [queueBytes EXCEPT ![v] = @ - Size[c.src]]
      /\ got' = [got EXCEPT ![v] = Append(@, c)]
      /\ terminalDelivered' = IF c.src = Done THEN terminalDelivered \cup {v} ELSE terminalDelivered
      /\ UNCHANGED <<turnVars, digestVars, subscribers, dropped, asleep, stage, attachmentVars>>

Over(v) == watches[v] \in ended /\ v \in terminalDelivered

\* next() is null: the terminal chunk was the last one.
NextIsOver(v) ==
  /\ Pulls(v) /\ v \notin dropped
  /\ queue[v] = <<>>
  /\ Over(v)
  /\ detach(v, "done")

\* next() is null: the stream tells the client that it fell behind.
NextIsDropped(v) ==
  /\ Pulls(v) /\ v \in dropped
  /\ detach(v, "overflow")

\* next() finds nothing and awaits sub.wake.
NextSleeps(v) ==
  /\ Pulls(v) /\ v \notin dropped
  /\ queue[v] = <<>>
  /\ ~Over(v)
  /\ asleep' = asleep \cup {v}
  /\ UNCHANGED <<turnVars, digestVars, subscribers, queue, queueBytes, dropped, viewerVars>>

Pull(v) == NextChunk(v) \/ NextIsOver(v) \/ NextIsDropped(v) \/ NextSleeps(v)

Next ==
  \/ \E t \in Turns, th \in Threads : open(t, th)
  \/ \E t \in Turns, src \in Sources : publish(t, src)
  \/ \E t \in Turns : close(t)
  \/ closeAll
  \/ \E v \in Viewers, th \in Threads, limit \in ViewerLimits : attach(v, th, limit)
  \/ \E v \in Viewers : SendState(v) \/ Leave(v) \/ Pull(v)

Spec == Init /\ [][Next]_vars

(***************************************************************************)
(* A stream whose client keeps reading is pulled again, and a woken next() *)
(* continues.  Nothing obliges a turn to end or a client to leave.         *)
(***************************************************************************)
FairSpec == Spec /\ \A v \in Viewers : WF_vars(SendState(v)) /\ WF_vars(Pull(v))

----------------------------------------------------------------------------
Chunks == [src : Sources \cup {Done}, n : Nat]

TypeOK ==
  /\ entries \in [Threads -> Turns \cup {None}]
  /\ turnThread \in [Turns -> Threads \cup {None}]
  /\ log \in [Turns -> Seq(Sources)]
  /\ ended \subseteq Opened
  /\ digest \in [Turns -> Seq([src : Sources, parts : Seq(Nat)])]
  /\ digestBytes \in [Turns -> Nat]
  /\ truncated \subseteq Opened
  /\ subscribers \in [Turns -> SUBSET Viewers]
  /\ stage \in [Viewers -> {"new", "durable", "capacity", "attached", "following",
                            "left", "done", "overflow"}]
  /\ watches \in [Viewers -> Turns \cup {None}]
  /\ snapshot \in [Viewers -> Seq([src : Sources, parts : Seq(Nat)])]
  /\ whole \subseteq Viewers
  /\ queue \in [Viewers -> Seq(Chunks)]
  /\ queueBytes \in [Viewers -> Nat]
  /\ dropped \subseteq Viewers
  /\ asleep \subseteq Viewers
  /\ terminalDelivered \subseteq Viewers
  /\ got \in [Viewers -> Seq(Chunks)]
  /\ start \in [Viewers -> Nat]

(***************************************************************************)
(* Every turn can still be ended by its producer: a turn that was opened   *)
(* and has not ended is the entry of its thread, and an entry is such a    *)
(* turn.  Otherwise close would be refused by its identity guard and the   *)
(* turn's viewers would hang on a heartbeat that never resolves            *)
(* (live-turn-hub.ts, open and close).                                     *)
(***************************************************************************)
EntriesAreTheLiveTurns ==
  /\ \A t \in Opened \ ended : entries[turnThread[t]] = t
  /\ \A th \in Threads :
        entries[th] # None => entries[th] \in Opened \ ended /\ turnThread[entries[th]] = th

(***************************************************************************)
(* No wake-up is lost: a stream sleeps only while there is nothing to tell *)
(* it.  Its queue is empty, it was not dropped, its turn has not ended and *)
(* it is still subscribed, so the next deliver will wake it (next() tests  *)
(* and then registers its wake in one synchronous section).                *)
(***************************************************************************)
SleepersHaveNothingToRead ==
  \A v \in asleep :
    /\ stage[v] = "following"
    /\ queue[v] = <<>> /\ v \notin dropped
    /\ watches[v] \notin ended
    /\ v \in subscribers[watches[v]]

(***************************************************************************)
(* A viewer of a turn that ended is not left hanging: it is served the     *)
(* rest and the terminal chunk, told that it was dropped, or has left.     *)
(***************************************************************************)
ViewersOfEndedTurnsFinish ==
  \A v \in Viewers : (v \in Attached /\ watches[v] \in ended) ~> v \notin Attached

----------------------------------------------------------------------------
\* The streams a client tells apart: one per subagent call, and all the rest.
Main == Done
StreamOf(src) == IF src \in Calls THEN src ELSE Main

\* The chunks of stream s in the entries es, in their order; and those pulled.
PartsOf(es, s) ==
  FlattenSeq([i \in 1..Len(es) |-> IF StreamOf(es[i].src) = s THEN es[i].parts ELSE <<>>])

ChunksOf(cs, s) ==
  FlattenSeq([i \in 1..Len(cs) |->
                IF cs[i].src # Done /\ StreamOf(cs[i].src) = s THEN <<cs[i].n>> ELSE <<>>])

\* How many chunks were pulled, the terminal one not counted.
Pulled(v) == Len(got[v]) - (IF v \in terminalDelivered THEN 1 ELSE 0)

(***************************************************************************)
(* The hub implements the broadcast it promises: snapshot, queue and       *)
(* limits together show a viewer one gapless stretch of its turn, and the  *)
(* terminal chunk last.                                                    *)
(***************************************************************************)
Broadcast == INSTANCE LiveBroadcast WITH
  Streams <- Calls \cup {Main},
  phase <- [t \in Turns |-> IF t \notin Opened THEN "new" ELSE IF t \in ended THEN "over" ELSE "live"],
  log <- [t \in Turns |-> [i \in 1..Len(log[t]) |-> StreamOf(log[t][i])]],
  state <- [v \in Viewers |->
              IF watches[v] = None THEN "out"
              ELSE IF v \in terminalDelivered THEN "complete"
              ELSE IF v \in dropped \/ stage[v] = "left" THEN "cut" ELSE "watching"],
  place <- [v \in Viewers |-> start[v] + Pulled(v)],
  seen <- [v \in Viewers |-> [s \in Calls \cup {Main} |->
              PartsOf(snapshot[v], s) \o ChunksOf(got[v], s)]],
  told <- {v \in Viewers : watches[v] # None} \ whole

ImplementsBroadcast == Broadcast!BroadcastSpec
=============================================================================
