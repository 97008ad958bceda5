--------------------------- MODULE LiveBroadcast ---------------------------
(***************************************************************************)
(* What the live-turn hub promises, without its digest, queues, limits or  *)
(* wake-ups: a turn is an append-only log of published chunks, and a       *)
(* viewer that joins it sees, stream by stream, exactly the chunks of one  *)
(* contiguous stretch of that log, in order and without a gap, from the    *)
(* beginning unless it was told that the turn is truncated, and is told    *)
(* that the turn is over only after it has seen the whole rest of it.      *)
(*                                                                         *)
(* A chunk is the number of its place in the log.  Chunks of one stream    *)
(* are seen in order; chunks of different streams may be seen reordered    *)
(* (the digest merges a child's tokens).                                   *)
(***************************************************************************)
EXTENDS Sequences, Naturals, SequencesExt

CONSTANTS Turns, Viewers, Streams, None

VARIABLES phase,   \* turn -> "new", "live", "over"
          log,     \* turn -> sequence of streams: the n-th chunk's stream
          watches, \* viewer -> the turn it joined
          state,   \* viewer -> "out", "watching", "complete", "cut"
          place,   \* viewer -> how much of the log it has seen or skipped
          seen,    \* viewer -> stream -> the chunks seen
          told     \* viewers told that they do not see the turn's beginning

broadcastVars == <<phase, log, watches, state, place, seen, told>>

Nothing == [s \in Streams |-> <<>>]

\* The first n chunks of the log of t, stream by stream.
Upto(t, n) ==
  [s \in Streams |-> FlattenSeq([i \in 1..n |-> IF log[t][i] = s THEN <<i>> ELSE <<>>])]

BroadcastInit ==
  /\ phase = [t \in Turns |-> "new"]
  /\ log = [t \in Turns |-> <<>>]
  /\ watches = [v \in Viewers |-> None]
  /\ state = [v \in Viewers |-> "out"]
  /\ place = [v \in Viewers |-> 0]
  /\ seen = [v \in Viewers |-> Nothing]
  /\ told = {}

Watchers(T) == {v \in Viewers : state[v] = "watching" /\ watches[v] \in T}

\* Some of the viewers of the turns in T are too slow, and are cut off.
CutSome(T) ==
  \E lost \in SUBSET Watchers(T) :
    state' = [v \in Viewers |-> IF v \in lost THEN "cut" ELSE state[v]]

Publish(t, s) ==
  /\ phase[t] = "live"
  /\ log' = [log EXCEPT ![t] = Append(@, s)]
  /\ CutSome({t})
  /\ UNCHANGED <<phase, watches, place, seen, told>>

\* Turns end, and possibly one begins, in one step: a new turn ends an old one.
EndAndBegin(ending, beginning) ==
  /\ \A t \in ending : phase[t] = "live"
  /\ \A t \in beginning : phase[t] = "new"
  /\ phase' = [t \in Turns |-> IF t \in ending THEN "over"
                               ELSE IF t \in beginning THEN "live" ELSE phase[t]]
  /\ CutSome(ending)
  /\ UNCHANGED <<log, watches, place, seen, told>>

Join(v, t) ==
  /\ watches[v] = None
  /\ phase[t] = "live"
  /\ watches' = [watches EXCEPT ![v] = t]
  /\ state' = [state EXCEPT ![v] = "watching"]
  /\ place' = [place EXCEPT ![v] = Len(log[t])]
  /\ \/ seen' = [seen EXCEPT ![v] = Upto(t, Len(log[t]))] /\ UNCHANGED told
     \/ told' = told \cup {v} /\ UNCHANGED seen
  /\ UNCHANGED <<phase, log>>

\* The next chunk, never another one.
See(v) ==
  LET t == watches[v]
      n == place[v] + 1
  IN  /\ state[v] = "watching"
      /\ n <= Len(log[t])
      /\ place' = [place EXCEPT ![v] = n]
      /\ seen' = [seen EXCEPT ![v][log[t][n]] = Append(@, n)]
      /\ UNCHANGED <<phase, log, watches, state, told>>

\* "done": only with nothing left to see.
Complete(v) ==
  /\ state[v] = "watching"
  /\ phase[watches[v]] = "over"
  /\ place[v] = Len(log[watches[v]])
  /\ state' = [state EXCEPT ![v] = "complete"]
  /\ UNCHANGED <<phase, log, watches, place, seen, told>>

Leave(v) ==
  /\ state[v] = "watching"
  /\ state' = [state EXCEPT ![v] = "cut"]
  /\ UNCHANGED <<phase, log, watches, place, seen, told>>

BroadcastNext ==
  \/ \E t \in Turns, s \in Streams : Publish(t, s)
  \/ \E ending, beginning \in SUBSET Turns : EndAndBegin(ending, beginning)
  \/ \E v \in Viewers, t \in Turns : Join(v, t)
  \/ \E v \in Viewers : See(v) \/ Complete(v) \/ Leave(v)

BroadcastSpec == BroadcastInit /\ [][BroadcastNext]_broadcastVars
=============================================================================
