-------------------------- MODULE ThreadOwnership --------------------------
(* What shared run admission promises about one thread's stored state: the   *)
(* owners follow each other; only the present one reads and writes, and it   *)
(* writes on top of what it read, so no run's result is lost under another's.*)
EXTENDS Naturals

CONSTANTS Owners, None

VARIABLES owner,  \* the admission that owns the thread
          head,   \* how many writes the thread's state has taken
          seen    \* the head as each owner last read or wrote it

vars == <<owner, head, seen>>

Init == owner = None /\ head = 0 /\ seen = [o \in Owners |-> None]

(* An owner takes the thread at most once, whatever became of the last one. *)
Take(o) == /\ owner # o /\ seen[o] = None
           /\ owner' = o
           /\ UNCHANGED <<head, seen>>

Leave == owner' = None /\ UNCHANGED <<head, seen>>

Read(o) == /\ owner = o
           /\ seen' = [seen EXCEPT ![o] = head]
           /\ UNCHANGED <<owner, head>>

Write(o) == /\ owner = o /\ seen[o] = head
            /\ head' = head + 1
            /\ seen' = [seen EXCEPT ![o] = head + 1]
            /\ UNCHANGED owner

Next == Leave \/ \E o \in Owners : Take(o) \/ Read(o) \/ Write(o)

Spec == Init /\ [][Next]_vars
=============================================================================
