----------------------- MODULE Linear_Priority_Queue -----------------------
(***************************************************************************)
(* Linear_Priority_Queue (priority_queue.cpp): an array of a fixed number  *)
(* of entries, each a value and its priority, the greatest priority first; *)
(* null_symbol, -1, is the priority of an entry not in use.                *)
(***************************************************************************)
EXTENDS Integers, Sequences

Unused(null) == <<null, -1>>

EmptyQueue(capacity, null) == [k \in 1 .. capacity |-> Unused(null)]

(* Where an entry of priority pri goes: behind all that have no less. *)
PlaceFor(queue, pri) ==
    CHOOSE k \in 1 .. Len(queue) + 1 :
        /\ k <= Len(queue) => queue[k][2] < pri
        /\ \A l \in 1 .. k - 1 : queue[l][2] >= pri

(* insert.  The entries behind move back by one, but only as far as there  *)
(* are entries in use to overwrite: into an unused entry nothing is moved, *)
(* so that the last entry is lost even when the queue is not full.         *)
Insert(queue, val, pri) ==
    LET at == PlaceFor(queue, pri)
    IN  [k \in 1 .. Len(queue) |->
            CASE k < at -> queue[k]
              [] k = at -> <<val, pri>>
              [] OTHER  -> IF queue[k][2] # -1 THEN queue[k - 1] ELSE queue[k]]
=============================================================================
