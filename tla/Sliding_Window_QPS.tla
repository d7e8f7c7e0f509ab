------------------------- MODULE Sliding_Window_QPS -------------------------
(***************************************************************************)
(* Sliding_Window_QPS (sliding_window_qps.cpp).  The cycle of slots is a   *)
(* window: a slot that is handed out is at once free again, one cycle      *)
(* later, and every accepted proposal is placed in the first slot of the   *)
(* window that is free for both ports.  Besides the schedules the class    *)
(* keeps the slots every port is matched in and, separately, how many      *)
(* slots it has left.  DispatchFirst is the flag "batching": with it only  *)
(* slots already handed out in this cycle are filled.                      *)
(***************************************************************************)
EXTENDS BatchScheduler

CONSTANT MaxAccepts     \* maxAccepts: proposals an output considers per slot

ASSUME MaxAcceptsPos == MaxAccepts \in Nat \ {0}

VARIABLE window     \* the match bitmaps and availability counters of the ports

swVars == <<vars, window>>

Windows ==
    [inputMatchBitmap : [Inputs -> SUBSET Slots],
     outputMatchBitmap : [Outputs -> SUBSET Slots],
     inputAvailability : [Inputs -> Int],
     outputAvailability : [Outputs -> Int]]

WindowTypeOK == BatchTypeOK /\ window \in Windows

FreeWindow ==
    [inputMatchBitmap |-> [i \in Inputs |-> {}],
     outputMatchBitmap |-> [o \in Outputs |-> {}],
     inputAvailability |-> [i \in Inputs |-> BatchSize],
     outputAvailability |-> [o \in Outputs |-> BatchSize]]

Init == BatchInit /\ window = FreeWindow

Matched(sched, f, o) == { i \in Inputs : sched[f][i] = o }

(* Mutant: the availability of what was handed out is not given back. *)
Dispatched_KeepsCounters(w, sched, t) ==
    [inputMatchBitmap |-> [i \in Inputs |->
        w.inputMatchBitmap[i] \ (IF sched[t][i] # None THEN {t} ELSE {})],
     outputMatchBitmap |-> [o \in Outputs |->
        w.outputMatchBitmap[o] \ (IF Matched(sched, t, o) # {} THEN {t} ELSE {})],
     inputAvailability |-> w.inputAvailability,
     outputAvailability |-> w.outputAvailability]

(* The window once slot t of sched has been handed out: what it matched is *)
(* free again.                                                             *)
Dispatched(w, sched, t) ==
    [inputMatchBitmap |-> [i \in Inputs |->
        w.inputMatchBitmap[i] \ (IF sched[t][i] # None THEN {t} ELSE {})],
     outputMatchBitmap |-> [o \in Outputs |->
        w.outputMatchBitmap[o] \ (IF Matched(sched, t, o) # {} THEN {t} ELSE {})],
     inputAvailability |-> [i \in Inputs |->
        w.inputAvailability[i] + (IF sched[t][i] # None THEN 1 ELSE 0)],
     outputAvailability |-> [o \in Outputs |->
        w.outputAvailability[o] + Cardinality(Matched(sched, t, o))]]

(* The window once the placed proposals have taken their slots. *)
Reserved(w, prop, at) ==
    LET placed(o) == { i \in Proposers(prop, o) : at[i] # None }
    IN  [inputMatchBitmap |-> [i \in Inputs |->
            w.inputMatchBitmap[i] \cup ({at[i]} \ {None})],
         outputMatchBitmap |-> [o \in Outputs |->
            w.outputMatchBitmap[o] \cup { at[i] : i \in placed(o) }],
         inputAvailability |-> [i \in Inputs |->
            w.inputAvailability[i] - (IF at[i] # None THEN 1 ELSE 0)],
         outputAvailability |-> [o \in Outputs |->
            w.outputAvailability[o] - Cardinality(placed(o))]]

(* Every output considers the first MaxAccepts proposals of the shuffled   *)
(* inputs.                                                                 *)
Accepts(prop) ==
    { acc \in SUBSET { i \in Inputs : prop[i] # None } :
        \A o \in Outputs :
          LET n == Cardinality(Proposers(prop, o))
          IN  Cardinality(acc \cap Proposers(prop, o)) =
                IF n < MaxAccepts THEN n ELSE MaxAccepts }

(* Mutant: the generator stops one slot early. *)
Reach_BeforeSlot == IF DispatchFirst THEN 0 .. slot - 1 ELSE Slots

(* Circular_Generator: the slots tried, and the order they are tried in.   *)
Reach == IF DispatchFirst THEN 0 .. slot ELSE Slots
Offset(f) == IF DispatchFirst THEN f ELSE (f + BatchSize - slot) % BatchSize

(* First fit, given the slots that earlier proposals to o have just taken. *)
FirstFit(w, i, o, taken) ==
    LET free == { f \in Reach : f \notin
                    w.inputMatchBitmap[i] \cup w.outputMatchBitmap[o] \cup taken }
    IN  IF \/ w.outputAvailability[o] = Cardinality(taken)
           \/ w.inputAvailability[i] = 0
           \/ free = {}
        THEN None
        ELSE CHOOSE f \in free : \A g \in free : Offset(f) <= Offset(g)

IsFirstFit(w, prop, acc, rank, at) ==
    \A i \in Inputs : at[i] =
        IF i \in acc
        THEN FirstFit(w, i, prop[i], Taken(prop, acc, rank, at, i))
        ELSE None

-----------------------------------------------------------------------------
(* The window that placements are made in and, given those, the next one. *)
OpenWindow ==
    IF DispatchFirst THEN Dispatched(window, schedules, slot) ELSE window

NextWindow(prop, at) ==
    LET r == Reserved(OpenWindow, prop, at)
    IN  IF DispatchFirst THEN r
        ELSE Dispatched(r, Place(Open, prop, at), slot)

Schedule ==
    LET voq == Arrived
    IN  \E prop \in Proposals(voq) :
        \E acc \in Accepts(prop), rank \in Orders(prop, voq), at \in Placements :
          /\ IsFirstFit(OpenWindow, prop, acc, rank, at)
          /\ SchedulePlacing(prop, at)
          /\ window' = NextWindow(prop, at)

WindowStep == SwitchStep /\ UNCHANGED window

(* Mutant: reset() leaves the counters at zero, as resetBitmap does. *)
Reset_NoAvailability ==
    /\ BatchReset
    /\ window' = [FreeWindow EXCEPT !.inputAvailability = [i \in Inputs |-> 0],
                                    !.outputAvailability = [o \in Outputs |-> 0]]

Reset == BatchReset /\ window' = FreeWindow

Next == WindowStep \/ Schedule \/ Reset

Spec == Init /\ [][Next]_swVars

-----------------------------------------------------------------------------
(* The bitmaps and the counters are two more accounts of the schedules, and *)
(* agree with them: a counter too low would refuse a port although it has a *)
(* free slot, for ever.                                                     *)
WindowAgrees ==
    /\ \A i \in Inputs :
         LET busy == { f \in Slots : schedules[f][i] # None }
         IN  /\ window.inputMatchBitmap[i] = busy
             /\ window.inputAvailability[i] = BatchSize - Cardinality(busy)
    /\ \A o \in Outputs :
         LET busy == { f \in Slots : Matched(schedules, f, o) # {} }
         IN  /\ window.outputMatchBitmap[o] = busy
             /\ window.outputAvailability[o] = BatchSize - Cardinality(busy)

(* No room is wasted: with batching the slots up to the current one are to  *)
(* be used, without it all.  An input with packets for one output only is   *)
(* given a slot in this very call if the output has no more inputs to       *)
(* choose from than it accepts, and there are at least as many slots free   *)
(* for both ports: not a counter of either port, nor the end of the search, *)
(* nor a rival may keep it from one.                                        *)
RoomUsed ==
    LET voq == Arrived
        asking(o) == { j \in Inputs : voq[j][o] > 0 }
        room(i, o) == { f \in IF DispatchFirst THEN 0 .. slot ELSE Slots :
                          Open[f][i] = None /\ Matched(Open, f, o) = {} }
    IN  phase = "schedule" /\ phase' = "write_outputs" =>
          \A i \in Inputs, o \in Outputs :
              /\ \A p \in Outputs : voq[i][p] > 0 <=> p = o
              /\ Cardinality(asking(o)) <= MaxAccepts
              /\ Cardinality(asking(o)) <= Cardinality(room(i, o))
              => VOQLength'[i][o] < voq[i][o]

RoomIsUsed == [][RoomUsed]_vars
=============================================================================
