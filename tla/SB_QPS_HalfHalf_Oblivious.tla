--------------------- MODULE SB_QPS_HalfHalf_Oblivious ---------------------
(***************************************************************************)
(* SB_QPS_HalfHalf_Oblivious (sb_qps.cc): as SB_QPS_Basic, but in the      *)
(* second half of a batch each output also accepts the second longest      *)
(* proposer, for the latest earlier slot of the batch in which both ports  *)
(* are still free.                                                         *)
(***************************************************************************)
EXTENDS SmallBatch

(* outAccepts[out]: the longest and the second longest proposer, if any.   *)
(* The shuffle decides among equals.                                       *)
Accepts(prop, voq) ==
    { acc \in [Outputs -> (Inputs \cup {None}) \X (Inputs \cup {None})] :
        \A o \in Outputs :
          LET first == acc[o][1]
              others == Proposers(prop, o) \ {first}
          IN  /\ IF Proposers(prop, o) = {} THEN first = None
                 ELSE first \in Longest(Proposers(prop, o), voq, o)
              /\ IF others = {} THEN acc[o][2] = None
                 ELSE acc[o][2] \in Longest(others, voq, o) }

(* Mutant: a slot that still belongs to the last batch is taken for an     *)
(* earlier slot of this one.                                                *)
FreeEarlierSlots_LastBatch(i, o) ==
    { f \in Slots \ {slot} : f \notin inputMatchBitmap[i] \cup ouputMatchBitmap[o] }

(* The earlier slots of the batch in which both ports are free.            *)
FreeEarlierSlots(i, o) ==
    { f \in 0 .. slot - 1 : f \notin inputMatchBitmap[i] \cup ouputMatchBitmap[o] }

(* The latest of them. *)
FirstFit(i, o) ==
    IF FreeEarlierSlots(i, o) = {} THEN None
    ELSE CHOOSE f \in FreeEarlierSlots(i, o) :
           \A g \in FreeEarlierSlots(i, o) : g <= f

PlaceAccepted(acc) ==
    [i \in Inputs |->
        IF \E o \in Outputs : acc[o][1] = i THEN slot
        ELSE IF SecondHalf /\ \E o \in Outputs : acc[o][2] = i
             THEN FirstFit(i, CHOOSE o \in Outputs : acc[o][2] = i)
             ELSE None]

Schedule ==
    LET voq == Arrived
    IN  \E prop \in Proposals(voq) : \E acc \in Accepts(prop, voq) :
          /\ SchedulePlacing(prop, PlaceAccepted(acc))
          /\ MarkMatched(prop, PlaceAccepted(acc))

Next == SmallBatchStep \/ Schedule \/ Reset

Spec == Init /\ [][Next]_sbVars
=============================================================================
