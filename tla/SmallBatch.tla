----------------------------- MODULE SmallBatch -----------------------------
(***************************************************************************)
(* What the SB-QPS variants of sb_qps.cc add to BatchScheduler: the bitmaps *)
(* of the slots of the current batch in which each port is already         *)
(* matched.  Slots from "slot" on still hold the previous batch and are    *)
(* not in the bitmaps.                                                     *)
(***************************************************************************)
EXTENDS BatchScheduler

VARIABLES
    inputMatchBitmap,   \* per input, the slots of this batch it is matched in
    ouputMatchBitmap    \* per output, likewise

bitmaps == <<inputMatchBitmap, ouputMatchBitmap>>
sbVars == <<vars, bitmaps>>

(* An SB-QPS scheduler copies out and clears the slot before it runs QPS. *)
ASSUME SmallBatchDispatchesFirst == DispatchFirst = TRUE
ASSUME PortsAreFinite == IsFiniteSet(Inputs) /\ IsFiniteSet(Outputs)

NoInputBits == [i \in Inputs |-> {}]
NoOutputBits == [o \in Outputs |-> {}]

SmallBatchTypeOK ==
    /\ BatchTypeOK
    /\ inputMatchBitmap \in [Inputs -> SUBSET Slots]
    /\ ouputMatchBitmap \in [Outputs -> SUBSET Slots]

Init ==
    /\ BatchInit
    /\ inputMatchBitmap = NoInputBits
    /\ ouputMatchBitmap = NoOutputBits

(* Mutant: the bitmaps are not reset after the last slot of the batch. *)
MarkMatched_NoReset(prop, at) ==
    /\ inputMatchBitmap' = [i \in Inputs |->
         inputMatchBitmap[i] \cup ({at[i]} \ {None})]
    /\ ouputMatchBitmap' = [o \in Outputs |->
         ouputMatchBitmap[o] \cup ({at[i] : i \in Proposers(prop, o)} \ {None})]

(* The bits of the placed proposals are set; after the last slot of the    *)
(* batch resetBitmap clears them all.                                      *)
MarkMatched(prop, at) ==
    IF slot = BatchSize - 1
    THEN /\ inputMatchBitmap' = NoInputBits
         /\ ouputMatchBitmap' = NoOutputBits
    ELSE /\ inputMatchBitmap' = [i \in Inputs |->
               inputMatchBitmap[i] \cup ({at[i]} \ {None})]
         /\ ouputMatchBitmap' = [o \in Outputs |->
               ouputMatchBitmap[o] \cup ({at[i] : i \in Proposers(prop, o)} \ {None})]

SmallBatchStep == SwitchStep /\ UNCHANGED bitmaps

(* The slots in which the HalfHalf variants accept more than one proposer. *)
SecondHalf == (slot + 1) * 2 > BatchSize

Reset ==
    /\ BatchReset
    /\ inputMatchBitmap' = NoInputBits
    /\ ouputMatchBitmap' = NoOutputBits

-----------------------------------------------------------------------------
(* The bitmaps say exactly which ports the schedules of the current batch   *)
(* match: a bit missing would let a placement overwrite another one, a bit  *)
(* too many would leave a slot empty for good.                              *)
BitmapsAgree ==
    /\ \A i \in Inputs : inputMatchBitmap[i] =
         { f \in 0 .. slot - 1 : schedules[f][i] # None }
    /\ \A o \in Outputs : ouputMatchBitmap[o] =
         { f \in 0 .. slot - 1 : \E i \in Inputs : schedules[f][i] = o }

(* The current slot of an output goes to the longest of its proposers: to   *)
(* no input while another one, with packets for this output only, so that   *)
(* it must have proposed to it, has more of them.                           *)
CurrentSlotToLargest ==
    LET voq == Enqueue(VOQLength, arrivals)
        MustPropose(j, o) == \A p \in Outputs : voq[j][p] > 0 <=> p = o
    IN  phase = "schedule" /\ phase' = "write_outputs" =>
          \A i, j \in Inputs, o \in Outputs :
            schedules'[slot][i] = o /\ MustPropose(j, o) => voq[j][o] <= voq[i][o]

LargestGetsCurrentSlot == [][CurrentSlotToLargest]_vars
=============================================================================
