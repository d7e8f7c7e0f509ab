--------------------------- MODULE SB_QPS_proofs ---------------------------
(***************************************************************************)
(* Proofs about the schedulers of sb_qps.cc, for any ports and any size of *)
(* the batch.  SB_QPS_Basic, SB_QPS_HalfHalf_Oblivious and                 *)
(* SB_QPS_Conditional: their bitmaps are right, they implement the         *)
(* abstract batch scheduler, and so inherit what is proved of it; and no   *)
(* conditional approval is for a proposal that has been served.  The six   *)
(* classes of SB_QPS_Availability: what their bitmaps and counters are an  *)
(* account of, that no packet is counted twice, and that those which do    *)
(* not overwrite implement the abstract batch scheduler as well.           *)
(***************************************************************************)
EXTENDS SB_QPS_HalfHalf_Oblivious, SB_QPS_Availability, SB_QPS_Conditional,
        BatchScheduler_proofs, InductionLemmas

Basic == INSTANCE SB_QPS_Basic

(* The inductive invariant of Basic and Oblivious: the rest of              *)
(* SmallBatchTypeOK follows from what BitmapsAgree says the bitmaps are.    *)
SBInv ==
    /\ BatchTypeOK
    /\ inputMatchBitmap \in [Inputs -> SUBSET Slots]
    /\ ouputMatchBitmap \in [Outputs -> SUBSET Slots]
    /\ BitmapsAgree

-----------------------------------------------------------------------------
(* What both classes have in common.                                       *)

(* A placement that QPS may make in the current batch. *)
InBatch(at) == \A i \in Inputs : at[i] \in 0 .. slot \cup {None}

LEMMA SBInit == Init => SBInv /\ BatchInit
<1> SUFFICES ASSUME Init PROVE SBInv /\ BatchInit
  OBVIOUS
<1>1. BatchInit
  BY DEF Init
<1>2. slot = 0 /\ 0 .. slot - 1 = {}
  BY <1>1 DEF BatchInit
<1>3. BitmapsAgree
  BY <1>2 DEF Init, BitmapsAgree, NoInputBits, NoOutputBits
<1>4. QED
  BY <1>1, <1>3, TypeInit DEF Init, SBInv, NoInputBits, NoOutputBits

(* The steps that are not the scheduler's leave the bitmaps right. *)
LEMMA SBSwitchStep == SBInv /\ SmallBatchStep => SBInv' /\ SwitchStep
<1> SUFFICES ASSUME SBInv, SmallBatchStep PROVE SBInv' /\ SwitchStep
  OBVIOUS
<1>1. SwitchStep /\ UNCHANGED bitmaps
  BY DEF SmallBatchStep
<1>2. BatchTypeOK'
  BY <1>1, TypeStep DEF SBInv, BatchNext
<1>3. slot' = slot /\ schedules' = schedules
  BY <1>1 DEF SwitchStep, batchVars
<1>4. QED
  BY <1>1, <1>2, <1>3 DEF SBInv, BitmapsAgree, bitmaps

LEMMA SBReset == SBInv /\ Reset => SBInv' /\ BatchReset
<1> SUFFICES ASSUME SBInv, Reset PROVE SBInv' /\ BatchReset
  OBVIOUS
<1>1. BatchReset
  BY DEF Reset
<1>2. BatchTypeOK'
  BY <1>1, TypeStep DEF SBInv, BatchNext
<1>3. slot' = 0 /\ 0 .. slot' - 1 = {}
  BY <1>1 DEF BatchReset
<1>4. BitmapsAgree'
  BY <1>3 DEF Reset, BitmapsAgree, NoInputBits, NoOutputBits
<1>5. QED
  BY <1>1, <1>2, <1>4 DEF Reset, SBInv, NoInputBits, NoOutputBits

(* A call of schedule() that places fit proposals in the current batch and  *)
(* marks what it places keeps the bitmaps right.                            *)
LEMMA SBPlacing ==
    ASSUME SBInv, NEW prop \in Assignments, NEW at \in Placements,
           Fit(Open, Arrived, prop, at), InBatch(at),
           SchedulePlacing(prop, at), MarkMatched(prop, at)
    PROVE  SBInv' /\ BatchSchedule
<1> DEFINE placed == Place(Open, prop, at)
<1>1. BatchSchedule
  BY PlacingSchedules DEF SBInv
<1>2. BatchTypeOK'
  BY <1>1, TypeStep DEF SBInv, BatchNext
<1>3. schedules \in Schedules /\ slot \in Slots /\ BatchSize \in Nat \ {0}
  BY BatchSizePos DEF SBInv, BatchTypeOK, Schedules
<1>4. schedules' = placed /\ slot' = NextSlot
  BY SmallBatchDispatchesFirst DEF SchedulePlacing, ScheduleBatch, Kept
<1>5. CASE slot = BatchSize - 1
  <2>1. 0 .. slot' - 1 = {}
    BY <1>4, <1>5 DEF NextSlot
  <2>2. QED
    BY <1>1, <1>2, <1>5, <2>1 DEF SBInv, BitmapsAgree, MarkMatched, NoInputBits, NoOutputBits
<1>6. CASE slot # BatchSize - 1
  <2>1. slot' = slot + 1 /\ 0 .. slot' - 1 = 0 .. slot /\ 0 .. slot \subseteq Slots
    BY <1>3, <1>4, <1>6 DEF NextSlot, Slots
  <2>2. \A f \in 0 .. slot, i \in Inputs :
          placed[f][i] = IF at[i] = f THEN prop[i]
                         ELSE IF f = slot THEN None ELSE schedules[f][i]
    BY <1>3, <2>1, SmallBatchDispatchesFirst DEF Place, Open, Cleared, NoMatch, Schedules
  <2>3. \A f \in 0 .. slot : f # None
    BY NoneIsNoPort
  <2>4. \A i \in Inputs : inputMatchBitmap'[i] = { f \in 0 .. slot : placed[f][i] # None }
    <3> SUFFICES ASSUME NEW i \in Inputs
                 PROVE  inputMatchBitmap'[i] = { f \in 0 .. slot : placed[f][i] # None }
      OBVIOUS
    <3>1. inputMatchBitmap'[i] = inputMatchBitmap[i] \cup ({at[i]} \ {None})
      BY <1>6 DEF MarkMatched
    <3>2. inputMatchBitmap[i] = { f \in 0 .. slot - 1 : schedules[f][i] # None }
      BY DEF SBInv, BitmapsAgree
    <3>3. at[i] \in 0 .. slot \cup {None} /\ (at[i] # None => prop[i] # None)
      BY DEF InBatch, Fit
    <3> HIDE DEF placed
    <3>4. QED
      BY <1>3, <2>2, <2>3, <3>1, <3>2, <3>3 DEF Slots
  <2>5. \A o \in Outputs : ouputMatchBitmap'[o] =
          { f \in 0 .. slot : \E i \in Inputs : placed[f][i] = o }
    <3> SUFFICES ASSUME NEW o \in Outputs
                 PROVE  ouputMatchBitmap'[o] =
                          { f \in 0 .. slot : \E i \in Inputs : placed[f][i] = o }
      OBVIOUS
    <3>1. ouputMatchBitmap'[o] =
            ouputMatchBitmap[o] \cup ({at[i] : i \in Proposers(prop, o)} \ {None})
      BY <1>6 DEF MarkMatched
    <3>2. ouputMatchBitmap[o] =
            { f \in 0 .. slot - 1 : \E i \in Inputs : schedules[f][i] = o }
      BY DEF SBInv, BitmapsAgree
    <3>3. \A i \in Inputs : at[i] \in 0 .. slot \cup {None}
      BY DEF InBatch
    <3>4. o # None
      BY NoneIsNoPort
    <3>5. \A f \in 0 .. slot - 1, i \in Inputs : at[i] = f => schedules[f][i] = None
      BY <1>3, SmallBatchDispatchesFirst, <2>1, <2>3
         DEF Fit, Open, Cleared, NoMatch, Schedules, Slots
    <3> HIDE DEF placed
    <3>6. QED
      BY <1>3, <2>2, <2>3, <3>1, <3>2, <3>3, <3>4, <3>5 DEF Slots, Proposers
  <2>6. BitmapsAgree'
    <3> HIDE DEF placed
    <3>1. schedules' = placed /\ 0 .. slot' - 1 = 0 .. slot
      BY <1>4, <2>1
    <3>2. \A i \in Inputs : inputMatchBitmap'[i] =
            { f \in 0 .. slot' - 1 : schedules'[f][i] # None }
      BY <2>4, <3>1, Zenon
    <3>3. \A o \in Outputs : ouputMatchBitmap'[o] =
            { f \in 0 .. slot' - 1 : \E i \in Inputs : schedules'[f][i] = o }
      BY <2>5, <3>1, Zenon
    <3>4. QED
      BY <3>2, <3>3, Zenon DEF BitmapsAgree
  <2>7. /\ inputMatchBitmap' \in [Inputs -> SUBSET Slots]
        /\ ouputMatchBitmap' \in [Outputs -> SUBSET Slots]
    BY <1>6, <2>1, <2>4, <2>5 DEF MarkMatched
  <2>8. QED
    BY <1>1, <1>2, <2>6, <2>7 DEF SBInv
<1>7. QED
  BY <1>1, <1>5, <1>6

-----------------------------------------------------------------------------
(* The assumption of LargestGetsCurrentSlot: an input whose packets are all *)
(* for one output has proposed to it.                                       *)
LEMMA OnlyChoice ==
    ASSUME NEW voq \in QueueLengths, NEW prop \in Proposals(voq),
           NEW j \in Inputs, NEW o \in Outputs,
           \A p \in Outputs : voq[j][p] > 0 <=> p = o
    PROVE  j \in Proposers(prop, o)
BY DEF Proposals, HasPackets, Assignments, Proposers

(* LargestGetsCurrentSlot asks nothing of the steps of the switch.          *)
LEMMA OthersGiveNoSlot == SwitchStep \/ BatchReset => CurrentSlotToLargest
BY DEF SwitchStep, ReadInputs, WriteOutputs, BatchReset, SwitchReset, CurrentSlotToLargest

LEMMA GivesCurrentSlot ==
    ASSUME SBInv, NEW prop \in Proposals(Arrived), NEW at \in Placements,
           SchedulePlacing(prop, at),
           \A i \in Inputs : at[i] = slot =>
              /\ prop[i] # None
              /\ i \in Longest(Proposers(prop, prop[i]), Arrived, prop[i])
    PROVE  CurrentSlotToLargest
<1>1. /\ schedules \in Schedules /\ slot \in Slots
      /\ VOQLength \in QueueLengths /\ arrivals \in Assignments
  BY DEF SBInv, BatchTypeOK, SwitchTypeOK, Schedules
<1>2. Arrived \in QueueLengths
  BY <1>1, EnqueueType DEF Arrived
<1> SUFFICES ASSUME NEW i \in Inputs, NEW j \in Inputs, NEW o \in Outputs,
                    schedules'[slot][i] = o,
                    \A p \in Outputs : Arrived[j][p] > 0 <=> p = o
             PROVE  Arrived[j][o] <= Arrived[i][o]
  BY DEF CurrentSlotToLargest, Arrived
<1>3. schedules' = Place(Open, prop, at)
  BY SmallBatchDispatchesFirst DEF SchedulePlacing, ScheduleBatch, Kept
<1>4. schedules'[slot][i] = IF at[i] = slot THEN prop[i] ELSE None
  BY <1>1, <1>3, SmallBatchDispatchesFirst DEF Place, Open, Cleared, NoMatch, Schedules
<1>5. at[i] = slot /\ prop[i] = o
  BY <1>4, NoneIsNoPort
<1>6. j \in Proposers(prop, o)
  BY <1>2, OnlyChoice
<1>7. QED
  BY <1>5, <1>6 DEF Longest

-----------------------------------------------------------------------------
(* SB_QPS_HalfHalf_Oblivious.                                              *)

(* The slot that first fit returns is an earlier one of the batch that is   *)
(* free on both sides, if there is any.                                     *)
LEMMA FirstFitFree ==
    ASSUME SBInv, NEW i \in Inputs, NEW o \in Outputs
    PROVE  FirstFit(i, o) \in FreeEarlierSlots(i, o) \cup {None}
<1>1. slot \in Nat
  BY BatchSizePos DEF SBInv, BatchTypeOK, Slots
<1>2. CASE FreeEarlierSlots(i, o) # {}
  <2>1. \E f \in FreeEarlierSlots(i, o) : \A g \in FreeEarlierSlots(i, o) : g <= f
    <3>1. FreeEarlierSlots(i, o) \in SUBSET (0 .. slot)
      BY <1>1 DEF FreeEarlierSlots
    <3>2. QED
      BY <1>1, <1>2, <3>1, GreatestNat
  <2>2. QED
    BY <1>2, <2>1 DEF FirstFit
<1>3. QED
  BY <1>2 DEF FirstFit

(* Every placement of this class is fit: in the current slot, which nothing *)
(* has been placed in yet, one per output; in an earlier slot, one that the *)
(* bitmaps, being right, call free.                                         *)
LEMMA ObliviousFit ==
    ASSUME SBInv, NEW prop \in Proposals(Arrived), NEW acc \in Accepts(prop, Arrived)
    PROVE  LET at == PlaceAccepted(acc)
           IN  /\ at \in Placements /\ InBatch(at) /\ Fit(Open, Arrived, prop, at)
               /\ \A i \in Inputs : at[i] = slot =>
                    /\ prop[i] # None
                    /\ i \in Longest(Proposers(prop, prop[i]), Arrived, prop[i])
<1> DEFINE at == PlaceAccepted(acc)
           First(i) == acc[prop[i]][1] = i
           Second(i) == acc[prop[i]][2] = i
<1>1. schedules \in Schedules /\ slot \in Slots /\ prop \in Assignments
  BY DEF SBInv, BatchTypeOK, Schedules, Proposals
<1>2. slot \in Nat /\ 0 .. slot \subseteq Slots /\ None \notin 0 .. slot
  BY <1>1, NoneIsNoPort, BatchSizePos DEF Slots
<1>3. \A o \in Outputs, i \in Inputs : acc[o][1] = i =>
        prop[i] = o /\ i \in Longest(Proposers(prop, o), Arrived, o)
  BY NoneIsNoPort DEF Accepts, Longest, Proposers
<1>4. \A o \in Outputs, i \in Inputs : acc[o][2] = i => prop[i] = o
  BY NoneIsNoPort DEF Accepts, Longest, Proposers
<1>5. ASSUME NEW i \in Inputs
      PROVE  \/ prop[i] \in Outputs /\ at[i] = slot /\ First(i)
             \/ prop[i] \in Outputs /\ at[i] \in FreeEarlierSlots(i, prop[i]) /\ Second(i)
             \/ at[i] = None
  <2>1. CASE \E o \in Outputs : acc[o][1] = i
    BY <1>3, <2>1 DEF PlaceAccepted
  <2>2. CASE /\ ~ \E o \in Outputs : acc[o][1] = i
             /\ SecondHalf /\ \E o \in Outputs : acc[o][2] = i
    <3>1. (CHOOSE o \in Outputs : acc[o][2] = i) = prop[i] /\ prop[i] \in Outputs /\ Second(i)
      BY <1>4, <2>2
    <3>2. at[i] = FirstFit(i, prop[i])
      BY <2>2, <3>1 DEF PlaceAccepted
    <3>3. QED
      BY <3>1, <3>2, FirstFitFree
  <2>3. CASE /\ ~ \E o \in Outputs : acc[o][1] = i
             /\ ~ (SecondHalf /\ \E o \in Outputs : acc[o][2] = i)
    BY <2>3 DEF PlaceAccepted
  <2>4. QED
    BY <2>1, <2>2, <2>3
<1>6. \A i \in Inputs : FreeEarlierSlots(i, prop[i]) \subseteq 0 .. slot - 1
  BY DEF FreeEarlierSlots
<1>7. at \in Placements /\ InBatch(at)
  <2>1. \A i \in Inputs : at[i] \in 0 .. slot \cup {None}
    BY <1>2, <1>5, <1>6
  <2>2. at = [i \in Inputs |-> at[i]]
    BY DEF PlaceAccepted
  <2>3. QED
    BY <1>2, <2>1, <2>2 DEF Placements, InBatch
<1>8. Fit(Open, Arrived, prop, at)
  <2> SUFFICES ASSUME NEW i \in Inputs, at[i] # None
               PROVE  /\ prop[i] # None /\ Arrived[i][prop[i]] > 0
                      /\ Open[at[i]][i] = None
                      /\ \A j \in Inputs :
                           /\ Open[at[i]][j] # prop[i]
                           /\ at[j] = at[i] /\ prop[j] = prop[i] => i = j
    BY DEF Fit
  <2> HIDE DEF at
  <2>1. prop[i] \in Outputs /\ prop[i] # None /\ Arrived[i][prop[i]] > 0
    <3>1. prop[i] \in Outputs /\ prop[i] # None
      BY <1>5, NoneIsNoPort
    <3>2. QED
      BY <3>1 DEF Proposals
  <2>2. ASSUME NEW j \in Inputs, at[j] = at[i], prop[j] = prop[i] PROVE i = j
    <3>1. CASE at[i] = slot
      <4>1. First(i) /\ First(j)
        BY <1>2, <1>5, <1>6, <2>2, <3>1
      <4>2. QED
        BY <2>2, <4>1
    <3>2. CASE at[i] # slot
      <4>1. Second(i) /\ Second(j)
        BY <1>5, <2>2, <3>2
      <4>2. QED
        BY <2>2, <4>1
    <3>3. QED
      BY <3>1, <3>2
  <2>3. CASE at[i] = slot
    <3>1. \A j \in Inputs : Open[slot][j] = None
      BY <1>1, SmallBatchDispatchesFirst DEF Open, Cleared, NoMatch, Schedules
    <3>2. QED
      BY <2>1, <2>2, <2>3, <3>1
  <2>4. CASE at[i] # slot
    <3>1. at[i] \in FreeEarlierSlots(i, prop[i])
      BY <1>5, <2>4
    <3>2. at[i] \in 0 .. slot - 1
      BY <1>6, <3>1
    <3>3. Open[at[i]] = schedules[at[i]]
      BY <1>1, <1>2, <3>2, SmallBatchDispatchesFirst DEF Open, Cleared, Schedules
    <3>4. schedules[at[i]][i] = None /\ \A j \in Inputs : schedules[at[i]][j] # prop[i]
      BY <2>1, <3>1, <3>2 DEF SBInv, BitmapsAgree, FreeEarlierSlots
    <3>5. QED
      BY <2>1, <2>2, <3>3, <3>4
  <2>5. QED
    BY <2>3, <2>4
<1>9. ASSUME NEW i \in Inputs, at[i] = slot
      PROVE  prop[i] # None /\ i \in Longest(Proposers(prop, prop[i]), Arrived, prop[i])
  BY <1>2, <1>3, <1>5, <1>6, <1>9, NoneIsNoPort
<1>10. QED
  BY <1>7, <1>8, <1>9

LEMMA ObliviousSchedule ==
    ASSUME SBInv, Schedule PROVE SBInv' /\ BatchSchedule /\ CurrentSlotToLargest
<1>1. PICK prop \in Proposals(Arrived) : \E acc \in Accepts(prop, Arrived) :
        SchedulePlacing(prop, PlaceAccepted(acc)) /\ MarkMatched(prop, PlaceAccepted(acc))
  BY DEF Schedule
<1>2. PICK acc \in Accepts(prop, Arrived) :
        SchedulePlacing(prop, PlaceAccepted(acc)) /\ MarkMatched(prop, PlaceAccepted(acc))
  BY <1>1
<1>3. prop \in Assignments
  BY DEF Proposals
<1>4. QED
  BY <1>2, <1>3, ObliviousFit, SBPlacing, GivesCurrentSlot

LEMMA ObliviousNext ==
    ASSUME SBInv, [Next]_sbVars
    PROVE  SBInv' /\ [BatchNext]_vars /\ [CurrentSlotToLargest]_vars
<1>1. CASE SmallBatchStep
  BY <1>1, SBSwitchStep, OthersGiveNoSlot DEF BatchNext
<1>2. CASE Schedule
  BY <1>2, ObliviousSchedule DEF BatchNext
<1>3. CASE Reset
  BY <1>3, SBReset, OthersGiveNoSlot DEF BatchNext
<1>4. CASE UNCHANGED sbVars
  BY <1>4 DEF sbVars, bitmaps, vars, switchVars, batchVars, SBInv, BatchTypeOK, SwitchTypeOK,
       BitmapsAgree
<1>5. QED
  BY <1>1, <1>2, <1>3, <1>4 DEF Next

(* No bit is missing and none is set too many, in every state.              *)
THEOREM ObliviousBitmapsAgree == Spec => []BitmapsAgree
<1>1. SBInv => BitmapsAgree
  BY DEF SBInv
<1>2. QED
  BY <1>1, SBInit, ObliviousNext, PTL DEF Spec

(* The class is a batch scheduler, so that its VOQ lengths account for the  *)
(* packets of the switch, its slots are matchings, no placement is lost and *)
(* every grant finds a packet.                                              *)
THEOREM ObliviousImplementsBatch == Spec => BatchSpec
BY SBInit, ObliviousNext, PTL DEF Spec, BatchSpec

(* The current slot of an output goes to the longest of its proposers.      *)
THEOREM ObliviousGivesLargest == Spec => LargestGetsCurrentSlot
BY SBInit, ObliviousNext, PTL DEF Spec, LargestGetsCurrentSlot

-----------------------------------------------------------------------------
(* SB_QPS_Basic.  What its module and this one both extend is the same.     *)

LEMMA BasicInit == Basic!Init <=> Init
BY DEF Init, Basic!Init, BatchInit, Basic!BatchInit, SwitchInit,
       Basic!SwitchInit, EmptyQueues, Basic!EmptyQueues, NoMatch,
       Basic!NoMatch, Slots, Basic!Slots, NoInputBits, Basic!NoInputBits,
       NoOutputBits, Basic!NoOutputBits

LEMMA BasicOthers ==
    /\ Basic!SmallBatchStep <=> SmallBatchStep
    /\ Basic!Reset <=> Reset
    /\ UNCHANGED Basic!sbVars <=> UNCHANGED sbVars
<1>1. Basic!SmallBatchStep <=> SmallBatchStep
  BY DEF SmallBatchStep, Basic!SmallBatchStep, SwitchStep, Basic!SwitchStep,
         ReadInputs, Basic!ReadInputs, WriteOutputs, Basic!WriteOutputs,
         Assignments, Basic!Assignments, Enqueue, Basic!Enqueue, Dequeue,
         Basic!Dequeue, NoMatch, Basic!NoMatch, batchVars, Basic!batchVars,
         bitmaps, Basic!bitmaps
<1>2. Basic!Reset <=> Reset
  BY DEF Reset, Basic!Reset, BatchReset, Basic!BatchReset, SwitchReset,
         Basic!SwitchReset, EmptyQueues, Basic!EmptyQueues, NoMatch,
         Basic!NoMatch, Slots, Basic!Slots, NoInputBits, Basic!NoInputBits,
         NoOutputBits, Basic!NoOutputBits
<1>3. UNCHANGED Basic!sbVars <=> UNCHANGED sbVars
  BY DEF sbVars, Basic!sbVars, vars, Basic!vars, switchVars, Basic!switchVars,
         batchVars, Basic!batchVars, bitmaps, Basic!bitmaps
<1>4. QED
  BY <1>1, <1>2, <1>3

LEMMA BasicPlacing ==
    ASSUME NEW prop, NEW at
    PROVE  /\ Basic!SchedulePlacing(prop, at) <=> SchedulePlacing(prop, at)
           /\ Basic!MarkMatched(prop, at) <=> MarkMatched(prop, at)
<1>1. Basic!SchedulePlacing(prop, at) <=> SchedulePlacing(prop, at)
  BY DEF SchedulePlacing, Basic!SchedulePlacing, ScheduleBatch,
         Basic!ScheduleBatch, ScheduleWith, Basic!ScheduleWith, Place,
         Basic!Place, Open, Basic!Open, Cleared, Basic!Cleared, Kept,
         Basic!Kept, HandedOut, Basic!HandedOut, VirtuallyDepart,
         Basic!VirtuallyDepart, Arrived, Basic!Arrived, Enqueue, Basic!Enqueue,
         NextSlot, Basic!NextSlot, NoMatch, Basic!NoMatch, Slots, Basic!Slots
<1>2. Basic!MarkMatched(prop, at) <=> MarkMatched(prop, at)
  BY DEF MarkMatched, Basic!MarkMatched, NoInputBits, Basic!NoInputBits,
         NoOutputBits, Basic!NoOutputBits, Proposers, Basic!Proposers
<1>3. QED
  BY <1>1, <1>2

LEMMA BasicProposals ==
    /\ Basic!Arrived = Arrived
    /\ Basic!Proposals(Arrived) = Proposals(Arrived)
<1>1. Basic!Arrived = Arrived
  BY DEF Arrived, Basic!Arrived, Enqueue, Basic!Enqueue
<1>2. Basic!Proposals(Arrived) = Proposals(Arrived)
  BY DEF Proposals, Basic!Proposals, HasPackets, Basic!HasPackets, Assignments,
         Basic!Assignments
<1>3. QED
  BY <1>1, <1>2

LEMMA BasicFit ==
    ASSUME SBInv, NEW prop \in Proposals(Arrived), NEW acc \in Basic!Accepts(prop, Arrived)
    PROVE  LET at == Basic!PlaceAccepted(acc)
           IN  /\ at \in Placements /\ InBatch(at) /\ Fit(Open, Arrived, prop, at)
               /\ \A i \in Inputs : at[i] = slot =>
                    /\ prop[i] # None
                    /\ i \in Longest(Proposers(prop, prop[i]), Arrived, prop[i])
<1> DEFINE at == Basic!PlaceAccepted(acc)
<1>1. schedules \in Schedules /\ slot \in Slots /\ prop \in Assignments
  BY DEF SBInv, BatchTypeOK, Schedules, Proposals
<1>2. slot \in Nat /\ slot # None
  BY <1>1, NoneIsNoPort, BatchSizePos DEF Slots
<1>3. \A o \in Outputs, i \in Inputs : acc[o] = i =>
        prop[i] = o /\ i \in Longest(Proposers(prop, o), Arrived, o)
  BY NoneIsNoPort DEF Basic!Accepts, Longest, Basic!Longest, Proposers, Basic!Proposers
<1>4. \A i \in Inputs : \/ at[i] = slot /\ prop[i] \in Outputs /\ acc[prop[i]] = i
                        \/ at[i] = None
  BY <1>3 DEF Basic!PlaceAccepted
<1>5. at \in Placements /\ InBatch(at)
  <2>1. at \in [Inputs -> {slot, None}]
    BY DEF Basic!PlaceAccepted
  <2>2. QED
    BY <1>1, <1>2, <2>1 DEF Placements, InBatch
<1>6. Fit(Open, Arrived, prop, at)
  <2>1. \A j \in Inputs : Open[slot][j] = None
    BY <1>1, SmallBatchDispatchesFirst DEF Open, Cleared, NoMatch, Schedules
  <2>2. \A i \in Inputs : prop[i] \in Outputs => prop[i] # None /\ Arrived[i][prop[i]] > 0
    BY NoneIsNoPort DEF Proposals
  <2> HIDE DEF at
  <2>3. QED
    BY <1>4, <2>1, <2>2 DEF Fit
<1>7. ASSUME NEW i \in Inputs, at[i] = slot
      PROVE  prop[i] # None /\ i \in Longest(Proposers(prop, prop[i]), Arrived, prop[i])
  BY <1>2, <1>3, <1>4, <1>7, NoneIsNoPort
<1>8. QED
  BY <1>5, <1>6, <1>7

LEMMA BasicSchedule ==
    ASSUME SBInv, Basic!Schedule PROVE SBInv' /\ BatchSchedule /\ CurrentSlotToLargest
<1> DEFINE Places(prop, acc) ==
             /\ SchedulePlacing(prop, Basic!PlaceAccepted(acc))
             /\ MarkMatched(prop, Basic!PlaceAccepted(acc))
<1>1. PICK prop \in Proposals(Arrived) : \E acc \in Basic!Accepts(prop, Arrived) :
        Places(prop, acc)
  BY BasicProposals, BasicPlacing DEF Basic!Schedule
<1>2. PICK acc \in Basic!Accepts(prop, Arrived) : Places(prop, acc)
  BY <1>1
<1>3. prop \in Assignments
  BY DEF Proposals
<1>4. QED
  BY <1>2, <1>3, BasicFit, SBPlacing, GivesCurrentSlot

LEMMA BasicNext ==
    ASSUME SBInv, [Basic!Next]_(Basic!sbVars)
    PROVE  SBInv' /\ [BatchNext]_vars /\ [CurrentSlotToLargest]_vars
<1>1. CASE Basic!SmallBatchStep \/ Basic!Reset \/ UNCHANGED Basic!sbVars
  <2>1. [Next]_sbVars
    BY <1>1, BasicOthers DEF Next
  <2>2. QED
    BY <2>1, ObliviousNext
<1>2. CASE Basic!Schedule
  BY <1>2, BasicSchedule DEF BatchNext
<1>3. QED
  BY <1>1, <1>2 DEF Basic!Next

(* As the theorems about the other class, of SB_QPS_Basic: its bitmaps are  *)
(* right in every state.                                                    *)
THEOREM BasicBitmapsAgree == Basic!Spec => []BitmapsAgree
<1>1. SBInv => BitmapsAgree
  BY DEF SBInv
<1>2. QED
  BY <1>1, SBInit, BasicInit, BasicNext, PTL DEF Basic!Spec

(* SB_QPS_Basic is a batch scheduler.                                       *)
THEOREM BasicImplementsBatch == Basic!Spec => BatchSpec
BY SBInit, BasicInit, BasicNext, PTL DEF Basic!Spec, BatchSpec

(* Its current slot of an output goes to the longest of its proposers.      *)
THEOREM BasicGivesLargest == Basic!Spec => LargestGetsCurrentSlot
BY SBInit, BasicInit, BasicNext, PTL DEF Basic!Spec, LargestGetsCurrentSlot

-----------------------------------------------------------------------------
(* SB_QPS_Availability: what one run of qps gives.                         *)

Upto == 0 .. slot   \* the slots of the batch up to the current one

LEMMA UptoFacts ==
    ASSUME slot \in Slots
    PROVE  /\ slot \in Nat /\ slot \in Upto /\ Upto \subseteq Slots /\ None \notin Upto
           /\ \A S \in SUBSET Upto : IsFiniteSet(S) /\ Cardinality(S) \in Nat
<1>1. slot \in Nat /\ slot \in Upto /\ Upto \subseteq Slots /\ None \notin Upto
  BY BatchSizePos, NoneIsNoPort DEF Upto, Slots
<1>2. IsFiniteSet(Upto)
  BY <1>1, FS_Interval DEF Upto
<1>3. QED
  BY <1>1, <1>2, FS_Subset, FS_CardinalityType

LEMMA SlotsForType ==
    ASSUME slot \in Slots, NEW r, NEW i, NEW o, NEW k, NEW taken
    PROVE  /\ SlotsFor(r, i, o, k, taken) \subseteq Upto
           /\ ~ TakesAll => slot \notin SlotsFor(r, i, o, k, taken)
           /\ SlotsFor(r, i, o, k, taken) \cap (r.input[i] \cup r.output[o] \cup taken) = {}
<1>1. slot \in Nat
  BY UptoFacts
<1>2. 0 .. slot - 1 \subseteq 0 .. slot /\ slot \notin 0 .. slot - 1
  BY <1>1
<1>3. QED
  BY <1>2 DEF SlotsFor, Free, Latest, Upto

(* The sorted proposers of an output are given earlier slots in which both  *)
(* ports are free, and no slot twice: what those before have taken grows    *)
(* with the rank.                                                          *)
LEMMA SortedSlotsFacts ==
    ASSUME slot \in Slots, NEW r, NEW prop \in Assignments, NEW voq,
           NEW rank \in Orders(prop, voq)
    PROVE  LET s == SortedSlots(r, prop, rank)
           IN  /\ s \in [Inputs -> SUBSET Upto]
               /\ \A i \in Inputs :
                    /\ s[i] # {} => prop[i] # None
                    /\ ~ TakesAll => slot \notin s[i]
                    /\ s[i] \cap (r.input[i] \cup r.output[prop[i]]) = {}
               /\ \A i, j \in Inputs : prop[i] = prop[j] /\ i # j => s[i] \cap s[j] = {}
<1> DEFINE s == SortedSlots(r, prop, rank)
           N == Cardinality(Inputs)
           nth(o, k) == CHOOSE i \in Proposers(prop, o) : rank[i] = k
           A == [Outputs -> SUBSET Upto]
           more(t, k) == [o \in Outputs |-> t[o] \cup SlotsFor(r, nth(o, k), o, k, t[o])]
           base == [o \in Outputs |-> {}]
           F == [k \in 1 .. N |-> [t \in A |-> more(t, k)]]
<1>1. N \in Nat
  BY PortsAreFinite, FS_CardinalityType
<1>2. base \in A /\ IsStep(N, A, F)
  <2>1. ASSUME NEW t \in A, NEW k \in 1 .. N PROVE more(t, k) \in A
    <3> HIDE DEF nth
    <3> QED
      BY SlotsForType
  <2> HIDE DEF A, more
  <2>2. F \in [1 .. N -> [A -> A]]
    BY <2>1
  <2>3. QED
    BY <2>2 DEF IsStep, A
<1>3. PICK g : g \in [0 .. N -> A] /\ g[0] = base /\ \A k \in 1 .. N : g[k] = F[k][g[k - 1]]
  <2> HIDE DEF N, A, base, F
  <2>1. PICK n, aa, bb, ff : n = N /\ aa = A /\ bb = base /\ ff = F
    OBVIOUS
  <2>2. \E f : Follows(f, n, aa, bb, ff)
    BY <1>1, <1>2, <2>1, RecursionExists
  <2>3. QED
    BY <2>1, <2>2 DEF Follows
<1>4. ASSUME NEW k \in 1 .. N PROVE k - 1 \in 0 .. N /\ g[k] = more(g[k - 1], k)
  <2>1. k - 1 \in 0 .. N
    BY <1>1
  <2> HIDE DEF more, A
  <2>2. g[k - 1] \in A /\ g[k] = F[k][g[k - 1]]
    BY <1>3, <2>1
  <2>3. QED
    BY <2>1, <2>2
<1>5. g = [k \in 0 .. N |-> [o \in Outputs |->
             IF k = 0 THEN {} ELSE g[k - 1][o] \cup SlotsFor(r, nth(o, k), o, k, g[k - 1][o])]]
  <2> DEFINE val(k) == [o \in Outputs |->
               IF k = 0 THEN {} ELSE g[k - 1][o] \cup SlotsFor(r, nth(o, k), o, k, g[k - 1][o])]
  <2>1. g[0] = val(0)
    BY <1>3
  <2>2. ASSUME NEW k \in 1 .. N PROVE g[k] = val(k)
    <3>1. k # 0
      BY <1>1
    <3> HIDE DEF nth, N
    <3>2. QED
      BY <1>4, <3>1
  <2>3. \A k \in 0 .. N : k = 0 \/ k \in 1 .. N
    BY <1>1
  <2> HIDE DEF val, N, nth, A
  <2>4. \A k \in 0 .. N : g[k] = val(k)
    BY <2>1, <2>2, <2>3
  <2>5. g = [k \in 0 .. N |-> val(k)]
    BY <1>3, <2>4
  <2>6. QED
    BY <2>5 DEF val
<1>6. PICK taken :
        /\ taken = [k \in 0 .. N |-> [o \in Outputs |->
             IF k = 0 THEN {} ELSE taken[k - 1][o]
                                     \cup SlotsFor(r, nth(o, k), o, k, taken[k - 1][o])]]
        /\ s = [i \in Inputs |->
             IF prop[i] = None THEN {}
             ELSE SlotsFor(r, i, prop[i], rank[i], taken[rank[i] - 1][prop[i]])]
  <2>1. \E it : it = [k \in 0 .. N |-> [o \in Outputs |->
             IF k = 0 THEN {} ELSE it[k - 1][o]
                                     \cup SlotsFor(r, nth(o, k), o, k, it[k - 1][o])]]
    <3> HIDE DEF nth, N
    <3> QED
      BY <1>5, Zenon
  <2>2. QED
    BY <2>1 DEF SortedSlots
<1> HIDE DEF s, F, base, A, more
<1>7. ASSUME NEW k \in 1 .. N, NEW o \in Outputs
      PROVE  taken[k][o] = taken[k - 1][o] \cup SlotsFor(r, nth(o, k), o, k, taken[k - 1][o])
  <2>1. k \in 0 .. N /\ k # 0
    BY <1>1
  <2> HIDE DEF nth, N
  <2>2. QED
    BY <1>6, <2>1
<1>8. ASSUME NEW o \in Outputs, NEW m \in 0 .. N, NEW k \in 0 .. m
      PROVE  taken[k][o] \subseteq taken[m][o]
  <2> DEFINE S == { d \in 0 .. m - k : taken[k][o] \subseteq taken[k + d][o] }
  <2>1. m - k \in Nat /\ k + 0 = k /\ k + (m - k) = m
    BY <1>1
  <2>2. 0 \in S
    BY <2>1
  <2>3. ASSUME NEW d \in 0 .. (m - k) - 1, d \in S PROVE d + 1 \in S
    <3>1. /\ k + (d + 1) \in 1 .. N /\ (k + (d + 1)) - 1 = k + d /\ d + 1 \in 0 .. m - k
      BY <1>1
    <3> HIDE DEF nth, N
    <3>2. taken[k + d][o] \subseteq taken[k + (d + 1)][o]
      BY <1>7, <3>1
    <3>3. QED
      BY <2>3, <3>1, <3>2
  <2>4. 0 .. m - k \subseteq S
    <3> HIDE DEF S
    <3> QED
      BY <2>1, <2>2, <2>3, IntervalInduction
  <2>5. m - k \in S
    BY <2>1, <2>4
  <2>6. QED
    BY <2>1, <2>5
<1>9. ASSUME NEW i \in Inputs
      PROVE  rank[i] \in 1 .. N /\ rank[i] - 1 \in 0 .. N /\ rank[i] \in 0 .. N
  BY <1>1 DEF Orders
<1>10. ASSUME NEW i \in Inputs, NEW j \in Inputs, prop[i] = prop[j], prop[i] # None,
              rank[i] < rank[j]
       PROVE  s[i] \cap s[j] = {}
  <2>1. PICK o \in Outputs : o = prop[i]
    BY <1>10 DEF Assignments
  <2>2. nth(o, rank[i]) = i
    <3>1. \A h \in Proposers(prop, o) : rank[h] = rank[i] => h = i
      BY <1>10, <2>1 DEF Orders, Proposers
    <3>2. i \in Proposers(prop, o)
      BY <2>1 DEF Proposers
    <3>3. QED
      BY <3>1, <3>2
  <2> HIDE DEF nth
  <2>3. s[i] \subseteq taken[rank[i]][o]
    <3>1. s[i] = SlotsFor(r, i, o, rank[i], taken[rank[i] - 1][o])
      BY <1>6, <1>10, <2>1
    <3>2. PICK k \in 1 .. N : k = rank[i]
      BY <1>9
    <3>3. taken[k][o] = taken[k - 1][o] \cup SlotsFor(r, nth(o, k), o, k, taken[k - 1][o])
      BY <1>7
    <3>4. QED
      BY <2>2, <3>1, <3>2, <3>3
  <2>4. rank[i] \in 0 .. rank[j] - 1
    BY <1>1, <1>9, <1>10
  <2>5. s[i] \subseteq taken[rank[j] - 1][o]
    BY <1>8, <1>9, <2>3, <2>4
  <2>6. s[j] \cap taken[rank[j] - 1][o] = {}
    BY <1>6, <1>10, <2>1, SlotsForType
  <2>7. QED
    BY <2>5, <2>6
<1>11. ASSUME NEW i \in Inputs, NEW j \in Inputs, prop[i] = prop[j], i # j
       PROVE  s[i] \cap s[j] = {}
  <2>1. CASE prop[i] = None
    BY <1>6, <2>1
  <2>2. CASE prop[i] # None
    <3>1. rank[i] # rank[j]
      BY <1>11, <2>2 DEF Orders
    <3>2. rank[i] < rank[j] \/ rank[j] < rank[i]
      BY <1>1, <1>9, <3>1
    <3>3. QED
      BY <1>10, <1>11, <2>2, <3>2
  <2>3. QED
    BY <2>1, <2>2
<1>12. ASSUME NEW i \in Inputs
       PROVE  /\ s[i] \subseteq Upto
              /\ s[i] # {} => prop[i] # None
              /\ ~ TakesAll => slot \notin s[i]
              /\ s[i] \cap (r.input[i] \cup r.output[prop[i]]) = {}
  <2> HIDE DEF nth
  <2> QED
    BY <1>6, SlotsForType
<1>13. s \in [Inputs -> SUBSET Upto]
  <2> HIDE DEF nth
  <2>1. s = [i \in Inputs |-> s[i]]
    BY <1>6
  <2>2. QED
    BY <1>12, <2>1
<1>14. QED
  <2> HIDE DEF nth
  <2> QED
    BY <1>11, <1>12, <1>13 DEF s

(* What a run gives to every input: the slots "given" for its proposal, the *)
(* current one if it is an output's first proposer.                        *)
Given(r, prop, first, rank) ==
    [i \in Inputs |-> SortedSlots(r, prop, rank)[i] \cup
                        (IF \E o \in Outputs : first[o] = i THEN {slot} ELSE {})]

(* The slots among them that the bitmaps have been looked at for. *)
Checked(slots) == slots \ (IF TakesAll THEN {} ELSE {slot})

IsGrant(r, prop, given) ==
    /\ prop \in Assignments
    /\ given \in [Inputs -> SUBSET Upto]
    /\ \A i \in Inputs :
         /\ given[i] # {} => prop[i] # None
         /\ Checked(given[i]) \cap (r.input[i] \cup r.output[prop[i]]) = {}
    /\ \A i, j \in Inputs : prop[i] = prop[j] /\ i # j => given[i] \cap given[j] = {}

LEMMA GivenIsGrant ==
    ASSUME slot \in Slots, NEW r, NEW prop \in Proposals(r.voq),
           NEW first \in Firsts(r, prop), NEW rank \in Orders(prop, r.voq)
    PROVE  IsGrant(r, prop, Given(r, prop, first, rank))
<1> DEFINE s == SortedSlots(r, prop, rank)
           given == Given(r, prop, first, rank)
           now(i) == \E o \in Outputs : first[o] = i
<1>1. prop \in Assignments
  BY DEF Proposals
<1>2. /\ s \in [Inputs -> SUBSET Upto]
      /\ \A i \in Inputs :
           /\ s[i] # {} => prop[i] # None
           /\ ~ TakesAll => slot \notin s[i]
           /\ s[i] \cap (r.input[i] \cup r.output[prop[i]]) = {}
      /\ \A i, j \in Inputs : prop[i] = prop[j] /\ i # j => s[i] \cap s[j] = {}
  BY <1>1, SortedSlotsFacts
<1>3. slot \in Upto
  BY UptoFacts
<1>4. ASSUME NEW i \in Inputs, NEW o \in Outputs, first[o] = i
      PROVE  ~ TakesAll /\ prop[i] = o
  BY <1>4, NoneIsNoPort DEF Firsts, Longest, Proposers
<1>5. \A i \in Inputs : given[i] = s[i] \cup (IF now(i) THEN {slot} ELSE {})
  BY DEF Given
<1> HIDE DEF s
<1>6. given \in [Inputs -> SUBSET Upto]
  <2>1. given = [i \in Inputs |-> given[i]]
    BY DEF Given
  <2> HIDE DEF given, now
  <2>2. \A i \in Inputs : given[i] \in SUBSET Upto
    BY <1>2, <1>3, <1>5
  <2>3. QED
    BY <2>1, <2>2
<1>7. ASSUME NEW i \in Inputs, NEW j \in Inputs, prop[i] = prop[j], i # j
      PROVE  given[i] \cap given[j] = {}
  <2>1. s[i] \cap s[j] = {}
    BY <1>2, <1>7
  <2>2. ~ (now(i) /\ now(j))
    BY <1>4, <1>7
  <2>3. now(i) \/ now(j) => ~ TakesAll /\ slot \notin s[i] /\ slot \notin s[j]
    BY <1>2, <1>4
  <2> HIDE DEF given, now
  <2>4. QED
    BY <1>5, <2>1, <2>2, <2>3
<1>8. ASSUME NEW i \in Inputs
      PROVE  /\ given[i] # {} => prop[i] # None
             /\ Checked(given[i]) \cap (r.input[i] \cup r.output[prop[i]]) = {}
  <2>1. now(i) => ~ TakesAll /\ prop[i] # None
    BY <1>4, NoneIsNoPort
  <2> HIDE DEF given, now
  <2>2. Checked(given[i]) \subseteq s[i]
    BY <1>5, <2>1 DEF Checked
  <2>3. QED
    BY <1>2, <1>5, <2>1, <2>2
<1> HIDE DEF given
<1>9. IsGrant(r, prop, given)
  BY <1>1, <1>6, <1>7, <1>8 DEF IsGrant
<1>10. QED
  BY <1>9 DEF given

-----------------------------------------------------------------------------
(* The state of a call of schedule() after k runs of qps.                  *)

Runs ==
    [sched : Schedules, voq : [Inputs -> [Outputs -> Int]],
     input : [Inputs -> SUBSET Upto], output : [Outputs -> SUBSET Upto],
     availability : [input : [Inputs -> Int], output : [Outputs -> Int]]]

Users(sched, o) == { f \in Upto : \E i \in Inputs : sched[f][i] = o }

(* The bitmaps of the slots up to the current one, as in BitsCover. *)
RunBits(r) ==
    /\ \A i \in Inputs : r.input[i] = { f \in Upto : r.sched[f][i] # None }
    /\ \A o \in Outputs :
         /\ Users(r.sched, o) \subseteq r.output[o]
         /\ ~ Overwrites => r.output[o] = Users(r.sched, o)

(* Nothing is changed that was placed before or is beyond the current slot. *)
RunKeeps(r) ==
    \A f \in Slots, i \in Inputs :
        f \notin Upto \/ Open[f][i] # None => r.sched[f][i] = Open[f][i]

(* How a counter compares with what it counts, as in AvailabilityAgrees.   *)
CountsAs(counter, free) ==
    /\ class \in {"AvailabilityAware", "Adaptive"} => counter = free
    /\ Overwrites => counter >= free
    /\ class = "MA" => counter <= free

(* The current slot is counted from the first run on. *)
Passed(k) == IF k = 0 THEN slot ELSE slot + 1

RunCounts(r, k) ==
    /\ \A i \in Inputs :
         /\ k = 0 => slot \notin r.input[i]
         /\ CountsAs(r.availability.input[i], Passed(k) - Cardinality(r.input[i]))
    /\ \A o \in Outputs :
         /\ k = 0 => slot \notin r.output[o]
         /\ CountsAs(r.availability.output[o], Passed(k) - Cardinality(r.output[o]))

(* Every packet that is placed has left its VOQ's length: exactly, or, when *)
(* it has been overwritten, the length is too low.                         *)
RunCharged(r) ==
    /\ ~ Overwrites => Legal(Open, r.sched) /\ r.voq = Left(r.sched)
    /\ \A i \in Inputs, o \in Outputs :
         r.voq[i][o] + Cardinality(PlacedSlots(r.sched, i, o))
           <= Arrived[i][o] + Cardinality(PlacedSlots(Open, i, o))

RunInv(r, k) ==
    r \in Runs /\ RunBits(r) /\ RunKeeps(r) /\ RunCounts(r, k) /\ RunCharged(r)

(* The schedules after a run. *)
PlacedIn(r, prop, given) ==
    [f \in Slots |-> [i \in Inputs |-> IF f \in given[i] THEN prop[i] ELSE r.sched[f][i]]]

(* A class that runs several times without overwriting checks every slot,   *)
(* and one that runs once finds the current slot free.                     *)
RunsAgain(k) == k # 0 => class \in {"MI", "ThreeThird", "MA_MI"}

LEMMA GrantedFree ==
    ASSUME slot \in Slots, class \in Classes, NEW r, NEW k, RunBits(r), RunCounts(r, k),
           NEW prop, NEW given, IsGrant(r, prop, given), RunsAgain(k), ~ Overwrites,
           NEW i \in Inputs, NEW f \in given[i]
    PROVE  f \notin r.input[i] /\ f \notin r.output[prop[i]] /\ prop[i] \in Outputs
<1>1. prop[i] \in Outputs
  BY DEF IsGrant, Assignments
<1>2. CASE f \in Checked(given[i])
  BY <1>1, <1>2 DEF IsGrant
<1>3. CASE f \notin Checked(given[i])
  <2>1. f = slot /\ ~ TakesAll
    BY <1>3 DEF Checked
  <2>2. k = 0
    BY <2>1, KnownClasses DEF RunsAgain, TakesAll, Overwrites
  <2>3. QED
    BY <1>1, <2>1, <2>2 DEF RunCounts
<1>4. QED
  BY <1>2, <1>3

(* A run keeps the bitmaps true to the schedules, whatever it overwrites. *)
LEMMA AfterBits ==
    ASSUME BatchTypeOK, class \in Classes, NEW r \in Runs, NEW k, RunInv(r, k),
           NEW prop, NEW given, IsGrant(r, prop, given), RunsAgain(k)
    PROVE  RunBits(After(r, prop, given)) /\ RunKeeps(After(r, prop, given))
<1> DEFINE placed == PlacedIn(r, prop, given)
           a == After(r, prop, given)
<1>1. /\ a.sched = placed
      /\ \A i \in Inputs : a.input[i] = r.input[i] \cup given[i]
      /\ \A o \in Outputs : a.output[o] = r.output[o] \cup UNION { given[i] : i \in Proposers(prop, o) }
  BY DEF After, PlacedIn
<1>2. \A f \in Slots, i \in Inputs :
        placed[f][i] = IF f \in given[i] THEN prop[i] ELSE r.sched[f][i]
  BY DEF PlacedIn
<1>0. slot \in Slots /\ schedules \in [Slots -> Assignments]
  BY DEF BatchTypeOK
<1>3. /\ Upto \subseteq Slots /\ prop \in Assignments
      /\ \A i \in Inputs : given[i] \subseteq Upto /\ (given[i] # {} => prop[i] # None)
  BY <1>0, UptoFacts DEF IsGrant
<1>4. RunBits(r) /\ RunKeeps(r) /\ RunCounts(r, k)
  BY DEF RunInv
<1> HIDE DEF placed, a
<1>5. \A i \in Inputs : a.input[i] = { f \in Upto : a.sched[f][i] # None }
  BY <1>1, <1>2, <1>3, <1>4 DEF RunBits
<1>6. ASSUME NEW o \in Outputs PROVE Users(placed, o) \subseteq a.output[o]
  <2>1. ASSUME NEW f \in Upto, NEW i \in Inputs, placed[f][i] = o PROVE f \in a.output[o]
    <3>1. CASE f \in given[i]
      BY <1>1, <1>2, <1>3, <2>1, <3>1 DEF Proposers
    <3>2. CASE f \notin given[i]
      BY <1>1, <1>2, <1>3, <1>4, <2>1, <3>2 DEF RunBits, Users
    <3>3. QED
      BY <3>1, <3>2
  <2>2. QED
    BY <2>1 DEF Users
<1>7. ASSUME ~ Overwrites, NEW o \in Outputs PROVE a.output[o] \subseteq Users(placed, o)
  <2>1. ASSUME NEW f \in r.output[o] PROVE f \in Users(placed, o)
    <3>1. PICK i \in Inputs : f \in Upto /\ r.sched[f][i] = o
      BY <1>4, <1>7 DEF RunBits, Users
    <3>2. f \in r.input[i]
      BY <1>4, <3>1, NoneIsNoPort DEF RunBits
    <3>3. f \notin given[i]
      BY <1>0, <1>4, <1>7, <3>2, GrantedFree
    <3>4. QED
      BY <1>2, <1>3, <3>1, <3>3 DEF Users
  <2>2. ASSUME NEW i \in Proposers(prop, o), NEW f \in given[i] PROVE f \in Users(placed, o)
    BY <1>2, <1>3, <2>2 DEF Users, Proposers
  <2>3. QED
    BY <1>1, <1>7, <2>1, <2>2
<1>8. RunBits(a)
  BY <1>1, <1>5, <1>6, <1>7 DEF RunBits
<1>9. RunKeeps(a)
  <2> SUFFICES ASSUME NEW f \in Slots, NEW i \in Inputs, f \notin Upto \/ Open[f][i] # None
               PROVE  placed[f][i] = Open[f][i]
    BY <1>1 DEF RunKeeps
  <2>1. r.sched[f][i] = Open[f][i]
    BY <1>4 DEF RunKeeps
  <2>2. f \notin given[i]
    <3>1. CASE f \notin Upto
      BY <1>3, <3>1
    <3>2. CASE f \in Upto /\ Open[f][i] # None
      <4>1. f \in r.input[i]
        BY <1>4, <2>1, <3>2 DEF RunBits
      <4>2. f # slot
        BY <1>0, <3>2, SmallBatchDispatchesFirst DEF Open, Cleared, NoMatch
      <4>3. QED
        BY <4>1, <4>2 DEF IsGrant, Checked
    <3>3. QED
      BY <3>1, <3>2
  <2>3. QED
    BY <1>2, <2>1, <2>2
<1>10. QED
  BY <1>8, <1>9 DEF a

(* What a run takes from the VOQ lengths it has placed. *)
LEMMA AfterCharged ==
    ASSUME BatchTypeOK, class \in Classes, NEW r \in Runs, NEW k, RunInv(r, k),
           NEW prop, NEW given, IsGrant(r, prop, given), RunsAgain(k)
    PROVE  RunCharged(After(r, prop, given))
<1> DEFINE placed == PlacedIn(r, prop, given)
           a == After(r, prop, given)
           mine(i, o) == IF prop[i] = o THEN given[i] ELSE {}
<1>1. /\ a.sched = placed
      /\ a.voq = [i \in Inputs |-> [o \in Outputs |->
                    r.voq[i][o] - IF prop[i] = o THEN Cardinality(given[i]) ELSE 0]]
  BY DEF After, PlacedIn
<1>2. \A f \in Slots, i \in Inputs :
        placed[f][i] = IF f \in given[i] THEN prop[i] ELSE r.sched[f][i]
  BY DEF PlacedIn
<1>3. slot \in Slots /\ VOQLength \in QueueLengths /\ arrivals \in Assignments
  BY DEF BatchTypeOK, SwitchTypeOK
<1>4. /\ Upto \subseteq Slots /\ prop \in Assignments
      /\ \A i \in Inputs : given[i] \subseteq Upto /\ (given[i] # {} => prop[i] # None)
  BY <1>3, UptoFacts DEF IsGrant
<1>5. RunBits(r) /\ RunKeeps(r) /\ RunCounts(r, k) /\ RunCharged(r)
  BY DEF RunInv
<1>6. Arrived \in QueueLengths
  BY <1>3, EnqueueType DEF Arrived
<1> HIDE DEF placed, a
<1>7. ASSUME NEW i \in Inputs, NEW o \in Outputs
      PROVE  /\ IsFiniteSet(mine(i, o)) /\ Cardinality(mine(i, o)) \in Nat
             /\ a.voq[i][o] = r.voq[i][o] - Cardinality(mine(i, o))
             /\ r.voq[i][o] \in Int
  <2>1. IsFiniteSet(given[i]) /\ Cardinality(given[i]) \in Nat
    BY <1>3, <1>4, UptoFacts
  <2>2. r.voq[i][o] \in Int
    BY DEF Runs
  <2>3. QED
    BY <1>1, <2>1, <2>2, FS_EmptySet
<1>8. ASSUME NEW i \in Inputs, NEW o \in Outputs
      PROVE  a.voq[i][o] + Cardinality(PlacedSlots(placed, i, o))
               <= Arrived[i][o] + Cardinality(PlacedSlots(Open, i, o))
  <2> DEFINE before == PlacedSlots(r.sched, i, o)
             after == PlacedSlots(placed, i, o)
  <2>1. after \subseteq before \cup mine(i, o)
    BY <1>2 DEF PlacedSlots
  <2>2. /\ IsFiniteSet(before) /\ Cardinality(before) \in Nat /\ Cardinality(after) \in Nat
        /\ Cardinality(PlacedSlots(Open, i, o)) \in Nat
    BY PlacedSlotsFinite
  <2> HIDE DEF before, after, mine
  <2>3. Cardinality(after) <= Cardinality(before) + Cardinality(mine(i, o))
    <3>1. IsFiniteSet(before \cup mine(i, o))
      BY <1>7, <2>2, FS_Union
    <3>2. Cardinality(after) <= Cardinality(before \cup mine(i, o))
      BY <2>1, <3>1, FS_Subset
    <3>3. /\ IsFiniteSet(before \cap mine(i, o))
          /\ Cardinality(before \cup mine(i, o)) =
               Cardinality(before) + Cardinality(mine(i, o)) - Cardinality(before \cap mine(i, o))
      BY <1>7, <2>2, FS_Union, FS_Intersection
    <3>4. Cardinality(before \cap mine(i, o)) \in Nat
      BY <3>3, FS_CardinalityType
    <3>5. QED
      BY <1>7, <2>2, <3>2, <3>3, <3>4
  <2>4. r.voq[i][o] + Cardinality(before) <= Arrived[i][o] + Cardinality(PlacedSlots(Open, i, o))
    BY <1>5 DEF RunCharged, before
  <2>5. Arrived[i][o] \in Nat
    BY <1>6 DEF QueueLengths
  <2>6. a.voq[i][o] + Cardinality(after) <= Arrived[i][o] + Cardinality(PlacedSlots(Open, i, o))
    BY <1>7, <2>2, <2>3, <2>4, <2>5
  <2>7. QED
    BY <2>6 DEF after
<1>9. ASSUME ~ Overwrites PROVE Legal(Open, placed)
  <2> SUFFICES ASSUME NEW f \in Slots, NEW i \in Inputs
               PROVE  /\ Open[f][i] # None => placed[f][i] = Open[f][i]
                      /\ Open[f][i] = None /\ placed[f][i] # None =>
                           \A j \in Inputs : placed[f][j] = placed[f][i] => i = j
    BY DEF Legal
  <2>1. Open[f][i] # None => placed[f][i] = Open[f][i]
    <3>1. RunKeeps(a)
      BY <1>3, AfterBits DEF a
    <3>2. QED
      BY <1>1, <3>1 DEF RunKeeps
  <2>2. ASSUME Open[f][i] = None, placed[f][i] # None, NEW j \in Inputs, placed[f][j] = placed[f][i]
        PROVE  i = j
    <3>1. ASSUME NEW g \in Inputs, NEW h \in Inputs, f \in given[g], r.sched[f][h] = prop[g]
          PROVE  FALSE
      <4>1. f \notin r.output[prop[g]] /\ prop[g] \in Outputs
        BY <1>5, <1>9, <1>3, <3>1, GrantedFree
      <4>2. f \in Users(r.sched, prop[g])
        BY <1>4, <3>1 DEF Users
      <4>3. QED
        BY <1>5, <4>1, <4>2 DEF RunBits
    <3>2. CASE f \in given[i] /\ f \in given[j]
      BY <1>2, <2>2, <3>2 DEF IsGrant
    <3>3. CASE f \in given[i] /\ f \notin given[j]
      BY <1>2, <2>2, <3>1, <3>3
    <3>4. CASE f \notin given[i] /\ f \in given[j]
      BY <1>2, <2>2, <3>1, <3>4
    <3>5. CASE f \notin given[i] /\ f \notin given[j]
      BY <1>2, <1>5, <1>9, <2>2, <3>5 DEF RunCharged, Legal
    <3>6. QED
      BY <3>2, <3>3, <3>4, <3>5
  <2>3. QED
    BY <2>1, <2>2
<1>10. ASSUME ~ Overwrites PROVE a.voq = Left(placed)
  <2>1. ASSUME NEW i \in Inputs, NEW o \in Outputs
        PROVE  a.voq[i][o] = Arrived[i][o] - Cardinality(NewlyPlaced(placed, i, o))
    <3> DEFINE new == NewlyPlaced(placed, i, o)
               old == NewlyPlaced(r.sched, i, o)
    <3>1. ASSUME NEW f \in given[i]
          PROVE  f \in Slots /\ r.sched[f][i] = None /\ Open[f][i] = None
      <4>1. f \notin r.input[i] /\ f \in Upto
        BY <1>3, <1>4, <1>5, <1>10, GrantedFree
      <4>2. r.sched[f][i] = None
        BY <1>5, <4>1 DEF RunBits
      <4>3. QED
        BY <1>4, <1>5, <4>1, <4>2 DEF RunKeeps
    <3>2. new = old \cup mine(i, o) /\ old \cap mine(i, o) = {}
      <4>1. o # None
        BY NoneIsNoPort
      <4>2. \A f \in Slots : f \in new <=> f \in old \/ f \in mine(i, o)
        <5> TAKE f \in Slots
        <5>1. CASE f \in given[i]
          BY <1>2, <3>1, <4>1, <5>1 DEF NewlyPlaced, PlacedSlots
        <5>2. CASE f \notin given[i]
          BY <1>2, <5>2 DEF NewlyPlaced, PlacedSlots
        <5>3. QED
          BY <5>1, <5>2
      <4>3. new \subseteq Slots /\ old \subseteq Slots /\ mine(i, o) \subseteq Slots
        BY <3>1 DEF NewlyPlaced, PlacedSlots
      <4>4. old \cap mine(i, o) = {}
        BY <3>1, <4>1 DEF NewlyPlaced, PlacedSlots
      <4> HIDE DEF new, old, mine
      <4>5. QED
        BY <4>2, <4>3, <4>4
    <3>3. IsFiniteSet(old) /\ Cardinality(old) \in Nat
      <4>1. IsFiniteSet(PlacedSlots(r.sched, i, o))
        BY PlacedSlotsFinite
      <4>2. old \subseteq PlacedSlots(r.sched, i, o)
        BY DEF NewlyPlaced
      <4>3. QED
        BY <4>1, <4>2, FS_Subset, FS_CardinalityType
    <3>4. r.voq[i][o] = Arrived[i][o] - Cardinality(old)
      BY <1>5, <1>10 DEF RunCharged, Left
    <3>5. Arrived[i][o] \in Nat
      BY <1>6 DEF QueueLengths
    <3> HIDE DEF new, old, mine
    <3>6. Cardinality(new) = Cardinality(old) + Cardinality(mine(i, o))
      <4>1. Cardinality(new) = Cardinality(old) + Cardinality(mine(i, o)) - Cardinality(old \cap mine(i, o))
        BY <1>7, <3>2, <3>3, FS_Union
      <4>2. Cardinality(old \cap mine(i, o)) = 0
        BY <3>2, FS_EmptySet
      <4>3. QED
        BY <1>7, <3>3, <4>1, <4>2
    <3>7. a.voq[i][o] = Arrived[i][o] - Cardinality(new)
      BY <1>7, <3>3, <3>4, <3>5, <3>6
    <3>8. QED
      BY <3>7 DEF new
  <2>2. a.voq = [i \in Inputs |-> [o \in Outputs |-> a.voq[i][o]]]
    BY <1>1
  <2>3. QED
    BY <2>1, <2>2 DEF Left
<1>11. RunCharged(a)
  BY <1>1, <1>8, <1>9, <1>10 DEF RunCharged
<1>12. QED
  BY <1>11 DEF a

(* How a port's counter changes in a run that sets the bits g besides X:   *)
(* "gain" is what it is given for the current slot.                        *)
LEMMA CounterStep ==
    ASSUME slot \in Slots, class \in Classes, NEW k, RunsAgain(k),
           NEW X \in SUBSET Upto, NEW g \in SUBSET Upto, NEW c \in Int, NEW gain \in {0, 1},
           Checked(g) \cap X = {}, k = 0 => slot \notin X,
           CountsAs(c, Passed(k) - Cardinality(X)),
           slot \in g => gain = 0, slot \notin g /\ slot \notin X => gain = 1
    PROVE  CountsAs(c - Cardinality(Checked(g)) + gain, (slot + 1) - Cardinality(X \cup g))
<1> DEFINE x == Cardinality(X)
           d == Cardinality(g \ {slot})
           n == Cardinality(X \cup g)
           now == IF slot \in g \ X THEN 1 ELSE 0
<1>1. slot \in Nat /\ slot \in Upto
  BY UptoFacts, BatchSizePos DEF Slots
<1>2. \A S \in SUBSET Upto : IsFiniteSet(S) /\ Cardinality(S) \in Nat
  BY UptoFacts
<1>3. (g \ {slot}) \cap X = {}
  BY DEF Checked
<1>4. n = x + d + now
  <2>1. Cardinality(X \cup (g \ {slot})) = x + d
    <3>1. Cardinality(X \cup (g \ {slot})) = x + d - Cardinality(X \cap (g \ {slot}))
      BY <1>2, FS_Union
    <3>2. Cardinality(X \cap (g \ {slot})) = 0
      BY <1>3, FS_EmptySet
    <3>3. x \in Nat /\ d \in Nat
      BY <1>2
    <3>4. QED
      BY <3>1, <3>2, <3>3
  <2>2. CASE slot \in g \ X
    <3>1. X \cup g = (X \cup (g \ {slot})) \cup {slot} /\ slot \notin X \cup (g \ {slot})
      BY <2>2
    <3>2. IsFiniteSet(X \cup (g \ {slot}))
      BY <1>2
    <3>3. n = Cardinality(X \cup (g \ {slot})) + 1
      BY <3>1, <3>2, FS_AddElement
    <3>4. QED
      BY <2>1, <2>2, <3>3
  <2>3. CASE slot \notin g \ X
    <3>1. X \cup g = X \cup (g \ {slot})
      BY <2>3
    <3>2. n = x + d /\ now = 0 /\ x \in Nat /\ d \in Nat
      BY <1>2, <2>1, <2>3, <3>1
    <3>3. QED
      BY <3>2
  <2>4. QED
    BY <2>2, <2>3
<1>5. Cardinality(g) = IF slot \in g THEN d + 1 ELSE d
  <2>1. CASE slot \in g
    <3>1. g = (g \ {slot}) \cup {slot}
      BY <2>1
    <3>2. Cardinality(g) = d + 1
      BY <1>2, <3>1, FS_AddElement
    <3>3. QED
      BY <2>1, <3>2
  <2>2. CASE slot \notin g
    <3>1. g = g \ {slot}
      BY <2>2
    <3>2. QED
      BY <2>2, <3>1
  <2>3. QED
    BY <2>1, <2>2
<1>6. x \in Nat /\ d \in Nat
  BY <1>2
<1> HIDE DEF x, d, n
<1>7. CASE class \in {"AvailabilityAware", "Adaptive"}
  <2>1. k = 0 /\ ~ TakesAll /\ ~ Overwrites /\ class # "MA"
    BY <1>7 DEF RunsAgain, TakesAll, Overwrites
  <2>2. Cardinality(Checked(g)) = d
    BY <2>1 DEF Checked, d
  <2>3. c = slot - x
    BY <1>7, <2>1 DEF CountsAs, Passed, x
  <2>4. c - d + gain = (slot + 1) - n
    <3>1. CASE slot \in g
      BY <1>1, <1>4, <1>6, <2>1, <2>3, <3>1
    <3>2. CASE slot \notin g
      BY <1>1, <1>4, <1>6, <2>1, <2>3, <3>2
    <3>3. QED
      BY <3>1, <3>2
  <2>5. QED
    BY <2>1, <2>2, <2>4 DEF CountsAs, n
<1>8. CASE class \in {"MI", "ThreeThird"}
  <2>1. ~ TakesAll /\ Overwrites /\ class # "MA" /\ class \notin {"AvailabilityAware", "Adaptive"}
    BY <1>8 DEF TakesAll, Overwrites
  <2>2. Cardinality(Checked(g)) = d
    BY <2>1 DEF Checked, d
  <2>3. c >= Passed(k) - x
    BY <2>1 DEF CountsAs, x
  <2>4. c - d + gain >= (slot + 1) - n
    <3>1. CASE k = 0
      <4>1. c >= slot - x /\ slot \notin X
        BY <2>3, <3>1 DEF Passed
      <4>2. CASE slot \in g
        BY <1>1, <1>4, <1>6, <4>1, <4>2
      <4>3. CASE slot \notin g
        BY <1>1, <1>4, <1>6, <4>1, <4>3
      <4>4. QED
        BY <4>2, <4>3
    <3>2. CASE k # 0
      <4>1. c >= slot + 1 - x
        BY <1>1, <1>6, <2>3, <3>2 DEF Passed
      <4>2. now \in {0, 1}
        OBVIOUS
      <4> HIDE DEF now
      <4>3. QED
        BY <1>1, <1>4, <1>6, <4>1, <4>2
    <3>3. QED
      BY <3>1, <3>2
  <2>5. QED
    BY <2>1, <2>2, <2>4 DEF CountsAs, n
<1>9. CASE class \in {"MA"}
  <2>1. k = 0 /\ TakesAll /\ ~ Overwrites /\ class \notin {"AvailabilityAware", "Adaptive"}
    BY <1>9 DEF RunsAgain, TakesAll, Overwrites
  <2>2. Checked(g) = g
    BY <2>1 DEF Checked
  <2>3. c <= slot - x
    BY <1>9, <2>1 DEF CountsAs, Passed, x
  <2>4. c - Cardinality(g) + gain <= (slot + 1) - n
    <3>1. CASE slot \in g
      BY <1>1, <1>4, <1>5, <1>6, <2>1, <2>3, <3>1
    <3>2. CASE slot \notin g
      BY <1>1, <1>4, <1>5, <1>6, <2>1, <2>3, <3>2
    <3>3. QED
      BY <3>1, <3>2
  <2>5. QED
    BY <2>1, <2>2, <2>4 DEF CountsAs, n
<1>10. CASE class \in {"MA_MI"}
  BY <1>10 DEF CountsAs, Overwrites
<1>11. QED
  BY <1>7, <1>8, <1>9, <1>10, KnownClasses

(* So the counters keep agreeing with the bitmaps. *)
LEMMA AfterCounts ==
    ASSUME slot \in Slots, class \in Classes, NEW r \in Runs, NEW k \in Nat, RunInv(r, k),
           NEW prop, NEW given, IsGrant(r, prop, given), RunsAgain(k)
    PROVE  RunCounts(After(r, prop, given), k + 1)
<1> DEFINE a == After(r, prop, given)
           all(o) == UNION { given[i] : i \in Proposers(prop, o) }
<1>1. /\ \A i \in Inputs :
           /\ a.input[i] = r.input[i] \cup given[i]
           /\ a.availability.input[i] = r.availability.input[i] - Cardinality(Checked(given[i]))
                + (IF PlacedIn(r, prop, given)[slot][i] = None THEN 1 ELSE 0)
      /\ \A o \in Outputs :
           /\ a.output[o] = r.output[o] \cup all(o)
           /\ a.availability.output[o] = r.availability.output[o]
                - Cardinality(UNION { Checked(given[i]) : i \in Proposers(prop, o) })
                + (IF slot \in all(o) THEN 0 ELSE 1)
  BY DEF After, PlacedIn, NextAvailability, Checked
<1> HIDE DEF a
<1>2. RunBits(r) /\ RunCounts(r, k) /\ slot \in Upto
  BY UptoFacts DEF RunInv
<1>3. k + 1 # 0 /\ Passed(k + 1) = slot + 1
  BY DEF Passed
<1>4. ASSUME NEW i \in Inputs
      PROVE  CountsAs(a.availability.input[i], Passed(k + 1) - Cardinality(a.input[i]))
  <2> DEFINE gain == IF PlacedIn(r, prop, given)[slot][i] = None THEN 1 ELSE 0
             X == r.input[i]
             g == given[i]
             c == r.availability.input[i]
  <2>1. X \in SUBSET Upto /\ c \in Int /\ g \in SUBSET Upto
    BY DEF Runs, IsGrant
  <2>2. Checked(g) \cap X = {} /\ (g # {} => prop[i] # None)
    BY DEF IsGrant
  <2>3. gain \in {0, 1}
    OBVIOUS
  <2>4. PlacedIn(r, prop, given)[slot][i] = IF slot \in g THEN prop[i] ELSE r.sched[slot][i]
    BY DEF PlacedIn
  <2>5. slot \in g => gain = 0
    BY <2>2, <2>4
  <2>6. slot \notin g /\ slot \notin X => gain = 1
    BY <1>2, <2>4 DEF RunBits
  <2>7. k = 0 => slot \notin X
    BY <1>2 DEF RunCounts
  <2>8. CountsAs(c, Passed(k) - Cardinality(X))
    BY <1>2 DEF RunCounts
  <2> HIDE DEF gain, X, g, c
  <2>9. CountsAs(c - Cardinality(Checked(g)) + gain, (slot + 1) - Cardinality(X \cup g))
    BY <2>1, <2>2, <2>3, <2>5, <2>6, <2>7, <2>8, CounterStep
  <2>10. QED
    BY <1>1, <1>3, <2>9 DEF gain, X, g, c
<1>5. ASSUME NEW o \in Outputs
      PROVE  CountsAs(a.availability.output[o], Passed(k + 1) - Cardinality(a.output[o]))
  <2> DEFINE gain == IF slot \in all(o) THEN 0 ELSE 1
             X == r.output[o]
             c == r.availability.output[o]
  <2>1. X \in SUBSET Upto /\ c \in Int /\ all(o) \in SUBSET Upto
    BY DEF Runs, IsGrant, Proposers
  <2>2. /\ Checked(all(o)) = UNION { Checked(given[i]) : i \in Proposers(prop, o) }
        /\ Checked(all(o)) \cap X = {}
    BY DEF IsGrant, Checked, Proposers
  <2>3. gain \in {0, 1} /\ (slot \in all(o) => gain = 0) /\ (slot \notin all(o) => gain = 1)
    OBVIOUS
  <2>4. k = 0 => slot \notin X
    BY <1>2 DEF RunCounts
  <2>5. CountsAs(c, Passed(k) - Cardinality(X))
    BY <1>2 DEF RunCounts
  <2>6. a.availability.output[o] = c - Cardinality(Checked(all(o))) + gain
    BY <1>1, <2>2
  <2>7. PICK g : g = all(o)
    OBVIOUS
  <2> HIDE DEF gain, X, c, all
  <2>8. CountsAs(c - Cardinality(Checked(g)) + gain, (slot + 1) - Cardinality(X \cup g))
    BY <2>1, <2>2, <2>3, <2>4, <2>5, <2>7, CounterStep
  <2>9. a.output[o] = X \cup g
    BY <1>1, <2>7 DEF X
  <2>10. QED
    BY <1>3, <2>6, <2>7, <2>8, <2>9
<1>6. RunCounts(a, k + 1)
  BY <1>3, <1>4, <1>5 DEF RunCounts
<1>7. QED
  BY <1>6 DEF a

LEMMA AfterInv ==
    ASSUME BatchTypeOK, class \in Classes, NEW r \in Runs, NEW k \in Nat, RunInv(r, k),
           NEW prop, NEW given, IsGrant(r, prop, given), RunsAgain(k)
    PROVE  RunInv(After(r, prop, given), k + 1)
<1> DEFINE a == After(r, prop, given)
<1>1. slot \in Slots
  BY DEF BatchTypeOK
<1>2. \A S \in SUBSET Upto : Cardinality(S) \in Nat
  BY <1>1, UptoFacts
<1>3. /\ prop \in Assignments /\ given \in [Inputs -> SUBSET Upto]
      /\ r.sched \in [Slots -> Assignments]
      /\ r.voq \in [Inputs -> [Outputs -> Int]]
      /\ r.input \in [Inputs -> SUBSET Upto] /\ r.output \in [Outputs -> SUBSET Upto]
      /\ r.availability \in [input : [Inputs -> Int], output : [Outputs -> Int]]
  BY DEF IsGrant, Runs, Schedules
<1>4. a.sched \in Schedules
  BY <1>3 DEF After, Schedules, Assignments
<1>5. a.voq \in [Inputs -> [Outputs -> Int]]
  <2>1. a.voq = [i \in Inputs |-> [o \in Outputs |->
                  r.voq[i][o] - IF prop[i] = o THEN Cardinality(given[i]) ELSE 0]]
    BY DEF After
  <2>2. \A i \in Inputs, o \in Outputs :
          r.voq[i][o] - (IF prop[i] = o THEN Cardinality(given[i]) ELSE 0) \in Int
    BY <1>2, <1>3
  <2>3. QED
    BY <2>1, <2>2
<1>6. a.input \in [Inputs -> SUBSET Upto] /\ a.output \in [Outputs -> SUBSET Upto]
  BY <1>3 DEF After, Proposers
<1>7. a.availability \in [input : [Inputs -> Int], output : [Outputs -> Int]]
  <2> DEFINE in == [i \in Inputs |-> r.availability.input[i] - Cardinality(Checked(given[i]))
                      + (IF PlacedIn(r, prop, given)[slot][i] = None THEN 1 ELSE 0)]
             out == [o \in Outputs |-> r.availability.output[o]
                      - Cardinality(UNION { Checked(given[i]) : i \in Proposers(prop, o) })
                      + (IF slot \in UNION { given[i] : i \in Proposers(prop, o) } THEN 0 ELSE 1)]
  <2>1. a.availability = [input |-> in, output |-> out]
    BY DEF After, PlacedIn, NextAvailability, Checked
  <2>2. in \in [Inputs -> Int]
    <3>1. ASSUME NEW i \in Inputs PROVE Cardinality(Checked(given[i])) \in Nat
      BY <1>2, <1>3 DEF Checked
    <3>2. QED
      BY <1>3, <3>1
  <2>3. out \in [Outputs -> Int]
    <3>1. ASSUME NEW o \in Outputs
          PROVE  Cardinality(UNION { Checked(given[i]) : i \in Proposers(prop, o) }) \in Nat
      <4>1. UNION { Checked(given[i]) : i \in Proposers(prop, o) } \in SUBSET Upto
        BY <1>3 DEF Checked, Proposers
      <4>2. QED
        BY <1>2, <4>1
    <3>2. QED
      BY <1>3, <3>1
  <2> HIDE DEF in, out
  <2>4. QED
    BY <2>1, <2>2, <2>3
<1>8. DOMAIN a = {"sched", "voq", "input", "output", "availability"} /\
      a = [sched |-> a.sched, voq |-> a.voq, input |-> a.input, output |-> a.output,
           availability |-> a.availability]
  BY DEF After
<1>9. RunBits(a) /\ RunKeeps(a)
  BY AfterBits
<1>10. RunCounts(a, k + 1)
  BY <1>1, AfterCounts
<1>11. RunCharged(a)
  BY AfterCharged
<1> HIDE DEF a
<1>12. a \in Runs
  BY <1>4, <1>5, <1>6, <1>7, <1>8 DEF Runs
<1>13. RunInv(a, k + 1)
  BY <1>9, <1>10, <1>11, <1>12 DEF RunInv
<1>14. QED
  BY <1>13 DEF a

-----------------------------------------------------------------------------
(* SB_QPS_Availability: a call of schedule() and the inductive invariant.  *)

(* Besides the properties themselves: the bitmaps never run ahead of the    *)
(* current slot (BitsCover bounds those of the outputs from below only), and *)
(* a class that does not overwrite keeps the invariant of the abstract batch *)
(* scheduler.                                                               *)
AvInv ==
    /\ AvailabilityTypeOK
    /\ \A o \in Outputs : ouputMatchBitmap[o] \subseteq 0 .. slot - 1
    /\ BitsCover
    /\ AvailabilityAgrees
    /\ HandOversCleared
    /\ NeverCountedTwice
    /\ ~ Overwrites => IInv

(* AvailabilityAgrees in the terms of CountsAs. *)
CountersAgree ==
    /\ \A i \in Inputs : CountsAs(availability.input[i], slot - Cardinality(inputMatchBitmap[i]))
    /\ \A o \in Outputs : CountsAs(availability.output[o], slot - Cardinality(ouputMatchBitmap[o]))

LEMMA CountersAgreeIff == AvailabilityAgrees <=> CountersAgree
BY DEF CountersAgree, AvailabilityAgrees, CountsAs, Overwrites

LEMMA CountersAgreeNext == AvailabilityAgrees' <=> CountersAgree'
BY CountersAgreeIff, PTL

LEMMA NoneOpen ==
    ASSUME BatchTypeOK
    PROVE  /\ Open \in Schedules /\ Arrived \in QueueLengths
           /\ \A i \in Inputs : Open[slot][i] = None
           /\ \A f \in Slots : f # slot => Open[f] = schedules[f]
<1>1. schedules \in Schedules /\ slot \in Slots /\ Open = Cleared(schedules, slot)
  BY SmallBatchDispatchesFirst DEF BatchTypeOK, Schedules, Open
<1>2. Open \in Schedules
  BY <1>1, ClearedType
<1>3. Arrived \in QueueLengths
  BY EnqueueType DEF BatchTypeOK, SwitchTypeOK, Arrived
<1>4. QED
  BY <1>1, <1>2, <1>3 DEF Cleared, Schedules, NoMatch

LEMMA StartInv == AvInv => RunInv(Start, 0)
<1> SUFFICES ASSUME AvInv PROVE RunInv(Start, 0)
  OBVIOUS
<1>1. BatchTypeOK /\ slot \in Slots /\ slot \in Nat /\ slot \in Upto
  BY UptoFacts DEF AvInv, AvailabilityTypeOK, SmallBatchTypeOK, BatchTypeOK
<1>2. /\ Open \in Schedules /\ Arrived \in QueueLengths
      /\ \A i \in Inputs : Open[slot][i] = None
      /\ \A f \in Slots : f # slot => Open[f] = schedules[f]
  BY <1>1, NoneOpen
<1>3. Upto = 0 .. slot - 1 \cup {slot} /\ slot \notin 0 .. slot - 1 /\ Upto \subseteq Slots
  BY <1>1, UptoFacts DEF Upto
<1>4. /\ \A i \in Inputs : inputMatchBitmap[i] = { f \in 0 .. slot - 1 : schedules[f][i] # None }
      /\ \A o \in Outputs :
           /\ { f \in 0 .. slot - 1 : \E i \in Inputs : schedules[f][i] = o }
                \subseteq ouputMatchBitmap[o]
           /\ ~ Overwrites => ouputMatchBitmap[o] =
                { f \in 0 .. slot - 1 : \E i \in Inputs : schedules[f][i] = o }
           /\ ouputMatchBitmap[o] \subseteq 0 .. slot - 1
  BY DEF AvInv, BitsCover
<1>5. /\ inputMatchBitmap \in [Inputs -> SUBSET Slots]
      /\ ouputMatchBitmap \in [Outputs -> SUBSET Slots]
      /\ availability \in [input : [Inputs -> Int], output : [Outputs -> Int]]
      /\ class \in Classes
  BY DEF AvInv, AvailabilityTypeOK, SmallBatchTypeOK
<1>6. Start \in Runs
  <2>1. inputMatchBitmap \in [Inputs -> SUBSET Upto] /\ ouputMatchBitmap \in [Outputs -> SUBSET Upto]
    BY <1>3, <1>4, <1>5
  <2>2. Arrived \in [Inputs -> [Outputs -> Int]]
    BY <1>2 DEF QueueLengths
  <2>3. QED
    BY <1>2, <1>5, <2>1, <2>2 DEF Runs, Start
<1>7. RunBits(Start)
  <2>1. \A i \in Inputs : inputMatchBitmap[i] = { f \in Upto : Open[f][i] # None }
    BY <1>2, <1>3, <1>4
  <2>2. \A o \in Outputs :
          Users(Open, o) = { f \in 0 .. slot - 1 : \E i \in Inputs : schedules[f][i] = o }
    BY <1>2, <1>3, NoneIsNoPort DEF Users
  <2>3. QED
    BY <1>4, <2>1, <2>2 DEF RunBits, Start
<1>8. RunCounts(Start, 0)
  <2>1. CountersAgree
    BY CountersAgreeIff DEF AvInv
  <2>2. QED
    BY <1>3, <1>4, <2>1 DEF CountersAgree, RunCounts, Passed, Start
<1>9. RunCharged(Start)
  <2>1. Legal(Open, Open)
    BY DEF Legal
  <2>2. Arrived = Left(Open)
    <3>1. \A i \in Inputs, o \in Outputs : Cardinality(NewlyPlaced(Open, i, o)) = 0
      BY FS_EmptySet DEF NewlyPlaced
    <3>2. QED
      BY <1>2, <3>1 DEF Left, QueueLengths
  <2>3. \A i \in Inputs, o \in Outputs :
          /\ Arrived[i][o] \in Nat /\ Cardinality(PlacedSlots(Open, i, o)) \in Nat
    BY <1>2, PlacedSlotsFinite DEF QueueLengths
  <2>4. QED
    BY <2>1, <2>2, <2>3 DEF RunCharged, Start
<1>10. QED
  BY <1>6, <1>7, <1>8, <1>9 DEF RunInv, RunKeeps, Start

(* A run from a state that is sound ends in one, and so do all of a call's  *)
(* unless a VOQ length has become negative.                                *)
LEMMA AvQpsInv ==
    ASSUME BatchTypeOK, class \in Classes, NEW r, NEW k \in Nat,
           Fails(r) \/ RunInv(r, k), RunsAgain(k), NEW q \in AvQps(r)
    PROVE  Fails(q) \/ RunInv(q, k + 1)
<1>1. CASE Fails(r)
  BY <1>1 DEF AvQps
<1>2. CASE ~ Fails(r)
  <2>1. RunInv(r, k) /\ r \in Runs /\ slot \in Slots
    BY <1>2 DEF RunInv, BatchTypeOK
  <2>2. PICK prop \in Proposals(r.voq) : \E c \in Firsts(r, prop) \X Orders(prop, r.voq) :
          q = After(r, prop, Given(r, prop, c[1], c[2]))
    BY <1>2 DEF AvQps, Given
  <2>3. PICK first \in Firsts(r, prop), rank \in Orders(prop, r.voq) :
          q = After(r, prop, Given(r, prop, first, rank))
    BY <2>2
  <2>4. IsGrant(r, prop, Given(r, prop, first, rank))
    BY <2>1, GivenIsGrant
  <2>5. QED
    BY <1>1, <2>1, <2>3, <2>4, AfterInv
<1>3. QED
  BY <1>1, <1>2

LEMMA OutcomesInv ==
    ASSUME AvInv, NEW q \in Outcomes, ~ Fails(q)
    PROVE  \E k \in Nat \ {0} : RunInv(q, k)
<1> DEFINE more(S) == UNION { AvQps(r) : r \in S }
           S0 == {Start}
           S1 == more(S0)
           S2 == more(S1)
           S3 == more(S2)
           f == [k \in 0 .. 3 |-> IF k = 0 THEN S0 ELSE IF k = 1 THEN S1 ELSE IF k = 2 THEN S2 ELSE S3]
           Sound(S, k) == \A r \in S : Fails(r) \/ RunInv(r, k)
<1>1. BatchTypeOK /\ class \in Classes
  BY DEF AvInv, AvailabilityTypeOK, SmallBatchTypeOK
<1>2. f = [k \in 0 .. 3 |-> IF k = 0 THEN {Start} ELSE UNION { AvQps(r) : r \in f[k - 1] }]
  <2> HIDE DEF S1, S2, S3
  <2>1. /\ f[0] = S0 /\ f[1] = S1 /\ f[2] = S2 /\ f[3] = S3
        /\ S1 = UNION { AvQps(r) : r \in S0 } /\ S2 = UNION { AvQps(r) : r \in S1 }
        /\ S3 = UNION { AvQps(r) : r \in S2 }
    BY DEF S1, S2, S3
  <2>2. \A k \in 0 .. 3 : k = 0 \/ k = 1 \/ k = 2 \/ k = 3
    OBVIOUS
  <2> HIDE DEF f
  <2>3. \A k \in 0 .. 3 :
          f[k] = IF k = 0 THEN {Start} ELSE UNION { AvQps(r) : r \in f[k - 1] }
    <3> TAKE k \in 0 .. 3
    <3>1. CASE k = 0
      BY <2>1, <3>1
    <3>2. CASE k = 1
      BY <2>1, <3>2
    <3>3. CASE k = 2
      BY <2>1, <3>3
    <3>4. CASE k = 3
      BY <2>1, <3>4
    <3>5. QED
      BY <2>2, <3>1, <3>2, <3>3, <3>4
  <2>4. f = [k \in 0 .. 3 |-> f[k]]
    BY DEF f
  <2>5. QED
    BY <2>3, <2>4
<1>3. PICK run :
        /\ run = [k \in 0 .. 3 |-> IF k = 0 THEN {Start} ELSE UNION { AvQps(r) : r \in run[k - 1] }]
        /\ Outcomes = run[MaxIters]
  <2>1. \E it : it = [k \in 0 .. 3 |-> IF k = 0 THEN {Start} ELSE UNION { AvQps(r) : r \in it[k - 1] }]
    <3> HIDE DEF f
    <3>1. QED
      BY <1>2
  <2>2. QED
    BY <2>1 DEF Outcomes
<1>4. /\ MaxIters \in {1, 2, 3}
      /\ MaxIters # 1 => class \in {"MI", "ThreeThird", "MA_MI"}
  BY DEF MaxIters
<1>5. /\ run[0] = {Start} /\ run[1] = more(run[0]) /\ run[2] = more(run[1]) /\ run[3] = more(run[2])
  BY <1>3
<1>6. Sound(run[0], 0)
  BY <1>5, StartInv
<1>7. ASSUME NEW S, NEW k \in Nat, Sound(S, k), RunsAgain(k) PROVE Sound(more(S), k + 1)
  BY <1>1, <1>7, AvQpsInv
<1> HIDE DEF more, Sound
<1>8. Sound(run[1], 1)
  <2>1. Sound(more(run[0]), 0 + 1)
    BY <1>6, <1>7 DEF RunsAgain
  <2>2. QED
    BY <1>5, <2>1
<1>9. MaxIters # 1 => Sound(run[2], 2)
  <2> SUFFICES ASSUME MaxIters # 1 PROVE Sound(run[2], 2)
    OBVIOUS
  <2>1. Sound(more(run[1]), 1 + 1)
    BY <1>4, <1>7, <1>8 DEF RunsAgain
  <2>2. QED
    BY <1>5, <2>1
<1>10. MaxIters # 1 => Sound(run[3], 3)
  <2> SUFFICES ASSUME MaxIters # 1 PROVE Sound(run[3], 3)
    OBVIOUS
  <2>1. Sound(more(run[2]), 2 + 1)
    BY <1>4, <1>7, <1>9 DEF RunsAgain
  <2>2. QED
    BY <1>5, <2>1
<1>11. PICK k \in {1, 2, 3} : Sound(Outcomes, k)
  BY <1>3, <1>4, <1>8, <1>9, <1>10
<1>12. k \in Nat \ {0} /\ RunInv(q, k)
  BY <1>11 DEF Sound
<1>13. QED
  BY <1>12

LEMMA AvInitInv == AvInit => AvInv /\ BatchInit
<1> SUFFICES ASSUME AvInit PROVE AvInv /\ BatchInit
  OBVIOUS
<1>1. BatchInit /\ inputMatchBitmap = NoInputBits /\ ouputMatchBitmap = NoOutputBits
  BY DEF AvInit, Init
<1>2. slot = 0 /\ 0 .. slot - 1 = {}
  BY <1>1 DEF BatchInit
<1>3. AvailabilityTypeOK
  <2>1. aborted \in BOOLEAN /\ class \in Classes
    BY DEF AvInit
  <2>2. availability \in [input : [Inputs -> Int], output : [Outputs -> Int]]
    BY DEF AvInit, NoAvailability
  <2>3. SmallBatchTypeOK
    BY <1>1, TypeInit DEF SmallBatchTypeOK, NoInputBits, NoOutputBits
  <2>4. QED
    BY <2>1, <2>2, <2>3 DEF AvailabilityTypeOK
<1>4. BitsCover
  BY <1>1, <1>2 DEF BitsCover, NoInputBits, NoOutputBits
<1>5. AvailabilityAgrees
  <2>1. slot - Cardinality({}) = 0
    BY <1>2, FS_EmptySet
  <2>2. CountersAgree
    BY <1>1, <2>1 DEF AvInit, NoAvailability, NoInputBits, NoOutputBits, CountersAgree, CountsAs
  <2>3. QED
    BY <2>2, CountersAgreeIff
<1>6. IInv
  BY <1>1, InvInit
<1>7. NeverCountedTwice
  <2> SUFFICES ASSUME NEW i \in Inputs, NEW o \in Outputs
               PROVE  queue_len[i][o] >= VOQLength[i][o] + Cardinality(PlacedSlots(schedules, i, o))
                                           + (IF arrivals[i] = o THEN 1 ELSE 0)
                                           + (IF in_match[i] = o THEN 1 ELSE 0)
    BY DEF NeverCountedTwice
  <2>1. queue_len[i][o] = VOQLength[i][o] + Cardinality(PlacedSlots(schedules, i, o))
                            + (IF arrivals[i] = o THEN 1 ELSE 0)
                            + (IF in_match[i] = o THEN 1 ELSE 0)
    BY <1>6 DEF IInv, QueuesAccountedFor
  <2>2. queue_len[i][o] \in Nat
    BY <1>6 DEF IInv, BatchTypeOK, SwitchTypeOK, QueueLengths
  <2>3. QED
    BY <2>1, <2>2
<1>8. \A o \in Outputs : ouputMatchBitmap[o] \subseteq 0 .. slot - 1
  BY <1>1 DEF NoOutputBits
<1>9. QED
  BY <1>1, <1>3, <1>4, <1>5, <1>6, <1>7, <1>8 DEF AvInv, IInv

LEMMA AvResetInv == AvInv /\ AvReset => AvInv' /\ BatchReset
<1> SUFFICES ASSUME AvInv, AvReset PROVE AvInv' /\ BatchReset
  OBVIOUS
<1>1. /\ BatchReset /\ inputMatchBitmap' = NoInputBits /\ ouputMatchBitmap' = NoOutputBits
      /\ availability' = NoAvailability /\ UNCHANGED <<aborted, class>>
  BY DEF AvReset, Reset
<1>2. slot' = 0 /\ 0 .. slot' - 1 = {}
  BY <1>1 DEF BatchReset
<1>3. BatchTypeOK'
  BY <1>1, TypeStep DEF AvInv, AvailabilityTypeOK, SmallBatchTypeOK, BatchNext
<1>4. AvailabilityTypeOK'
  BY <1>1, <1>3 DEF AvInv, AvailabilityTypeOK, SmallBatchTypeOK, NoInputBits, NoOutputBits,
                    NoAvailability
<1>5. BitsCover'
  BY <1>1, <1>2 DEF BitsCover, NoInputBits, NoOutputBits
<1>6. AvailabilityAgrees'
  <2>1. slot' - Cardinality({}) = 0
    BY <1>2, FS_EmptySet
  <2>2. /\ \A i \in Inputs : /\ availability'.input[i] = 0
                             /\ slot' - Cardinality(inputMatchBitmap'[i]) = 0
        /\ \A o \in Outputs : /\ availability'.output[o] = 0
                              /\ slot' - Cardinality(ouputMatchBitmap'[o]) = 0
    BY <1>1, <2>1 DEF NoAvailability, NoInputBits, NoOutputBits
  <2>3. QED
    BY <2>2 DEF AvailabilityAgrees
<1>7. HandOversCleared'
  BY <1>1 DEF BatchReset, SwitchReset, HandOversCleared
<1>8. NeverCountedTwice'
  <2> SUFFICES ASSUME NEW i \in Inputs, NEW o \in Outputs
               PROVE  (queue_len[i][o] >= VOQLength[i][o]
                         + Cardinality(PlacedSlots(schedules, i, o))
                         + (IF arrivals[i] = o THEN 1 ELSE 0)
                         + (IF in_match[i] = o THEN 1 ELSE 0))'
    BY DEF NeverCountedTwice
  <2>1. PlacedSlots(schedules, i, o)' = {}
    BY <1>1, NoneIsNoPort DEF PlacedSlots, BatchReset, NoMatch
  <2>2. Cardinality(PlacedSlots(schedules, i, o)') = 0
    BY <2>1, FS_EmptySet
  <2>3. /\ queue_len'[i][o] = 0 /\ VOQLength'[i][o] = 0
        /\ arrivals'[i] # o /\ in_match'[i] # o
    BY <1>1, NoneIsNoPort DEF BatchReset, SwitchReset, EmptyQueues, NoMatch
  <2>4. QED
    BY <2>2, <2>3
<1>9. ~ Overwrites' => IInv'
  BY <1>1, InvStep DEF AvInv, Overwrites, BatchNext
<1>10. \A o \in Outputs : ouputMatchBitmap'[o] \subseteq 0 .. slot' - 1
  BY <1>1 DEF NoOutputBits
<1>11. QED
  BY <1>1, <1>4, <1>5, <1>6, <1>7, <1>8, <1>9, <1>10 DEF AvInv

(* Arrivals enter both accounts, and a departing packet has left the slots. *)
LEMMA AvSwitchInv == AvInv /\ AvSwitchStep => AvInv' /\ SwitchStep
<1> SUFFICES ASSUME AvInv, AvSwitchStep PROVE AvInv' /\ SwitchStep
  OBVIOUS
<1>1. SwitchStep /\ UNCHANGED bitmaps /\ UNCHANGED <<availability, aborted, class>>
  BY DEF AvSwitchStep, SmallBatchStep
<1>2. /\ schedules' = schedules /\ VOQLength' = VOQLength /\ slot' = slot
      /\ inputMatchBitmap' = inputMatchBitmap /\ ouputMatchBitmap' = ouputMatchBitmap
      /\ availability' = availability /\ aborted' = aborted /\ class' = class
  BY <1>1 DEF SwitchStep, batchVars, bitmaps
<1>3. BatchTypeOK /\ BatchTypeOK'
  BY <1>1, TypeStep DEF AvInv, AvailabilityTypeOK, SmallBatchTypeOK, BatchNext
<1>4. AvailabilityTypeOK'
  BY <1>2, <1>3 DEF AvInv, AvailabilityTypeOK, SmallBatchTypeOK
<1>5. BitsCover'
  BY <1>2 DEF AvInv, BitsCover, Overwrites
<1>6. AvailabilityAgrees'
  <2>1. CountersAgree
    BY CountersAgreeIff DEF AvInv
  <2>2. CountersAgree'
    BY <1>2, <2>1 DEF CountersAgree, CountsAs, Overwrites
  <2>3. QED
    BY <2>2, CountersAgreeNext
<1>7. HandOversCleared'
  BY <1>1 DEF AvInv, SwitchStep, HandOversCleared, ReadInputs, WriteOutputs
<1>8. NeverCountedTwice'
  <2> SUFFICES ASSUME NEW i \in Inputs, NEW o \in Outputs
               PROVE  (queue_len[i][o] >= VOQLength[i][o]
                         + Cardinality(PlacedSlots(schedules, i, o))
                         + (IF arrivals[i] = o THEN 1 ELSE 0)
                         + (IF in_match[i] = o THEN 1 ELSE 0))'
    BY DEF NeverCountedTwice
  <2>0. PlacedSlots(schedules, i, o)' = PlacedSlots(schedules, i, o)
    BY <1>2 DEF PlacedSlots
  <2>1. /\ PlacedSlots(schedules, i, o)' = PlacedSlots(schedules, i, o)
        /\ Cardinality(PlacedSlots(schedules, i, o)) \in Nat
    BY <2>0, PlacedSlotsFinite
  <2>2. queue_len[i][o] \in Nat /\ VOQLength[i][o] \in Nat
    BY <1>3 DEF BatchTypeOK, SwitchTypeOK, QueueLengths
  <2>3. queue_len[i][o] >= VOQLength[i][o] + Cardinality(PlacedSlots(schedules, i, o))
                             + (IF arrivals[i] = o THEN 1 ELSE 0)
                             + (IF in_match[i] = o THEN 1 ELSE 0)
    BY DEF AvInv, NeverCountedTwice
  <2>4. CASE ReadInputs
    <3>1. PICK arr \in Assignments : arrivals' = arr /\ queue_len' = Enqueue(queue_len, arr)
      BY <2>4 DEF ReadInputs
    <3>2. queue_len'[i][o] = queue_len[i][o] + IF arr[i] = o THEN 1 ELSE 0
      BY <3>1 DEF Enqueue
    <3>3. arrivals[i] # o /\ in_match[i] # o /\ in_match' = in_match
      BY <2>4, NoneIsNoPort DEF AvInv, HandOversCleared, ReadInputs, NoMatch
    <3>4. QED
      BY <1>2, <2>1, <2>2, <2>3, <3>1, <3>2, <3>3
  <2>5. CASE WriteOutputs
    <3>1. queue_len'[i][o] =
            queue_len[i][o] - IF in_match[i] = o /\ queue_len[i][o] # 0 THEN 1 ELSE 0
      BY <2>5 DEF WriteOutputs, Dequeue
    <3>2. arrivals[i] # o /\ arrivals'[i] # o /\ in_match'[i] # o
      BY <2>5, NoneIsNoPort DEF AvInv, HandOversCleared, WriteOutputs, NoMatch
    <3>3. QED
      BY <1>2, <2>1, <2>2, <2>3, <3>1, <3>2
  <2>6. QED
    BY <1>1, <2>4, <2>5 DEF SwitchStep
<1>9. ~ Overwrites' => IInv'
  BY <1>1, InvStep DEF AvInv, Overwrites, BatchNext
<1>10. QED
  BY <1>1, <1>2, <1>4, <1>5, <1>6, <1>7, <1>8, <1>9 DEF AvInv

(* An assertion that fails changes nothing else. *)
LEMMA AvSameInv ==
    ASSUME AvInv, UNCHANGED vars, UNCHANGED bitmaps, availability' = availability,
           class' = class, aborted' \in BOOLEAN
    PROVE  AvInv'
<1>1. /\ schedules' = schedules /\ VOQLength' = VOQLength /\ slot' = slot /\ phase' = phase
      /\ queue_len' = queue_len /\ arrivals' = arrivals /\ in_match' = in_match
      /\ inputMatchBitmap' = inputMatchBitmap /\ ouputMatchBitmap' = ouputMatchBitmap
  BY DEF vars, switchVars, batchVars, bitmaps
<1>2. AvailabilityTypeOK'
  BY <1>1 DEF AvInv, AvailabilityTypeOK, SmallBatchTypeOK, BatchTypeOK, SwitchTypeOK
<1>3. BitsCover'
  BY <1>1 DEF AvInv, BitsCover, Overwrites
<1>4. AvailabilityAgrees'
  <2>1. CountersAgree
    BY CountersAgreeIff DEF AvInv
  <2>2. CountersAgree'
    BY <1>1, <2>1 DEF CountersAgree, CountsAs, Overwrites
  <2>3. QED
    BY <2>2, CountersAgreeNext
<1>5. HandOversCleared'
  BY <1>1 DEF AvInv, HandOversCleared
<1>6. NeverCountedTwice'
  BY <1>1 DEF AvInv, NeverCountedTwice, PlacedSlots
<1>7. ~ Overwrites' => IInv'
  BY InvStep DEF AvInv, Overwrites
<1>8. QED
  BY <1>1, <1>2, <1>3, <1>4, <1>5, <1>6, <1>7 DEF AvInv

(* A call of schedule() that does not fail. *)
LEMMA AvScheduleInv ==
    ASSUME AvInv, NEW r \in Outcomes, ~ Fails(r), ScheduleBatch(r.sched, r.voq), Mark(r),
           UNCHANGED <<aborted, class>>
    PROVE  AvInv' /\ (~ Overwrites => BatchSchedule) /\ PlacementsKept
<1>1. PICK k \in Nat \ {0} : RunInv(r, k)
  BY OutcomesInv
<1>2. /\ r \in Runs /\ RunBits(r) /\ RunKeeps(r) /\ RunCounts(r, k) /\ RunCharged(r)
      /\ Passed(k) = slot + 1
  BY <1>1 DEF RunInv, Passed
<1>3. /\ BatchTypeOK /\ class \in Classes
      /\ slot \in Slots /\ slot \in Nat /\ schedules \in Schedules /\ BatchSize \in Nat \ {0}
  BY BatchSizePos, UptoFacts
     DEF AvInv, AvailabilityTypeOK, SmallBatchTypeOK, BatchTypeOK, Schedules
<1>4. /\ phase = "schedule" /\ phase' = "write_outputs" /\ arrivals' = NoMatch
      /\ queue_len' = queue_len /\ in_match' = schedules[slot]
      /\ schedules' = r.sched /\ VOQLength' = r.voq /\ slot' = NextSlot
      /\ aborted' = aborted /\ class' = class
  BY SmallBatchDispatchesFirst DEF ScheduleBatch, ScheduleWith, HandedOut, Kept
<1>5. r.sched \in Schedules /\ r.voq \in QueueLengths
  <2>1. r.sched \in Schedules /\ r.voq \in [Inputs -> [Outputs -> Int]]
    BY <1>2 DEF Runs
  <2>2. \A i \in Inputs, o \in Outputs : r.voq[i][o] \in Nat
    BY <2>1 DEF Fails
  <2>3. QED
    BY <2>1, <2>2 DEF QueueLengths
<1>6. BatchTypeOK'
  <2>1. NextSlot \in Slots
    BY <1>3 DEF NextSlot, Slots
  <2>2. schedules[slot] \in Assignments
    BY <1>3 DEF Schedules
  <2>3. queue_len' \in QueueLengths /\ phase' \in Phases
    BY <1>3, <1>4 DEF BatchTypeOK, SwitchTypeOK, Phases
  <2>4. QED
    BY <1>4, <1>5, <2>1, <2>2, <2>3, NoMatchType DEF BatchTypeOK, SwitchTypeOK, Schedules
<1>7. /\ Open \in Schedules /\ Arrived \in QueueLengths
      /\ \A f \in Slots : f # slot => Open[f] = schedules[f]
  BY <1>3, NoneOpen
<1>8. ~ Overwrites => BatchSchedule
  <2> SUFFICES ASSUME ~ Overwrites PROVE BatchSchedule
    OBVIOUS
  <2>1. Placed = r.sched
    BY <1>4, SmallBatchDispatchesFirst DEF Placed
  <2>2. Legal(Open, r.sched) /\ r.voq = Left(r.sched)
    BY <1>2 DEF RunCharged
  <2>3. in_match' \in Assignments /\ schedules' \in [Slots -> Assignments]
    BY <1>6 DEF BatchTypeOK, SwitchTypeOK
  <2>4. QED
    BY <1>5, <2>1, <2>2, <2>3 DEF BatchSchedule
<1>9. PlacementsKept
  <2> SUFFICES ASSUME NEW f \in Slots, NEW i \in Inputs, schedules[f][i] # None
               PROVE  \/ schedules'[f][i] = schedules[f][i]
                      \/ slot = f /\ in_match'[i] = schedules[f][i]
    BY DEF PlacementsKept
  <2>1. CASE f = slot
    BY <1>4, <2>1
  <2>2. CASE f # slot
    BY <1>2, <1>4, <1>7, <2>2 DEF RunKeeps
  <2>3. QED
    BY <2>1, <2>2
<1>10. HandOversCleared'
  BY <1>4 DEF HandOversCleared
<1>11. NeverCountedTwice'
  <2> SUFFICES ASSUME NEW i \in Inputs, NEW o \in Outputs
               PROVE  (queue_len[i][o] >= VOQLength[i][o]
                         + Cardinality(PlacedSlots(schedules, i, o))
                         + (IF arrivals[i] = o THEN 1 ELSE 0)
                         + (IF in_match[i] = o THEN 1 ELSE 0))'
    BY DEF NeverCountedTwice
  <2> DEFINE before == Cardinality(PlacedSlots(schedules, i, o))
             open == Cardinality(PlacedSlots(Open, i, o))
             after == Cardinality(PlacedSlots(r.sched, i, o))
  <2>1. PlacedSlots(schedules, i, o)' = PlacedSlots(r.sched, i, o)
    BY <1>4 DEF PlacedSlots
  <2>2. before \in Nat /\ open \in Nat /\ after \in Nat
    BY PlacedSlotsFinite
  <2>3. before = open + (IF schedules[slot][i] = o THEN 1 ELSE 0)
    BY <1>3, ClearedCount, SmallBatchDispatchesFirst DEF Open
  <2>4. r.voq[i][o] + after <= Arrived[i][o] + open
    BY <1>2 DEF RunCharged
  <2>5. Arrived[i][o] = VOQLength[i][o] + (IF arrivals[i] = o THEN 1 ELSE 0)
    BY DEF Arrived, Enqueue
  <2>6. queue_len[i][o] >= VOQLength[i][o] + before + (IF arrivals[i] = o THEN 1 ELSE 0)
                             + (IF in_match[i] = o THEN 1 ELSE 0)
    BY DEF AvInv, NeverCountedTwice
  <2>7. in_match[i] # o /\ arrivals'[i] # o
    BY <1>4, NoneIsNoPort DEF AvInv, HandOversCleared, NoMatch
  <2>8. VOQLength[i][o] \in Nat /\ queue_len[i][o] \in Nat /\ r.voq[i][o] \in Nat
    BY <1>3, <1>5 DEF BatchTypeOK, SwitchTypeOK, QueueLengths
  <2> HIDE DEF before, open, after
  <2>9. queue_len[i][o] >= r.voq[i][o] + after + (IF schedules[slot][i] = o THEN 1 ELSE 0)
    BY <2>2, <2>3, <2>4, <2>5, <2>6, <2>7, <2>8
  <2>10. QED
    BY <1>4, <2>1, <2>2, <2>7, <2>8, <2>9 DEF after
<1>12. ~ Overwrites' => IInv'
  BY <1>4, <1>8, InvStep DEF AvInv, Overwrites, BatchNext
<1>13. CASE slot = BatchSize - 1
  <2>1. /\ slot' = 0 /\ 0 .. slot' - 1 = {}
        /\ inputMatchBitmap' = NoInputBits /\ ouputMatchBitmap' = NoOutputBits
        /\ availability' = NoAvailability
    BY <1>4, <1>13 DEF NextSlot, Mark
  <2>2. AvailabilityTypeOK'
    BY <1>3, <1>4, <1>6, <2>1
       DEF AvInv, AvailabilityTypeOK, SmallBatchTypeOK, NoInputBits, NoOutputBits, NoAvailability
  <2>3. BitsCover'
    BY <2>1 DEF BitsCover, NoInputBits, NoOutputBits
  <2>4. CountersAgree'
    <3>1. slot' - Cardinality({}) = 0
      BY <2>1, FS_EmptySet
    <3>2. /\ \A i \in Inputs : /\ availability'.input[i] = 0
                               /\ slot' - Cardinality(inputMatchBitmap'[i]) = 0
          /\ \A o \in Outputs : /\ availability'.output[o] = 0
                                /\ slot' - Cardinality(ouputMatchBitmap'[o]) = 0
      BY <2>1, <3>1 DEF NoAvailability, NoInputBits, NoOutputBits
    <3>3. QED
      BY <3>2 DEF CountersAgree, CountsAs
  <2>5. \A o \in Outputs : ouputMatchBitmap'[o] \subseteq 0 .. slot' - 1
    BY <2>1 DEF NoOutputBits
  <2>6. QED
    BY <1>8, <1>9, <1>10, <1>11, <1>12, <2>2, <2>3, <2>4, <2>5, CountersAgreeNext DEF AvInv
<1>14. CASE slot # BatchSize - 1
  <2>1. /\ slot' = slot + 1 /\ 0 .. slot' - 1 = Upto /\ Upto \subseteq Slots
        /\ inputMatchBitmap' = r.input /\ ouputMatchBitmap' = r.output
        /\ availability' = r.availability
    BY <1>3, <1>4, <1>14, UptoFacts DEF NextSlot, Mark, Upto
  <2>2. /\ r.input \in [Inputs -> SUBSET Upto] /\ r.output \in [Outputs -> SUBSET Upto]
        /\ r.availability \in [input : [Inputs -> Int], output : [Outputs -> Int]]
    BY <1>2 DEF Runs
  <2>3. AvailabilityTypeOK'
    BY <1>3, <1>4, <1>6, <2>1, <2>2 DEF AvInv, AvailabilityTypeOK, SmallBatchTypeOK
  <2>4. BitsCover'
    <3>1. \A i \in Inputs : inputMatchBitmap'[i] = { f \in 0 .. slot' - 1 : schedules'[f][i] # None }
      BY <1>2, <1>4, <2>1 DEF RunBits
    <3>2. \A o \in Outputs :
            /\ { f \in 0 .. slot' - 1 : \E i \in Inputs : schedules'[f][i] = o }
                 \subseteq ouputMatchBitmap'[o]
            /\ ~ Overwrites' => ouputMatchBitmap'[o] =
                 { f \in 0 .. slot' - 1 : \E i \in Inputs : schedules'[f][i] = o }
      BY <1>2, <1>4, <2>1 DEF RunBits, Users, Overwrites
    <3>3. QED
      BY <3>1, <3>2, Zenon DEF BitsCover
  <2>5. CountersAgree'
    <3>1. \A i \in Inputs : CountsAs(r.availability.input[i], (slot + 1) - Cardinality(r.input[i]))
      BY <1>2, Zenon DEF RunCounts
    <3>2. \A o \in Outputs : CountsAs(r.availability.output[o], (slot + 1) - Cardinality(r.output[o]))
      BY <1>2, Zenon DEF RunCounts
    <3>3. class' = class /\ slot' = slot + 1
      BY <1>4, <2>1
    <3>4. ASSUME NEW i \in Inputs
          PROVE  CountsAs(availability.input[i], slot - Cardinality(inputMatchBitmap[i]))'
      <4>1. CountsAs(r.availability.input[i], (slot + 1) - Cardinality(r.input[i]))
        BY <3>1
      <4>2. QED
        BY <2>1, <3>3, <4>1, Zenon DEF CountsAs, Overwrites
    <3>5. ASSUME NEW o \in Outputs
          PROVE  CountsAs(availability.output[o], slot - Cardinality(ouputMatchBitmap[o]))'
      <4>1. CountsAs(r.availability.output[o], (slot + 1) - Cardinality(r.output[o]))
        BY <3>2
      <4>2. QED
        BY <2>1, <3>3, <4>1, Zenon DEF CountsAs, Overwrites
    <3>6. QED
      BY <3>4, <3>5, Zenon DEF CountersAgree
  <2>6. \A o \in Outputs : ouputMatchBitmap'[o] \subseteq 0 .. slot' - 1
    BY <2>1, <2>2
  <2>7. QED
    BY <1>8, <1>9, <1>10, <1>11, <1>12, <2>3, <2>4, <2>5, <2>6, CountersAgreeNext DEF AvInv
<1>15. QED
  BY <1>13, <1>14

LEMMA AvStep ==
    ASSUME AvInv, [AvNext]_avVars
    PROVE  /\ AvInv' /\ [Overwrites \/ BatchNext]_vars
           /\ [PlacementsKept \/ BatchReset]_vars
<1>1. CASE AvSwitchStep
  <2>1. AvInv' /\ SwitchStep
    BY <1>1, AvSwitchInv
  <2>2. PlacementsKept
    BY <2>1 DEF SwitchStep, batchVars, PlacementsKept
  <2>3. QED
    BY <2>1, <2>2 DEF BatchNext
<1>2. CASE AvReset
  BY <1>2, AvResetInv DEF BatchNext
<1>3. CASE AvSchedule
  <2>1. PICK r \in Outcomes :
          \/ Fails(r) /\ aborted' = TRUE /\ UNCHANGED <<sbVars, availability, class>>
          \/ ~ Fails(r) /\ ScheduleBatch(r.sched, r.voq) /\ Mark(r) /\ UNCHANGED <<aborted, class>>
    BY <1>3 DEF AvSchedule
  <2>2. CASE ~ Fails(r) /\ ScheduleBatch(r.sched, r.voq) /\ Mark(r) /\ UNCHANGED <<aborted, class>>
    BY <2>2, AvScheduleInv DEF BatchNext
  <2>3. CASE aborted' = TRUE /\ UNCHANGED <<sbVars, availability, class>>
    <3>1. UNCHANGED vars /\ UNCHANGED bitmaps /\ availability' = availability /\ class' = class
      BY <2>3 DEF sbVars
    <3>2. AvInv'
      BY <2>3, <3>1, AvSameInv
    <3>3. QED
      BY <3>1, <3>2
  <2>4. QED
    BY <2>1, <2>2, <2>3
<1>4. CASE UNCHANGED avVars
  <2>1. /\ UNCHANGED vars /\ UNCHANGED bitmaps /\ availability' = availability
        /\ class' = class /\ aborted' = aborted
    BY <1>4 DEF avVars, sbVars
  <2>2. AvInv'
    BY <2>1, AvSameInv DEF AvInv, AvailabilityTypeOK
  <2>3. QED
    BY <2>1, <2>2
<1>5. QED
  BY <1>1, <1>2, <1>3, <1>4 DEF AvNext

LEMMA AvGrants == AvInv => GrantsHavePackets
<1> SUFFICES ASSUME AvInv, NEW i \in Inputs, in_match[i] # None
             PROVE  queue_len[i][in_match[i]] > 0
  BY DEF GrantsHavePackets
<1>1. BatchTypeOK
  BY DEF AvInv, AvailabilityTypeOK, SmallBatchTypeOK
<1>2. PICK o \in Outputs : o = in_match[i]
  BY <1>1 DEF BatchTypeOK, SwitchTypeOK, Assignments
<1>3. VOQLength[i][o] \in Nat /\ Cardinality(PlacedSlots(schedules, i, o)) \in Nat
  BY <1>1, PlacedSlotsFinite DEF BatchTypeOK, QueueLengths
<1>4. queue_len[i][o] >= VOQLength[i][o] + Cardinality(PlacedSlots(schedules, i, o))
                           + (IF arrivals[i] = o THEN 1 ELSE 0) + 1
  BY <1>2 DEF AvInv, NeverCountedTwice
<1>5. queue_len[i][o] \in Nat
  BY <1>1 DEF BatchTypeOK, SwitchTypeOK, QueueLengths
<1>6. QED
  BY <1>2, <1>3, <1>4, <1>5

THEOREM AvInvariant == AvSpec => []AvInv
<1>1. AvInit => AvInv
  BY AvInitInv
<1>2. AvInv /\ [AvNext]_avVars => AvInv'
  BY AvStep
<1>3. QED
  BY <1>1, <1>2, PTL DEF AvSpec

(* Every variable of the six classes keeps its type: a class that does not  *)
(* fail an assertion of BST::update has no negative VOQ length.             *)
THEOREM AvTypeCorrect == AvSpec => []AvailabilityTypeOK
BY AvInvariant, PTL DEF AvInv

(* The bitmaps are an account of the schedules of the current batch, for    *)
(* any ports, any size of the batch and each of the six classes.           *)
THEOREM AvBitsAlwaysCover == AvSpec => []BitsCover
BY AvInvariant, PTL DEF AvInv

(* The counters are an account of the bitmaps' free slots: exact, never too *)
(* low or never too high, according to the class.                          *)
THEOREM AvCountersAlwaysAgree == AvSpec => []AvailabilityAgrees
BY AvInvariant, PTL DEF AvInv

(* A packet may be lost to the accounts where a class overwrites, but none  *)
(* is counted, or scheduled, twice.                                        *)
THEOREM AvNeverCountsTwice == AvSpec => []NeverCountedTwice
BY AvInvariant, PTL DEF AvInv

(* So what is handed out finds a packet in its VOQ, in every class.        *)
THEOREM AvGrantsHavePackets == AvSpec => []GrantsHavePackets
BY AvInvariant, AvGrants, PTL

(* A class that does not overwrite hands out matchings, and its account of  *)
(* the queues is exact.                                                    *)
THEOREM AvSlotsAreMatchings == AvSpec => [](Overwrites \/ (SlotsAreMatchings /\ QueuesAccountedFor))
<1>1. AvInv => Overwrites \/ (SlotsAreMatchings /\ QueuesAccountedFor)
  BY DEF AvInv, IInv
<1>2. QED
  BY <1>1, AvInvariant, PTL

(* Until an assertion fails, every step of a class that does not overwrite  *)
(* is a step of the abstract batch scheduler, double accepts and all.      *)
THEOREM AvImplementsBatch == AvSpec => ImplementsBatch
<1>1. AvInv /\ [AvNext]_avVars => [Overwrites \/ BatchNext]_vars
  BY AvStep
<1>2. AvInit => BatchInit
  BY AvInitInv
<1>3. QED
  BY <1>1, <1>2, AvInvariant, PTL DEF AvSpec, ImplementsBatch

(* What is placed in an earlier slot stays there, in every class: what the  *)
(* classes that overwrite take away they have placed in the same call.     *)
THEOREM AvNoPlacementLost == AvSpec => NoPlacementLost
<1>1. AvInv /\ [AvNext]_avVars => [PlacementsKept \/ BatchReset]_vars
  BY AvStep
<1>2. QED
  BY <1>1, AvInvariant, PTL DEF AvSpec, NoPlacementLost

-----------------------------------------------------------------------------
(* SB_QPS_Conditional: what match, qps, endOfBatchOptimization and the      *)
(* rounds of the last slot leave of the data they work on.                 *)

CondWorks ==
    [sched : Schedules, voq : QueueLengths,
     input : [Inputs -> SUBSET Slots], output : [Outputs -> SUBSET Slots],
     cond : [Slots -> [Outputs -> Inputs \cup {None}]]]

(* What becomes of the data while packets are placed: the placements are    *)
(* legal, the VOQ lengths are what they leave, and the bitmaps say which    *)
(* ports are matched in the slots up to the current one.                    *)
GoodWorks ==
    { w \in CondWorks :
        /\ Legal(Open, w.sched)
        /\ w.voq = Left(w.sched)
        /\ \A i \in Inputs : w.input[i] = { f \in Upto : w.sched[f][i] # None }
        /\ \A o \in Outputs : w.output[o] = Users(w.sched, o) }

(* Matches that take a free slot of both ports each, and packets there are. *)
Legit(work, matches) ==
    /\ matches \subseteq Inputs \X Outputs \X Upto
    /\ \A i \in Inputs, o \in Outputs, f \in Upto :
         <<i, o, f>> \in matches => f \notin work.input[i] /\ f \notin work.output[o]
    /\ \A i, j \in Inputs, o, p \in Outputs, f \in Upto :
         <<i, o, f>> \in matches /\ <<j, p, f>> \in matches => (i = j <=> o = p)
    /\ \A i \in Inputs, o \in Outputs :
         Cardinality({ f \in Slots : <<i, o, f>> \in matches }) <= work.voq[i][o]

LEMMA MatchKeeps ==
    ASSUME slot \in Slots, Open \in Schedules,
           Arrived \in QueueLengths,
           NEW w \in GoodWorks, NEW matches, Legit(w, matches),
           NEW cond \in [Slots -> [Outputs -> Inputs \cup {None}]]
    PROVE  /\ Match(w, matches, cond) \in GoodWorks
           /\ \A f \in Slots, i \in Inputs :
                /\ \A o \in Outputs : <<i, o, f>> \in matches =>
                     Match(w, matches, cond).sched[f][i] = o
                /\ (\A o \in Outputs : <<i, o, f>> \notin matches) =>
                     Match(w, matches, cond).sched[f][i] = w.sched[f][i]
<1> DEFINE r == Match(w, matches, cond)
           Is(i, o, f) == <<i, o, f>> \in matches
           Here(i, o) == { f \in Slots : Is(i, o, f) }
<1>1. slot \in Nat /\ Upto \subseteq Slots /\ None \notin Outputs /\ IsFiniteSet(Slots)
  BY UptoFacts, NoneIsNoPort, FS_Interval, BatchSizePos DEF Slots
<1>2. /\ w \in CondWorks /\ Legal(Open, w.sched) /\ w.voq = Left(w.sched)
      /\ \A i \in Inputs : w.input[i] = { f \in Upto : w.sched[f][i] # None }
      /\ \A o \in Outputs : w.output[o] = { f \in Upto : \E i \in Inputs : w.sched[f][i] = o }
  BY DEF GoodWorks, Users
<1>3. /\ w.sched \in Schedules /\ w.voq \in QueueLengths
      /\ w.input \in [Inputs -> SUBSET Slots] /\ w.output \in [Outputs -> SUBSET Slots]
  BY <1>2 DEF CondWorks
<1>4. \A m \in matches : /\ m[1] \in Inputs /\ m[2] \in Outputs /\ m[3] \in Upto
                         /\ m = <<m[1], m[2], m[3]>>
  BY DEF Legit
<1>5. /\ \A i \in Inputs, o \in Outputs, f \in Upto :
           Is(i, o, f) => f \notin w.input[i] /\ f \notin w.output[o]
      /\ \A i, j \in Inputs, o, p \in Outputs, f \in Upto :
           Is(i, o, f) /\ Is(j, p, f) => (i = j <=> o = p)
      /\ \A i \in Inputs, o \in Outputs : Cardinality(Here(i, o)) <= w.voq[i][o]
  BY DEF Legit
<1>6. \A i, o, f : Is(i, o, f) => i \in Inputs /\ o \in Outputs /\ f \in Upto
  BY DEF Legit
<1>7. ASSUME NEW f \in Slots, NEW i \in Inputs
      PROVE  r.sched[f][i] = IF \E m \in matches : m[1] = i /\ m[3] = f
                             THEN (CHOOSE m \in matches : m[1] = i /\ m[3] = f)[2]
                             ELSE w.sched[f][i]
  BY DEF Match
<1>8. ASSUME NEW f \in Slots, NEW i \in Inputs, NEW o \in Outputs, Is(i, o, f)
      PROVE  r.sched[f][i] = o
  <2>1. PICK m : m = CHOOSE n \in matches : n[1] = i /\ n[3] = f
    OBVIOUS
  <2>2. <<i, o, f>>[1] = i /\ <<i, o, f>>[3] = f
    OBVIOUS
  <2>3. m \in matches /\ m[1] = i /\ m[3] = f
    BY <1>8, <2>1, <2>2
  <2>4. m[2] \in Outputs /\ f \in Upto /\ Is(i, m[2], f)
    BY <1>4, <2>3
  <2>5. m[2] = o
    BY <1>5, <1>8, <2>4
  <2>6. r.sched[f][i] = m[2]
    BY <1>7, <2>1, <2>3
  <2>7. QED
    BY <2>5, <2>6
<1>9. ASSUME NEW f \in Slots, NEW i \in Inputs, \A o \in Outputs : ~ Is(i, o, f)
      PROVE  r.sched[f][i] = w.sched[f][i]
  BY <1>4, <1>7, <1>9
<1>10. /\ r.voq = [i \in Inputs |-> [o \in Outputs |-> w.voq[i][o] - Cardinality(Here(i, o))]]
       /\ \A i \in Inputs : r.input[i] = w.input[i] \cup { m[3] : m \in { n \in matches : n[1] = i } }
       /\ \A o \in Outputs : r.output[o] = w.output[o] \cup { m[3] : m \in { n \in matches : n[2] = o } }
       /\ r.cond = cond
       /\ r = [sched |-> r.sched, voq |-> r.voq, input |-> r.input, output |-> r.output, cond |-> r.cond]
       /\ r.sched = [f \in Slots |-> [i \in Inputs |-> r.sched[f][i]]]
       /\ r.input = [i \in Inputs |-> r.input[i]] /\ r.output = [o \in Outputs |-> r.output[o]]
  BY DEF Match
<1> HIDE DEF r
<1>11. ASSUME NEW i \in Inputs
       PROVE  \A f : f \in r.input[i] <=> f \in w.input[i] \/ \E o \in Outputs : Is(i, o, f)
  <2>1. ASSUME NEW o \in Outputs, NEW f, Is(i, o, f) PROVE f \in r.input[i]
    <3>1. <<i, o, f>>[1] = i /\ <<i, o, f>>[3] = f
      OBVIOUS
    <3>2. QED
      BY <1>10, <2>1, <3>1
  <2>2. ASSUME NEW f, f \in r.input[i], f \notin w.input[i]
        PROVE  \E o \in Outputs : Is(i, o, f)
    <3>1. PICK m \in matches : m[1] = i /\ m[3] = f
      BY <1>10, <2>2
    <3>2. m[2] \in Outputs /\ Is(i, m[2], f)
      BY <1>4, <3>1
    <3>3. QED
      BY <3>2
  <2> HIDE DEF Is
  <2>3. QED
    BY <1>10, <2>1, <2>2
<1>12. ASSUME NEW o \in Outputs
       PROVE  \A f : f \in r.output[o] <=> f \in w.output[o] \/ \E i \in Inputs : Is(i, o, f)
  <2>1. ASSUME NEW i \in Inputs, NEW f, Is(i, o, f) PROVE f \in r.output[o]
    <3>1. <<i, o, f>>[2] = o /\ <<i, o, f>>[3] = f
      OBVIOUS
    <3>2. QED
      BY <1>10, <2>1, <3>1
  <2>2. ASSUME NEW f, f \in r.output[o], f \notin w.output[o]
        PROVE  \E i \in Inputs : Is(i, o, f)
    <3>1. PICK m \in matches : m[2] = o /\ m[3] = f
      BY <1>10, <2>2
    <3>2. m[1] \in Inputs /\ Is(m[1], o, f)
      BY <1>4, <3>1
    <3>3. QED
      BY <3>2
  <2> HIDE DEF Is
  <2>3. QED
    BY <1>10, <2>1, <2>2
<1>13. \A f \in Slots, i \in Inputs : \A o \in Outputs : Is(i, o, f) => w.sched[f][i] = None
  BY <1>2, <1>5, <1>6
<1>14. r.sched \in Schedules
  <2>1. \A f \in Slots, i \in Inputs : w.sched[f][i] \in Outputs \cup {None}
    BY <1>3 DEF Schedules, Assignments
  <2>2. \A f \in Slots, i \in Inputs : r.sched[f][i] \in Outputs \cup {None}
    BY <1>8, <1>9, <2>1
  <2>3. QED
    BY <1>10, <2>2 DEF Schedules, Assignments
<1>15. Legal(Open, r.sched)
  <2> SUFFICES ASSUME NEW f \in Slots, NEW i \in Inputs
               PROVE  /\ Open[f][i] # None => r.sched[f][i] = Open[f][i]
                      /\ Open[f][i] = None /\ r.sched[f][i] # None =>
                           \A j \in Inputs : r.sched[f][j] = r.sched[f][i] => i = j
    BY DEF Legal
  <2>1. /\ Open[f][i] # None => w.sched[f][i] = Open[f][i]
        /\ Open[f][i] = None /\ w.sched[f][i] # None =>
             \A j \in Inputs : w.sched[f][j] = w.sched[f][i] => i = j
    BY <1>2 DEF Legal
  <2>2. ASSUME Open[f][i] # None PROVE r.sched[f][i] = Open[f][i]
    <3>1. w.sched[f][i] # None
      BY <2>1, <2>2
    <3>2. QED
      BY <1>9, <1>13, <2>1, <2>2, <3>1
  <2>3. ASSUME Open[f][i] = None, r.sched[f][i] # None,
               NEW j \in Inputs, r.sched[f][j] = r.sched[f][i]
        PROVE  i = j
    <3>1. CASE \E o \in Outputs : Is(i, o, f)
      <4>1. PICK o \in Outputs : Is(i, o, f)
        BY <3>1
      <4>2. r.sched[f][j] = o /\ f \in Upto /\ f \notin w.output[o]
        BY <1>5, <1>6, <1>8, <2>3, <4>1
      <4>3. PICK p \in Outputs : Is(j, p, f)
        BY <1>2, <1>9, <4>2
      <4>4. p = o
        BY <1>8, <4>2, <4>3
      <4>5. QED
        BY <1>5, <4>1, <4>2, <4>3, <4>4
    <3>2. CASE \A o \in Outputs : ~ Is(i, o, f)
      <4>1. r.sched[f][i] = w.sched[f][i]
        BY <1>9, <3>2
      <4>2. CASE \E p \in Outputs : Is(j, p, f)
        <5>1. PICK p \in Outputs : Is(j, p, f)
          BY <4>2
        <5>2. w.sched[f][i] = p /\ f \in Upto /\ f \notin w.output[p]
          BY <1>5, <1>6, <1>8, <2>3, <4>1, <5>1
        <5>3. QED
          BY <1>2, <5>2
      <4>3. CASE \A p \in Outputs : ~ Is(j, p, f)
        <5>1. w.sched[f][j] = w.sched[f][i]
          BY <1>9, <2>3, <4>1, <4>3
        <5>2. QED
          BY <2>1, <2>3, <4>1, <5>1
      <4>4. QED
        BY <4>2, <4>3
    <3>3. QED
      BY <3>1, <3>2
  <2>4. QED
    BY <2>2, <2>3
<1>16. ASSUME NEW i \in Inputs, NEW o \in Outputs
       PROVE  /\ r.voq[i][o] = Left(r.sched)[i][o]
              /\ r.voq[i][o] \in Nat
  <2> DEFINE before == NewlyPlaced(w.sched, i, o)
             after == NewlyPlaced(r.sched, i, o)
             more == Here(i, o)
  <2>1. IsFiniteSet(before) /\ IsFiniteSet(more)
    <3>1. before \subseteq Slots /\ more \subseteq Slots
      BY DEF NewlyPlaced, PlacedSlots
    <3>2. QED
      BY <1>1, <3>1, FS_Subset
  <2>2. after = before \cup more /\ before \cap more = {}
    <3>1. \A f \in Slots : f \in before <=> w.sched[f][i] = o /\ Open[f][i] # o
      BY DEF NewlyPlaced, PlacedSlots
    <3>2. \A f \in Slots : f \in after <=> r.sched[f][i] = o /\ Open[f][i] # o
      BY DEF NewlyPlaced, PlacedSlots
    <3>3. before \subseteq Slots /\ after \subseteq Slots /\ more \subseteq Slots
      BY DEF NewlyPlaced, PlacedSlots
    <3>4. \A f \in Slots : f \in more => w.sched[f][i] = None /\ r.sched[f][i] = o /\ Open[f][i] = None
      <4>1. \A f \in Slots : Open[f][i] # None => w.sched[f][i] = Open[f][i]
        BY <1>2 DEF Legal
      <4>2. QED
        BY <1>8, <1>13, <4>1
    <3>5. \A f \in Slots : f \notin more /\ r.sched[f][i] = o => w.sched[f][i] = o
      <4>1. ASSUME NEW f \in Slots, f \notin more, r.sched[f][i] = o PROVE w.sched[f][i] = o
        <5>1. \A p \in Outputs : ~ Is(i, p, f)
          BY <1>8, <4>1
        <5>2. QED
          BY <1>9, <4>1, <5>1
      <4>2. QED
        BY <4>1
    <3>6. \A f \in Slots : w.sched[f][i] = o => r.sched[f][i] = o
      <4>1. ASSUME NEW f \in Slots, w.sched[f][i] = o PROVE r.sched[f][i] = o
        <5>1. \A p \in Outputs : ~ Is(i, p, f)
          BY <1>1, <1>13, <4>1
        <5>2. QED
          BY <1>9, <4>1, <5>1
      <4>2. QED
        BY <4>1
    <3> HIDE DEF before, after, more
    <3>7. o # None
      BY <1>1
    <3>8. QED
      BY <3>1, <3>2, <3>3, <3>4, <3>5, <3>6, <3>7
  <2>3. Cardinality(before \cap more) = 0
    BY <2>2, FS_EmptySet
  <2>4. Cardinality(before) \in Nat /\ Cardinality(more) \in Nat
    BY <2>1, FS_CardinalityType
  <2>5. Cardinality(after) = Cardinality(before) + Cardinality(more)
    <3> HIDE DEF before, after, more
    <3>1. Cardinality(before \cup more) =
            Cardinality(before) + Cardinality(more) - Cardinality(before \cap more)
      BY <2>1, FS_Union
    <3>2. Cardinality(before \cup more) = Cardinality(before) + Cardinality(more)
      BY <2>3, <2>4, <3>1
    <3>3. QED
      BY <2>2, <3>2, Zenon
  <2>6. /\ w.voq[i][o] = Arrived[i][o] - Cardinality(before)
        /\ Left(r.sched)[i][o] = Arrived[i][o] - Cardinality(after)
    BY <1>2 DEF Left
  <2>7. r.voq[i][o] = w.voq[i][o] - Cardinality(more)
    BY <1>10
  <2>8. w.voq[i][o] \in Nat /\ Cardinality(more) <= w.voq[i][o]
    <3>1. w.voq[i][o] \in Nat
      BY <1>3 DEF QueueLengths
    <3>2. Cardinality(more) <= w.voq[i][o]
      BY <1>5, Zenon
    <3>3. QED
      BY <3>1, <3>2
  <2> HIDE DEF before, after, more
  <2>9. PICK x \in Nat, b \in Nat, m \in Nat, a \in Int :
          x = w.voq[i][o] /\ b = Cardinality(before) /\ m = Cardinality(more) /\ a = Arrived[i][o]
    BY <2>4, <2>8 DEF QueueLengths
  <2>10. QED
    BY <2>5, <2>6, <2>7, <2>8, <2>9
<1>17. r.voq = Left(r.sched) /\ r.voq \in QueueLengths
  <2>1. \A i \in Inputs, o \in Outputs : r.voq[i][o] = Left(r.sched)[i][o] /\ r.voq[i][o] \in Nat
    BY <1>16
  <2>2. Left(r.sched) = [i \in Inputs |-> [o \in Outputs |-> Left(r.sched)[i][o]]]
    BY DEF Left
  <2>3. r.voq = [i \in Inputs |-> [o \in Outputs |-> r.voq[i][o]]]
    <3> HIDE DEF Here
    <3> QED
      BY <1>10
  <2> HIDE DEF r
  <2>4. PICK left, voq : left = Left(r.sched) /\ voq = r.voq
    OBVIOUS
  <2>5. left = voq /\ voq \in [Inputs -> [Outputs -> Nat]]
    BY <2>1, <2>2, <2>3, <2>4
  <2>6. QED
    BY <2>4, <2>5 DEF QueueLengths
<1>18. ASSUME NEW i \in Inputs PROVE r.input[i] = { f \in Upto : r.sched[f][i] # None }
  <2>1. \A f \in Upto : f \in w.input[i] <=> w.sched[f][i] # None
    BY <1>2
  <2>2. \A f \in Upto : r.sched[f][i] # None <=> f \in w.input[i] \/ \E o \in Outputs : Is(i, o, f)
    <3> SUFFICES ASSUME NEW f \in Upto
                 PROVE  r.sched[f][i] # None <=> f \in w.input[i] \/ \E o \in Outputs : Is(i, o, f)
      OBVIOUS
    <3>1. f \in Slots
      BY <1>1
    <3>2. CASE \E o \in Outputs : Is(i, o, f)
      BY <1>1, <1>8, <3>1, <3>2
    <3>3. CASE \A o \in Outputs : ~ Is(i, o, f)
      BY <1>9, <2>1, <3>1, <3>3
    <3>4. QED
      BY <3>2, <3>3
  <2>3. r.input[i] \subseteq Upto
    BY <1>2, <1>6, <1>11
  <2>4. QED
    BY <1>11, <2>2, <2>3
<1>19. ASSUME NEW o \in Outputs PROVE r.output[o] = Users(r.sched, o)
  <2>1. ASSUME NEW f \in Upto
        PROVE  (\E i \in Inputs : r.sched[f][i] = o) <=>
                 f \in w.output[o] \/ \E i \in Inputs : Is(i, o, f)
    <3>1. f \in Slots
      BY <1>1
    <3>2. ASSUME NEW i \in Inputs, r.sched[f][i] = o, \A j \in Inputs : ~ Is(j, o, f)
          PROVE  f \in w.output[o]
      <4>1. \A p \in Outputs : ~ Is(i, p, f)
        BY <1>8, <3>1, <3>2
      <4>2. w.sched[f][i] = o
        BY <1>9, <3>1, <3>2, <4>1
      <4>3. QED
        BY <1>2, <4>2
    <3>3. ASSUME f \in w.output[o] PROVE \E i \in Inputs : r.sched[f][i] = o
      <4>1. PICK i \in Inputs : w.sched[f][i] = o
        BY <1>2, <3>3
      <4>2. \A p \in Outputs : ~ Is(i, p, f)
        BY <1>1, <1>13, <3>1, <4>1
      <4>3. QED
        BY <1>9, <3>1, <4>1, <4>2
    <3>4. QED
      BY <1>8, <3>1, <3>2, <3>3
  <2>2. r.output[o] \subseteq Upto
    BY <1>2, <1>6, <1>12
  <2>3. QED
    BY <1>12, <2>1, <2>2 DEF Users
<1>20. r \in CondWorks
  <2>1. r.input \in [Inputs -> SUBSET Slots] /\ r.output \in [Outputs -> SUBSET Slots]
    BY <1>1, <1>10, <1>18, <1>19 DEF Users
  <2>2. QED
    BY <1>10, <1>14, <1>17, <2>1 DEF CondWorks
<1>21. r \in GoodWorks
  BY <1>15, <1>17, <1>18, <1>19, <1>20 DEF GoodWorks
<1>22. QED
  BY <1>8, <1>9, <1>21 DEF r

(* The inductive invariant.  The accounts of the queues and the bound on    *)
(* them are in it because uniform sampling looks up what it may return by  *)
(* the VOQ lengths.                                                        *)
CondInv ==
    /\ SBInv
    /\ conditionalApprovals \in [Slots -> [Outputs -> Inputs \cup {None}]]
    /\ ApprovedAfterMatch
    /\ IInv
    /\ \A i \in Inputs, o \in Outputs : queue_len[i][o] <= MaxQueueLen

(* What schedule() finds, with the slot handed out and cleared. *)
LEMMA CondOpen ==
    ASSUME CondInv
    PROVE  /\ slot \in Slots /\ Open \in Schedules /\ Arrived \in QueueLengths
           /\ Open = Cleared(schedules, slot)
           /\ Before \in GoodWorks
           /\ \A o \in Outputs : slot \notin ouputMatchBitmap[o]
<1>1. /\ slot \in Slots /\ schedules \in Schedules /\ VOQLength \in QueueLengths
      /\ arrivals \in Assignments
  BY DEF CondInv, SBInv, BatchTypeOK, SwitchTypeOK, Schedules
<1>2. Open = Cleared(schedules, slot) /\ Open \in Schedules
  BY <1>1, ClearedType, SmallBatchDispatchesFirst DEF Open
<1>3. Arrived \in QueueLengths
  BY <1>1, EnqueueType DEF Arrived
<1>4. /\ inputMatchBitmap \in [Inputs -> SUBSET Slots]
      /\ ouputMatchBitmap \in [Outputs -> SUBSET Slots]
      /\ conditionalApprovals \in [Slots -> [Outputs -> Inputs \cup {None}]]
      /\ \A i \in Inputs : inputMatchBitmap[i] = { f \in 0 .. slot - 1 : schedules[f][i] # None }
      /\ \A o \in Outputs : ouputMatchBitmap[o] =
           { f \in 0 .. slot - 1 : \E i \in Inputs : schedules[f][i] = o }
  BY DEF CondInv, SBInv, BitmapsAgree
<1>5. /\ Before.sched = Open /\ Before.voq = Arrived /\ Before.input = inputMatchBitmap
      /\ Before.output = ouputMatchBitmap /\ Before \in CondWorks
  BY <1>2, <1>3, <1>4 DEF Before, CondWorks
<1>6. Legal(Open, Open)
  BY DEF Legal
<1>7. Arrived = Left(Open)
  <2>1. \A i \in Inputs, o \in Outputs : NewlyPlaced(Open, i, o) = {}
    BY DEF NewlyPlaced
  <2>2. ASSUME NEW i \in Inputs, NEW o \in Outputs PROVE Left(Open)[i][o] = Arrived[i][o]
    <3>1. Left(Open)[i][o] = Arrived[i][o] - Cardinality(NewlyPlaced(Open, i, o))
      BY DEF Left
    <3>2. Cardinality(NewlyPlaced(Open, i, o)) = 0
      BY <2>1, FS_EmptySet
    <3>3. Arrived[i][o] \in Nat
      BY <1>3 DEF QueueLengths
    <3>4. QED
      BY <3>1, <3>2, <3>3
  <2>3. Left(Open) = [i \in Inputs |-> [o \in Outputs |-> Left(Open)[i][o]]]
    BY DEF Left
  <2>4. PICK left : left = Left(Open)
    OBVIOUS
  <2>5. PICK arr \in [Inputs -> [Outputs -> Nat]] : arr = Arrived
    BY <1>3 DEF QueueLengths
  <2>6. left = arr
    BY <2>2, <2>3, <2>4, <2>5
  <2>7. QED
    BY <2>4, <2>5, <2>6
<1>8. /\ slot \in Nat /\ slot \notin 0 .. slot - 1
      /\ \A f : f \in Upto <=> f \in 0 .. slot - 1 \/ f = slot
      /\ Upto \subseteq Slots
  <2>1. slot \in Nat /\ Upto \subseteq Slots
    BY <1>1, UptoFacts
  <2>2. QED
    BY <2>1 DEF Upto
<1>9. \A f \in Upto, i \in Inputs : Open[f][i] = IF f = slot THEN None ELSE schedules[f][i]
  BY <1>1, <1>2, <1>8 DEF Cleared, Schedules, NoMatch
<1>10. \A i \in Inputs : inputMatchBitmap[i] = { f \in Upto : Open[f][i] # None }
  BY <1>4, <1>8, <1>9
<1>11. \A o \in Outputs : ouputMatchBitmap[o] = Users(Open, o)
  BY <1>4, <1>8, <1>9, NoneIsNoPort DEF Users
<1>12. Before \in GoodWorks
  BY <1>5, <1>6, <1>7, <1>10, <1>11 DEF GoodWorks
<1>13. QED
  BY <1>1, <1>2, <1>3, <1>4, <1>8, <1>12

(* The queues are bounded, so what VOQs are sampled by is. *)
LEMMA CondBounded ==
    ASSUME CondInv, NEW w \in GoodWorks, NEW i \in Inputs
    PROVE  w.voq[i] \in [Outputs -> 0 .. MaxQueueLen]
<1>1. ASSUME NEW o \in Outputs PROVE w.voq[i][o] \in 0 .. MaxQueueLen
  <2>1. w.voq[i][o] \in Nat /\ w.voq[i][o] = Left(w.sched)[i][o]
    BY DEF GoodWorks, CondWorks, QueueLengths
  <2>2. Left(w.sched)[i][o] = Arrived[i][o] - Cardinality(NewlyPlaced(w.sched, i, o))
    BY DEF Left
  <2>3. Cardinality(NewlyPlaced(w.sched, i, o)) \in Nat
    BY PlacedCount DEF GoodWorks
  <2>4. Arrived[i][o] \in Nat /\ Arrived[i][o] = VOQLength[i][o] + (IF arrivals[i] = o THEN 1 ELSE 0)
    BY CondOpen DEF Arrived, Enqueue, QueueLengths
  <2>5. /\ queue_len[i][o] \in Nat /\ VOQLength[i][o] \in Nat
        /\ Cardinality(PlacedSlots(schedules, i, o)) \in Nat
    BY PlacedSlotsFinite DEF CondInv, IInv, BatchTypeOK, SwitchTypeOK, QueueLengths
  <2>6. queue_len[i][o] = VOQLength[i][o] + Cardinality(PlacedSlots(schedules, i, o))
                          + (IF arrivals[i] = o THEN 1 ELSE 0)
                          + (IF in_match[i] = o THEN 1 ELSE 0)
    BY DEF CondInv, IInv, QueuesAccountedFor
  <2>7. queue_len[i][o] <= MaxQueueLen /\ MaxQueueLen \in Nat
    BY MaxQueueLenNat DEF CondInv
  <2>8. Arrived[i][o] <= queue_len[i][o]
    <3>1. PICK p \in Nat, v \in Nat : p = Cardinality(PlacedSlots(schedules, i, o)) /\ v = VOQLength[i][o]
      BY <2>5
    <3>2. CASE arrivals[i] = o
      BY <2>4, <2>5, <2>6, <3>1, <3>2
    <3>3. CASE arrivals[i] # o
      BY <2>4, <2>5, <2>6, <3>1, <3>3
    <3>4. QED
      BY <3>2, <3>3
  <2>9. PICK a \in Nat, c \in Nat, q \in Nat, x \in Nat :
          /\ a = Arrived[i][o] /\ c = Cardinality(NewlyPlaced(w.sched, i, o))
          /\ q = queue_len[i][o] /\ x = w.voq[i][o]
    BY <2>1, <2>3, <2>4, <2>5
  <2>10. QED
    BY <2>1, <2>2, <2>7, <2>8, <2>9
<1>2. w.voq[i] \in [Outputs -> Nat]
  BY DEF GoodWorks, CondWorks, QueueLengths
<1>3. QED
  BY <1>1, <1>2

(* What an input proposes to, if it proposes, it has packets for. *)
LEMMA WantedHasPackets ==
    ASSUME CondInv, NEW w \in GoodWorks, NEW i \in Inputs, NEW t \in Slots, NEW iteration,
           NEW o \in Wanted(w, i, t, iteration), o # None
    PROVE  o \in Outputs /\ w.voq[i][o] > 0 /\ t \notin w.input[i]
<1>1. HasPackets(w.voq, i) /\ t \notin w.input[i]
  BY DEF Wanted
<1>2. CASE iteration > 1
  <2>1. o \in UniformSamples[w.voq[i]]
    BY <1>1, <1>2 DEF Wanted
  <2>2. PICK weights \in [Outputs -> 0 .. MaxQueueLen] : weights = w.voq[i]
    BY CondBounded
  <2>3. o \in Samples(weights, TRUE)
    BY <2>1, <2>2 DEF UniformSamples
  <2>4. PICK N : N = Cardinality(Outputs)
    OBVIOUS
  <2>5. N \in Nat /\ Outputs = 0 .. N - 1
    BY <2>4, OutputsNumbered, PortsAreFinite, FS_CardinalityType
  <2>6. weights \in [0 .. N - 1 -> Nat]
    BY <2>5
  <2>7. o \in 0 .. N - 1 /\ weights[o] > 0
    BY <2>3, <2>5, <2>6, SamplesHavePackets
  <2>8. QED
    BY <1>1, <2>2, <2>5, <2>7
<1>3. CASE ~ iteration > 1
  BY <1>1, <1>3 DEF Wanted
<1>4. QED
  BY <1>2, <1>3

(* The queues in which an output keeps its proposers. *)
Two == [1 .. 2 -> (Inputs \cup {None}) \X Int]

(* The same input is not in it twice. *)
Apart(q) == q[1][1] = q[2][1] => q[1][1] = None

LEMMA InsertFacts ==
    ASSUME NEW q \in Two, NEW i \in Inputs, NEW pri \in Int
    PROVE  /\ Insert(q, i, pri) \in Two
           /\ Apart(q) /\ i # q[1][1] /\ i # q[2][1] => Apart(Insert(q, i, pri))
           /\ \A k \in 1 .. 2 : Insert(q, i, pri)[k][1] \in {i, q[1][1], q[2][1]}
<1>1. Len(q) = 2 /\ 1 \in 1 .. 2 /\ 2 \in 1 .. 2
  BY DEF Two
<1>2. /\ q[1] \in (Inputs \cup {None}) \X Int /\ q[2] \in (Inputs \cup {None}) \X Int
      /\ <<i, pri>> \in (Inputs \cup {None}) \X Int
      /\ q[1][2] \in Int /\ q[2][2] \in Int
  BY <1>1 DEF Two
<1>3. PICK at : at = PlaceFor(q, pri)
  OBVIOUS
<1>4. at \in 1 .. 3
  <2> DEFINE Fits(k) == /\ k <= 2 => q[k][2] < pri
                        /\ \A l \in 1 .. k - 1 : q[l][2] >= pri
  <2>1. \E k \in 1 .. 3 : Fits(k)
    <3>1. CASE q[1][2] < pri
      <4>1. Fits(1)
        BY <3>1
      <4>2. QED
        BY <4>1
    <3>2. CASE ~ q[1][2] < pri /\ q[2][2] < pri
      <4>1. \A l \in 1 .. 2 - 1 : l = 1
        OBVIOUS
      <4>2. q[1][2] >= pri
        BY <1>2, <3>2
      <4>3. Fits(2)
        BY <3>2, <4>1, <4>2
      <4>4. QED
        BY <4>3
    <3>3. CASE ~ q[1][2] < pri /\ ~ q[2][2] < pri
      <4>1. \A l \in 1 .. 3 - 1 : l = 1 \/ l = 2
        OBVIOUS
      <4>2. q[1][2] >= pri /\ q[2][2] >= pri
        BY <1>2, <3>3
      <4>3. Fits(3)
        BY <4>1, <4>2
      <4>4. QED
        BY <4>3
    <3>4. QED
      BY <3>1, <3>2, <3>3
  <2>2. at = CHOOSE k \in 1 .. 3 : Fits(k)
    BY <1>1, <1>3 DEF PlaceFor
  <2> HIDE DEF Fits
  <2>3. QED
    BY <2>1, <2>2
<1>5. PICK r : r = Insert(q, i, pri)
  OBVIOUS
<1>6. r = [k \in 1 .. 2 |-> CASE k < at -> q[k]
                              [] k = at -> <<i, pri>>
                              [] OTHER  -> IF q[k][2] # -1 THEN q[k - 1] ELSE q[k]]
  BY <1>1, <1>3, <1>5 DEF Insert
<1>7. /\ r = [k \in 1 .. 2 |-> r[k]]
      /\ r[1] = IF at = 1 THEN <<i, pri>> ELSE q[1]
      /\ r[2] = IF at = 1 THEN IF q[2][2] # -1 THEN q[1] ELSE q[2]
                ELSE IF at = 2 THEN <<i, pri>> ELSE q[2]
  <2>1. CASE at = 1
    BY <1>1, <1>6, <2>1
  <2>2. CASE at = 2
    BY <1>1, <1>6, <2>2
  <2>3. CASE at = 3
    BY <1>1, <1>6, <2>3
  <2>4. QED
    BY <1>4, <2>1, <2>2, <2>3
<1>8. \A k \in 1 .. 2 : k = 1 \/ k = 2
  OBVIOUS
<1>9. <<i, pri>>[1] = i
  OBVIOUS
<1>10. /\ r[1] \in (Inputs \cup {None}) \X Int /\ r[2] \in (Inputs \cup {None}) \X Int
       /\ r[1][1] \in {i, q[1][1], q[2][1]} /\ r[2][1] \in {i, q[1][1], q[2][1]}
       /\ Apart(q) /\ i # q[1][1] /\ i # q[2][1] => Apart(r)
  <2> HIDE DEF Two
  <2>1. PICK a, b : a = q[1] /\ b = q[2]
    OBVIOUS
  <2>2. CASE at = 1
    BY <1>2, <1>7, <1>9, <2>1, <2>2 DEF Apart
  <2>3. CASE at # 1
    BY <1>2, <1>7, <1>9, <2>1, <2>3 DEF Apart
  <2>4. QED
    BY <2>2, <2>3
<1>11. r \in Two
  BY <1>7, <1>8, <1>10 DEF Two
<1>12. QED
  BY <1>5, <1>8, <1>10, <1>11

(* It has inputs of S that propose to the output only. *)
FromProposers(q, S, prop, o) ==
    \A k \in 1 .. 2 : q[k][1] # None => q[k][1] \in S /\ prop[q[k][1]] = o

(* Whatever the order of the proposals, an output's queue has proposers of  *)
(* it only, and none of them twice.                                         *)
LEMMA QueueFacts ==
    ASSUME NEW w \in GoodWorks, NEW prop, NEW S \in SUBSET Inputs,
           NEW inputs \in SetToSeqs(S), NEW o \in Outputs
    PROVE  /\ FromProposers(OutAccepts(w, prop, inputs)[o], S, prop, o)
           /\ Apart(OutAccepts(w, prop, inputs)[o])
<1>0. PICK q : q = OutAccepts(w, prop, inputs)[o]
  OBVIOUS
<1>1. PICK n \in Nat : n = Cardinality(S)
  BY PortsAreFinite, FS_Subset, FS_CardinalityType
<1>2. /\ inputs \in [1 .. n -> S] /\ DOMAIN inputs = 1 .. n
      /\ \A j, k \in 1 .. n : inputs[j] = inputs[k] => j = k
  BY <1>1 DEF SetToSeqs
<1>3. \A k \in 1 .. n : /\ inputs[k] \in S /\ inputs[k] \in Inputs
                        /\ w.voq[inputs[k]][o] \in Int
  BY <1>2 DEF GoodWorks, CondWorks, QueueLengths
<1> DEFINE Put(k, e) == IF prop[inputs[k]] = o THEN Insert(e, inputs[k], w.voq[inputs[k]][o]) ELSE e
           Body(h, T) == IF T = {} THEN EmptyQueue(2, None) ELSE Put(Max(T), h[T \ {Max(T)}])
           F == [k \in 1 .. n |-> [e \in Two |-> Put(k, e)]]
<1>4. EmptyQueue(2, None) \in Two /\ \A k \in 1 .. 2 : EmptyQueue(2, None)[k][1] = None
  BY DEF EmptyQueue, Unused, Two
<1>5. \A k \in 1 .. n, e \in Two : Put(k, e) \in Two
  BY <1>3, InsertFacts
<1>6. \E it : it = [T \in SUBSET DOMAIN inputs |-> Body(it, T)]
  <2>1. IsStep(n, Two, F)
    <3> HIDE DEF Put
    <3> QED
      BY <1>5 DEF IsStep
  <2>2. PICK base \in Two : base = EmptyQueue(2, None)
    BY <1>4
  <2>3. PICK ex : LeftFolds(ex, n, Two, base, F)
    <3> HIDE DEF F
    <3> QED
      BY <2>1, LeftFoldFacts
  <2>4. /\ ex \in [SUBSET (1 .. n) -> Two] /\ ex[{}] = base
        /\ \A T \in (SUBSET (1 .. n)) \ {{}} :
             ex[T] = F[Greatest(T)][ex[T \ {Greatest(T)}]]
    BY <2>3 DEF LeftFolds
  <2>5. ASSUME NEW T \in (SUBSET (1 .. n)) \ {{}}
        PROVE  ex[T] = Put(Max(T), ex[T \ {Max(T)}])
    <3>1. Greatest(T) \in 1 .. n /\ Max(T) = Greatest(T)
      BY GreatestFacts DEF Max, Greatest
    <3>2. ex[T \ {Greatest(T)}] \in Two
      BY <2>4
    <3> HIDE DEF Put
    <3>3. QED
      BY <2>4, <3>1, <3>2
  <2>6. ASSUME NEW T \in SUBSET (1 .. n) PROVE ex[T] = Body(ex, T)
    <3>1. CASE T = {}
      BY <2>2, <2>4, <3>1
    <3>2. CASE T # {}
      <4> HIDE DEF Put
      <4> QED
        BY <2>5, <3>2
    <3>3. QED
      BY <3>1, <3>2
  <2> HIDE DEF Body, F
  <2>7. ex = [T \in SUBSET DOMAIN inputs |-> Body(ex, T)]
    BY <1>2, <2>4, <2>6
  <2>8. QED
    BY <2>7
<1>7. PICK it : /\ OutAccepts(w, prop, inputs)[o] = it[DOMAIN inputs]
                /\ it = [T \in SUBSET DOMAIN inputs |-> Body(it, T)]
  BY <1>6 DEF OutAccepts, FoldLeft, MapThenFoldSet
<1> DEFINE Members(T) == { inputs[k] : k \in { l \in T : prop[inputs[l]] = o } }
           Holds(T) == /\ it[T] \in Two /\ Apart(it[T])
                       /\ \A k \in 1 .. 2 : it[T][k][1] \in Members(T) \cup {None}
           P == { T \in SUBSET (1 .. n) : Holds(T) }
<1>8. ASSUME NEW T \in SUBSET (1 .. n), \A x \in T : T \ {x} \in P PROVE Holds(T)
  <2>1. it[T] = Body(it, T)
    BY <1>2, <1>7
  <2>2. CASE T = {}
    <3>1. it[T] = EmptyQueue(2, None)
      BY <2>1, <2>2
    <3>2. 1 \in 1 .. 2
      OBVIOUS
    <3>3. QED
      BY <1>4, <3>1, <3>2 DEF Apart
  <2>3. CASE T # {}
    <3>1. PICK m \in T : m = Max(T)
      <4>1. Greatest(T) \in T /\ Max(T) = Greatest(T)
        BY <2>3, GreatestFacts DEF Max, Greatest
      <4>2. QED
        BY <4>1
    <3>2. PICK e : e = it[T \ {m}]
      OBVIOUS
    <3>3. /\ e \in Two /\ Apart(e)
          /\ \A k \in 1 .. 2 : e[k][1] \in Members(T \ {m}) \cup {None}
      <4>1. T \ {m} \in P
        BY <1>8
      <4>2. QED
        BY <3>2, <4>1
    <3>4. it[T] = Put(m, e)
      <4> HIDE DEF Put
      <4> QED
        BY <2>1, <2>3, <3>1, <3>2
    <3>5. m \in 1 .. n /\ Members(T \ {m}) \subseteq Members(T)
      OBVIOUS
    <3>6. CASE prop[inputs[m]] = o
      <4>1. PICK i \in Inputs, pri \in Int : i = inputs[m] /\ pri = w.voq[inputs[m]][o]
        BY <1>3, <3>5
      <4>2. it[T] = Insert(e, i, pri)
        BY <3>4, <3>6, <4>1
      <4>3. i \in Members(T) /\ i \notin Members(T \ {m}) /\ i # None
        BY <1>2, <3>5, <3>6, <4>1, NoneIsNoPort
      <4>4. i # e[1][1] /\ i # e[2][1]
        <5>1. 1 \in 1 .. 2 /\ 2 \in 1 .. 2
          OBVIOUS
        <5> HIDE DEF Members
        <5>2. QED
          BY <3>3, <4>3, <5>1
      <4>5. /\ it[T] \in Two /\ Apart(it[T])
            /\ \A k \in 1 .. 2 : it[T][k][1] \in {i, e[1][1], e[2][1]}
        BY <3>3, <4>2, <4>4, InsertFacts
      <4>6. {i, e[1][1], e[2][1]} \subseteq Members(T) \cup {None}
        <5>1. 1 \in 1 .. 2 /\ 2 \in 1 .. 2
          OBVIOUS
        <5> HIDE DEF Members
        <5>2. QED
          BY <3>3, <3>5, <4>3, <5>1
      <4> HIDE DEF Members
      <4>7. QED
        BY <4>5, <4>6
    <3>7. CASE prop[inputs[m]] # o
      <4>1. it[T] = e
        BY <3>4, <3>7
      <4> HIDE DEF Members
      <4>2. QED
        BY <3>3, <3>5, <4>1
    <3>8. QED
      BY <3>6, <3>7
  <2>4. QED
    BY <2>2, <2>3
<1>9. IsFiniteSet(1 .. n)
  BY FS_Interval
<1>10. SUBSET (1 .. n) \subseteq P
  <2> HIDE DEF Holds
  <2>1. \A T \in SUBSET (1 .. n) : (\A x \in T : T \ {x} \in P) => T \in P
    BY <1>8
  <2> HIDE DEF P
  <2>2. PICK D, Q : D = 1 .. n /\ Q = P
    OBVIOUS
  <2>3. IsFiniteSet(D) /\ \A T \in SUBSET D : (\A x \in T : T \ {x} \in Q) => T \in Q
    BY <1>9, <2>1, <2>2
  <2>4. SUBSET D \subseteq Q
    BY <2>3, SubsetInduction
  <2>5. QED
    BY <2>2, <2>4
<1>11. Holds(1 .. n)
  <2> HIDE DEF Holds
  <2>1. 1 .. n \in SUBSET (1 .. n)
    OBVIOUS
  <2>2. QED
    BY <1>10, <2>1
<1>12. q = it[1 .. n]
  BY <1>0, <1>2, <1>7
<1>13. ASSUME NEW k \in 1 .. 2, q[k][1] # None
       PROVE  q[k][1] \in S /\ prop[q[k][1]] = o
  <2>1. q[k][1] \in Members(1 .. n)
    BY <1>0, <1>11, <1>12, <1>13 DEF FromProposers
  <2>2. QED
    BY <1>3, <2>1
<1>14. QED
  BY <1>0, <1>11, <1>12, <1>13 DEF FromProposers

(* What qps leaves of the approvals and the schedules: only those of its    *)
(* slot change, and an output has an approval that it did not have before   *)
(* only where it is matched, to another input.                              *)
QpsLeaves(w, r, t) ==
    /\ \A f \in Slots : f # t => r.cond[f] = w.cond[f]
    /\ \A f \in Slots, i \in Inputs : f # t => r.sched[f][i] = w.sched[f][i]
    /\ \A o \in Outputs : r.cond[t][o] # w.cond[t][o] =>
         t \in r.output[o] /\ r.sched[t][r.cond[t][o]] # o

LEMMA QpsKeeps ==
    ASSUME CondInv, NEW w \in GoodWorks, NEW t \in Upto, NEW iteration,
           NEW r \in CondQps(w, t, iteration)
    PROVE  r \in GoodWorks /\ QpsLeaves(w, r, t)
<1> DEFINE S == { i \in Inputs : Wanted(w, i, t, iteration) # {None} }
<1>1. PICK prop \in Assignments, inputs \in SetToSeqs(S) :
        /\ \A i \in Inputs : prop[i] \in Wanted(w, i, t, iteration)
        /\ r = Accept(w, OutAccepts(w, prop, inputs), t)
  BY DEF CondQps
<1>2. /\ slot \in Slots /\ Open \in Schedules /\ Arrived \in QueueLengths
      /\ Upto \subseteq Slots /\ t \in Slots /\ S \in SUBSET Inputs /\ None \notin Outputs
      /\ None \notin Inputs
  BY CondOpen, UptoFacts, NoneIsNoPort
<1>3. /\ w \in CondWorks /\ w.cond \in [Slots -> [Outputs -> Inputs \cup {None}]]
      /\ w.sched \in Schedules /\ w.voq \in QueueLengths
      /\ w.output \in [Outputs -> SUBSET Slots]
      /\ \A i \in Inputs : w.input[i] = { f \in Upto : w.sched[f][i] # None }
  BY DEF GoodWorks, CondWorks
<1> HIDE DEF S
<1>4. PICK queues : queues = OutAccepts(w, prop, inputs)
  OBVIOUS
<1> DEFINE first(o) == queues[o][1][1]
           second(o) == queues[o][2][1]
           matched == { o \in Outputs : first(o) # None /\ t \notin w.output[o] }
           approved == [o \in Outputs |-> IF o \in matched THEN second(o) ELSE first(o)]
           row == [o \in Outputs |-> IF approved[o] = None THEN w.cond[t][o] ELSE approved[o]]
           cond == [w.cond EXCEPT ![t] = row]
           M == { <<first(o), o, t>> : o \in matched }
<1>5. r = Match(w, M, cond)
  BY <1>1, <1>4 DEF Accept
<1>6. ASSUME NEW o \in Outputs
      PROVE  /\ first(o) # None => first(o) \in Inputs /\ prop[first(o)] = o
             /\ second(o) # None => second(o) \in Inputs /\ prop[second(o)] = o
             /\ first(o) = second(o) => first(o) = None
  <2>1. PICK q : q = OutAccepts(w, prop, inputs)[o]
    OBVIOUS
  <2>2. /\ q[1][1] # None => q[1][1] \in S /\ prop[q[1][1]] = o
        /\ q[2][1] # None => q[2][1] \in S /\ prop[q[2][1]] = o
        /\ Apart(q)
    <3>1. PICK T \in SUBSET Inputs : T = S
      BY <1>2
    <3>2. inputs \in SetToSeqs(T)
      BY <3>1
    <3> HIDE DEF S
    <3>3. FromProposers(OutAccepts(w, prop, inputs)[o], T, prop, o)
          /\ Apart(OutAccepts(w, prop, inputs)[o])
      BY <3>2, QueueFacts
    <3>4. 1 \in 1 .. 2 /\ 2 \in 1 .. 2
      OBVIOUS
    <3>5. QED
      BY <2>1, <3>1, <3>3, <3>4 DEF FromProposers
  <2>3. QED
    BY <1>2, <1>4, <2>1, <2>2 DEF Apart
<1> HIDE DEF first, second
<1>7. ASSUME NEW i \in Inputs, NEW o \in Outputs, prop[i] = o
      PROVE  w.voq[i][o] > 0 /\ t \notin w.input[i]
  <2>1. o \in Wanted(w, i, t, iteration) /\ o # None
    BY <1>1, <1>2, <1>7
  <2>2. QED
    BY <1>2, <2>1, WantedHasPackets
<1>8. \A i, o, f : <<i, o, f>> \in M <=> o \in matched /\ i = first(o) /\ f = t
  OBVIOUS
<1>9. M \subseteq Inputs \X Outputs \X Upto
  <2> SUFFICES ASSUME NEW o \in matched PROVE <<first(o), o, t>> \in Inputs \X Outputs \X Upto
    OBVIOUS
  <2>1. QED
    BY <1>6
<1> HIDE DEF M
<1>10. Legit(w, M)
  <2>1. \A i \in Inputs, o \in Outputs, f \in Upto :
          <<i, o, f>> \in M => f \notin w.input[i] /\ f \notin w.output[o]
    BY <1>6, <1>7, <1>8
  <2>2. \A i, j \in Inputs, o, p \in Outputs, f \in Upto :
          <<i, o, f>> \in M /\ <<j, p, f>> \in M => (i = j <=> o = p)
    BY <1>6, <1>8
  <2>3. ASSUME NEW i \in Inputs, NEW o \in Outputs
        PROVE  Cardinality({ f \in Slots : <<i, o, f>> \in M }) <= w.voq[i][o]
    <3>1. w.voq[i][o] \in Nat
      BY <1>3 DEF QueueLengths
    <3>2. CASE o \in matched /\ i = first(o)
      <4>1. { f \in Slots : <<i, o, f>> \in M } = {t}
        BY <1>2, <1>8, <3>2
      <4>2. Cardinality({t}) = 1
        BY FS_Singleton
      <4>3. w.voq[i][o] > 0
        BY <1>6, <1>7, <3>2
      <4>4. 1 <= w.voq[i][o]
        BY <3>1, <4>3
      <4>5. QED
        BY <4>1, <4>2, <4>4, Zenon
    <3>3. CASE ~ (o \in matched /\ i = first(o))
      <4>1. { f \in Slots : <<i, o, f>> \in M } = {}
        BY <1>8, <3>3
      <4>2. Cardinality({}) = 0
        BY FS_EmptySet
      <4>3. 0 <= w.voq[i][o]
        BY <3>1
      <4>4. QED
        BY <4>1, <4>2, <4>3, Zenon
    <3>4. QED
      BY <3>2, <3>3
  <2> HIDE DEF matched
  <2>4. QED
    BY <1>9, <2>1, <2>2, <2>3 DEF Legit
<1>11. /\ row \in [Outputs -> Inputs \cup {None}]
       /\ cond \in [Slots -> [Outputs -> Inputs \cup {None}]]
  <2>1. \A o \in Outputs : row[o] \in Inputs \cup {None}
    BY <1>2, <1>3, <1>6
  <2>2. row \in [Outputs -> Inputs \cup {None}]
    BY <2>1
  <2> HIDE DEF row
  <2>3. QED
    BY <1>3, <2>2
<1>12. /\ r \in GoodWorks
       /\ \A f \in Slots, i \in Inputs :
            /\ \A o \in Outputs : <<i, o, f>> \in M => r.sched[f][i] = o
            /\ (\A o \in Outputs : <<i, o, f>> \notin M) => r.sched[f][i] = w.sched[f][i]
  <2> HIDE DEF cond
  <2>1. QED
    BY <1>2, <1>5, <1>10, <1>11, MatchKeeps
<1>13. r.cond = cond /\ \A o \in Outputs : \A m \in M : m[2] = o => m[3] \in r.output[o]
  BY <1>5 DEF Match
<1>14. \A o \in Outputs : w.output[o] \subseteq r.output[o]
  BY <1>5 DEF Match
<1>15. ASSUME NEW o \in Outputs, r.cond[t][o] # w.cond[t][o]
       PROVE  t \in r.output[o] /\ r.sched[t][r.cond[t][o]] # o
  <2>1. r.cond[t][o] = row[o]
    BY <1>2, <1>3, <1>13
  <2>2. approved[o] # None /\ r.cond[t][o] = approved[o]
    BY <1>15, <2>1
  <2>3. CASE o \in matched
    <3>1. approved[o] = second(o) /\ second(o) \in Inputs /\ second(o) # first(o)
      BY <1>6, <2>2, <2>3
    <3>2. <<first(o), o, t>> \in M /\ <<first(o), o, t>>[2] = o /\ <<first(o), o, t>>[3] = t
      BY <1>8, <2>3
    <3>3. t \in r.output[o]
      BY <1>13, <3>2
    <3>4. prop[second(o)] = o
      BY <1>6, <2>2, <3>1
    <3>5. \A p \in Outputs : <<second(o), p, t>> \notin M
      BY <1>6, <1>8, <3>1, <3>4
    <3>6. r.sched[t][second(o)] = w.sched[t][second(o)]
      BY <1>2, <1>12, <3>1, <3>5
    <3>7. w.sched[t][second(o)] = None
      BY <1>3, <1>7, <3>1, <3>4
    <3>8. QED
      BY <1>2, <2>2, <3>1, <3>3, <3>6, <3>7
  <2>4. CASE o \notin matched
    <3>1. approved[o] = first(o) /\ first(o) \in Inputs /\ prop[first(o)] = o /\ t \in w.output[o]
      BY <1>6, <2>2, <2>4
    <3>2. t \in r.output[o]
      BY <1>14, <3>1
    <3>3. \A p \in Outputs : <<first(o), p, t>> \notin M
      BY <1>6, <1>8, <2>4, <3>1
    <3>4. r.sched[t][first(o)] = w.sched[t][first(o)]
      BY <1>2, <1>12, <3>1, <3>3
    <3>5. w.sched[t][first(o)] = None
      BY <1>3, <1>7, <3>1
    <3>6. QED
      BY <1>2, <2>2, <3>1, <3>2, <3>4, <3>5
  <2>5. QED
    BY <2>3, <2>4
<1>16. \A f \in Slots : f # t => r.cond[f] = w.cond[f]
  BY <1>3, <1>13
<1>17. \A f \in Slots, i \in Inputs : f # t => r.sched[f][i] = w.sched[f][i]
  BY <1>8, <1>12
<1>18. QED
  BY <1>12, <1>15, <1>16, <1>17 DEF QpsLeaves

(* There are no more than n members of a set that have no more than n       *)
(* members up to them.                                                      *)
LEMMA FirstFew ==
    ASSUME NEW b \in Nat, NEW S \in SUBSET (0 .. b), NEW n \in Nat
    PROVE  Cardinality({ u \in S : Cardinality({ v \in S : v <= u }) <= n }) <= n
<1> DEFINE T == { u \in S : Cardinality({ v \in S : v <= u }) <= n }
<1>1. IsFiniteSet(S)
  <2>1. 0 \in Int /\ b \in Int
    OBVIOUS
  <2>2. IsFiniteSet(0 .. b)
    BY <2>1, FS_Interval
  <2>3. QED
    BY <2>2, FS_Subset
<1>2. CASE T = {}
  <2>1. Cardinality(T) = 0
    BY <1>2, FS_EmptySet
  <2>2. QED
    BY <2>1
<1>3. CASE T # {}
  <2>1. T \in SUBSET (0 .. b)
    OBVIOUS
  <2>2. PICK u \in T : \A v \in T : v <= u
    <3> HIDE DEF T
    <3> QED
      BY <1>3, <2>1, GreatestNat
  <2>3. PICK V : V = { v \in S : v <= u }
    OBVIOUS
  <2>4. IsFiniteSet(V) /\ T \subseteq V
    <3>1. V \subseteq S
      BY <2>3
    <3>2. IsFiniteSet(V)
      BY <1>1, <3>1, FS_Subset
    <3>3. QED
      BY <2>2, <2>3, <3>2
  <2>5. Cardinality(V) <= n
    BY <2>3
  <2>6. PICK W : W = T
    OBVIOUS
  <2>7. /\ Cardinality(W) \in Nat /\ Cardinality(V) \in Nat /\ Cardinality(W) <= Cardinality(V)
    BY <2>4, <2>6, FS_Subset, FS_CardinalityType
  <2>8. Cardinality(W) <= n
    BY <2>5, <2>7
  <2>9. QED
    BY <2>6, <2>8
<1>4. QED
  BY <1>2, <1>3

LEMMA FillKeeps ==
    ASSUME CondInv, slot = BatchSize - 1, NEW w \in GoodWorks, NEW o \in Outputs,
           NEW r \in FillOutput(w, o)
    PROVE  r \in GoodWorks
<1>1. /\ slot \in Slots /\ Open \in Schedules /\ Arrived \in QueueLengths
      /\ Upto = Slots /\ slot \in Nat
  BY CondOpen, UptoFacts DEF Upto, Slots
<1>2. /\ w.cond \in [Slots -> [Outputs -> Inputs \cup {None}]] /\ w.voq \in QueueLengths
  BY DEF GoodWorks, CondWorks
<1>3. CASE Approvals(w, o) = {}
  BY <1>3 DEF FillOutput
<1>4. CASE Approvals(w, o) # {}
  <2> DEFINE Few(offer, i) == { u \in Suited(w, i, offer) :
                                  Cardinality({ v \in Suited(w, i, offer) : v <= u }) <= w.voq[i][o] }
             Ms(offer) == UNION { { <<i, o, t>> : t \in Few(offer, i) } : i \in Inputs }
  <2>1. PICK offer \in Offers(w, o) : r = Match(w, Ms(offer), w.cond)
    BY <1>4 DEF FillOutput
  <2>2. DOMAIN offer = Slots \ w.output[o]
    BY DEF Offers, FreeSlots
  <2>3. ASSUME NEW i \in Inputs
        PROVE  /\ Suited(w, i, offer) \subseteq Slots
               /\ \A t \in Suited(w, i, offer) :
                    offer[t] = i /\ t \notin w.input[i] /\ t \notin w.output[o]
    BY <2>2 DEF Suited
  <2>4. ASSUME NEW i \in Inputs
        PROVE  Few(offer, i) \subseteq Suited(w, i, offer) /\ Cardinality(Few(offer, i)) <= w.voq[i][o]
    <3>1. PICK S \in SUBSET (0 .. slot) : S = Suited(w, i, offer)
      BY <1>1, <2>3 DEF Upto
    <3>2. PICK n \in Nat : n = w.voq[i][o]
      BY <1>2 DEF QueueLengths
    <3>3. Cardinality({ u \in S : Cardinality({ v \in S : v <= u }) <= n }) <= n
      BY <1>1, FirstFew
    <3>4. QED
      BY <3>1, <3>2, <3>3
  <2> HIDE DEF Few
  <2>5. \A i, p, f : <<i, p, f>> \in Ms(offer) <=> i \in Inputs /\ p = o /\ f \in Few(offer, i)
    OBVIOUS
  <2>6. Ms(offer) \subseteq Inputs \X Outputs \X Upto
    BY <1>1, <2>3, <2>4
  <2> HIDE DEF Ms
  <2>7. \A i \in Inputs, p \in Outputs, f \in Upto :
          <<i, p, f>> \in Ms(offer) => f \notin w.input[i] /\ f \notin w.output[p]
    BY <2>3, <2>4, <2>5
  <2>8. \A i, j \in Inputs, p, q \in Outputs, f \in Upto :
          <<i, p, f>> \in Ms(offer) /\ <<j, q, f>> \in Ms(offer) => (i = j <=> p = q)
    BY <2>3, <2>4, <2>5
  <2>9. ASSUME NEW i \in Inputs, NEW p \in Outputs
        PROVE  Cardinality({ f \in Slots : <<i, p, f>> \in Ms(offer) }) <= w.voq[i][p]
    <3>1. CASE p = o
      <4>1. { f \in Slots : <<i, p, f>> \in Ms(offer) } = Few(offer, i)
        BY <2>3, <2>4, <2>5, <3>1
      <4>2. QED
        BY <2>4, <3>1, <4>1, Zenon
    <3>2. CASE p # o
      <4>1. { f \in Slots : <<i, p, f>> \in Ms(offer) } = {}
        BY <2>5, <3>2
      <4>2. Cardinality({}) = 0
        BY FS_EmptySet
      <4>3. 0 <= w.voq[i][p]
        BY <1>2 DEF QueueLengths
      <4>4. QED
        BY <4>1, <4>2, <4>3, Zenon
    <3>3. QED
      BY <3>1, <3>2
  <2>10. Legit(w, Ms(offer))
    BY <2>6, <2>7, <2>8, <2>9 DEF Legit
  <2>11. QED
    BY <1>1, <1>2, <2>1, <2>10, MatchKeeps
<1>5. QED
  BY <1>3, <1>4

(* Offering the free slots leaves good work good, for each output ...       *)
LEMMA FillsKeep ==
    ASSUME CondInv, slot = BatchSize - 1, NEW w \in GoodWorks,
           NEW outputs \in SetToSeqs(Outputs)
    PROVE  FoldLeft(LAMBDA works, o : UNION { FillOutput(v, o) : v \in works }, {w}, outputs)
             \in SUBSET GoodWorks
<1>1. PICK n \in Nat : n = Cardinality(Outputs)
  BY PortsAreFinite, FS_CardinalityType
<1>2. outputs \in [1 .. n -> Outputs] /\ DOMAIN outputs = 1 .. n
  BY <1>1 DEF SetToSeqs
<1> DEFINE A == SUBSET GoodWorks
           Put(k, ws) == UNION { FillOutput(v, outputs[k]) : v \in ws }
           Body(h, T) == IF T = {} THEN {w} ELSE Put(Max(T), h[T \ {Max(T)}])
           F == [k \in 1 .. n |-> [ws \in A |-> Put(k, ws)]]
<1>3. ASSUME NEW k \in 1 .. n, NEW ws \in A PROVE Put(k, ws) \in A
  <2>1. outputs[k] \in Outputs
    BY <1>2
  <2>2. \A v \in ws : FillOutput(v, outputs[k]) \in A
    BY <2>1, FillKeeps
  <2>3. QED
    BY <2>2
<1>4. {w} \in A
  OBVIOUS
<1> HIDE DEF A, Put
<1>5. \E it : it = [T \in SUBSET DOMAIN outputs |-> Body(it, T)]
  <2>1. IsStep(n, A, F)
    BY <1>3 DEF IsStep
  <2>2. PICK base \in A : base = {w}
    BY <1>4
  <2>3. PICK it : it \in [SUBSET (1 .. n) -> A] /\ LeftFoldIs(it, n, base, F)
    <3> HIDE DEF F
    <3> QED
      BY <2>1, LeftFoldExists
  <2>4. ASSUME NEW T \in SUBSET (1 .. n) PROVE it[T] = Body(it, T)
    <3>1. CASE T = {}
      BY <2>2, <2>3, <3>1 DEF LeftFoldIs
    <3>2. CASE T # {}
      <4>1. Greatest(T) \in 1 .. n /\ Max(T) = Greatest(T)
        BY <3>2, GreatestFacts DEF Max, Greatest
      <4>2. it[T \ {Greatest(T)}] \in A
        BY <2>3
      <4>3. it[T] = F[Greatest(T)][it[T \ {Greatest(T)}]]
        BY <2>3, <3>2 DEF LeftFoldIs
      <4>4. QED
        BY <3>2, <4>1, <4>2, <4>3
    <3>3. QED
      BY <3>1, <3>2
  <2> HIDE DEF Body
  <2>5. it = [T \in SUBSET DOMAIN outputs |-> Body(it, T)]
    BY <1>2, <2>3, <2>4
  <2>6. QED
    BY <2>5
<1>6. PICK it :
        /\ FoldLeft(LAMBDA works, o : UNION { FillOutput(v, o) : v \in works }, {w}, outputs)
             = it[DOMAIN outputs]
        /\ it = [T \in SUBSET DOMAIN outputs |-> Body(it, T)]
  BY <1>5 DEF FoldLeft, MapThenFoldSet, Put
<1>7. it[{}] \in A
  BY <1>2, <1>4, <1>6
<1>8. ASSUME NEW T \in (SUBSET (1 .. n)) \ {{}}, it[T \ {Greatest(T)}] \in A
      PROVE  it[T] \in A
  <2>1. Greatest(T) \in 1 .. n /\ Max(T) = Greatest(T)
    BY GreatestFacts DEF Max, Greatest
  <2>2. it[T] = Put(Greatest(T), it[T \ {Greatest(T)}])
    BY <1>2, <1>6, <2>1
  <2>3. QED
    BY <1>3, <1>8, <2>1, <2>2
<1> HIDE DEF Body
<1>9. it[1 .. n] \in A
  BY <1>7, <1>8, FoldStays
<1>10. QED
  BY <1>2, <1>6, <1>9 DEF A

(* ... and for all of them, in whichever order they come.                   *)
LEMMA EndKeeps ==
    ASSUME CondInv, slot = BatchSize - 1, NEW w \in GoodWorks
    PROVE  EndOfBatchOptimization(w) \in SUBSET GoodWorks
BY FillsKeep, Zenon DEF EndOfBatchOptimization

(* A further round leaves good work good: qps for every slot ...            *)
LEMMA AllSlotsKeep ==
    ASSUME CondInv, slot = BatchSize - 1, NEW works \in SUBSET GoodWorks, NEW r
    PROVE  QpsInAllSlots(works, r) \in SUBSET GoodWorks
<1>1. PICK n \in Nat : n = BatchSize
  BY BatchSizePos
<1> DEFINE seq == [k \in 1 .. BatchSize |-> k - 1]
<1>11. DOMAIN seq = 1 .. n /\ \A k \in 1 .. n : seq[k] \in Upto
  BY <1>1 DEF Upto
<1> DEFINE A == SUBSET GoodWorks
           Put(k, ws) == UNION { CondQps(v, seq[k], r) : v \in ws }
           Body(h, T) == IF T = {} THEN works ELSE Put(Max(T), h[T \ {Max(T)}])
           F == [k \in 1 .. n |-> [ws \in A |-> Put(k, ws)]]
<1>3. ASSUME NEW k \in 1 .. n, NEW ws \in A PROVE Put(k, ws) \in A
  <2>1. seq[k] \in Upto
    BY <1>11
  <2>2. \A v \in ws : CondQps(v, seq[k], r) \in A
    BY <2>1, QpsKeeps
  <2>3. QED
    BY <2>2
<1>4. works \in A
  OBVIOUS
<1> HIDE DEF A, Put, seq
<1>5. \E it : it = [T \in SUBSET DOMAIN seq |-> Body(it, T)]
  <2>1. IsStep(n, A, F)
    BY <1>3 DEF IsStep
  <2>2. PICK base \in A : base = works
    BY <1>4
  <2>3. PICK it : it \in [SUBSET (1 .. n) -> A] /\ LeftFoldIs(it, n, base, F)
    <3> HIDE DEF F
    <3> QED
      BY <2>1, LeftFoldExists
  <2>4. ASSUME NEW T \in SUBSET (1 .. n) PROVE it[T] = Body(it, T)
    <3>1. CASE T = {}
      BY <2>2, <2>3, <3>1 DEF LeftFoldIs
    <3>2. CASE T # {}
      <4>1. Greatest(T) \in 1 .. n /\ Max(T) = Greatest(T)
        BY <3>2, GreatestFacts DEF Max, Greatest
      <4>2. it[T \ {Greatest(T)}] \in A
        BY <2>3
      <4>3. it[T] = F[Greatest(T)][it[T \ {Greatest(T)}]]
        BY <2>3, <3>2 DEF LeftFoldIs
      <4>4. QED
        BY <3>2, <4>1, <4>2, <4>3
    <3>3. QED
      BY <3>1, <3>2
  <2> HIDE DEF Body
  <2>5. it = [T \in SUBSET DOMAIN seq |-> Body(it, T)]
    BY <1>11, <2>3, <2>4
  <2>6. QED
    BY <2>5
<1>6. PICK it : /\ QpsInAllSlots(works, r) = it[DOMAIN seq]
                /\ it = [T \in SUBSET DOMAIN seq |-> Body(it, T)]
  BY <1>5 DEF QpsInAllSlots, FoldLeft, MapThenFoldSet, Put, seq
<1>7. it[{}] \in A
  BY <1>11, <1>4, <1>6
<1>8. ASSUME NEW T \in (SUBSET (1 .. n)) \ {{}}, it[T \ {Greatest(T)}] \in A
      PROVE  it[T] \in A
  <2>1. Greatest(T) \in 1 .. n /\ Max(T) = Greatest(T)
    BY GreatestFacts DEF Max, Greatest
  <2>2. it[T] = Put(Greatest(T), it[T \ {Greatest(T)}])
    BY <1>11, <1>6, <2>1
  <2>3. QED
    BY <1>3, <1>8, <2>1, <2>2
<1> HIDE DEF Body
<1>9. it[1 .. n] \in A
  BY <1>7, <1>8, FoldStays
<1>10. QED
  BY <1>11, <1>6, <1>9 DEF A

(* ... then the optimization, for whatever they have made of the work.      *)
LEMMA RoundKeeps ==
    ASSUME CondInv, slot = BatchSize - 1, NEW works \in SUBSET GoodWorks, NEW r
    PROVE  FurtherRound(works, r) \in SUBSET GoodWorks
<1>1. QpsInAllSlots(works, r) \in SUBSET GoodWorks
  BY AllSlotsKeep
<1>2. \A w \in QpsInAllSlots(works, r) : EndOfBatchOptimization(w) \in SUBSET GoodWorks
  BY <1>1, EndKeeps
<1>3. QED
  BY <1>2 DEF FurtherRound

LEMMA LastRoundsKeep ==
    ASSUME CondInv, slot = BatchSize - 1, NEW w \in GoodWorks
    PROVE  LastRounds(w) \in SUBSET GoodWorks
<1>1. PICK n \in Nat : 1 .. n = 1 .. NumIterations - 1
  <2>1. CASE NumIterations = 0
    <3>1. 1 .. 0 = 1 .. NumIterations - 1
      BY <2>1
    <3>2. QED
      BY <3>1
  <2>2. CASE NumIterations # 0
    <3>1. NumIterations - 1 \in Nat
      BY <2>2, IterationsNat
    <3>2. QED
      BY <3>1
  <2>3. QED
    BY <2>1, <2>2
<1> DEFINE seq == [k \in 1 .. NumIterations - 1 |-> k + 1]
<1>11. DOMAIN seq = 1 .. n
  BY <1>1
<1> DEFINE A == SUBSET GoodWorks
           Put(k, ws) == FurtherRound(ws, seq[k])
           Body(h, T) == IF T = {} THEN EndOfBatchOptimization(w) ELSE Put(Max(T), h[T \ {Max(T)}])
           F == [k \in 1 .. n |-> [ws \in A |-> Put(k, ws)]]
<1>3. ASSUME NEW k \in 1 .. n, NEW ws \in A PROVE Put(k, ws) \in A
  BY <1>3, RoundKeeps
<1>4. EndOfBatchOptimization(w) \in A
  BY EndKeeps
<1> HIDE DEF A, Put, seq
<1>5. \E it : it = [T \in SUBSET DOMAIN seq |-> Body(it, T)]
  <2>1. IsStep(n, A, F)
    BY <1>3 DEF IsStep
  <2>2. PICK base \in A : base = EndOfBatchOptimization(w)
    BY <1>4
  <2>3. PICK it : it \in [SUBSET (1 .. n) -> A] /\ LeftFoldIs(it, n, base, F)
    <3> HIDE DEF F
    <3> QED
      BY <2>1, LeftFoldExists
  <2>4. ASSUME NEW T \in SUBSET (1 .. n) PROVE it[T] = Body(it, T)
    <3>1. CASE T = {}
      BY <2>2, <2>3, <3>1 DEF LeftFoldIs
    <3>2. CASE T # {}
      <4>1. Greatest(T) \in 1 .. n /\ Max(T) = Greatest(T)
        BY <3>2, GreatestFacts DEF Max, Greatest
      <4>2. it[T \ {Greatest(T)}] \in A
        BY <2>3
      <4>3. it[T] = F[Greatest(T)][it[T \ {Greatest(T)}]]
        BY <2>3, <3>2 DEF LeftFoldIs
      <4>4. QED
        BY <3>2, <4>1, <4>2, <4>3
    <3>3. QED
      BY <3>1, <3>2
  <2> HIDE DEF Body
  <2>5. it = [T \in SUBSET DOMAIN seq |-> Body(it, T)]
    BY <1>11, <2>3, <2>4
  <2>6. QED
    BY <2>5
<1>6. PICK it : /\ LastRounds(w) = it[DOMAIN seq]
                /\ it = [T \in SUBSET DOMAIN seq |-> Body(it, T)]
  BY <1>5 DEF LastRounds, FoldLeft, MapThenFoldSet, Put, seq
<1>7. it[{}] \in A
  BY <1>11, <1>4, <1>6
<1>8. ASSUME NEW T \in (SUBSET (1 .. n)) \ {{}}, it[T \ {Greatest(T)}] \in A
      PROVE  it[T] \in A
  <2>1. Greatest(T) \in 1 .. n /\ Max(T) = Greatest(T)
    BY GreatestFacts DEF Max, Greatest
  <2>2. it[T] = Put(Greatest(T), it[T \ {Greatest(T)}])
    BY <1>11, <1>6, <2>1
  <2>3. QED
    BY <1>3, <1>8, <2>1, <2>2
<1> HIDE DEF Body
<1>9. it[1 .. n] \in A
  BY <1>7, <1>8, FoldStays
<1>10. QED
  BY <1>11, <1>6, <1>9 DEF A

-----------------------------------------------------------------------------
(* SB_QPS_Conditional: the steps, and what they preserve.                  *)

LEMMA CondInitInv == CondInit => CondInv /\ BatchInit
<1> SUFFICES ASSUME CondInit PROVE CondInv /\ BatchInit
  OBVIOUS
<1>1. SBInv /\ BatchInit /\ IInv
  BY SBInit, InvInit DEF CondInit
<1>2. /\ conditionalApprovals \in [Slots -> [Outputs -> Inputs \cup {None}]]
      /\ ApprovedAfterMatch
  BY DEF CondInit, NoApprovals, ApprovedAfterMatch
<1>3. \A i \in Inputs, o \in Outputs : queue_len[i][o] <= MaxQueueLen
  BY <1>1, MaxQueueLenNat DEF BatchInit, SwitchInit, EmptyQueues
<1>4. QED
  BY <1>1, <1>2, <1>3 DEF CondInv

(* No VOQ of the switch outgrows the bound of the model. *)
LEMMA BoundStep ==
    ASSUME BatchTypeOK, BatchNext, \A i \in Inputs, o \in Outputs : queue_len[i][o] <= MaxQueueLen
    PROVE  \A i \in Inputs, o \in Outputs : queue_len'[i][o] <= MaxQueueLen
<1> SUFFICES ASSUME NEW i \in Inputs, NEW o \in Outputs
             PROVE  queue_len'[i][o] <= MaxQueueLen
  OBVIOUS
<1>1. queue_len[i][o] \in Nat /\ queue_len[i][o] <= MaxQueueLen /\ MaxQueueLen \in Nat
  BY MaxQueueLenNat DEF BatchTypeOK, SwitchTypeOK, QueueLengths
<1>2. CASE ReadInputs
  <2>1. PICK arr \in Assignments :
          /\ \A j \in Inputs : arr[j] # None => queue_len[j][arr[j]] < MaxQueueLen
          /\ queue_len' = Enqueue(queue_len, arr)
    BY <1>2 DEF ReadInputs
  <2>2. queue_len'[i][o] = queue_len[i][o] + (IF arr[i] = o THEN 1 ELSE 0)
    BY <2>1 DEF Enqueue
  <2>3. CASE arr[i] = o
    <3>1. queue_len[i][o] < MaxQueueLen
      BY <2>1, <2>3, NoneIsNoPort
    <3>2. QED
      BY <1>1, <2>2, <2>3, <3>1
  <2>4. CASE arr[i] # o
    BY <1>1, <2>2, <2>4
  <2>5. QED
    BY <2>3, <2>4
<1>3. CASE WriteOutputs
  <2>1. queue_len'[i][o] = queue_len[i][o]
          - (IF in_match[i] = o /\ queue_len[i][o] # 0 THEN 1 ELSE 0)
    BY <1>3 DEF WriteOutputs, Dequeue
  <2>2. QED
    BY <1>1, <2>1
<1>4. CASE BatchSchedule
  <2>1. queue_len' = queue_len
    BY <1>4 DEF BatchSchedule, ScheduleBatch, ScheduleWith
  <2>2. QED
    BY <1>1, <2>1
<1>5. CASE BatchReset
  <2>1. queue_len'[i][o] = 0
    BY <1>5 DEF BatchReset, SwitchReset, EmptyQueues
  <2>2. QED
    BY <1>1, <2>1
<1>6. QED
  BY <1>2, <1>3, <1>4, <1>5 DEF BatchNext, SwitchStep

(* What every call of schedule() leaves, be the slot the last of its batch  *)
(* or not.                                                                 *)
LEMMA CondWork ==
    ASSUME CondInv, CondSchedule
    PROVE  \E work \in GoodWorks :
             /\ ScheduleBatch(work.sched, work.voq) /\ Keep(work)
             /\ slot # BatchSize - 1 => QpsLeaves(Before, work, slot)
<1>1. PICK proposed \in CondQps(Before, slot, 1) :
        \E work \in IF slot = BatchSize - 1 THEN LastRounds(proposed) ELSE {proposed} :
          ScheduleBatch(work.sched, work.voq) /\ Keep(work)
  BY DEF CondSchedule
<1>2. Before \in GoodWorks /\ slot \in Upto
  BY CondOpen, UptoFacts
<1>3. proposed \in GoodWorks /\ QpsLeaves(Before, proposed, slot)
  <2>1. PICK before \in GoodWorks : before = Before
    BY <1>2
  <2>2. PICK r \in CondQps(before, slot, 1) : r = proposed
    BY <2>1
  <2>3. r \in GoodWorks /\ QpsLeaves(before, r, slot)
    BY <1>2, QpsKeeps
  <2>4. QED
    BY <2>1, <2>2, <2>3
<1>4. CASE slot = BatchSize - 1
  <2>1. LastRounds(proposed) \in SUBSET GoodWorks
    BY <1>3, <1>4, LastRoundsKeep
  <2>2. QED
    BY <1>1, <1>4, <2>1
<1>5. CASE slot # BatchSize - 1
  BY <1>1, <1>3, <1>5
<1>6. QED
  BY <1>4, <1>5

LEMMA CondScheduleInv ==
    ASSUME CondInv, CondSchedule
    PROVE  CondInv' /\ BatchSchedule
<1>1. PICK work \in GoodWorks :
        /\ ScheduleBatch(work.sched, work.voq) /\ Keep(work)
        /\ slot # BatchSize - 1 => QpsLeaves(Before, work, slot)
  BY CondWork
<1>2. /\ slot \in Slots /\ slot \in Nat /\ BatchSize \in Nat \ {0}
      /\ Open = Cleared(schedules, slot) /\ slot \in Upto
      /\ \A o \in Outputs : slot \notin ouputMatchBitmap[o]
  BY BatchSizePos, CondOpen, UptoFacts
<1>3. /\ work.sched \in Schedules /\ work.voq \in QueueLengths
      /\ work.input \in [Inputs -> SUBSET Slots] /\ work.output \in [Outputs -> SUBSET Slots]
      /\ work.cond \in [Slots -> [Outputs -> Inputs \cup {None}]]
      /\ Legal(Open, work.sched) /\ work.voq = Left(work.sched)
      /\ \A i \in Inputs : work.input[i] = { f \in Upto : work.sched[f][i] # None }
      /\ \A o \in Outputs : work.output[o] = { f \in Upto : \E i \in Inputs : work.sched[f][i] = o }
  BY DEF GoodWorks, CondWorks, Users
<1>4. /\ in_match' = schedules[slot] /\ schedules' = work.sched /\ slot' = NextSlot
  BY <1>1, SmallBatchDispatchesFirst DEF ScheduleBatch, ScheduleWith, HandedOut, Kept
<1>5. BatchSchedule
  <2>1. Placed = work.sched
    BY <1>4, SmallBatchDispatchesFirst DEF Placed
  <2>2. in_match' \in Assignments
    BY <1>2, <1>4 DEF CondInv, SBInv, BatchTypeOK
  <2>3. QED
    BY <1>1, <1>3, <1>4, <2>1, <2>2 DEF BatchSchedule, Schedules
<1>6. IInv' /\ BatchTypeOK' /\ \A i \in Inputs, o \in Outputs : queue_len'[i][o] <= MaxQueueLen
  <2>1. IInv /\ BatchTypeOK /\ BatchNext
    BY <1>5 DEF CondInv, IInv, BatchNext
  <2>2. IInv' /\ BatchTypeOK'
    BY <2>1, InvStep DEF IInv
  <2>3. QED
    BY <2>1, <2>2, BoundStep DEF CondInv
<1>7. CASE slot = BatchSize - 1
  <2>1. /\ inputMatchBitmap' = NoInputBits /\ ouputMatchBitmap' = NoOutputBits
        /\ conditionalApprovals' = NoApprovals
    BY <1>1, <1>7 DEF Keep
  <2>2. slot' = 0 /\ 0 .. slot' - 1 = {}
    BY <1>4, <1>7 DEF NextSlot
  <2>3. SBInv'
    BY <1>6, <2>1, <2>2 DEF SBInv, BitmapsAgree, NoInputBits, NoOutputBits
  <2>4. /\ conditionalApprovals' \in [Slots -> [Outputs -> Inputs \cup {None}]]
        /\ ApprovedAfterMatch'
    BY <2>1 DEF NoApprovals, ApprovedAfterMatch
  <2>5. QED
    BY <1>5, <1>6, <2>3, <2>4 DEF CondInv
<1>8. CASE slot # BatchSize - 1
  <2>1. /\ inputMatchBitmap' = work.input /\ ouputMatchBitmap' = work.output
        /\ conditionalApprovals' = work.cond
    BY <1>1, <1>8 DEF Keep
  <2>2. slot' = slot + 1 /\ 0 .. slot' - 1 = Upto
    BY <1>2, <1>4, <1>8 DEF NextSlot, Upto
  <2>3. SBInv'
    BY <1>3, <1>4, <1>6, <2>1, <2>2 DEF SBInv, BitmapsAgree
  <2>4. /\ Before.cond = conditionalApprovals /\ Before.output = ouputMatchBitmap
        /\ Before.sched = Open
    BY DEF Before
  <2>5. /\ \A f \in Slots : f # slot => work.cond[f] = conditionalApprovals[f]
        /\ \A f \in Slots, i \in Inputs : f # slot => work.sched[f][i] = Open[f][i]
        /\ \A o \in Outputs : work.cond[slot][o] # conditionalApprovals[slot][o] =>
             slot \in work.output[o] /\ work.sched[slot][work.cond[slot][o]] # o
    BY <1>1, <1>8, <2>4 DEF QpsLeaves
  <2>6. ASSUME NEW f \in Slots, NEW o \in Outputs, work.cond[f][o] # None
        PROVE  f \in work.output[o] /\ work.sched[f][work.cond[f][o]] # o
    <3>1. CASE f = slot
      <4>1. conditionalApprovals[slot][o] = None
        BY <1>2 DEF CondInv, ApprovedAfterMatch
      <4>2. QED
        BY <2>5, <2>6, <3>1, <4>1
    <3>2. CASE f # slot
      <4>1. /\ f \in ouputMatchBitmap[o] /\ schedules[f][conditionalApprovals[f][o]] # o
            /\ work.cond[f] = conditionalApprovals[f]
        BY <2>5, <2>6, <3>2 DEF CondInv, ApprovedAfterMatch
      <4>2. f \in 0 .. slot - 1 /\ \E i \in Inputs : schedules[f][i] = o
        BY <4>1 DEF CondInv, SBInv, BitmapsAgree
      <4>3. \A i \in Inputs : work.sched[f][i] = schedules[f][i]
        <5>1. Open[f] = schedules[f]
          BY <1>2, <3>2 DEF Cleared, CondInv, SBInv, BatchTypeOK
        <5>2. QED
          BY <2>5, <3>2, <5>1
      <4>4. f \in Upto /\ f \in work.output[o]
        BY <1>2, <1>3, <4>2, <4>3 DEF Upto
      <4>5. work.cond[f][o] \in Inputs
        BY <1>3, <2>6
      <4>6. QED
        BY <4>1, <4>3, <4>4, <4>5
    <3>3. QED
      BY <3>1, <3>2
  <2>7. ApprovedAfterMatch'
    BY <1>4, <2>1, <2>6 DEF ApprovedAfterMatch
  <2>8. QED
    BY <1>3, <1>5, <1>6, <2>1, <2>3, <2>7 DEF CondInv
<1>9. QED
  BY <1>7, <1>8

LEMMA CondStepInv == CondInv /\ [CondNext]_condVars => CondInv' /\ [BatchNext]_vars
<1> SUFFICES ASSUME CondInv, [CondNext]_condVars PROVE CondInv' /\ [BatchNext]_vars
  OBVIOUS
<1>1. CASE CondStep
  <2>1. SBInv' /\ SwitchStep /\ conditionalApprovals' = conditionalApprovals
    BY <1>1, SBSwitchStep DEF CondStep, CondInv
  <2>2. BatchNext /\ BatchTypeOK
    BY <2>1 DEF BatchNext, CondInv, SBInv
  <2>3. IInv' /\ \A i \in Inputs, o \in Outputs : queue_len'[i][o] <= MaxQueueLen
    BY <2>2, InvStep, BoundStep DEF CondInv
  <2>4. ApprovedAfterMatch'
    <3>1. schedules' = schedules /\ ouputMatchBitmap' = ouputMatchBitmap
      BY <1>1, <2>1 DEF CondStep, SmallBatchStep, SwitchStep, batchVars, bitmaps
    <3>2. QED
      BY <2>1, <3>1 DEF CondInv, ApprovedAfterMatch
  <2>5. QED
    BY <2>1, <2>2, <2>3, <2>4 DEF CondInv
<1>2. CASE CondSchedule
  BY <1>2, CondScheduleInv DEF BatchNext
<1>3. CASE CondReset
  <2>1. SBInv' /\ BatchReset /\ conditionalApprovals' = NoApprovals
    BY <1>3, SBReset DEF CondReset, CondInv
  <2>2. BatchNext /\ BatchTypeOK
    BY <2>1 DEF BatchNext, CondInv, SBInv
  <2>3. IInv' /\ \A i \in Inputs, o \in Outputs : queue_len'[i][o] <= MaxQueueLen
    BY <2>2, InvStep, BoundStep DEF CondInv
  <2>4. /\ conditionalApprovals' \in [Slots -> [Outputs -> Inputs \cup {None}]]
        /\ ApprovedAfterMatch'
    BY <2>1 DEF NoApprovals, ApprovedAfterMatch
  <2>5. QED
    BY <2>1, <2>2, <2>3, <2>4 DEF CondInv
<1>4. CASE UNCHANGED condVars
  <2>1. /\ UNCHANGED vars /\ UNCHANGED bitmaps /\ conditionalApprovals' = conditionalApprovals
    BY <1>4 DEF condVars, sbVars
  <2>2. IInv'
    BY <2>1, InvStep DEF CondInv
  <2>3. QED
    BY <2>1, <2>2 DEF CondInv, SBInv, vars, switchVars, batchVars, bitmaps, IInv, BitmapsAgree, ApprovedAfterMatch
<1>5. QED
  BY <1>1, <1>2, <1>3, <1>4 DEF CondNext

(* The approvals, the bitmaps and the accounts of the queues stay right in  *)
(* every call of SB_QPS_Conditional.                                       *)
THEOREM CondInvariant == CondSpec => []CondInv
<1>1. CondInit => CondInv
  BY CondInitInv
<1>2. CondInv /\ [CondNext]_condVars => CondInv'
  BY CondStepInv
<1>3. QED
  BY <1>1, <1>2, PTL DEF CondSpec

(* The bitmaps of SB_QPS_Conditional, too, are an exact account of the      *)
(* schedules of the current batch, whatever its rounds have placed.        *)
THEOREM CondBitmapsAgree == CondSpec => []BitmapsAgree
BY CondInvariant, PTL DEF CondInv, SBInv

(* An output that has approved an input for a slot is matched in the slot,  *)
(* to another input: no proposal is served and approved as well.           *)
THEOREM CondApprovedAfterMatch == CondSpec => []ApprovedAfterMatch
BY CondInvariant, PTL DEF CondInv

(* Every call of SB_QPS_Conditional, with all the rounds in the last slot   *)
(* of a batch, is one step of the abstract batch scheduler.                *)
THEOREM CondImplementsBatch == CondSpec => BatchSpec
<1>1. CondInit => BatchInit
  BY CondInitInv
<1>2. CondInv /\ [CondNext]_condVars => [BatchNext]_vars
  BY CondStepInv
<1>3. QED
  BY <1>1, <1>2, CondInvariant, PTL DEF CondSpec, BatchSpec
=============================================================================
