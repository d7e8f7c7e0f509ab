----------------------- MODULE BatchScheduler_proofs -----------------------
(***************************************************************************)
(* Proofs about BatchScheduler, for any ports, any size of the batch and   *)
(* both orders of handing out and placing.                                 *)
(***************************************************************************)
EXTENDS BatchScheduler, FiniteSetTheorems, TLAPS

Schedules == [Slots -> Assignments]

(* _arrivals and _in_match carry something only between the two calls that *)
(* write and read them.                                                    *)
HandOversCleared ==
    /\ phase # "schedule" => arrivals = NoMatch
    /\ phase # "write_outputs" => in_match = NoMatch

(* The inductive invariant. *)
IInv ==
    /\ BatchTypeOK
    /\ HandOversCleared
    /\ QueuesAccountedFor
    /\ SlotsAreMatchings

-----------------------------------------------------------------------------
(* What clearing a slot and placing packets do to the schedules.           *)

LEMMA PlacedSlotsFinite ==
    ASSUME NEW sched, NEW i, NEW o
    PROVE  /\ IsFiniteSet(PlacedSlots(sched, i, o))
           /\ Cardinality(PlacedSlots(sched, i, o)) \in Nat
<1>1. IsFiniteSet(Slots)
  BY FS_Interval, BatchSizePos DEF Slots
<1>2. PlacedSlots(sched, i, o) \subseteq Slots
  BY DEF PlacedSlots
<1>3. IsFiniteSet(PlacedSlots(sched, i, o))
  BY <1>1, <1>2, FS_Subset
<1>4. QED
  BY <1>3, FS_CardinalityType

LEMMA ClearedType ==
    ASSUME NEW sched \in Schedules, NEW t \in Slots
    PROVE  Cleared(sched, t) \in Schedules
BY DEF Cleared, Schedules, Assignments, NoMatch

(* Clearing a slot takes away exactly what it held. *)
LEMMA ClearedCount ==
    ASSUME NEW sched \in Schedules, NEW t \in Slots, NEW i \in Inputs, NEW o \in Outputs
    PROVE  Cardinality(PlacedSlots(sched, i, o)) =
             Cardinality(PlacedSlots(Cleared(sched, t), i, o))
               + (IF sched[t][i] = o THEN 1 ELSE 0)
<1>1. PlacedSlots(Cleared(sched, t), i, o) = PlacedSlots(sched, i, o) \ {t}
  BY NoneIsNoPort DEF PlacedSlots, Cleared, NoMatch, Schedules, Assignments
<1>2. IsFiniteSet(PlacedSlots(sched, i, o))
  BY PlacedSlotsFinite
<1>3. Cardinality(PlacedSlots(sched, i, o)) \in Nat
  BY PlacedSlotsFinite
<1>4. t \in PlacedSlots(sched, i, o) <=> sched[t][i] = o
  BY DEF PlacedSlots
<1>5. Cardinality(PlacedSlots(sched, i, o) \ {t}) =
        IF t \in PlacedSlots(sched, i, o)
        THEN Cardinality(PlacedSlots(sched, i, o)) - 1
        ELSE Cardinality(PlacedSlots(sched, i, o))
  BY <1>2, FS_RemoveElement
<1>6. QED
  BY <1>1, <1>3, <1>4, <1>5

(* Placing legally adds the slots that are new to those there were. *)
LEMMA PlacedCount ==
    ASSUME NEW placed, Legal(Open, placed), NEW i \in Inputs, NEW o \in Outputs
    PROVE  /\ Cardinality(PlacedSlots(placed, i, o)) =
                 Cardinality(PlacedSlots(Open, i, o)) + Cardinality(NewlyPlaced(placed, i, o))
           /\ Cardinality(NewlyPlaced(placed, i, o)) \in Nat
<1> DEFINE before == PlacedSlots(Open, i, o)
           after == PlacedSlots(placed, i, o)
<1>1. IsFiniteSet(after) /\ Cardinality(before) \in Nat /\ Cardinality(after) \in Nat
  BY PlacedSlotsFinite
<1>2. after \cap before = before
  BY NoneIsNoPort DEF Legal, PlacedSlots
<1>3. /\ IsFiniteSet(after \ before)
      /\ Cardinality(after \ before) = Cardinality(after) - Cardinality(before)
  BY <1>1, <1>2, FS_Difference
<1>4. Cardinality(after \ before) \in Nat
  BY <1>3, FS_CardinalityType
<1>5. QED
  BY <1>1, <1>3, <1>4 DEF NewlyPlaced

LEMMA ClearedMatching ==
    ASSUME NEW sched \in Schedules, NEW t \in Slots,
           \A f \in Slots : IsMatching(sched[f])
    PROVE  \A f \in Slots : IsMatching(Cleared(sched, t)[f])
BY DEF Cleared, Schedules, IsMatching, NoMatch

(* Placing legally leaves every slot a matching. *)
LEMMA LegalMatching ==
    ASSUME NEW before, NEW after, Legal(before, after),
           \A f \in Slots : IsMatching(before[f])
    PROVE  \A f \in Slots : IsMatching(after[f])
<1> SUFFICES ASSUME NEW f \in Slots, NEW i \in Inputs, NEW j \in Inputs,
                    after[f][i] # None, after[f][i] = after[f][j]
             PROVE  i = j
  BY DEF IsMatching
<1>1. CASE before[f][i] = None
  BY <1>1 DEF Legal
<1>2. CASE before[f][j] = None
  BY <1>2 DEF Legal
<1>3. CASE before[f][i] # None /\ before[f][j] # None
  BY <1>3 DEF Legal, IsMatching
<1>4. QED
  BY <1>1, <1>2, <1>3

-----------------------------------------------------------------------------
(* Type correctness.                                                       *)

LEMMA EnqueueType ==
    ASSUME NEW len \in QueueLengths, NEW arr \in Assignments
    PROVE  Enqueue(len, arr) \in QueueLengths
BY DEF Enqueue, QueueLengths

LEMMA DequeueType ==
    ASSUME NEW len \in QueueLengths, NEW m \in Assignments
    PROVE  Dequeue(len, m) \in QueueLengths
BY DEF Dequeue, QueueLengths

LEMMA NoMatchType == NoMatch \in Assignments /\ EmptyQueues \in QueueLengths
BY DEF NoMatch, Assignments, EmptyQueues, QueueLengths

(* The facts about one call of schedule() that the other proofs build on.  *)
LEMMA ScheduleFacts ==
    ASSUME BatchTypeOK, BatchSchedule
    PROVE  /\ phase = "schedule" /\ phase' = "write_outputs"
           /\ queue_len' = queue_len /\ arrivals' = NoMatch
           /\ Open \in Schedules /\ Placed \in Schedules
           /\ Legal(Open, Placed)
           /\ in_match' = HandedOut(Placed) /\ in_match' \in Assignments
           /\ schedules' = Kept(Placed) /\ schedules' \in Schedules
           /\ VOQLength' = Left(Placed) /\ VOQLength' \in QueueLengths
           /\ slot' = NextSlot
<1>1. schedules \in Schedules /\ slot \in Slots
  BY DEF BatchTypeOK, Schedules
<1>2. Open \in Schedules
  BY <1>1, ClearedType DEF Open
<1>3. schedules' \in Schedules /\ in_match' \in Assignments
  BY DEF BatchSchedule, Schedules
<1>4. Placed \in Schedules
  BY <1>1, <1>3 DEF Placed, Schedules
<1>5. QED
  BY <1>2, <1>3, <1>4 DEF BatchSchedule, ScheduleBatch, ScheduleWith

LEMMA TypeInit == BatchInit => BatchTypeOK
BY BatchSizePos, NoMatchType
   DEF BatchInit, SwitchInit, BatchTypeOK, SwitchTypeOK, Phases, Slots

LEMMA TypeStep == BatchTypeOK /\ [BatchNext]_vars => BatchTypeOK'
<1> SUFFICES ASSUME BatchTypeOK, [BatchNext]_vars PROVE BatchTypeOK'
  OBVIOUS
<1> USE DEF BatchTypeOK, SwitchTypeOK, Phases
<1>1. CASE SwitchStep
  <2>1. CASE ReadInputs
    <3>1. PICK arr \in Assignments : arrivals' = arr /\ queue_len' = Enqueue(queue_len, arr)
      BY <2>1 DEF ReadInputs
    <3>2. QED
      BY <1>1, <2>1, <3>1, EnqueueType DEF SwitchStep, ReadInputs, batchVars
  <2>2. CASE WriteOutputs
    BY <1>1, <2>2, DequeueType, NoMatchType DEF SwitchStep, WriteOutputs, batchVars
  <2>3. QED
    BY <1>1, <2>1, <2>2 DEF SwitchStep
<1>2. CASE BatchSchedule
  <2>1. NextSlot \in Slots
    BY BatchSizePos DEF NextSlot, Slots
  <2>2. QED
    BY <1>2, <2>1, ScheduleFacts, NoMatchType DEF Schedules
<1>3. CASE BatchReset
  BY <1>3, BatchSizePos, NoMatchType DEF BatchReset, SwitchReset, Slots
<1>4. CASE UNCHANGED vars
  BY <1>4 DEF vars, switchVars, batchVars
<1>5. QED
  BY <1>1, <1>2, <1>3, <1>4 DEF BatchNext

(* Every variable keeps its type; in particular no VOQ length becomes       *)
(* negative, which BST::update asserts (src/include/saber/utils.hpp).       *)
THEOREM BatchTypeCorrect == BatchSpec => []BatchTypeOK
BY TypeInit, TypeStep, PTL DEF BatchSpec

-----------------------------------------------------------------------------
(* The accounts of the queues.                                             *)

LEMMA InvInit == BatchInit => IInv
<1> SUFFICES ASSUME BatchInit PROVE IInv
  OBVIOUS
<1>1. BatchTypeOK
  BY TypeInit
<1>2. HandOversCleared /\ SlotsAreMatchings
  BY NoneIsNoPort DEF BatchInit, SwitchInit, HandOversCleared, SlotsAreMatchings, IsMatching, NoMatch
<1>3. QueuesAccountedFor
  <2> SUFFICES ASSUME NEW i \in Inputs, NEW o \in Outputs
               PROVE  Cardinality(PlacedSlots(schedules, i, o)) = 0
    BY NoneIsNoPort DEF QueuesAccountedFor, BatchInit, SwitchInit, EmptyQueues, NoMatch
  <2>1. PlacedSlots(schedules, i, o) = {}
    BY NoneIsNoPort DEF PlacedSlots, BatchInit, NoMatch
  <2>2. QED
    BY <2>1, FS_EmptySet
<1>4. QED
  BY <1>1, <1>2, <1>3 DEF IInv

LEMMA ReadInputsInv == IInv /\ ReadInputs /\ UNCHANGED batchVars => IInv'
<1> SUFFICES ASSUME IInv, ReadInputs, UNCHANGED batchVars PROVE IInv'
  OBVIOUS
<1>1. PICK arr \in Assignments : arrivals' = arr /\ queue_len' = Enqueue(queue_len, arr)
  BY DEF ReadInputs
<1>2. BatchTypeOK'
  BY TypeStep DEF IInv, BatchNext, SwitchStep
<1>3. HandOversCleared' /\ SlotsAreMatchings'
  BY DEF IInv, HandOversCleared, SlotsAreMatchings, ReadInputs, batchVars
<1>4. QueuesAccountedFor'
  <2> SUFFICES ASSUME NEW i \in Inputs, NEW o \in Outputs
               PROVE  (queue_len[i][o] = VOQLength[i][o]
                         + Cardinality(PlacedSlots(schedules, i, o))
                         + (IF arrivals[i] = o THEN 1 ELSE 0)
                         + (IF in_match[i] = o THEN 1 ELSE 0))'
    BY DEF QueuesAccountedFor
  <2>1. queue_len'[i][o] = queue_len[i][o] + IF arr[i] = o THEN 1 ELSE 0
    BY <1>1 DEF Enqueue
  <2>2. arrivals[i] # o /\ in_match[i] # o
    BY NoneIsNoPort DEF IInv, HandOversCleared, ReadInputs, NoMatch
  <2>3. queue_len[i][o] \in Nat /\ VOQLength[i][o] \in Nat
    BY DEF IInv, BatchTypeOK, SwitchTypeOK, QueueLengths
  <2>4. Cardinality(PlacedSlots(schedules, i, o)) \in Nat
    BY PlacedSlotsFinite
  <2>5. PlacedSlots(schedules, i, o)' = PlacedSlots(schedules, i, o)
    BY DEF PlacedSlots, batchVars
  <2>6. in_match' = in_match /\ VOQLength' = VOQLength
    BY DEF ReadInputs, batchVars
  <2>7. queue_len[i][o] = VOQLength[i][o] + Cardinality(PlacedSlots(schedules, i, o))
    BY <2>2, <2>3, <2>4 DEF IInv, QueuesAccountedFor
  <2>8. QED
    BY <1>1, <2>1, <2>2, <2>3, <2>4, <2>5, <2>6, <2>7
<1>5. QED
  BY <1>2, <1>3, <1>4 DEF IInv

LEMMA WriteOutputsInv == IInv /\ WriteOutputs /\ UNCHANGED batchVars => IInv'
<1> SUFFICES ASSUME IInv, WriteOutputs, UNCHANGED batchVars PROVE IInv'
  OBVIOUS
<1>1. BatchTypeOK'
  BY TypeStep DEF IInv, BatchNext, SwitchStep
<1>2. HandOversCleared'
  BY DEF IInv, HandOversCleared, WriteOutputs
<1>3. SlotsAreMatchings'
  BY NoneIsNoPort DEF IInv, SlotsAreMatchings, IsMatching, NoMatch, WriteOutputs, batchVars
<1>4. QueuesAccountedFor'
  <2> SUFFICES ASSUME NEW i \in Inputs, NEW o \in Outputs
               PROVE  (queue_len[i][o] = VOQLength[i][o]
                         + Cardinality(PlacedSlots(schedules, i, o))
                         + (IF arrivals[i] = o THEN 1 ELSE 0)
                         + (IF in_match[i] = o THEN 1 ELSE 0))'
    BY DEF QueuesAccountedFor
  <2>1. queue_len'[i][o] =
          queue_len[i][o] - IF in_match[i] = o /\ queue_len[i][o] # 0 THEN 1 ELSE 0
    BY DEF WriteOutputs, Dequeue
  <2>2. arrivals[i] # o /\ arrivals'[i] # o /\ in_match'[i] # o
    BY NoneIsNoPort DEF IInv, HandOversCleared, WriteOutputs, NoMatch
  <2>3. queue_len[i][o] \in Nat /\ VOQLength[i][o] \in Nat
    BY DEF IInv, BatchTypeOK, SwitchTypeOK, QueueLengths
  <2>4. Cardinality(PlacedSlots(schedules, i, o)) \in Nat
    BY PlacedSlotsFinite
  <2>5. PlacedSlots(schedules, i, o)' = PlacedSlots(schedules, i, o) /\ VOQLength' = VOQLength
    BY DEF PlacedSlots, batchVars
  <2>6. queue_len[i][o] = VOQLength[i][o] + Cardinality(PlacedSlots(schedules, i, o))
                            + IF in_match[i] = o THEN 1 ELSE 0
    BY <2>2, <2>3, <2>4 DEF IInv, QueuesAccountedFor
  <2>7. QED
    BY <2>1, <2>2, <2>3, <2>4, <2>5, <2>6
<1>5. QED
  BY <1>1, <1>2, <1>3, <1>4 DEF IInv

LEMMA ResetInv == IInv /\ BatchReset => IInv'
<1> SUFFICES ASSUME IInv, BatchReset PROVE IInv'
  OBVIOUS
<1>1. BatchTypeOK'
  BY TypeStep DEF IInv, BatchNext
<1>2. HandOversCleared' /\ SlotsAreMatchings'
  BY NoneIsNoPort
     DEF BatchReset, SwitchReset, HandOversCleared, SlotsAreMatchings, IsMatching, NoMatch
<1>3. QueuesAccountedFor'
  <2>1. \A i \in Inputs, o \in Outputs : Cardinality(PlacedSlots(schedules', i, o)) = 0
    <3> TAKE i \in Inputs, o \in Outputs
    <3>1. PlacedSlots(schedules', i, o) = {}
      BY NoneIsNoPort DEF PlacedSlots, BatchReset, NoMatch
    <3>2. QED
      BY <3>1, FS_EmptySet
  <2>2. \A i \in Inputs, o \in Outputs :
          PlacedSlots(schedules, i, o)' = PlacedSlots(schedules', i, o)
    BY DEF PlacedSlots
  <2>3. QED
    BY <2>1, <2>2, NoneIsNoPort
       DEF QueuesAccountedFor, BatchReset, SwitchReset, EmptyQueues, NoMatch
<1>4. QED
  BY <1>1, <1>2, <1>3 DEF IInv

(* A call of schedule() moves packets between the accounts: those in        *)
(* _arrivals to VOQLength, from there to the slots, from there to _in_match. *)
LEMMA ScheduleInv == IInv /\ BatchSchedule => IInv'
<1> SUFFICES ASSUME IInv, BatchSchedule PROVE IInv'
  OBVIOUS
<1>1. /\ phase = "schedule" /\ phase' = "write_outputs"
      /\ queue_len' = queue_len /\ arrivals' = NoMatch
      /\ Open \in Schedules /\ Placed \in Schedules
      /\ Legal(Open, Placed)
      /\ in_match' = HandedOut(Placed)
      /\ schedules' = Kept(Placed)
      /\ VOQLength' = Left(Placed)
  BY ScheduleFacts DEF IInv
<1>2. schedules \in Schedules /\ slot \in Slots /\ VOQLength \in QueueLengths
  BY DEF IInv, BatchTypeOK, Schedules
<1>3. BatchTypeOK'
  BY TypeStep DEF IInv, BatchNext
<1>4. HandOversCleared'
  BY <1>1 DEF HandOversCleared
<1>5. SlotsAreMatchings'
  <2>1. \A f \in Slots : IsMatching(schedules[f])
    BY DEF IInv, SlotsAreMatchings
  <2>2. \A f \in Slots : IsMatching(Open[f])
    BY <1>2, <2>1, ClearedMatching DEF Open
  <2>3. \A f \in Slots : IsMatching(Placed[f])
    BY <1>1, <2>2, LegalMatching
  <2>4. \A f \in Slots : IsMatching(Kept(Placed)[f])
    BY <1>1, <1>2, <2>3, ClearedMatching DEF Kept
  <2>5. IsMatching(HandedOut(Placed))
    BY <1>2, <2>1, <2>3 DEF HandedOut
  <2>6. QED
    BY <1>1, <2>4, <2>5 DEF SlotsAreMatchings, IsMatching
<1>6. QueuesAccountedFor'
  <2> SUFFICES ASSUME NEW i \in Inputs, NEW o \in Outputs
               PROVE  queue_len'[i][o] = VOQLength'[i][o]
                         + Cardinality(PlacedSlots(schedules', i, o))
                         + (IF arrivals'[i] = o THEN 1 ELSE 0)
                         + (IF in_match'[i] = o THEN 1 ELSE 0)
    BY DEF QueuesAccountedFor, PlacedSlots
  <2> DEFINE Count(sched) == Cardinality(PlacedSlots(sched, i, o))
             new == Cardinality(NewlyPlaced(Placed, i, o))
             arrived == IF arrivals[i] = o THEN 1 ELSE 0
             sent == IF in_match'[i] = o THEN 1 ELSE 0
  <2>1. queue_len[i][o] = VOQLength[i][o] + Count(schedules) + arrived
    <3>1. in_match[i] # o
      BY <1>1, NoneIsNoPort DEF IInv, HandOversCleared, NoMatch
    <3>2. queue_len[i][o] \in Nat /\ VOQLength[i][o] \in Nat /\ Count(schedules) \in Nat
      BY PlacedSlotsFinite DEF IInv, BatchTypeOK, SwitchTypeOK, QueueLengths
    <3>3. QED
      BY <3>1, <3>2 DEF IInv, QueuesAccountedFor
  <2>2. new \in Nat /\ Count(Placed) = Count(Open) + new
    BY <1>1, PlacedCount
  <2>3. VOQLength'[i][o] = VOQLength[i][o] + arrived - new
    <3>1. VOQLength[i][o] \in Nat
      BY <1>2 DEF QueueLengths
    <3>2. Arrived[i][o] = VOQLength[i][o] + arrived
      BY DEF Arrived, Enqueue
    <3>3. VOQLength'[i][o] = Arrived[i][o] - new
      BY <1>1 DEF Left
    <3> HIDE DEF new
    <3>4. QED
      BY <2>2, <3>1, <3>2, <3>3
  <2>4. Count(schedules) + new = Count(Kept(Placed)) + sent
    <3>1. /\ Count(schedules) \in Nat /\ Count(Open) \in Nat
          /\ Count(Placed) \in Nat /\ Count(Kept(Placed)) \in Nat
      BY PlacedSlotsFinite
    <3>2. CASE DispatchFirst
      <4>1. Count(schedules) = Count(Open) + sent
        BY <1>1, <1>2, <3>2, ClearedCount DEF Open, HandedOut
      <4>2. Kept(Placed) = Placed
        BY <3>2 DEF Kept
      <4> HIDE DEF Count, new, sent
      <4>3. sent \in {0, 1}
        BY DEF sent
      <4>4. QED
        BY <2>2, <3>1, <4>1, <4>2, <4>3
    <3>3. CASE ~DispatchFirst
      <4>1. Count(Placed) = Count(Kept(Placed)) + sent
        BY <1>1, <1>2, <3>3, ClearedCount DEF Kept, HandedOut
      <4>2. Open = schedules
        BY <3>3 DEF Open
      <4>3. QED
        BY <2>2, <3>1, <4>1, <4>2
    <3>4. QED
      BY <3>2, <3>3
  <2>5. arrivals'[i] # o
    BY <1>1, NoneIsNoPort DEF NoMatch
  <2>6. /\ VOQLength[i][o] \in Nat
        /\ Count(schedules) \in Nat /\ Count(Kept(Placed)) \in Nat
    BY <1>2, PlacedSlotsFinite DEF QueueLengths
  <2>7. queue_len'[i][o] = queue_len[i][o] /\ schedules' = Kept(Placed)
    BY <1>1
  <2> HIDE DEF Count, new, arrived, sent
  <2>8. arrived \in {0, 1} /\ sent \in {0, 1}
    BY DEF arrived, sent
  <2>9. queue_len'[i][o] = VOQLength'[i][o] + Count(Kept(Placed)) + 0 + sent
    BY <2>1, <2>2, <2>3, <2>4, <2>6, <2>7, <2>8
  <2>10. QED
    BY <2>5, <2>7, <2>9 DEF Count, sent
<1>7. QED
  BY <1>3, <1>4, <1>5, <1>6 DEF IInv

LEMMA InvStep == IInv /\ [BatchNext]_vars => IInv'
<1> SUFFICES ASSUME IInv, [BatchNext]_vars PROVE IInv'
  OBVIOUS
<1>1. CASE SwitchStep
  BY <1>1, ReadInputsInv, WriteOutputsInv DEF SwitchStep
<1>2. CASE BatchSchedule
  BY <1>2, ScheduleInv
<1>3. CASE BatchReset
  BY <1>3, ResetInv
<1>4. CASE UNCHANGED vars
  BY <1>4 DEF vars, switchVars, batchVars, IInv, BatchTypeOK, SwitchTypeOK,
       HandOversCleared, QueuesAccountedFor, PlacedSlots, SlotsAreMatchings, IsMatching
<1>5. QED
  BY <1>1, <1>2, <1>3, <1>4 DEF BatchNext

THEOREM BatchInvariant == BatchSpec => []IInv
BY InvInit, InvStep, PTL DEF BatchSpec

-----------------------------------------------------------------------------
(* What follows from the invariant.                                        *)

(* For every packet that waits in the switch there is exactly one entry in  *)
(* the scheduler's accounts, at every moment between two calls.             *)
THEOREM QueuesAlwaysAccountedFor == BatchSpec => []QueuesAccountedFor
BY BatchInvariant, PTL DEF IInv

(* No slot of the batch and nothing handed out gives an output twice, so    *)
(* the assertion of write_outputs on output_occupancy never fails.          *)
THEOREM SlotsAlwaysMatchings == BatchSpec => []SlotsAreMatchings
BY BatchInvariant, PTL DEF IInv

LEMMA GrantsFromInv == IInv => GrantsHavePackets
<1> SUFFICES ASSUME IInv, NEW i \in Inputs, in_match[i] # None
             PROVE  queue_len[i][in_match[i]] > 0
  BY DEF GrantsHavePackets
<1> DEFINE o == in_match[i]
<1>1. o \in Outputs
  BY DEF IInv, BatchTypeOK, SwitchTypeOK, Assignments
<1>2. VOQLength[i][o] \in Nat /\ Cardinality(PlacedSlots(schedules, i, o)) \in Nat
  BY <1>1, PlacedSlotsFinite DEF IInv, BatchTypeOK, QueueLengths
<1>3. queue_len[i][o] = VOQLength[i][o] + Cardinality(PlacedSlots(schedules, i, o))
                          + (IF arrivals[i] = o THEN 1 ELSE 0) + 1
  BY <1>1 DEF IInv, QueuesAccountedFor
<1>4. QED
  BY <1>2, <1>3

(* A grant decided a batch ago always finds a packet in its VOQ.            *)
THEOREM GrantsAlwaysHavePackets == BatchSpec => []GrantsHavePackets
BY BatchInvariant, GrantsFromInv, PTL

LEMMA PlacementsKeptStep ==
    ASSUME BatchTypeOK, [BatchNext]_vars
    PROVE  [PlacementsKept \/ BatchReset]_vars
<1>1. CASE SwitchStep
  BY <1>1 DEF SwitchStep, batchVars, PlacementsKept
<1>2. CASE BatchSchedule
  <2> SUFFICES ASSUME NEW f \in Slots, NEW i \in Inputs, schedules[f][i] # None
               PROVE  \/ schedules'[f][i] = schedules[f][i]
                      \/ slot = f /\ in_match'[i] = schedules[f][i]
    BY DEF PlacementsKept
  <2>1. /\ in_match' = HandedOut(Placed) /\ schedules' = Kept(Placed)
        /\ Legal(Open, Placed) /\ Placed \in Schedules
        /\ schedules \in Schedules /\ slot \in Slots
    BY <1>2, ScheduleFacts DEF BatchTypeOK, Schedules
  <2>2. CASE DispatchFirst /\ f = slot
    BY <2>1, <2>2 DEF HandedOut
  <2>3. CASE DispatchFirst /\ f # slot
    <3>1. Open[f][i] = schedules[f][i]
      BY <2>1, <2>3 DEF Open, Cleared, Schedules
    <3>2. Placed[f][i] = schedules[f][i]
      BY <2>1, <3>1 DEF Legal
    <3>3. QED
      BY <2>1, <2>3, <3>2 DEF Kept
  <2>4. CASE ~DispatchFirst
    <3>1. Placed[f][i] = schedules[f][i]
      BY <2>1, <2>4 DEF Legal, Open
    <3>2. QED
      BY <2>1, <2>4, <3>1 DEF Kept, HandedOut, Cleared, Schedules
  <2>5. QED
    BY <2>2, <2>3, <2>4
<1>3. QED
  BY <1>1, <1>2 DEF BatchNext

(* A placement stays until the slot is handed out: schedule() never         *)
(* overwrites what an earlier slot of this or the last batch decided.       *)
THEOREM PlacementsNeverLost == BatchSpec => NoPlacementLost
<1>1. BatchTypeOK /\ [BatchNext]_vars => [PlacementsKept \/ BatchReset]_vars
  BY PlacementsKeptStep
<1>2. QED
  BY <1>1, BatchTypeCorrect, PTL DEF BatchSpec, NoPlacementLost

(* Every batch scheduler that places legally honours the contract of a      *)
(* scheduler: it answers every call with a matching.                        *)
THEOREM BatchImplementsSwitch == BatchSpec => SwitchSpec
<1>1. BatchInit => SwitchInit
  BY DEF BatchInit
<1>2. IInv /\ IInv' /\ [BatchNext]_vars => [SwitchNext]_switchVars
  <2> SUFFICES ASSUME IInv, IInv', [BatchNext]_vars PROVE [SwitchNext]_switchVars
    OBVIOUS
  <2>1. CASE SwitchStep
    BY <2>1 DEF SwitchStep, SwitchNext
  <2>2. CASE BatchSchedule
    <3>1. ScheduleWith(in_match')
      BY <2>2 DEF BatchSchedule, ScheduleBatch, ScheduleWith
    <3>2. IsMatching(in_match') /\ in_match' \in Assignments
      BY DEF IInv, SlotsAreMatchings, IsMatching, BatchTypeOK, SwitchTypeOK
    <3>3. QED
      BY <3>1, <3>2 DEF SwitchNext
  <2>3. CASE BatchReset
    BY <2>3 DEF BatchReset, SwitchNext
  <2>4. CASE UNCHANGED vars
    BY <2>4 DEF vars
  <2>5. QED
    BY <2>1, <2>2, <2>3, <2>4 DEF BatchNext
<1>3. QED
  BY <1>1, <1>2, BatchInvariant, PTL DEF BatchSpec, SwitchSpec
-----------------------------------------------------------------------------
(* The variants that place every proposal once.                            *)

(* A placement is fit for the schedules "sched" if every proposal that is   *)
(* placed is of a VOQ with a packet in "voq", goes to a slot in which both  *)
(* its ports are free, and is alone with its output there.                  *)
Fit(sched, voq, prop, at) ==
    \A i \in Inputs : at[i] # None =>
      /\ prop[i] # None /\ voq[i][prop[i]] > 0
      /\ sched[at[i]][i] = None
      /\ \A j \in Inputs :
           /\ sched[at[i]][j] # prop[i]
           /\ at[j] = at[i] /\ prop[j] = prop[i] => i = j

LEMMA PlaceType ==
    ASSUME NEW sched \in Schedules, NEW prop \in Assignments, NEW at \in Placements
    PROVE  Place(sched, prop, at) \in Schedules
BY DEF Place, Schedules, Assignments, Placements

(* What is made of fit placements by handing out is what was placed.        *)
LEMMA PlacingPlaced ==
    ASSUME BatchTypeOK, NEW prop \in Assignments, NEW at \in Placements,
           SchedulePlacing(prop, at)
    PROVE  Placed = Place(Open, prop, at)
<1> DEFINE placed == Place(Open, prop, at)
<1>1. schedules \in Schedules /\ slot \in Slots
  BY DEF BatchTypeOK, Schedules
<1>2. placed \in Schedules
  BY <1>1, ClearedType, PlaceType DEF Open
<1>3. in_match' = HandedOut(placed) /\ schedules' = Kept(placed)
  BY DEF SchedulePlacing, ScheduleBatch, ScheduleWith
<1>4. CASE DispatchFirst
  BY <1>3, <1>4 DEF Placed, Kept
<1>5. CASE ~DispatchFirst
  <2> HIDE DEF placed
  <2>1. Placed = [[placed EXCEPT ![slot] = NoMatch] EXCEPT ![slot] = placed[slot]]
    BY <1>3, <1>5 DEF Placed, Kept, HandedOut, Cleared
  <2>2. QED
    BY <1>1, <1>2, <2>1 DEF Schedules, placed
<1>6. QED
  BY <1>4, <1>5

(* The slots in which a fit placement adds packets of a VOQ: one or none.   *)
LEMMA PlacingNewly ==
    ASSUME NEW prop \in Assignments, NEW at \in Placements,
           Fit(Open, Arrived, prop, at), NEW i \in Inputs, NEW o \in Outputs
    PROVE  NewlyPlaced(Place(Open, prop, at), i, o) =
             IF at[i] # None /\ prop[i] = o THEN {at[i]} ELSE {}
BY NoneIsNoPort DEF NewlyPlaced, PlacedSlots, Place, Fit, Placements, Slots

(* A call of schedule() that places every proposal at most once, and fit,   *)
(* is one of the abstract batch scheduler.                                  *)
LEMMA PlacingSchedules ==
    ASSUME BatchTypeOK, NEW prop \in Assignments, NEW at \in Placements,
           Fit(Open, Arrived, prop, at), SchedulePlacing(prop, at)
    PROVE  BatchSchedule
<1> DEFINE placed == Place(Open, prop, at)
<1>1. schedules \in Schedules /\ slot \in Slots /\ Arrived \in QueueLengths
  BY EnqueueType DEF BatchTypeOK, SwitchTypeOK, Schedules, Arrived
<1>2. Open \in Schedules /\ placed \in Schedules
  BY <1>1, ClearedType, PlaceType DEF Open
<1>3. Placed = placed
  BY PlacingPlaced
<1>4. Legal(Open, placed)
  <2>1. SUFFICES ASSUME NEW f \in Slots, NEW i \in Inputs
                 PROVE  /\ Open[f][i] # None => placed[f][i] = Open[f][i]
                        /\ Open[f][i] = None /\ placed[f][i] # None =>
                             \A j \in Inputs : placed[f][j] = placed[f][i] => i = j
    BY DEF Legal
  <2>2. \A k \in Inputs : placed[f][k] = IF at[k] = f THEN prop[k] ELSE Open[f][k]
    BY DEF Place
  <2>3. f # None
    BY NoneIsNoPort DEF Slots
  <2>4. CASE at[i] = f
    BY <2>2, <2>3, <2>4 DEF Fit
  <2>5. CASE at[i] # f
    BY <2>2, <2>5
  <2>6. QED
    BY <2>4, <2>5
<1>5. Left(placed) = VirtuallyDepart(Arrived, prop, at) /\ Left(placed) \in QueueLengths
  <2> SUFFICES ASSUME NEW i \in Inputs, NEW o \in Outputs
               PROVE  /\ Left(placed)[i][o] = VirtuallyDepart(Arrived, prop, at)[i][o]
                      /\ Left(placed)[i][o] \in Nat
    BY DEF Left, VirtuallyDepart, QueueLengths
  <2>1. Cardinality(NewlyPlaced(placed, i, o)) =
          IF at[i] # None /\ prop[i] = o THEN 1 ELSE 0
    <3>1. NewlyPlaced(placed, i, o) = IF at[i] # None /\ prop[i] = o THEN {at[i]} ELSE {}
      BY PlacingNewly
    <3> HIDE DEF placed
    <3>2. QED
      BY <3>1, FS_EmptySet, FS_Singleton
  <2>2. Arrived[i][o] \in Nat /\ (at[i] # None /\ prop[i] = o => Arrived[i][o] > 0)
    BY <1>1 DEF QueueLengths, Fit
  <2> HIDE DEF placed
  <2>3. QED
    BY <2>1, <2>2 DEF Left, VirtuallyDepart
<1>6. in_match' \in Assignments /\ schedules' \in [Slots -> Assignments]
  <2>1. in_match' = HandedOut(placed) /\ schedules' = Kept(placed)
    BY DEF SchedulePlacing, ScheduleBatch, ScheduleWith
  <2>2. QED
    BY <1>1, <1>2, <2>1, ClearedType DEF Kept, HandedOut, Schedules
<1>7. ScheduleBatch(Placed, Left(Placed))
  BY <1>3, <1>5 DEF SchedulePlacing
<1>8. QED
  BY <1>3, <1>4, <1>5, <1>6, <1>7 DEF BatchSchedule
=============================================================================
