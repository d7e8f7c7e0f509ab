--------------------------- MODULE BatchScheduler ---------------------------
(***************************************************************************)
(* What the batch schedulers have in common (BatchScheduler and the        *)
(* classes derived from it, src/src/scheduler/batch_scheduler), composed   *)
(* with the switch of sIQSwitch.                                           *)
(*                                                                         *)
(* A batch scheduler works one batch ahead: "schedules" holds, for every   *)
(* time slot of a batch of BatchSize slots, the assignment that will be    *)
(* played when the cycle next comes to that slot.  In slot t, schedule()   *)
(* hands out and clears schedules[t], learns of the arrivals, and places   *)
(* more packets in slots of the cycle.  A packet that is placed departs    *)
(* "virtually" at once: VOQLength stops counting it although it still      *)
(* waits in the switch, whose queue_len therefore exceeds VOQLength by the *)
(* placed packets.  The two accounts never meet again in the code.         *)
(*                                                                         *)
(* Which packets are placed, and where, is what the variants differ in.    *)
(* BatchSpec leaves it open: it allows every legal placement, and is the   *)
(* abstract specification that the variants are shown to implement.        *)
(***************************************************************************)
EXTENDS sIQSwitch

CONSTANTS
    BatchSize,      \* batchSize: time slots of a batch
    DispatchFirst   \* TRUE: the slot is handed out before packets are placed
                    \* ("batching"); FALSE: after (sliding window)

ASSUME BatchSizePos == BatchSize \in Nat \ {0}
ASSUME DispatchFirstBool == DispatchFirst \in BOOLEAN

VARIABLES
    schedules,  \* schedules[f][in]: the output input in is given in slot f
    VOQLength,  \* VOQLength[in][out]: packets of the VOQ not yet placed
    slot        \* timeSlot = _cf_rel_time % batchSize

batchVars == <<schedules, VOQLength, slot>>
vars == <<switchVars, batchVars>>

Slots == 0 .. BatchSize - 1

(* A proposal names the output each input asks for.  A placement names the *)
(* time slot that the proposal of each input is given, if any.             *)
Placements == [Inputs -> Slots \cup {None}]

BatchTypeOK ==
    /\ SwitchTypeOK
    /\ schedules \in [Slots -> Assignments]
    /\ VOQLength \in QueueLengths
    /\ slot \in Slots

BatchInit ==
    /\ SwitchInit
    /\ schedules = [f \in Slots |-> NoMatch]
    /\ VOQLength = EmptyQueues
    /\ slot = 0

(* Mutant: the slot does not wrap around. *)
NextSlot_NoWrap == slot + 1

NextSlot == IF slot = BatchSize - 1 THEN 0 ELSE slot + 1

(* Mutants: the slot is handed out but not cleared; the next one is.       *)
Cleared_Not(sched, t) == sched
Cleared_Next(sched, t) == [sched EXCEPT ![NextSlot] = NoMatch]

(* schedules once slot t has been copied to _in_match and cleared. *)
Cleared(sched, t) == [sched EXCEPT ![t] = NoMatch]

(* schedules once every placed proposal has been written to it. *)
Place(sched, prop, at) ==
    [f \in Slots |-> [i \in Inputs |->
        IF at[i] = f THEN prop[i] ELSE sched[f][i]]]

(* Mutant: proposals that were not placed depart as well. *)
VirtuallyDepart_All(voq, prop, at) ==
    [i \in Inputs |-> [o \in Outputs |->
        voq[i][o] - IF prop[i] = o THEN 1 ELSE 0]]

(* VOQ lengths after handlePacketDepartures of the placed proposals. *)
VirtuallyDepart(voq, prop, at) ==
    [i \in Inputs |-> [o \in Outputs |->
        voq[i][o] - IF at[i] # None /\ prop[i] = o THEN 1 ELSE 0]]

(* Every input that has packets asks for one output it has packets for:    *)
(* the outcomes of queue-proportional sampling.                            *)
HasPackets(voq, i) == \E o \in Outputs : voq[i][o] > 0

Proposals(voq) ==
    { prop \in Assignments : \A i \in Inputs :
        IF HasPackets(voq, i) THEN prop[i] # None /\ voq[i][prop[i]] > 0
                              ELSE prop[i] = None }

Proposers(prop, o) == { i \in Inputs : prop[i] = o }

(* Mutant: the lengths are not compared. *)
Longest_First(S, voq, o) == S

(* The members of S that no other one exceeds in packets for output o.     *)
Longest(S, voq, o) == { i \in S : \A j \in S : voq[j][o] <= voq[i][o] }

(* An order of every output's proposers in which those with longer VOQs    *)
(* come first, as the rank of each of them.                                *)
Orders(prop, voq) ==
    { rank \in [Inputs -> 1 .. Cardinality(Inputs)] :
        \A i \in Inputs :
          /\ rank[i] <= (IF prop[i] = None THEN 1
                         ELSE Cardinality(Proposers(prop, prop[i])))
          /\ \A j \in Inputs : prop[i] = prop[j] /\ prop[i] # None =>
               /\ i # j => rank[i] # rank[j]
               /\ voq[i][prop[i]] > voq[j][prop[i]] => rank[i] < rank[j] }

(* The slots taken before input i has its turn. *)
Taken(prop, acc, rank, at, i) ==
    { at[j] : j \in { k \in acc : prop[k] = prop[i] /\ rank[k] < rank[i] } } \ {None}

(* The slots in which sched gives input i the output o. *)
PlacedSlots(sched, i, o) == { f \in Slots : sched[f][i] = o }

(* Mutant: an output may be given twice in a slot. *)
Legal_KeepsOnly(before, after) ==
    \A f \in Slots, i \in Inputs : before[f][i] # None => after[f][i] = before[f][i]

(* Nothing in the schedules "before" is taken away by "after", and no      *)
(* output that is added to a slot is given twice there.                    *)
Legal(before, after) ==
    \A f \in Slots, i \in Inputs :
      /\ before[f][i] # None => after[f][i] = before[f][i]
      /\ before[f][i] = None /\ after[f][i] # None =>
           \A j \in Inputs : after[f][j] = after[f][i] => i = j

-----------------------------------------------------------------------------
(* VOQ lengths once handlePacketArrivals has counted the arrivals.         *)
Arrived == Enqueue(VOQLength, arrivals)

(* The schedules that packets are placed in, and what is handed out and    *)
(* kept once they have been placed in "placed".                            *)
Open == IF DispatchFirst THEN Cleared(schedules, slot) ELSE schedules
HandedOut(placed) == IF DispatchFirst THEN schedules[slot] ELSE placed[slot]
Kept(placed) == IF DispatchFirst THEN placed ELSE Cleared(placed, slot)

(* One call of schedule(), given the schedules and the VOQ lengths that it *)
(* has made of Open and Arrived.                                           *)
ScheduleBatch(placed, left) ==
    /\ ScheduleWith(HandedOut(placed))
    /\ schedules' = Kept(placed)
    /\ VOQLength' = left
    /\ slot' = NextSlot

(* ... when every proposal that is placed is placed once. *)
SchedulePlacing(prop, at) ==
    ScheduleBatch(Place(Open, prop, at), VirtuallyDepart(Arrived, prop, at))

BatchReset ==
    /\ SwitchReset
    /\ schedules' = [f \in Slots |-> NoMatch]
    /\ VOQLength' = EmptyQueues
    /\ slot' = 0

(* The parts of a slot in which the scheduler has no part. *)
SwitchStep ==
    /\ ReadInputs \/ WriteOutputs
    /\ UNCHANGED batchVars

-----------------------------------------------------------------------------
(* The abstract schedule(): packets are placed in slots, as many of a VOQ  *)
(* and in whichever slots as is legal, and leave the VOQ's length.         *)

(* What the schedules were before the slot was handed out or after it, in  *)
(* terms of the state that the call leaves.                                *)
Placed == IF DispatchFirst THEN schedules' ELSE [schedules' EXCEPT ![slot] = in_match']

(* Mutant: a packet that is placed in the current slot does not depart.    *)
NewlyPlaced_NotCurrent(placed, i, o) ==
    (PlacedSlots(placed, i, o) \ PlacedSlots(Open, i, o)) \ {slot}

(* The slots in which "placed" adds a packet of the VOQ.                   *)
NewlyPlaced(placed, i, o) == PlacedSlots(placed, i, o) \ PlacedSlots(Open, i, o)

Left(placed) ==
    [i \in Inputs |-> [o \in Outputs |->
        Arrived[i][o] - Cardinality(NewlyPlaced(placed, i, o))]]

BatchSchedule ==
    /\ in_match' \in Assignments
    /\ schedules' \in [Slots -> Assignments]
    /\ Legal(Open, Placed)
    /\ Left(Placed) \in QueueLengths
    /\ ScheduleBatch(Placed, Left(Placed))

BatchNext == SwitchStep \/ BatchSchedule \/ BatchReset
BatchSpec == BatchInit /\ [][BatchNext]_vars

-----------------------------------------------------------------------------
(* The two accounts of the queues agree: a packet in a VOQ of the switch is *)
(* counted by the scheduler's VOQLength, or has been placed in exactly one  *)
(* slot, or is about to be learnt of (_arrivals) or to depart (_in_match).  *)
QueuesAccountedFor ==
    \A i \in Inputs, o \in Outputs :
        queue_len[i][o] = VOQLength[i][o] + Cardinality(PlacedSlots(schedules, i, o))
                          + (IF arrivals[i] = o THEN 1 ELSE 0)
                          + (IF in_match[i] = o THEN 1 ELSE 0)

(* No slot gives one output to two inputs, whichever slots the packets were *)
(* placed from, and neither does what is handed out: the assertion on       *)
(* output_occupancy in gIQSwitch::_write_outputs_depart_info_disabled.      *)
SlotsAreMatchings ==
    /\ \A f \in Slots : IsMatching(schedules[f])
    /\ IsMatching(in_match)

(* What has been placed stays where it is until its slot is handed out, and *)
(* is in what is handed out: no later placement overwrites it.              *)
PlacementsKept ==
    \A f \in Slots, i \in Inputs : schedules[f][i] # None =>
        \/ schedules'[f][i] = schedules[f][i]
        \/ slot = f /\ in_match'[i] = schedules[f][i]

(* ... in every step except the reset of the simulator. *)
NoPlacementLost == [][PlacementsKept \/ BatchReset]_vars
=============================================================================
