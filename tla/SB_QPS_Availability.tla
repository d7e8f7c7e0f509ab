------------------------ MODULE SB_QPS_Availability ------------------------
(***************************************************************************)
(* The six classes of sb_qps.cc that also count, per port, the earlier     *)
(* slots of the batch in which it is free, and let an output accept        *)
(* further proposers for such slots.  They are copies of one another;      *)
(* "class" says which one has been constructed.                            *)
(*                                                                         *)
(* In AvailabilityAware, Adaptive, MI and ThreeThird the current slot goes *)
(* to the FIRST of an output's proposers, before they are sorted, and one  *)
(* earlier slot to each of the second and later ones of the SORTED list:   *)
(* the first proposer may be accepted twice.  In MA and MA_MI the sorted   *)
(* proposers are given every slot up to the current one that is free.      *)
(* MI, ThreeThird and MA_MI repeat the whole of it in the same slot.       *)
(***************************************************************************)
EXTENDS SmallBatch

CONSTANT Classes    \* the classes to be considered

ASSUME KnownClasses ==
    Classes \subseteq {"AvailabilityAware", "Adaptive", "MI", "ThreeThird", "MA", "MA_MI"}

VARIABLES
    availability,   \* inputAvailability and outputAvailability
    aborted,        \* an assertion has failed
    class           \* the class of the scheduler

avVars == <<sbVars, availability, aborted, class>>

NoAvailability ==
    [input |-> [i \in Inputs |-> 0], output |-> [o \in Outputs |-> 0]]

AvailabilityTypeOK ==
    /\ SmallBatchTypeOK
    /\ availability \in [input : [Inputs -> Int], output : [Outputs -> Int]]
    /\ aborted \in BOOLEAN
    /\ class \in Classes

AvInit ==
    /\ Init
    /\ availability = NoAvailability
    /\ aborted = FALSE
    /\ class \in Classes

LastThird == (slot + 1) * 3 > BatchSize * 2

(* maxIters: how often qps runs in this slot. *)
MaxIters ==
    CASE class \in {"MI", "MA_MI"} -> IF SecondHalf THEN 3 ELSE 1
      [] class = "ThreeThird" -> IF LastThird THEN 3 ELSE IF SecondHalf THEN 2 ELSE 1
      [] OTHER -> 1

(* maxAccepts, which std::round of a quotient determines in Adaptive. *)
MaxAccepts(r, o) ==
    CASE class = "Adaptive" ->
           1 + (2 * r.availability.output[o] + BatchSize - slot) \div (2 * (BatchSize - slot))
      [] class = "AvailabilityAware" -> IF SecondHalf THEN Cardinality(Inputs) ELSE 1
      [] class = "ThreeThird" -> IF LastThird THEN 4 ELSE IF SecondHalf THEN 2 ELSE 1
      [] OTHER -> IF SecondHalf THEN 2 ELSE 1

-----------------------------------------------------------------------------
(* The state of a call of schedule() between two runs of qps. *)
Start ==
    [sched |-> Open, voq |-> Arrived,
     input |-> inputMatchBitmap, output |-> ouputMatchBitmap,
     availability |-> availability]

(* Mutant: a slot that only the input has free is taken. *)
Free_InputOnly(r, i, o, upto, taken) == { f \in upto : f \notin r.input[i] \cup taken }

(* The slots of "upto" that are free for both ports and not yet "taken" by *)
(* o for others.                                                           *)
Free(r, i, o, upto, taken) ==
    { f \in upto : f \notin r.input[i] \cup r.output[o] \cup taken }

Latest(S) == { f \in S : \A g \in S : g <= f }

TakesAll == class \in {"MA", "MA_MI"}

(* The slots that input i, the k-th of the sorted proposers of o, is given *)
(* after those before it have "taken" theirs.                              *)
SlotsFor(r, i, o, k, taken) ==
    IF \/ k > MaxAccepts(r, o)
       \/ r.availability.output[o] <= Cardinality(taken)
       \/ r.availability.input[i] = 0
    THEN {}
    ELSE IF TakesAll THEN Free(r, i, o, 0 .. slot, taken)
    ELSE IF k > 1 THEN Latest(Free(r, i, o, 0 .. slot - 1, taken))
    ELSE {}

(* The slots of every input, its proposers being sorted by rank. *)
SortedSlots(r, prop, rank) ==
    LET nth(o, k) == CHOOSE i \in Proposers(prop, o) : rank[i] = k
        taken[k \in 0 .. Cardinality(Inputs)] ==
          [o \in Outputs |->
             IF k = 0 THEN {}
             ELSE taken[k - 1][o] \cup SlotsFor(r, nth(o, k), o, k, taken[k - 1][o])]
    IN  [i \in Inputs |->
            IF prop[i] = None THEN {}
            ELSE SlotsFor(r, i, prop[i], rank[i], taken[rank[i] - 1][prop[i]])]

(* outAccepts[out][0] before it is sorted: with a single accept the longest *)
(* proposer, otherwise whichever the shuffle put first.                    *)
Firsts(r, prop) ==
    { first \in [Outputs -> Inputs \cup {None}] : \A o \in Outputs :
        IF TakesAll \/ Proposers(prop, o) = {} THEN first[o] = None
        ELSE first[o] \in IF MaxAccepts(r, o) > 1 THEN Proposers(prop, o)
                          ELSE Longest(Proposers(prop, o), r.voq, o) }

(* Mutant: an output's counter is left alone when it gives slots. *)
NextAvailability_Forgets(r, prop, given, placed) ==
    [input |-> [i \in Inputs |->
        r.availability.input[i] - Cardinality(given[i] \ (IF TakesAll THEN {} ELSE {slot}))
                                + (IF placed[slot][i] = None THEN 1 ELSE 0)],
     output |-> [o \in Outputs |->
        r.availability.output[o]
          + (IF slot \in UNION { given[i] : i \in Proposers(prop, o) } THEN 0 ELSE 1)]]

(* The counters lose the slots just given (the current one only if all of  *)
(* them are taken) and gain the current one where it is left free.         *)
NextAvailability(r, prop, given, placed) ==
    LET charged(i) == given[i] \ (IF TakesAll THEN {} ELSE {slot})
        ofOutput(o) == UNION { given[i] : i \in Proposers(prop, o) }
    IN  [input |-> [i \in Inputs |->
            r.availability.input[i] - Cardinality(charged(i))
                                    + (IF placed[slot][i] = None THEN 1 ELSE 0)],
         output |-> [o \in Outputs |->
            r.availability.output[o]
              - Cardinality(UNION { charged(i) : i \in Proposers(prop, o) })
              + (IF slot \in ofOutput(o) THEN 0 ELSE 1)]]

(* The state after one run in which every input is given the slots "given". *)
After(r, prop, given) ==
    LET placed == [f \in Slots |-> [i \in Inputs |->
                     IF f \in given[i] THEN prop[i] ELSE r.sched[f][i]]]
    IN  [sched |-> placed,
         voq |-> [i \in Inputs |-> [o \in Outputs |->
            r.voq[i][o] - IF prop[i] = o THEN Cardinality(given[i]) ELSE 0]],
         input |-> [i \in Inputs |-> r.input[i] \cup given[i]],
         output |-> [o \in Outputs |->
            r.output[o] \cup UNION { given[i] : i \in Proposers(prop, o) }],
         availability |-> NextAvailability(r, prop, given, placed)]

(* BST::update asserts that no weight becomes negative, and most classes   *)
(* also that a packet that is taken is there: no further run is made.      *)
Fails(r) == \E i \in Inputs, o \in Outputs : r.voq[i][o] < 0

(* The outcomes of one run of qps from r. *)
AvQps(r) ==
    IF Fails(r) THEN {r}
    ELSE UNION {
      { After(r, prop,
              [i \in Inputs |-> SortedSlots(r, prop, c[2])[i] \cup
                 (IF \E o \in Outputs : c[1][o] = i THEN {slot} ELSE {})]) :
          c \in Firsts(r, prop) \X Orders(prop, r.voq) } :
      prop \in Proposals(r.voq) }

(* The outcomes of all the runs of a call. *)
Outcomes ==
    LET run[k \in 0 .. 3] ==
          IF k = 0 THEN {Start} ELSE UNION { AvQps(r) : r \in run[k - 1] }
    IN  run[MaxIters]

-----------------------------------------------------------------------------
(* Mutant: the last slot of the batch does not clear the bitmaps. *)
Mark_NoReset(r) ==
    /\ inputMatchBitmap' = r.input
    /\ ouputMatchBitmap' = r.output
    /\ availability' = IF slot = BatchSize - 1 THEN NoAvailability ELSE r.availability

(* resetBitmap in the last slot of the batch. *)
Mark(r) ==
    IF slot = BatchSize - 1
    THEN /\ inputMatchBitmap' = NoInputBits
         /\ ouputMatchBitmap' = NoOutputBits
         /\ availability' = NoAvailability
    ELSE /\ inputMatchBitmap' = r.input
         /\ ouputMatchBitmap' = r.output
         /\ availability' = r.availability

AvSchedule ==
    /\ phase = "schedule"
    /\ \E r \in Outcomes :
         \/ /\ Fails(r)
            /\ aborted' = TRUE
            /\ UNCHANGED <<sbVars, availability, class>>
         \/ /\ ~Fails(r)
            /\ ScheduleBatch(r.sched, r.voq)
            /\ Mark(r)
            /\ UNCHANGED <<aborted, class>>

AvReset == Reset /\ availability' = NoAvailability /\ UNCHANGED <<aborted, class>>
AvSwitchStep == SmallBatchStep /\ UNCHANGED <<availability, aborted, class>>

AvNext == ~aborted /\ (AvSwitchStep \/ AvSchedule \/ AvReset)
AvSpec == AvInit /\ [][AvNext]_avVars

-----------------------------------------------------------------------------
(* The classes that place packets over one another in the current slot. *)
Overwrites == class \in {"MI", "ThreeThird"}

(* The bitmaps are an account of the schedules of the current batch: exact, *)
(* so that no placement in an earlier slot meets another, except that a     *)
(* class that overwrites keeps the bits of outputs it has taken away again. *)
BitsCover ==
    LET users(o) == { f \in 0 .. slot - 1 : \E i \in Inputs : schedules[f][i] = o }
    IN  /\ \A i \in Inputs : inputMatchBitmap[i] =
             { f \in 0 .. slot - 1 : schedules[f][i] # None }
        /\ \A o \in Outputs :
             /\ users(o) \subseteq ouputMatchBitmap[o]
             /\ ~Overwrites => ouputMatchBitmap[o] = users(o)

(* The counters are an account of the bitmaps' free slots: exact in the     *)
(* classes that run once, never too low in those that run it several times  *)
(* (a port that believed it had no slot left would be refused for the rest  *)
(* of the batch), never too high in MA, which also charges the current one. *)
AvailabilityAgrees ==
    LET agrees(counter, free) ==
          CASE class \in {"AvailabilityAware", "Adaptive"} -> counter = free
            [] Overwrites -> counter >= free
            [] class = "MA" -> counter <= free
            [] OTHER -> TRUE
    IN  /\ \A i \in Inputs :
             agrees(availability.input[i], slot - Cardinality(inputMatchBitmap[i]))
        /\ \A o \in Outputs :
             agrees(availability.output[o], slot - Cardinality(ouputMatchBitmap[o]))

(* Until an assertion fails, a class that does not overwrite implements the *)
(* abstract batch scheduler, double accepts and all: whatever is taken      *)
(* twice by mistake is still a packet of its own in a slot of its own.      *)
ImplementsBatch == BatchInit /\ [][Overwrites \/ BatchNext]_vars

(* In the classes that overwrite, the accounts of the queues differ, but in *)
(* one direction only: a packet that was overwritten is lost to them, none  *)
(* is counted, or scheduled, twice.                                         *)
NeverCountedTwice ==
    \A i \in Inputs, o \in Outputs :
        queue_len[i][o] >= VOQLength[i][o] + Cardinality(PlacedSlots(schedules, i, o))
                           + (IF arrivals[i] = o THEN 1 ELSE 0)
                           + (IF in_match[i] = o THEN 1 ELSE 0)

(* The assertions on VOQ lengths never fail: no packet is placed that the   *)
(* VOQ does not have.  Ties, whose order std::sort may choose, are granted  *)
(* as an excuse.                                                            *)
NeverAborts ==
    aborted => \E o \in Outputs, i, j \in Inputs :
                 i # j /\ Arrived[i][o] = Arrived[j][o] /\ Arrived[i][o] > 0
=============================================================================
