------------------------- MODULE SB_QPS_Conditional -------------------------
(***************************************************************************)
(* SB_QPS_Conditional (sb_qps.cc).  An output remembers, for every slot of *)
(* the batch, one proposal that it could not serve in it: its conditional  *)
(* approval.  After the last slot of the batch the slots in which it is    *)
(* still free are offered to the inputs so approved, then QPS is run again *)
(* for all slots, with uniform sampling, and again what is free is         *)
(* offered, until NumIterations rounds are done.                           *)
(*                                                                         *)
(* A call of schedule() changes the same data many times; the record       *)
(* "work" holds what has become of them.  The code's inputAvailability and *)
(* outputAvailability are written here but never read, and are left out.   *)
(***************************************************************************)
EXTENDS SmallBatch, Linear_Priority_Queue, Queue_Sampler, SequencesExt

CONSTANT NumIterations  \* numIterations

VARIABLE conditionalApprovals   \* [f][out]: the input approved, or None

condVars == <<sbVars, conditionalApprovals>>

ASSUME OutputsNumbered == Outputs = 0 .. Cardinality(Outputs) - 1
ASSUME IterationsNat == NumIterations \in Nat

NoApprovals == [f \in Slots |-> [o \in Outputs |-> None]]

CondInit == Init /\ conditionalApprovals = NoApprovals

-----------------------------------------------------------------------------
(* What has become of work when match has been called for every <<input,   *)
(* output, slot>> of "matches".                                            *)
Match(work, matches, cond) ==
    [sched  |-> [f \in Slots |-> [i \in Inputs |->
                   IF \E m \in matches : m[1] = i /\ m[3] = f
                   THEN (CHOOSE m \in matches : m[1] = i /\ m[3] = f)[2]
                   ELSE work.sched[f][i]]],
     voq    |-> [i \in Inputs |-> [o \in Outputs |->
                   work.voq[i][o] - Cardinality({ f \in Slots : <<i, o, f>> \in matches })]],
     input  |-> [i \in Inputs |-> work.input[i] \cup { m[3] : m \in { n \in matches : n[1] = i } }],
     output |-> [o \in Outputs |-> work.output[o] \cup { m[3] : m \in { n \in matches : n[2] = o } }],
     cond   |-> cond]

(* The outputs that uniform sampling may return, by the VOQ lengths of the *)
(* input.                                                                  *)
UniformSamples == [lengths \in [Outputs -> 0 .. MaxQueueLen] |-> Samples(lengths, TRUE)]

(* The outputs that input i may propose to for slot t, if any: it proposes *)
(* when it has packets and is not matched in the slot.                     *)
Wanted(work, i, t, iteration) ==
    IF ~ HasPackets(work.voq, i) \/ t \in work.input[i] THEN {None}
    ELSE IF iteration > 1 THEN UniformSamples[work.voq[i]]
    ELSE { o \in Outputs : work.voq[i][o] > 0 }

(* out_accepts, when the inputs have proposed in the order "inputs". *)
OutAccepts(work, prop, inputs) ==
    [o \in Outputs |->
        FoldLeft(LAMBDA queue, i :
                   IF prop[i] = o THEN Insert(queue, i, work.voq[i][o]) ELSE queue,
                 EmptyQueue(2, None), inputs)]

(* The first in each output's queue is matched if the output is free in    *)
(* the slot; it, or else the second, becomes the conditional approval.     *)
Accept(work, queues, t) ==
    LET first(o)  == queues[o][1][1]
        second(o) == queues[o][2][1]
        matched == { o \in Outputs : first(o) # None /\ t \notin work.output[o] }
        approved == [o \in Outputs |-> IF o \in matched THEN second(o) ELSE first(o)]
    IN  Match(work, { <<first(o), o, t>> : o \in matched },
              [work.cond EXCEPT ![t] = [o \in Outputs |->
                  IF approved[o] = None THEN work.cond[t][o] ELSE approved[o]]])

(* qps(t, iteration): what may become of work. *)
CondQps(work, t, iteration) ==
    LET proposing == { i \in Inputs : Wanted(work, i, t, iteration) # {None} }
    IN  { Accept(work, OutAccepts(work, prop, inputs), t) :
            prop \in { p \in Assignments : \A i \in Inputs : p[i] \in Wanted(work, i, t, iteration) },
            inputs \in SetToSeqs(proposing) }

-----------------------------------------------------------------------------
FreeSlots(work, o) == Slots \ work.output[o]
Approvals(work, o) == { t \in Slots : work.cond[t][o] # None }

(* The inputs that the free slots of an output may be offered to: each     *)
(* approval is offered one slot, in a shuffled order, and when there are   *)
(* more free slots than approvals the last of them are offered to          *)
(* approvals drawn at random.                                              *)
Offers(work, o) ==
    LET free == FreeSlots(work, o)
        once == { t \in free :
                    Cardinality({ u \in free : u <= t }) <= Cardinality(Approvals(work, o)) }
    IN  { [t \in free |-> work.cond[from[t]][o]] :
            from \in { f \in [free -> Approvals(work, o)] :
                        \A t, u \in once : f[t] = f[u] => t = u } }

(* The slots offered to an input that it is free in. *)
Suited(work, i, offer) == { t \in DOMAIN offer : offer[t] = i } \ work.input[i]

(* The free slots of output o are filled in order, as long as the inputs   *)
(* they are offered to have packets.                                       *)
FillOutput(work, o) ==
    IF Approvals(work, o) = {} THEN {work}
    ELSE { Match(work,
                 UNION { { <<i, o, t>> : t \in { u \in Suited(work, i, offer) :
                             Cardinality({ v \in Suited(work, i, offer) : v <= u })
                               <= work.voq[i][o] } } : i \in Inputs },
                 work.cond) : offer \in Offers(work, o) }

EndOfBatchOptimization(work) ==
    UNION { FoldLeft(LAMBDA works, o : UNION { FillOutput(w, o) : w \in works }, {work}, outputs) :
              outputs \in SetToSeqs(Outputs) }

(* A further round r in the last slot of a batch: qps for every slot, then  *)
(* what is free is offered again.                                          *)
QpsInAllSlots(works, r) ==
    FoldLeft(LAMBDA ws, f : UNION { CondQps(w, f, r) : w \in ws }, works,
             [k \in 1 .. BatchSize |-> k - 1])

FurtherRound(works, r) ==
    UNION { EndOfBatchOptimization(w) : w \in QpsInAllSlots(works, r) }

(* The rounds of the last slot of a batch, after its own qps. *)
LastRounds(work) ==
    FoldLeft(FurtherRound, EndOfBatchOptimization(work),
             [k \in 1 .. NumIterations - 1 |-> k + 1])

(* Mutant: the approvals are kept for the next batch. *)
Keep_Approvals(work) ==
    /\ inputMatchBitmap' = IF slot = BatchSize - 1 THEN NoInputBits ELSE work.input
    /\ ouputMatchBitmap' = IF slot = BatchSize - 1 THEN NoOutputBits ELSE work.output
    /\ conditionalApprovals' = work.cond

(* resetBitmap after the last slot. *)
Keep(work) ==
    /\ inputMatchBitmap' = IF slot = BatchSize - 1 THEN NoInputBits ELSE work.input
    /\ ouputMatchBitmap' = IF slot = BatchSize - 1 THEN NoOutputBits ELSE work.output
    /\ conditionalApprovals' = IF slot = BatchSize - 1 THEN NoApprovals ELSE work.cond

(* The state that a call of schedule() starts to work on. *)
Before == [sched |-> Open, voq |-> Arrived, input |-> inputMatchBitmap,
           output |-> ouputMatchBitmap, cond |-> conditionalApprovals]

CondSchedule ==
    \E before \in {Before} : \E proposed \in CondQps(before, slot, 1) :
      \E work \in IF slot = BatchSize - 1 THEN LastRounds(proposed) ELSE {proposed} :
        /\ ScheduleBatch(work.sched, work.voq)
        /\ Keep(work)

CondStep == SmallBatchStep /\ UNCHANGED conditionalApprovals
CondReset == Reset /\ conditionalApprovals' = NoApprovals

CondNext == CondStep \/ CondSchedule \/ CondReset
CondSpec == CondInit /\ [][CondNext]_condVars

-----------------------------------------------------------------------------
(* An output that has an approval for a slot is matched in that slot, and  *)
(* to another input: what endOfBatchOptimization offers is never a         *)
(* proposal that has been served already.                                  *)
ApprovedAfterMatch ==
    \A f \in Slots, o \in Outputs : conditionalApprovals[f][o] # None =>
        /\ f \in ouputMatchBitmap[o]
        /\ schedules[f][conditionalApprovals[f][o]] # o

(* SB_QPS_Conditional::qps: "save second proposal to conditional            *)
(* acceptance".  When two inputs must propose to an output in a slot that   *)
(* is not the last, because they have packets for no other, the one that    *)
(* is not matched should become the output's approval for this slot.        *)
SecondSaved ==
    LET MustPropose(i, o) == \A p \in Outputs : Arrived[i][p] > 0 <=> p = o
    IN  phase = "schedule" /\ phase' = "write_outputs" /\ slot < BatchSize - 1 =>
          \A i, j \in Inputs, o \in Outputs :
            i # j /\ MustPropose(i, o) /\ MustPropose(j, o)
              => conditionalApprovals'[slot][o] # None

SecondIsSaved == [][SecondSaved]_condVars
=============================================================================
