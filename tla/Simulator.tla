----------------------------- MODULE Simulator -----------------------------
(***************************************************************************)
(* IQSwitchSimulator (simulator.cc) driving the packet-level switch.  One  *)
(* round of the loop in simulate_on is one time slot: arriving() fills the *)
(* input channels, switching() makes its three calls, departing() empties  *)
(* the output channels.  An experiment ends under the stopping rule or     *)
(* because the queues or the delays grow too long; reset() then cleans     *)
(* everything for the next one.  The stopping rules' variances and their   *)
(* floating-point bound are left open.                                     *)
(*                                                                         *)
(* The instruments are Stats objects (stats.hpp), of which the number and  *)
(* the sum of the samples are modelled.                                    *)
(***************************************************************************)
EXTENDS gIQSwitch

CONSTANTS
    LeastEffort,    \* _least_simulation_effort
    MostEffort,     \* _most_simulation_effort
    DelayThreshold, \* DELAY_THRES_QPS
    MaxQueueLen     \* bound of the model: no VOQ receives a packet beyond it

ASSUME Efforts == LeastEffort \in Nat /\ MostEffort \in Nat /\ LeastEffort < MostEffort
ASSUME ThresholdNat == DelayThreshold \in Nat
ASSUME MaxQueueLenNat == MaxQueueLen \in Nat

VARIABLES
    n,                  \* slots simulated in this experiment
    num_stall_packets,  \* packets that arrived and have not departed
    instruments         \* _instruments: "delay" and "totalQueueLength"

vars == <<phase, switchVars, n, num_stall_packets, instruments>>

(* Stats: the samples recorded since the last reset. *)
NoSamples == [num_samples |-> 0, sample_sum |-> 0]
AddSamples(stats, num, sum) ==
    [num_samples |-> stats.num_samples + num, sample_sum |-> stats.sample_sum + sum]

Init ==
    /\ phase = "arriving"
    /\ SwitchInit
    /\ n = 0
    /\ num_stall_packets = 0
    /\ instruments = [delay |-> NoSamples, totalQueueLength |-> NoSamples]

(* "Early stop due to un-stability", at whatever n. *)
Unstable ==
    instruments.delay.sample_sum > DelayThreshold * instruments.delay.num_samples

(* When the loop must end, and when it may: stop_now, and the protection    *)
(* from running out of memory.                                              *)
MustStop == n = MostEffort \/ Unstable
MayStop == n > LeastEffort \/ Unstable

Arriving ==
    /\ phase = "arriving"
    /\ ~MustStop
    /\ \E new \in Assignments :
         /\ \A i \in Inputs : new[i] # None => Len(voq[i][new[i]]) < MaxQueueLen
         /\ input_channel' = new
         /\ num_stall_packets' = num_stall_packets
                                 + Cardinality({ i \in Inputs : new[i] # None })
    /\ phase' = "read_inputs"
    /\ UNCHANGED <<voq, arrivals, in_match, output_channel, time, n, instruments>>

Switching ==
    /\ ReadInputs \/ Schedule \/ WriteOutputs
    /\ UNCHANGED <<n, num_stall_packets, instruments>>

(* The packets that departing() receives: one per channel, however many    *)
(* there are.                                                              *)
Departed == { output_channel[o][1] : o \in { d \in Outputs : output_channel[d] # <<>> } }

(* departing(), and the samples taken at the end of a slot. *)
Departing ==
    /\ phase = "departing"
    /\ output_channel' = [o \in Outputs |->
         IF output_channel[o] = <<>> THEN <<>> ELSE Tail(output_channel[o])]
    /\ num_stall_packets' = num_stall_packets - Cardinality(Departed)
    /\ instruments' =
         [delay |-> AddSamples(instruments.delay, Cardinality(Departed),
                               SumFunction([p \in Departed |-> p.departure - p.arrival])),
          totalQueueLength |-> AddSamples(instruments.totalQueueLength, 1, num_stall_packets')]
    /\ n' = n + 1
    /\ phase' = "arriving"
    /\ UNCHANGED <<input_channel, voq, arrivals, in_match, time>>

(* Mutant: the switch's timer and queues survive the experiment. *)
Reset_KeepsSwitch ==
    /\ phase = "arriving"
    /\ MayStop
    /\ n' = 0
    /\ num_stall_packets' = 0
    /\ instruments' = [delay |-> NoSamples, totalQueueLength |-> NoSamples]
    /\ UNCHANGED <<phase, switchVars>>

(* Mutant: the samples of the delay are not reset. *)
Reset_KeepsDelays ==
    /\ phase = "arriving"
    /\ MayStop
    /\ SwitchReset
    /\ n' = 0
    /\ num_stall_packets' = 0
    /\ instruments' = [instruments EXCEPT !.totalQueueLength = NoSamples]
    /\ UNCHANGED phase

(* The end of one experiment and the start of the next. *)
Reset ==
    /\ phase = "arriving"
    /\ MayStop
    /\ SwitchReset
    /\ n' = 0
    /\ num_stall_packets' = 0
    /\ instruments' = [delay |-> NoSamples, totalQueueLength |-> NoSamples]
    /\ UNCHANGED phase

Next == Arriving \/ Switching \/ Departing \/ Reset
Spec == Init /\ [][Next]_vars

-----------------------------------------------------------------------------
(* What the entries of a matrix with an entry for each VOQ add up to. *)
SumOverQueues(f) == SumFunction([i \in Inputs |-> SumFunction(f[i])])

QueueLengths == [i \in Inputs |-> [o \in Outputs |-> Len(voq[i][o])]]

(* For each VOQ, the time that the packets in it have spent there. *)
TimesSpent ==
    [i \in Inputs |-> [o \in Outputs |->
        SumFunction([k \in DOMAIN voq[i][o] |-> n - voq[i][o][k]])]]

(* The simulator's count of waiting packets, on which it bases its stop for *)
(* lack of memory and its queue-length statistics, is right at every point  *)
(* of every slot of every experiment: no packet is lost or counted twice.   *)
StallsCounted ==
    num_stall_packets =
        Cardinality({ i \in Inputs : input_channel[i] # None })
        + SumOverQueues(QueueLengths)
        + SumFunction([o \in Outputs |-> Len(output_channel[o])])

(* The packet in an output channel came before all that its VOQ still has,  *)
(* and no channel has more than one (the assertion in departing()).         *)
ServedInOrder ==
    \A o \in Outputs :
        /\ Len(output_channel[o]) <= 1
        /\ \A k \in DOMAIN output_channel[o] :
             LET p == output_channel[o][k]
             IN  \A l \in DOMAIN voq[p.source][o] : p.arrival < voq[p.source][o][l]

(* The two instruments measure the same: what the queue-length samples of   *)
(* an experiment add up to is the delays recorded in it and the time that   *)
(* the packets still queued have spent there, so that the averages reported *)
(* obey Little's law.  A packet that is stamped, counted or received a slot *)
(* off, or that belongs to an earlier experiment, breaks it.                *)
DelaysMatchQueueLengths ==
    phase = "arriving" =>
        instruments.totalQueueLength.sample_sum =
            instruments.delay.sample_sum + SumOverQueues(TimesSpent)

(* To a scheduler this switch is that of sIQSwitch: what it is told has     *)
(* arrived is what has joined the queues.                                   *)
Lengths == INSTANCE sIQSwitch WITH
    phase <- IF phase \in {"arriving", "departing"} THEN "read_inputs" ELSE phase,
    queue_len <- QueueLengths,
    arrivals <- IF phase = "schedule" THEN Told(arrivals) ELSE NoMatch,
    in_match <- IF phase = "write_outputs" THEN in_match ELSE NoMatch

LengthsSpec == Lengths!SwitchSpec
=============================================================================
