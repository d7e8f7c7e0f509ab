----------------------------- MODULE sIQSwitch -----------------------------
(***************************************************************************)
(* The input-queued switch seen through its queue lengths, as the class    *)
(* sIQSwitch keeps it (src/src/switch/iq_switch.cc): one virtual output    *)
(* queue (VOQ) per pair of ports, of which only the length is recorded.    *)
(*                                                                         *)
(* IQSwitch::switching() is one call per time slot, made of three calls    *)
(* that happen in this order: read_inputs, Scheduler::schedule and         *)
(* write_outputs.  "phase" names the one that is due next.  The program is *)
(* single-threaded; the calls are separate actions because the scheduler   *)
(* and the switch each keep an account of the same queues, and what they   *)
(* believe of one another between the calls is what can go wrong.          *)
(*                                                                         *)
(* As a specification of its own this module is the contract of a          *)
(* scheduler: schedule() may choose any matching of inputs to outputs.     *)
(* The scheduler modules EXTEND it, take its actions for the switch, put   *)
(* their own in place of it, and are shown to implement SwitchSpec.         *)
(***************************************************************************)
EXTENDS Integers, FiniteSets

CONSTANTS
    Inputs,         \* the input ports
    Outputs,        \* the output ports
    None,           \* the code's -1: no port, no time slot
    MaxQueueLen     \* bound of the model: no VOQ receives a packet beyond it

ASSUME NoneIsNoPort == None \notin Inputs /\ None \notin Outputs /\ None \notin Int
ASSUME MaxQueueLenNat == MaxQueueLen \in Nat

VARIABLES
    phase,      \* the call of switching() that comes next
    queue_len,  \* _queue_len_mat[src][dst]
    arrivals,   \* _arrivals: the output of the packet each input just received
    in_match    \* Scheduler::_in_match

switchVars == <<phase, queue_len, arrivals, in_match>>

Phases == {"read_inputs", "schedule", "write_outputs"}

(* An assignment of an output, or of none, to every input. *)
Assignments == [Inputs -> Outputs \cup {None}]
NoMatch == [i \in Inputs |-> None]

(* No output is given to two inputs. *)
IsMatching(m) ==
    \A i, j \in Inputs : m[i] # None /\ m[i] = m[j] => i = j

QueueLengths == [Inputs -> [Outputs -> Nat]]
EmptyQueues == [i \in Inputs |-> [o \in Outputs |-> 0]]

SwitchTypeOK ==
    /\ phase \in Phases
    /\ queue_len \in QueueLengths
    /\ arrivals \in Assignments
    /\ in_match \in Assignments

SwitchInit ==
    /\ phase = "read_inputs"
    /\ queue_len = EmptyQueues
    /\ arrivals = NoMatch
    /\ in_match = NoMatch

(* Queue lengths once the packets of "arr" have joined them. *)
Enqueue(len, arr) ==
    [i \in Inputs |-> [o \in Outputs |->
        len[i][o] + IF arr[i] = o THEN 1 ELSE 0]]

(* Queue lengths once each pair of "m" that has a packet has sent one. *)
Dequeue(len, m) ==
    [i \in Inputs |-> [o \in Outputs |->
        len[i][o] - IF m[i] = o /\ len[i][o] # 0 THEN 1 ELSE 0]]

-----------------------------------------------------------------------------
(* The simulator has put at most one packet in each input channel; every   *)
(* one of them joins its VOQ and is listed in _arrivals.                   *)
ReadInputs ==
    /\ phase = "read_inputs"
    /\ \E arr \in Assignments :
         /\ \A i \in Inputs : arr[i] # None => queue_len[i][arr[i]] < MaxQueueLen
         /\ arrivals' = arr
         /\ queue_len' = Enqueue(queue_len, arr)
    /\ phase' = "schedule"
    /\ UNCHANGED in_match

(* What every implementation of schedule() does to the switch's state:     *)
(* it answers with the assignment m, which match_with() then reads.        *)
(* Nothing reads _arrivals from here until read_inputs overwrites it, so   *)
(* the model forgets it.                                                   *)
ScheduleWith(m) ==
    /\ phase = "schedule"
    /\ in_match' = m
    /\ phase' = "write_outputs"
    /\ arrivals' = NoMatch
    /\ UNCHANGED queue_len

(* The head packet of every matched, non-empty VOQ departs.  Nothing reads *)
(* _in_match from here until schedule() overwrites it, so the model        *)
(* forgets it.                                                             *)
WriteOutputs ==
    /\ phase = "write_outputs"
    /\ queue_len' = Dequeue(queue_len, in_match)
    /\ in_match' = NoMatch
    /\ phase' = "read_inputs"
    /\ UNCHANGED arrivals

(* IQSwitch::reset, which the simulator calls between two experiments.     *)
SwitchReset ==
    /\ phase = "read_inputs"
    /\ queue_len' = EmptyQueues
    /\ arrivals' = NoMatch
    /\ in_match' = NoMatch
    /\ UNCHANGED phase

-----------------------------------------------------------------------------
(* The contract: any matching will do. *)
SwitchNext ==
    \/ ReadInputs
    \/ \E m \in Assignments : IsMatching(m) /\ ScheduleWith(m)
    \/ WriteOutputs
    \/ SwitchReset

(* The simulator calls switching() in a loop that goes on until an         *)
(* experiment ends, and each of the calls it is made of returns: the call  *)
(* that is due is made.  As every step but a reset makes the call that is  *)
(* due, and one of them can always be made, this is weak fairness of the   *)
(* steps, said of the phase alone.                                         *)
NextPhase ==
    CASE phase = "read_inputs" -> "schedule"
      [] phase = "schedule" -> "write_outputs"
      [] phase = "write_outputs" -> "read_inputs"

SwitchFairness == WF_phase(phase' = NextPhase)

SwitchSpec == SwitchInit /\ [][SwitchNext]_switchVars

-----------------------------------------------------------------------------
(* No grant is wasted: a VOQ that is given an output has a packet for it.   *)
(* The contract does not ask for it (write_outputs silently skips such a    *)
(* pair); every scheduler that keeps account of the queues should ensure    *)
(* it, the batch schedulers although they decide a grant up to a batch      *)
(* before it is played.                                                     *)
GrantsHavePackets ==
    \A i \in Inputs : in_match[i] # None => queue_len[i][in_match[i]] > 0

(* What is handed out is maximal with respect to the switch's queues, not   *)
(* only to the scheduler's account of them: no packet waits while both its  *)
(* ports are idle.                                                          *)
NoIdlePair ==
    phase = "write_outputs" =>
        \A i \in Inputs, o \in Outputs : queue_len[i][o] > 0 =>
            in_match[i] # None \/ \E j \in Inputs : in_match[j] = o

(* When packets stop arriving, every queue runs empty: no packet is left    *)
(* waiting that the scheduler does not know of or never comes to.           *)
Drains == <>[](arrivals = NoMatch) => []<>(queue_len = EmptyQueues)
=============================================================================
