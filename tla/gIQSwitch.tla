----------------------------- MODULE gIQSwitch -----------------------------
(***************************************************************************)
(* The input-queued switch as gIQSwitch keeps it (iq_switch.cc): queues of *)
(* packets, channels to and from the simulator, and a timer that stamps    *)
(* the packets.  Of a packet in a VOQ only its arrival time is modelled;   *)
(* its ports are those of the VOQ.                                         *)
(*                                                                         *)
(* The scheduler learns of the arrivals from the vector _arrivals, which   *)
(* is never shortened: an entry whose source is -1 ends the list, and old  *)
(* entries may follow it.  "Told" is what every scheduler reads in it.     *)
(***************************************************************************)
EXTENDS Integers, SequencesExt

CONSTANTS Inputs, Outputs, None

ASSUME PortsAreFinite == IsFiniteSet(Inputs) /\ IsFiniteSet(Outputs)
ASSUME InputsAreNumbered == Inputs = 0 .. Cardinality(Inputs) - 1
ASSUME NoneIsNoPort == None \notin Inputs /\ None \notin Outputs /\ None \notin Int

VARIABLES
    phase,          \* the call that comes next
    input_channel,  \* [in]: the output of the packet waiting in it, or None
    voq,            \* _virtual_output_queue[in][out]: arrival times
    arrivals,       \* _arrivals
    in_match,       \* Scheduler::_in_match
    output_channel, \* [out]: packets sent and not yet received
    time            \* _timer

switchVars == <<input_channel, voq, arrivals, in_match, output_channel, time>>

Assignments == [Inputs -> Outputs \cup {None}]
NoMatch == [i \in Inputs |-> None]
EmptyQueues == [i \in Inputs |-> [o \in Outputs |-> <<>>]]
EmptyOutputs == [o \in Outputs |-> <<>>]

SwitchInit ==
    /\ input_channel = NoMatch
    /\ voq = EmptyQueues
    /\ arrivals = <<>>
    /\ in_match = NoMatch
    /\ output_channel = EmptyOutputs
    /\ time = 0

InOrder == [k \in 1 .. Cardinality(Inputs) |-> k - 1]

(* The ports of what waits in the input channels, in the order of the inputs. *)
Received ==
    FoldLeft(LAMBDA list, i : IF input_channel[i] = None THEN list
                              ELSE Append(list, <<i, input_channel[i]>>),
             <<>>, InOrder)

(* Mutant: the end of the list is not marked. *)
Listed_Unmarked(old, new) == new \o SubSeq(old, Len(new) + 1, Len(old))

(* The vector "old" overwritten by "new", its end marked if it is longer. *)
Listed(old, new) ==
    IF Len(new) >= Len(old) THEN new
    ELSE new \o <<<<None, old[Len(new) + 1][2]>>>> \o SubSeq(old, Len(new) + 2, Len(old))

(* The entries before the mark, as an assignment. *)
Told(list) ==
    LET valid == { k \in DOMAIN list : \A l \in 1 .. k : list[l][1] # None }
    IN  [i \in Inputs |->
            IF \E k \in valid : list[k][1] = i
            THEN list[CHOOSE k \in valid : list[k][1] = i][2]
            ELSE None]

IsMatching(m) ==
    \A i, j \in Inputs : m[i] # None /\ m[i] = m[j] => i = j

-----------------------------------------------------------------------------
ReadInputs ==
    /\ phase = "read_inputs"
    /\ voq' = [i \in Inputs |-> [o \in Outputs |->
                 IF input_channel[i] = o THEN Append(voq[i][o], time) ELSE voq[i][o]]]
    /\ arrivals' = Listed(arrivals, Received)
    /\ input_channel' = NoMatch
    /\ phase' = "schedule"
    /\ UNCHANGED <<in_match, output_channel, time>>

(* The scheduler answers with any matching. *)
Schedule ==
    /\ phase = "schedule"
    /\ \E m \in Assignments : IsMatching(m) /\ in_match' = m
    /\ phase' = "write_outputs"
    /\ UNCHANGED <<input_channel, voq, arrivals, output_channel, time>>

Sends(i, o) == in_match[i] = o /\ voq[i][o] # <<>>

(* Mutant: the packet that came last is served. *)
Served_Last(q) == [packet |-> Last(q), left |-> Front(q)]

(* The packet at the head of a queue, and the queue without it. *)
Served(q) == [packet |-> Head(q), left |-> Tail(q)]

(* A packet departs in the slot it is sent in (_delay is 0); then the timer *)
(* moves on.                                                                *)
WriteOutputs ==
    /\ phase = "write_outputs"
    /\ voq' = [i \in Inputs |-> [o \in Outputs |->
                 IF Sends(i, o) THEN Served(voq[i][o]).left ELSE voq[i][o]]]
    /\ output_channel' = [o \in Outputs |->
         output_channel[o] \o
           SetToSeq({ [source |-> i, arrival |-> Served(voq[i][o]).packet, departure |-> time] :
                      i \in { j \in Inputs : Sends(j, o) } })]
    /\ time' = time + 1
    /\ phase' = "departing"
    /\ UNCHANGED <<input_channel, arrivals, in_match>>

(* reset() keeps the vector _arrivals as long as it is, and marks all of it. *)
SwitchReset ==
    /\ input_channel' = NoMatch
    /\ voq' = EmptyQueues
    /\ arrivals' = [k \in DOMAIN arrivals |-> <<None, None>>]
    /\ in_match' = NoMatch
    /\ output_channel' = EmptyOutputs
    /\ time' = 0
=============================================================================
