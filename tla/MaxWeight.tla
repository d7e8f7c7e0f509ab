----------------------------- MODULE MaxWeight -----------------------------
(***************************************************************************)
(* MaxWeightScheduler (max_weight_scheduler.cc) composed with the switch.  *)
(* It keeps the VOQ lengths as the weights of a complete bipartite graph   *)
(* and asks the graph library LEMON for a matching of the greatest weight. *)
(***************************************************************************)
EXTENDS sIQSwitch, FiniteSetsExt

VARIABLE weight     \* _weight: of the edge between an input and an output

vars == <<switchVars, weight>>

Init == SwitchInit /\ weight = EmptyQueues

(* handle_arrivals *)
Arrived == Enqueue(weight, arrivals)

TotalWeight(w, m) ==
    MapThenSumSet(LAMBDA i : IF m[i] = None THEN 0 ELSE w[i][m[i]], Inputs)

Matchings == { m \in Assignments : IsMatching(m) }

(* What MaxWeightedMatching may answer: LEMON's algorithm is taken at its  *)
(* word, and may or may not match an edge of weight 0.                     *)
MaxWeightMatchings(w) ==
    LET greatest == Max({ TotalWeight(w, m) : m \in Matchings })
    IN  { m \in Matchings : TotalWeight(w, m) = greatest }

(* handle_departures: of the matched VOQs that have a packet in the switch. *)
Departed(w, m) ==
    [i \in Inputs |-> [o \in Outputs |->
        w[i][o] - IF m[i] = o /\ queue_len[i][o] > 0 THEN 1 ELSE 0]]

Schedule ==
    \E m \in MaxWeightMatchings(Arrived) :
      /\ ScheduleWith(m)
      /\ weight' = Departed(Arrived, m)

Reset == SwitchReset /\ weight' = EmptyQueues

SwitchStep == (ReadInputs \/ WriteOutputs) /\ UNCHANGED weight

Next == SwitchStep \/ Schedule \/ Reset

Spec == Init /\ [][Next]_vars

-----------------------------------------------------------------------------
(* The weights are the lengths of the switch's queues, without the packets  *)
(* just arrived and with those matched ones gone that exist: the assertion  *)
(* of handle_departures ("Weight MUST be consistent").                      *)
WeightsAgree ==
    \A i \in Inputs, o \in Outputs :
        weight[i][o] = queue_len[i][o]
            - (IF arrivals[i] = o THEN 1 ELSE 0)
            - (IF in_match[i] = o /\ queue_len[i][o] > 0 THEN 1 ELSE 0)
=============================================================================
