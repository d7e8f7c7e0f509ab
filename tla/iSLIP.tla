------------------------------- MODULE iSLIP -------------------------------
(***************************************************************************)
(* The scheduler iSLIP (maximal_scheduler.cc) composed with the switch.    *)
(* In every slot it runs a fixed number of iterations; in each, every free *)
(* output grants the first requesting free input at or after its grant     *)
(* pointer, and every granted input accepts the first granting output at   *)
(* or after its accept pointer.  The pointers move past a pair accepted in *)
(* the first iteration, and only then: all of iSLIP's fairness rests on it.*)
(*                                                                         *)
(* iSLIP keeps one bit per VOQ, "is not empty", which it sets on arrivals  *)
(* and clears when it matches a VOQ whose queue in the switch has length 1.*)
(***************************************************************************)
EXTENDS sIQSwitch, FiniteSetsExt

CONSTANT Iterations     \* _iterations

ASSUME PortsAreNumbered ==
    /\ IsFiniteSet(Inputs) /\ Inputs = 0 .. Cardinality(Inputs) - 1 /\ Inputs # {}
    /\ IsFiniteSet(Outputs) /\ Outputs = 0 .. Cardinality(Outputs) - 1 /\ Outputs # {}
ASSUME IterationsPos == Iterations \in Nat \ {0}

VARIABLES
    queue_status,       \* _queue_status[in][out]: the VOQ holds a packet
    grant_pointers,     \* _grant_pointers[out]
    accept_pointer      \* _accept_pointer[in]

slipVars == <<queue_status, grant_pointers, accept_pointer>>
vars == <<switchVars, slipVars>>

NumInputs == Cardinality(Inputs)
NumOutputs == Cardinality(Outputs)

AllEmpty == [i \in Inputs |-> [o \in Outputs |-> FALSE]]

SlipTypeOK ==
    /\ SwitchTypeOK
    /\ queue_status \in [Inputs -> [Outputs -> BOOLEAN]]
    /\ grant_pointers \in [Outputs -> Inputs]
    /\ accept_pointer \in [Inputs -> Outputs]

(* The pointers start where the configuration says; reset() puts them at 0. *)
Init ==
    /\ SwitchInit
    /\ queue_status = AllEmpty
    /\ grant_pointers \in [Outputs -> Inputs]
    /\ accept_pointer \in [Inputs -> Outputs]

(* The member of S that comes first, counting from port p on, round robin. *)
FirstFrom(S, p, n) ==
    IF S = {} THEN None ELSE CHOOSE x \in S : \A y \in S : (x + n - p) % n <= (y + n - p) % n

-----------------------------------------------------------------------------
(* The state of a call of schedule() between two iterations: the matching  *)
(* so far and the pointers.                                                *)
Start ==
    [match |-> NoMatch, grant |-> grant_pointers, accept |-> accept_pointer]

FreeInputs(r) == { i \in Inputs : r.match[i] = None }
FreeOutputs(r) == Outputs \ { r.match[i] : i \in Inputs }

(* Mutants: an output searches no further than its pointer; an output that *)
(* is matched already grants again.                                         *)
Grants_AtPointer(r, status) ==
    [o \in Outputs |->
        IF o \in FreeOutputs(r) /\ r.grant[o] \in FreeInputs(r) /\ status[r.grant[o]][o]
        THEN r.grant[o] ELSE None]
Grants_Matched(r, status) ==
    [o \in Outputs |->
        FirstFrom({ i \in FreeInputs(r) : status[i][o] }, r.grant[o], NumInputs)]

(* check[out]: the input that each output grants. *)
Grants(r, status) ==
    [o \in Outputs |->
        IF o \in FreeOutputs(r)
        THEN FirstFrom({ i \in FreeInputs(r) : status[i][o] }, r.grant[o], NumInputs)
        ELSE None]

(* The output that each input accepts. *)
Accepted(r, check) ==
    [i \in Inputs |->
        IF i \in FreeInputs(r)
        THEN FirstFrom({ o \in Outputs : check[o] = i }, r.accept[i], NumOutputs)
        ELSE None]

(* Mutant: the pointers never move. *)
PointersMove_Never(k) == FALSE

(* The pointers move in the first iteration only. *)
PointersMove(k) == k = 0

(* Mutant: a grant pointer moves past the input granted, accepted or not. *)
NextGrant_Unaccepted(o, check, acc, p) ==
    IF check[o] = None THEN p ELSE (check[o] + 1) % NumInputs

(* Where the grant pointer of output o goes from p: past the input that     *)
(* accepted o.                                                              *)
NextGrant(o, check, acc, p) ==
    IF check[o] # None /\ acc[check[o]] = o THEN (check[o] + 1) % NumInputs ELSE p

(* One iteration, number k counted from zero. *)
Iterate(r, k, status) ==
    LET check == Grants(r, status)
        acc == Accepted(r, check)
    IN  [match |-> [i \in Inputs |-> IF acc[i] # None THEN acc[i] ELSE r.match[i]],
         grant |-> [o \in Outputs |->
            IF PointersMove(k) THEN NextGrant(o, check, acc, r.grant[o]) ELSE r.grant[o]],
         accept |-> [i \in Inputs |->
            IF PointersMove(k) /\ acc[i] # None
            THEN (acc[i] + 1) % NumOutputs
            ELSE r.accept[i]]]

(* All the iterations of a call, given the status after the arrivals. *)
Result(status) ==
    LET round[k \in 0 .. Iterations] ==
          IF k = 0 THEN Start ELSE Iterate(round[k - 1], k - 1, status)
    IN  round[Iterations]

Arrived(status) ==
    [i \in Inputs |-> [o \in Outputs |-> status[i][o] \/ arrivals[i] = o]]

(* Mutant: the status is cleared for every matched VOQ. *)
Departed_All(status, m) ==
    [i \in Inputs |-> [o \in Outputs |-> status[i][o] /\ m[i] # o]]

(* A matched VOQ of length 1 is about to run empty. *)
Departed(status, m) ==
    [i \in Inputs |-> [o \in Outputs |->
        status[i][o] /\ ~(m[i] = o /\ queue_len[i][o] = 1)]]

Schedule ==
    \E status \in {Arrived(queue_status)} : \E result \in {Result(status)} :
        /\ ScheduleWith(result.match)
        /\ grant_pointers' = result.grant
        /\ accept_pointer' = result.accept
        /\ queue_status' = Departed(status, result.match)

Reset ==
    /\ SwitchReset
    /\ queue_status' = AllEmpty
    /\ grant_pointers' = [o \in Outputs |-> 0]
    /\ accept_pointer' = [i \in Inputs |-> 0]

SwitchStep == (ReadInputs \/ WriteOutputs) /\ UNCHANGED slipVars

Next == SwitchStep \/ Schedule \/ Reset

Spec == Init /\ [][Next]_vars

-----------------------------------------------------------------------------
(* The status bits are an account of the switch's queues: a bit is set      *)
(* exactly when the VOQ has a packet that iSLIP has been told of and that   *)
(* is not about to depart.                                                  *)
StatusAgrees ==
    \A i \in Inputs, o \in Outputs :
        queue_status[i][o] <=>
            queue_len[i][o] > (IF arrivals[i] = o THEN 1 ELSE 0)
                              + (IF in_match[i] = o THEN 1 ELSE 0)

(* Every iteration adds a pair to the matching unless nothing can be added: *)
(* the matching is maximal or has at least as many pairs as iterations.     *)
MaximalOrProgress ==
    phase = "write_outputs" =>
        \/ Cardinality({ i \in Inputs : in_match[i] # None }) >= Iterations
        \/ NoIdlePair

(* No VOQ starves: one with a packet is served in the end, whatever         *)
(* arrives elsewhere meanwhile.                                             *)
NoStarvation ==
    \A i \in Inputs, o \in Outputs :
        queue_len[i][o] > 0 ~> (in_match[i] = o \/ queue_len[i][o] = 0)

(* The pointers desynchronise: while no VOQ is ever empty, every slot from  *)
(* some slot on matches all inputs or all outputs, even with one iteration. *)
Desynchronises ==
    <>[](\A i \in Inputs, o \in Outputs : queue_len[i][o] > 0) =>
        <>[](phase = "write_outputs" =>
                \/ \A i \in Inputs : in_match[i] # None
                \/ \A o \in Outputs : \E i \in Inputs : in_match[i] = o)
=============================================================================
