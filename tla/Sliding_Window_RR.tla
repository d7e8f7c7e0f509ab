------------------------- MODULE Sliding_Window_RR -------------------------
(***************************************************************************)
(* Sliding_Window_RR (sliding_window_rr.cpp) with its Round_Robin_Sampler  *)
(* (rr_sampler.cpp).  It keeps the window of Sliding_Window_QPS, but an    *)
(* input proposes the output at the front of a queue of its own, and an    *)
(* output takes its proposers in the circular order of their ports.        *)
(*                                                                         *)
(* The queue holds one entry per packet.  sample() moves the front entry   *)
(* to the back, and remove_item(out) takes away the last entry without     *)
(* looking at it: that this is an entry for "out" is a matter of the order *)
(* of the calls, which the model keeps.                                    *)
(***************************************************************************)
EXTENDS Sliding_Window_QPS, SequencesExt

ASSUME InputsAreNumbered == IsFiniteSet(Inputs) /\ Inputs = 0 .. Cardinality(Inputs) - 1
ASSUME NoMoreOutputs == Outputs \subseteq Inputs    \* see previousLargestInput

VARIABLES
    rrqueue,                \* rrqueue[in]: _rrqueue of inputQueues[in]
    previousLargestInput    \* [out]: accepted first when out last accepted;
                            \* the code gives it num_inputs entries

rrVars == <<swVars, rrqueue, previousLargestInput>>

NumInputs == Cardinality(Inputs)

RRTypeOK ==
    /\ WindowTypeOK
    /\ rrqueue \in [Inputs -> Seq(Outputs)]
    /\ previousLargestInput \in [Outputs -> Inputs]

RRInit ==
    /\ Init
    /\ rrqueue = [i \in Inputs |-> <<>>]
    /\ previousLargestInput = [o \in Outputs |-> 0]

(* add_item of every arrival. *)
Added ==
    [i \in Inputs |->
        IF arrivals[i] = None THEN rrqueue[i] ELSE Append(rrqueue[i], arrivals[i])]

(* What every input proposes. *)
Sampled(rr) == [i \in Inputs |-> IF rr[i] = <<>> THEN None ELSE Head(rr[i])]

Rotated(q) == IF q = <<>> THEN q ELSE Append(Tail(q), Head(q))

(* Mutant: remove_item takes the first entry away. *)
Removed_Front(q) == Tail(q)

(* remove_item. *)
Removed(q) == Front(q)

(* The queues once sampled, and once the placed proposals have departed. *)
NextQueues(rr, at) ==
    [i \in Inputs |->
        IF at[i] = None THEN Rotated(rr[i]) ELSE Removed(Rotated(rr[i]))]

(* The key that an output's proposers are sorted by: the input it accepted *)
(* first last time has the smallest one.                                   *)
Turn(o, i) == (NumInputs - previousLargestInput[o] + i) % NumInputs
Turns(prop) == [i \in Inputs |-> IF prop[i] = None THEN 0 ELSE Turn(prop[i], i)]

FirstInTurn(o, S) == CHOOSE i \in S : \A j \in S : Turn(o, i) <= Turn(o, j)

-----------------------------------------------------------------------------
RRSchedule ==
    LET rr == Added
        prop == Sampled(rr)
    IN  \E acc \in Accepts(prop), at \in Placements :
          /\ IsFirstFit(OpenWindow, prop, acc, Turns(prop), at)
          /\ SchedulePlacing(prop, at)
          /\ window' = NextWindow(prop, at)
          /\ rrqueue' = NextQueues(rr, at)
          /\ previousLargestInput' = [o \in Outputs |->
               LET S == acc \cap Proposers(prop, o)
               IN  IF S = {} THEN previousLargestInput[o] ELSE FirstInTurn(o, S)]

RRStep == WindowStep /\ UNCHANGED <<rrqueue, previousLargestInput>>

(* reset() leaves previousLargestInput alone. *)
RRReset ==
    /\ Reset
    /\ rrqueue' = [i \in Inputs |-> <<>>]
    /\ UNCHANGED previousLargestInput

RRNext == RRStep \/ RRSchedule \/ RRReset

RRSpec == RRInit /\ [][RRNext]_rrVars

-----------------------------------------------------------------------------
(* The queue of entries is one more account of the VOQs: it has one entry   *)
(* per packet that has not been placed, however samples, placements and     *)
(* arrivals alternate.                                                      *)
EntriesAgree ==
    \A i \in Inputs, o \in Outputs :
        VOQLength[i][o] = Cardinality({ k \in DOMAIN rrqueue[i] : rrqueue[i][k] = o })
=============================================================================
