---------------------------- MODULE SB_QPS_Basic ----------------------------
(***************************************************************************)
(* SB_QPS_Basic (sb_qps.cc): in every slot each input with packets         *)
(* proposes to one output, and each output gives the slot to the proposer  *)
(* with the longest VOQ; ties go to whichever the shuffle put first.       *)
(***************************************************************************)
EXTENDS SmallBatch

(* outAccepts: for every output the proposer it accepts, if any. *)
Accepts(prop, voq) ==
    { acc \in [Outputs -> Inputs \cup {None}] : \A o \in Outputs :
        IF Proposers(prop, o) = {} THEN acc[o] = None
        ELSE acc[o] \in Longest(Proposers(prop, o), voq, o) }

(* The accepted input of every output is given the current slot. *)
PlaceAccepted(acc) ==
    [i \in Inputs |-> IF \E o \in Outputs : acc[o] = i THEN slot ELSE None]

Schedule ==
    LET voq == Arrived
    IN  \E prop \in Proposals(voq) : \E acc \in Accepts(prop, voq) :
          /\ SchedulePlacing(prop, PlaceAccepted(acc))
          /\ MarkMatched(prop, PlaceAccepted(acc))

Next == SmallBatchStep \/ Schedule \/ Reset

Spec == Init /\ [][Next]_sbVars
=============================================================================
