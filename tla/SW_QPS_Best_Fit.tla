-------------------------- MODULE SW_QPS_Best_Fit --------------------------
(***************************************************************************)
(* SW_QPS_Best_Fit (sliding_window_qps.cpp), which is Sliding_Window_QPS   *)
(* with another qps: an output considers all its proposers and, instead of *)
(* giving each the first slot that fits, computes a maximum matching of    *)
(* proposers and slots.  It always hands out after placing: DispatchFirst  *)
(* is FALSE.                                                               *)
(*                                                                         *)
(* The matching is computed by LEMON's MaxMatching.  The code hands it the *)
(* first fit to start from, by matchingInit, but then calls run(), which   *)
(* sets up a start of its own: what comes out is a largest matching, any   *)
(* of them, and the first fit has no part in it.                           *)
(***************************************************************************)
EXTENDS Sliding_Window_QPS

(* Mutant: the edges of the graph are the slots that the input has free.   *)
Fits_InputOnly(i, o) == Slots \ window.inputMatchBitmap[i]

(* The slots that input i has an edge to in avail_graph of output o. *)
Fits(i, o) == Slots \ (window.inputMatchBitmap[i] \cup window.outputMatchBitmap[o])

(* The matchings of the proposers of o with slots: placements of them.     *)
Matchings(prop, o) ==
    LET S == Proposers(prop, o)
    IN  { at \in [S -> Slots \cup {None}] :
            /\ \A i \in S : at[i] # None => at[i] \in Fits(i, o)
            /\ \A i, j \in S : at[i] = at[j] /\ at[i] # None => i = j }

Size(at) == Cardinality({ i \in DOMAIN at : at[i] # None })

(* MaxMatching::run *)
MaxMatching(prop, o) ==
    { at \in Matchings(prop, o) :
        \A other \in Matchings(prop, o) : Size(other) <= Size(at) }

BestFitSchedule ==
    \E prop \in Proposals(Arrived), at \in Placements :
      /\ \A i \in Inputs : prop[i] = None => at[i] = None
      /\ \A o \in Outputs : [i \in Proposers(prop, o) |-> at[i]] \in MaxMatching(prop, o)
      /\ SchedulePlacing(prop, at)
      /\ window' = NextWindow(prop, at)

BestFitNext == WindowStep \/ BestFitSchedule \/ Reset

BestFitSpec == Init /\ [][BestFitNext]_swVars

=============================================================================
