------------------------------ MODULE MCiSLIP ------------------------------
(***************************************************************************)
(* iSLIP with one iteration per slot and with several, as the              *)
(* configuration sets when the scheduler is constructed.                   *)
(***************************************************************************)
EXTENDS iSLIP

VARIABLE iterations     \* 1 or Iterations, for good

One == INSTANCE iSLIP WITH Iterations <- 1

MCInit == Init /\ iterations \in {1, Iterations}

MCOne == iterations = 1 /\ One!Schedule /\ UNCHANGED iterations
MCSeveral == iterations # 1 /\ Schedule /\ UNCHANGED iterations

MCNext ==
    \/ (SwitchStep \/ Reset) /\ UNCHANGED iterations
    \/ MCOne
    \/ MCSeveral

MCSpec == MCInit /\ [][MCNext]_<<vars, iterations>> /\ SwitchFairness

-----------------------------------------------------------------------------
(* A slot's matching has a pair per iteration or leaves no packet between   *)
(* two idle ports, with one iteration and with several                      *)
(* (iSLIP!MaximalOrProgress).                                               *)
PairPerIteration ==
    IF iterations = 1 THEN One!MaximalOrProgress ELSE MaximalOrProgress
=============================================================================
