------------------------- MODULE MC_Sliding_Window -------------------------
(***************************************************************************)
(* The sliding-window schedulers in one model, in both modes of their flag *)
(* "batching": "class" and "batching" are what the configuration has set   *)
(* when the scheduler was constructed, and never change.                   *)
(***************************************************************************)
EXTENDS Sliding_Window_RR

VARIABLES class, batching

BestFit == INSTANCE SW_QPS_Best_Fit
Batching == INSTANCE Sliding_Window_RR WITH DispatchFirst <- TRUE

const == <<class, batching>>
rrOnly == <<rrqueue, previousLargestInput>>
MCVars == <<rrVars, const>>

MCInit ==
    /\ RRInit
    /\ class \in {"QPS", "Best_Fit", "RR"}
    /\ batching \in BOOLEAN
    /\ class = "Best_Fit" => ~batching

MCStep == RRStep /\ UNCHANGED const
MCReset == RRReset /\ UNCHANGED const

MCQPS ==
    /\ class = "QPS"
    /\ IF batching THEN Batching!Schedule ELSE Schedule
    /\ UNCHANGED <<rrOnly, const>>

MCBestFit == class = "Best_Fit" /\ BestFit!BestFitSchedule /\ UNCHANGED <<rrOnly, const>>

MCRR ==
    /\ class = "RR"
    /\ IF batching THEN Batching!RRSchedule ELSE RRSchedule
    /\ UNCHANGED const

MCNext == MCStep \/ MCQPS \/ MCBestFit \/ MCRR \/ MCReset

MCSpec == MCInit /\ [][MCNext]_MCVars /\ SwitchFairness

-----------------------------------------------------------------------------
(* The queue of entries of the RR sampler is exact                          *)
(* (Sliding_Window_RR!EntriesAgree).                                        *)
QueueOfEntriesAgrees == class = "RR" => EntriesAgree

(* In either mode each class implements the abstract batch scheduler that   *)
(* hands out and places in the same order (BatchScheduler!BatchSpec).       *)
BatchSpecOfMode ==
    /\ BatchInit
    /\ [][IF batching THEN Batching!BatchNext ELSE BatchNext]_vars

(* In either mode no class leaves a slot empty that a packet could have     *)
(* (Sliding_Window_QPS!RoomIsUsed).                                         *)
RoomIsUsedInMode == [][IF batching THEN Batching!RoomUsed ELSE RoomUsed]_MCVars
=============================================================================
