----------------------------- MODULE MC_SB_QPS -----------------------------
(***************************************************************************)
(* SB_QPS_Basic, SB_QPS_HalfHalf_Oblivious and SB_QPS_Conditional in one   *)
(* model: "class" is the scheduler that the factory has constructed, and   *)
(* never changes.                                                          *)
(***************************************************************************)
EXTENDS SB_QPS_Conditional

VARIABLE class

Basic == INSTANCE SB_QPS_Basic
Oblivious == INSTANCE SB_QPS_HalfHalf_Oblivious

MCVars == <<condVars, class>>

MCInit == CondInit /\ class \in {"Basic", "Oblivious", "Conditional"}

MCStep == CondStep /\ UNCHANGED class
MCReset == CondReset /\ UNCHANGED class
MCBasic == class = "Basic" /\ Basic!Schedule /\ UNCHANGED <<conditionalApprovals, class>>
MCOblivious == class = "Oblivious" /\ Oblivious!Schedule /\ UNCHANGED <<conditionalApprovals, class>>
MCConditional == class = "Conditional" /\ CondSchedule /\ UNCHANGED class

MCNext == MCStep \/ MCBasic \/ MCOblivious \/ MCConditional \/ MCReset

MCSpec == MCInit /\ [][MCNext]_MCVars /\ SwitchFairness
=============================================================================
