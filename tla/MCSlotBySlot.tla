---------------------------- MODULE MCSlotBySlot ----------------------------
(***************************************************************************)
(* The schedulers that look at the queues in every slot, in one model:     *)
(* QPS, RandomizedMaximal and MaxWeight.  "class" is the one that the      *)
(* factory has constructed, and never changes.                             *)
(***************************************************************************)
EXTENDS QPS, Queue_Sampler

VARIABLES class, edges, index, weight

Maximal == INSTANCE RandomizedMaximal
Heaviest == INSTANCE MaxWeight

others == <<class, edges, index, weight>>
MCVars == <<vars, others>>

MCInit ==
    /\ Init
    /\ Maximal!Init
    /\ Heaviest!Init
    /\ class \in {"QPS", "RandomizedMaximal", "MaxWeight"}
    /\ class # "QPS" => policy = "random" /\ ~ without_replacement

MCStep == SwitchStep /\ UNCHANGED others
MCQPS == class = "QPS" /\ Schedule /\ UNCHANGED others
MCMaximal == class = "RandomizedMaximal" /\ Maximal!Schedule /\ UNCHANGED <<class, bst, config, weight>>
MCHeaviest == class = "MaxWeight" /\ Heaviest!Schedule /\ UNCHANGED <<class, bst, config, edges, index>>
MCReset == Reset /\ Maximal!Reset /\ Heaviest!Reset /\ UNCHANGED class

MCNext == MCStep \/ MCQPS \/ MCMaximal \/ MCHeaviest \/ MCReset
MCSpec == MCInit /\ [][MCNext]_MCVars /\ SwitchFairness

-----------------------------------------------------------------------------
(* The account that the scheduler keeps of the queues agrees with them:     *)
(* QPS!TreesAgree, RandomizedMaximal!EdgesAgree, MaxWeight!WeightsAgree.    *)
AccountAgrees ==
    /\ class = "QPS" => TreesAgree
    /\ class = "RandomizedMaximal" => Maximal!EdgesAgree
    /\ class = "MaxWeight" => Heaviest!WeightsAgree

(* RandomizedMaximal!EdgesIndexed: its index finds every edge where it is.  *)
EdgesIndexed == Maximal!EdgesIndexed

(* Sampling is in proportion to the queues: every VOQ of an input is found  *)
(* for exactly as many of the equally likely random numbers as it has       *)
(* packets, in the trees of QPS (QPS!SampledInProportion) and in those that *)
(* a Queue_Sampler with these queues would build; and what the latter finds *)
(* when it samples uniformly has a packet.                                  *)
SamplersInProportion ==
    /\ SampledInProportion
    /\ \A i \in Inputs :
         LET tree == BuildTree(queue_len[i], FALSE)
         IN  \A o \in Outputs :
               Cardinality({ idx \in 0 .. tree[1] - 1 : Search(tree, idx) = LeftStart + o })
                 = queue_len[i][o]
    /\ \A i \in Inputs : \A o \in Samples(queue_len[i], TRUE) : queue_len[i][o] > 0

(* No packet waits while both its ports are idle, whatever a matching of    *)
(* the greatest weight or the order of a shuffle leaves out, and for QPS if *)
(* it samples without replacement (QPS!MaximalWithoutReplacement).          *)
MaximalMatching ==
    IF class = "QPS" THEN MaximalWithoutReplacement ELSE NoIdlePair
=============================================================================
