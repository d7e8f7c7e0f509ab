--------------------------- MODULE Queue_Sampler ---------------------------
(***************************************************************************)
(* Queue_Sampler (qp_sampler.cpp), of one input port, with at least two    *)
(* outputs.  add_item and remove_item change a leaf only, and set _state   *)
(* to NONE; as build_tree never sets it to anything else, sample() builds  *)
(* the inner positions anew every time.  The model therefore keeps the     *)
(* leaves, the weights of the outputs, and computes the tree from them.    *)
(***************************************************************************)
EXTENDS BST

(* What the leaf of an output adds to the positions above it. *)
Share(weight, uniform) == IF uniform /\ weight >= 1 THEN 1 ELSE weight

(* Mutant: build_tree adds to what the tree held before.                   *)
BuildTree_Twice(weights, uniform) ==
    LET leaves == NearestPowerOfTwo(Cardinality(DOMAIN weights))
        leaf(o) == leaves + o
    IN  [p \in Positions(leaves) |->
            IF p >= leaves
            THEN IF p - leaves \in DOMAIN weights THEN weights[p - leaves] ELSE 0
            ELSE LET under == { o \in DOMAIN weights : p \in Path(leaf(o)) }
                     sum[S \in SUBSET under] ==
                       IF S = {} THEN 0
                       ELSE LET o == CHOOSE x \in S : TRUE
                            IN  sum[S \ {o}] + 2 * Share(weights[o], uniform)
                 IN  sum[under]]

(* build_tree: every leaf's share is added to all the positions above it;  *)
(* the leaf itself keeps its weight, also for uniform sampling.            *)
BuildTree(weights, uniform) ==
    LET leaves == NearestPowerOfTwo(Cardinality(DOMAIN weights))
        leaf(o) == leaves + o
    IN  [p \in Positions(leaves) |->
            IF p >= leaves
            THEN IF p - leaves \in DOMAIN weights THEN weights[p - leaves] ELSE 0
            ELSE LET under == { o \in DOMAIN weights : p \in Path(leaf(o)) }
                     sum[S \in SUBSET under] ==
                       IF S = {} THEN 0
                       ELSE LET o == CHOOSE x \in S : TRUE
                            IN  sum[S \ {o}] + Share(weights[o], uniform)
                 IN  sum[under]]

(* The output that sample() returns for the random number idx. *)
SampleAt(weights, uniform, idx) ==
    Search(BuildTree(weights, uniform), idx)
      - NearestPowerOfTwo(Cardinality(DOMAIN weights))

(* The numbers that idx is drawn from, each as likely as the others. *)
Draws(weights, uniform) == 0 .. BuildTree(weights, uniform)[1] - 1

(* The outputs that sample() may return; none if there is no packet. *)
Samples(weights, uniform) ==
    { SampleAt(weights, uniform, idx) : idx \in Draws(weights, uniform) }
=============================================================================
