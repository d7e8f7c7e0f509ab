-------------------------------- MODULE BST --------------------------------
(***************************************************************************)
(* The trees that the schedulers sample from (BST in utils.hpp, and the    *)
(* tree inside Queue_Sampler): an array in which the children of position  *)
(* p are 2p and 2p + 1, the root is 1, and the leaves, one per output, are *)
(* the second half.                                                        *)
(***************************************************************************)
EXTENDS Integers, FiniteSets

(* nearest_power_of_two: the number of leaves for n outputs. *)
NearestPowerOfTwo(n) ==
    LET power[k \in Nat] == IF k = 0 THEN 1 ELSE 2 * power[k - 1]
    IN  power[CHOOSE k \in 0 .. n : power[k] >= n /\ \A l \in 0 .. k - 1 : power[l] < n]

(* The positions of a tree with so many leaves, and those of its leaves. *)
Positions(leaves) == 1 .. 2 * leaves - 1
Leaves(leaves) == leaves .. 2 * leaves - 1

EmptyTree(leaves) == [p \in Positions(leaves) |-> 0]

(* The positions from pos up to the root. *)
Path(pos) ==
    LET path[p \in Nat] == IF p <= 1 THEN {p} ELSE {p} \cup path[p \div 2]
    IN  path[pos]

(* update: delta is added to a position and to all above it. *)
Update(tree, pos, delta) ==
    [p \in DOMAIN tree |-> tree[p] + IF p \in Path(pos) THEN delta ELSE 0]

(* _upper_bound_search and Queue_Sampler::search: the leaf at which the    *)
(* weights, summed up from the left, exceed the bound.  The bound of BST   *)
(* is a real number; its comparisons with the weights, which are whole     *)
(* numbers, are those of the bound rounded down.                           *)
Search(tree, bound) ==
    LET search[p \in DOMAIN tree] ==
          IF 2 * p \notin DOMAIN tree THEN [b \in Int |-> p]
          ELSE [b \in Int |-> IF b < tree[2 * p] THEN search[2 * p][b]
                             ELSE search[2 * p + 1][b - tree[2 * p]]]
    IN  search[1][bound]
=============================================================================
