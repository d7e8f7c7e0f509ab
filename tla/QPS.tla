-------------------------------- MODULE QPS --------------------------------
(***************************************************************************)
(* QPS (qps.cc) composed with the switch: queue-proportional sampling slot *)
(* by slot.  In each of a number of iterations every unmatched input with  *)
(* packets proposes to one output, sampled from its tree of VOQ lengths,   *)
(* and every output not matched before accepts one of its proposers by the *)
(* accept policy.  Without replacement, a VOQ whose proposal is not        *)
(* accepted is taken out of its tree until the iterations are over.        *)
(***************************************************************************)
EXTENDS sIQSwitch, BST, SequencesExt

CONSTANTS
    Iterations,     \* _iterations
    Policies        \* values of _accept_policy

ASSUME IterationsPositive == Iterations \in Nat \ {0}
ASSUME PortsNumbered ==
    /\ IsFiniteSet(Inputs) /\ IsFiniteSet(Outputs)
    /\ Inputs = 0 .. Cardinality(Inputs) - 1
    /\ Outputs = 0 .. Cardinality(Outputs) - 1

VARIABLES
    bst,        \* _bst: the tree of each input
    policy,     \* _accept_policy; it and _without_replacement never change
    without_replacement

config == <<policy, without_replacement>>
vars == <<switchVars, bst, config>>

LeftStart == NearestPowerOfTwo(Cardinality(Outputs))
EmptyTrees == [i \in Inputs |-> EmptyTree(LeftStart)]

QPSTypeOK ==
    /\ SwitchTypeOK
    /\ bst \in [Inputs -> [Positions(LeftStart) -> Nat]]

Init ==
    /\ SwitchInit
    /\ bst = EmptyTrees
    /\ policy \in Policies
    /\ without_replacement \in BOOLEAN

(* The trees when that of each input i with an output "at[i]" is updated   *)
(* by delta[i] at this output.                                             *)
Updated(trees, at, delta) ==
    [i \in Inputs |-> IF at[i] = None THEN trees[i]
                      ELSE Update(trees[i], LeftStart + at[i], delta[i])]

(* handleArrivals; handleDepartures, of the VOQs that have a packet. *)
Arrived == Updated(bst, arrivals, [i \in Inputs |-> 1])
Departed(trees, m) ==
    Updated(trees, [i \in Inputs |-> IF m[i] # None /\ queue_len[i][m[i]] > 0
                                     THEN m[i] ELSE None],
            [i \in Inputs |-> -1])

(* The outputs that sampling(i) may return. *)
Sampling(tree) == { Search(tree, bound) - LeftStart : bound \in 0 .. tree[1] - 1 }

(* The proposals that may be made in one iteration: requests. *)
Requests(trees, m) ==
    { req \in Assignments : \A i \in Inputs :
        IF trees[i][1] = 0 \/ m[i] # None THEN req[i] = None
        ELSE req[i] \in Sampling(trees[i]) }

(* Mutant: a longer VOQ does not take the place of the proposer before it. *)
Chosen_First(S, o) == S

(* last_check[o], among its proposers S in any order. *)
Chosen(S, o) ==
    CASE policy = "longest_first" ->
           { i \in S : \A j \in S : queue_len[j][o] <= queue_len[i][o] }
      [] policy = "shortest_first" ->
           { i \in S : \A j \in S : queue_len[i][o] <= queue_len[j][o] }
      [] policy = "smallest_first" -> { i \in S : \A j \in S : i <= j }
      [] policy \in {"earliest_first", "random"} -> S

(* Mutant: an output that is matched takes another input. *)
Proposers_AlsoMatched(req, m, o) == { i \in Inputs : req[i] = o }

(* The inputs an output that is not matched yet has to choose from. *)
Proposers(req, m, o) ==
    { i \in Inputs : req[i] = o /\ \A j \in Inputs : m[j] # o }

(* The matchings that accepting one proposer per output makes of m. *)
Accepted(req, m) ==
    { n \in Assignments :
        /\ \A i \in Inputs : n[i] # m[i] => m[i] = None /\ n[i] = req[i]
        /\ \A o \in Outputs :
             LET S == Proposers(req, m, o)
                 taken == { i \in S : n[i] = o }
             IN  IF S = {} THEN taken = {} /\ \A i \in Inputs : n[i] = o => m[i] = o
                 ELSE \E i \in Chosen(S, o) : taken = {i} }

(* The VOQs taken out of the trees after an iteration. *)
Rejected(req, m) ==
    [i \in Inputs |-> IF without_replacement /\ m[i] = None THEN req[i] ELSE None]

(* One iteration.  "removed" lists what it and those before have taken out *)
(* of the trees, with the lengths removed.                                 *)
Iterate(work) ==
    UNION { { LET out == Rejected(req, m)
                  old == [i \in Inputs |-> IF out[i] = None THEN 0
                                           ELSE work.trees[i][LeftStart + out[i]]]
              IN  [trees |-> Updated(work.trees, out, [i \in Inputs |-> -old[i]]),
                   m |-> m,
                   removed |-> Append(work.removed, <<out, old>>)] :
                m \in Accepted(req, work.m) } : req \in Requests(work.trees, work.m) }

(* Mutant: what was removed is not restored. *)
Restored_Not(work) == work.trees

(* restoreVOQ *)
Restored(work) ==
    FoldLeft(LAMBDA trees, r : Updated(trees, r[1], r[2]), work.trees, work.removed)

(* What all the iterations may come to. *)
Outcomes ==
    FoldLeft(LAMBDA works, k : UNION { Iterate(w) : w \in works },
             { [trees |-> Arrived, m |-> NoMatch, removed |-> <<>>] },
             [k \in 1 .. Iterations |-> k])

Schedule ==
    \E work \in Outcomes :
        /\ ScheduleWith(work.m)
        /\ bst' = Departed(Restored(work), work.m)
        /\ UNCHANGED config

Reset == SwitchReset /\ bst' = EmptyTrees /\ UNCHANGED config

SwitchStep == (ReadInputs \/ WriteOutputs) /\ UNCHANGED <<bst, config>>

Next == SwitchStep \/ Schedule \/ Reset

Spec == Init /\ [][Next]_vars

-----------------------------------------------------------------------------
(* The trees are an account of the switch's queues: a leaf is the length of *)
(* its VOQ, without the packet just arrived and the one about to depart,    *)
(* and every other position is the sum of the two below it, however many    *)
(* VOQs were taken out and put back in between.                             *)
TreesAgree ==
    \A i \in Inputs :
      /\ \A o \in Outputs :
           bst[i][LeftStart + o] = queue_len[i][o] - (IF arrivals[i] = o THEN 1 ELSE 0)
                                                   - (IF in_match[i] = o THEN 1 ELSE 0)
      /\ \A p \in Positions(LeftStart) \ Leaves(LeftStart) :
           bst[i][p] = bst[i][2 * p] + bst[i][2 * p + 1]

(* Sampling is in proportion to the queues: every VOQ of an input is found  *)
(* for exactly as many of the equally long intervals of the random number   *)
(* as it has packets, so that one without packets is never found.           *)
SampledInProportion ==
    \A i \in Inputs, o \in Outputs :
        Cardinality({ bound \in 0 .. bst[i][1] - 1 : Search(bst[i], bound) = LeftStart + o })
          = bst[i][LeftStart + o]

(* Without replacement, an input that is rejected by an output never asks   *)
(* it again and the output is matched; so after as many iterations as there *)
(* are outputs no packet waits while both its ports are idle.               *)
MaximalWithoutReplacement ==
    without_replacement /\ Iterations >= Cardinality(Outputs) => NoIdlePair

(* Whatever is proposed, in whatever order and iteration: of the inputs     *)
(* that have packets for an output only, and so must all ask it, the one    *)
(* that is served has the longest VOQ, the shortest, or the smallest number,*)
(* as the accept policy says.                                               *)
PolicyObeyed ==
    phase = "write_outputs" =>
        \A o \in Outputs :
          LET only == { i \in Inputs : \A p \in Outputs : queue_len[i][p] > 0 <=> p = o }
          IN  \A i, j \in only : in_match[i] = o =>
                CASE policy = "longest_first"  -> queue_len[j][o] <= queue_len[i][o]
                  [] policy = "shortest_first" -> queue_len[i][o] <= queue_len[j][o]
                  [] policy = "smallest_first" -> i <= j
                  [] OTHER -> TRUE
=============================================================================
