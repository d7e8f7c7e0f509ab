------------------------- MODULE RandomizedMaximal -------------------------
(***************************************************************************)
(* RandomizedMaximalScheduler (maximal_scheduler.cc) composed with the     *)
(* switch.  It keeps the non-empty VOQs as the edges of a graph, in an     *)
(* array with an index per pair of ports, so that an edge is inserted and  *)
(* erased in constant time: an erased edge is overwritten by the last one. *)
(* A schedule shuffles the edges and adds each to the matching if it can,  *)
(* which may give every maximal matching of the graph and no other.        *)
(*                                                                         *)
(* Of the array only the first _edge_num entries are modelled; nothing     *)
(* reads what lies beyond them.                                            *)
(***************************************************************************)
EXTENDS sIQSwitch, SequencesExt

VARIABLES
    edges,      \* the live part of _edges: its length is _edge_num
    index       \* _index[source][destination], counted from 1; 0 stands for -1

vars == <<switchVars, edges, index>>

(* The inputs are numbered from 0. *)
NumInputs == Cardinality(Inputs)
InOrder == [k \in 1 .. NumInputs |-> k - 1]

Unindexed == [s \in Inputs |-> [d \in Outputs |-> 0]]

EdgesTypeOK ==
    /\ SwitchTypeOK
    /\ edges \in Seq(Inputs \X Outputs)
    /\ index \in [Inputs -> [Outputs -> 0 .. NumInputs * Cardinality(Outputs)]]

Init ==
    /\ SwitchInit
    /\ edges = <<>>
    /\ index = Unindexed

(* insert(s, d) and erase(s, d), on a graph of edges "e" indexed by "x". *)
Insert(g, s, d) ==
    IF g.x[s][d] # 0 THEN g
    ELSE [e |-> Append(g.e, <<s, d>>),
          x |-> [g.x EXCEPT ![s][d] = Len(g.e) + 1]]

(* Mutant: the index of the edge that is moved is not updated. *)
Erase_KeepsIndex(g, s, d) ==
    LET at == g.x[s][d]
    IN  IF at = 0 THEN g
        ELSE [e |-> Front([g.e EXCEPT ![at] = Last(g.e)]),
              x |-> [g.x EXCEPT ![s][d] = 0]]

Erase(g, s, d) ==
    LET at == g.x[s][d]
        moved == Last(g.e)
    IN  IF at = 0 THEN g
        ELSE [e |-> Front([g.e EXCEPT ![at] = moved]),
              x |-> [[g.x EXCEPT ![moved[1]][moved[2]] = at] EXCEPT ![s][d] = 0]]

(* handleArrivals: the arrivals are listed in the order of the inputs. *)
Arrived ==
    FoldLeft(LAMBDA g, s : IF arrivals[s] = None THEN g ELSE Insert(g, s, arrivals[s]),
             [e |-> edges, x |-> index], InOrder)

(* Mutant: an edge is erased whenever it is matched. *)
Departs_Matched(m, s) == m[s] # None

(* A matched VOQ of length 1 is about to run empty. *)
Departs(m, s) == m[s] # None /\ queue_len[s][m[s]] = 1

(* handleDepartures. *)
Departed(graph, m) ==
    FoldLeft(LAMBDA g, s : IF Departs(m, s) THEN Erase(g, s, m[s]) ELSE g, graph, InOrder)

(* The matchings made of edges of E that no edge of E can be added to. *)
MaximalMatchings(E) ==
    { m \in Assignments :
        /\ IsMatching(m)
        /\ \A s \in Inputs : m[s] # None => <<s, m[s]>> \in E
        /\ \A edge \in E : m[edge[1]] # None \/ \E s \in Inputs : m[s] = edge[2] }

-----------------------------------------------------------------------------
Schedule ==
    \E graph \in {Arrived} :
      \E m \in MaximalMatchings(ToSet(graph.e)) :
        LET left == Departed(graph, m)
        IN  /\ ScheduleWith(m)
            /\ edges' = left.e
            /\ index' = left.x

Reset == SwitchReset /\ edges' = <<>> /\ index' = Unindexed

SwitchStep == (ReadInputs \/ WriteOutputs) /\ UNCHANGED <<edges, index>>

Next == SwitchStep \/ Schedule \/ Reset

Spec == Init /\ [][Next]_vars

-----------------------------------------------------------------------------
(* The index finds every edge where it is, and nothing else: erase() trusts *)
(* it when it overwrites an entry.                                          *)
EdgesIndexed ==
    \A s \in Inputs, d \in Outputs, k \in 1 .. Len(edges) :
        index[s][d] = k <=> edges[k] = <<s, d>>

(* The graph is an account of the switch's queues: it has an edge for every *)
(* VOQ with a packet the scheduler has been told of and that is not about   *)
(* to depart.                                                               *)
EdgesAgree ==
    \A s \in Inputs, d \in Outputs :
        <<s, d>> \in ToSet(edges) <=>
            queue_len[s][d] > (IF arrivals[s] = d THEN 1 ELSE 0)
                              + (IF in_match[s] = d THEN 1 ELSE 0)
=============================================================================
