----------------------- MODULE RandomizedEdgeColoring -----------------------
(***************************************************************************)
(* RandomizedEdgeColoringCAggarwal (edge_coloring_batch_scheduler.cc),     *)
(* composed with the switch.  The packets that arrive are the edges of a   *)
(* bipartite multigraph; at the end of a frame of BatchSize slots its      *)
(* edges are coloured at random, and the colours are the slots of the next *)
(* frame.                                                                  *)
(*                                                                         *)
(* The colour of an edge is meant to be one that neither of its ports has  *)
(* used, drawn from the list free_colors.  The code takes the number drawn *)
(* for the colour, though it is a place in that list: two edges of a port  *)
(* may get one colour, and the later one then overwrites an entry of its   *)
(* input or shares the output.                                             *)
(*                                                                         *)
(* The graph is emptied by reset() only: the edges of earlier frames are   *)
(* coloured again.  When an edge finds no colour below batchSize, the      *)
(* search of an extra one takes all that are free and always ends at       *)
(* MAX_BATCH_SIZE, where the assertion that follows it fails.  So          *)
(* batchSize never grows, and is the constant BatchSize.                   *)
(***************************************************************************)
EXTENDS sIQSwitch, SequencesExt

CONSTANTS
    BatchSize,      \* frame_size
    MaxEdges        \* bound of the model: no input receives more packets
                    \* between two resets

ASSUME FrameSizePos == BatchSize \in Nat \ {0}
ASSUME InputsInOrder == IsFiniteSet(Inputs) /\ Inputs = 0 .. Cardinality(Inputs) - 1
ASSUME MaxEdgesNat == MaxEdges \in Nat
(* free_colors_out has an entry per input and is indexed by output. *)
ASSUME OutputsHaveColors == Outputs \subseteq Inputs

VARIABLES
    _multigraph_adj,    \* [in]: the outputs of the packets that arrived
    schedules_pre,      \* the slots of this frame; empty in the first frame
    _cf_rel_time,       \* slots of this frame that are over
    _pf_rel_time,       \* slots of schedules_pre handed out
    held,               \* what _in_match holds between two calls
    aborted             \* an assertion has failed

frameVars == <<_multigraph_adj, schedules_pre, _cf_rel_time, _pf_rel_time, held>>
vars == <<switchVars, frameVars, aborted>>

Colors == 1 .. BatchSize
NoEdges == [i \in Inputs |-> <<>>]

FrameTypeOK ==
    /\ SwitchTypeOK
    /\ _multigraph_adj \in [Inputs -> Seq(Outputs)]
    /\ schedules_pre \in {<<>>} \cup [Colors -> Assignments]
    /\ _cf_rel_time \in 0 .. BatchSize - 1
    /\ _pf_rel_time \in 0 .. BatchSize - 1
    /\ held \in Assignments
    /\ aborted \in BOOLEAN

Init ==
    /\ SwitchInit
    /\ _multigraph_adj = NoEdges
    /\ schedules_pre = <<>>
    /\ _cf_rel_time = 0
    /\ _pf_rel_time = 0
    /\ held = NoMatch
    /\ aborted = FALSE

-----------------------------------------------------------------------------
(* handle_arrivals *)
Arrived ==
    [i \in Inputs |-> IF arrivals[i] = None THEN _multigraph_adj[i]
                      ELSE Append(_multigraph_adj[i], arrivals[i])]

(* The inputs, in the order they are looked at. *)
InOrder == [n \in 1 .. Cardinality(Inputs) |-> n - 1]

(* The state of the colouring: schedules, free_colors_in, free_colors_out, *)
(* and whether an edge could not be coloured.                              *)
Uncolored ==
    [stuck |-> FALSE,
     sched |-> [c \in Colors |-> NoMatch],
     in    |-> [i \in Inputs |-> {}],
     out   |-> [o \in Outputs |-> {}]]

(* Mutant: the last colour is not looked at. *)
FreeColors_ButLast(work, edge) ==
    { c \in Colors : c < BatchSize } \ (work.in[edge[1]] \cup work.out[edge[2]])

(* free_colors: the colours that neither port of the edge has used. *)
FreeColors(work, edge) == Colors \ (work.in[edge[1]] \cup work.out[edge[2]])

(* The outcomes of colouring one more edge: its colour is any place in the *)
(* list free_colors.                                                       *)
Color(work, edge) ==
    IF work.stuck \/ FreeColors(work, edge) = {}
    THEN {[work EXCEPT !.stuck = TRUE]}
    ELSE { [stuck |-> FALSE,
            sched |-> [work.sched EXCEPT ![c][edge[1]] = edge[2]],
            in    |-> [work.in EXCEPT ![edge[1]] = @ \cup {c}],
            out   |-> [work.out EXCEPT ![edge[2]] = @ \cup {c}]] :
           c \in 1 .. Cardinality(FreeColors(work, edge)) }

(* ... and of colouring the s-th edge of every input that has so many.     *)
ColorRank(works, adj, s) ==
    FoldLeft(LAMBDA ws, i : IF s > Len(adj[i]) THEN ws
                            ELSE UNION { Color(w, <<i, adj[i][s]>>) : w \in ws },
             works, InOrder)

MaxDegree(adj) == Max({0} \cup { Len(adj[i]) : i \in Inputs })

(* The outcomes of colouring the graph, rank by rank in a shuffled order.  *)
Colorings(adj) ==
    UNION { FoldLeft(LAMBDA works, s : ColorRank(works, adj, s), {Uncolored}, perm) :
              perm \in SetToSeqs(1 .. MaxDegree(adj)) }

-----------------------------------------------------------------------------
FirstFrame == schedules_pre = <<>>

(* In the first frame _in_match is left as it is. *)
HandedOut == IF FirstFrame THEN held ELSE schedules_pre[_pf_rel_time + 1]

(* A call of schedule() within a frame. *)
ScheduleInFrame ==
    /\ _cf_rel_time + 1 < BatchSize
    /\ ScheduleWith(HandedOut)
    /\ held' = HandedOut
    /\ schedules_pre' = [c \in DOMAIN schedules_pre |->
                            IF c = _pf_rel_time + 1 THEN NoMatch ELSE schedules_pre[c]]
    /\ _multigraph_adj' = Arrived
    /\ _cf_rel_time' = _cf_rel_time + 1
    /\ _pf_rel_time' = IF FirstFrame THEN _pf_rel_time ELSE _pf_rel_time + 1
    /\ UNCHANGED aborted

(* Mutant: the graph is emptied at the end of a frame. *)
ScheduleEndOfFrame_Empties ==
    /\ _cf_rel_time + 1 = BatchSize
    /\ \E work \in Colorings(Arrived) :
         /\ ~work.stuck
         /\ ScheduleWith(HandedOut)
         /\ held' = HandedOut
         /\ schedules_pre' = work.sched
         /\ _multigraph_adj' = NoEdges
         /\ _cf_rel_time' = 0
         /\ _pf_rel_time' = 0
    /\ UNCHANGED aborted

(* The call in the last slot of a frame, which colours the graph. *)
ScheduleEndOfFrame ==
    /\ _cf_rel_time + 1 = BatchSize
    /\ \E work \in Colorings(Arrived) :
         /\ ~work.stuck
         /\ ScheduleWith(HandedOut)
         /\ held' = HandedOut
         /\ schedules_pre' = work.sched
         /\ _multigraph_adj' = Arrived
         /\ _cf_rel_time' = 0
         /\ _pf_rel_time' = 0
    /\ UNCHANGED aborted

(* ... and, instead, the failure of the assertion on the extra colour. *)
NoExtraColor ==
    /\ phase = "schedule"
    /\ _cf_rel_time + 1 = BatchSize
    /\ \E work \in Colorings(Arrived) : work.stuck
    /\ aborted' = TRUE
    /\ UNCHANGED <<switchVars, frameVars>>

(* reset() leaves _in_match alone. *)
Reset ==
    /\ SwitchReset
    /\ _multigraph_adj' = NoEdges
    /\ schedules_pre' = <<>>
    /\ _cf_rel_time' = 0
    /\ _pf_rel_time' = 0
    /\ UNCHANGED <<held, aborted>>

SwitchStep ==
    /\ \/ /\ ReadInputs
          /\ \A i \in Inputs : arrivals'[i] # None => Len(_multigraph_adj[i]) < MaxEdges
       \/ WriteOutputs
    /\ UNCHANGED <<frameVars, aborted>>

Next ==
    ~aborted /\ (SwitchStep \/ ScheduleInFrame \/ ScheduleEndOfFrame \/ NoExtraColor \/ Reset)

Spec == Init /\ [][Next]_vars

-----------------------------------------------------------------------------
EdgesOf(adj, i, o) == Cardinality({ k \in DOMAIN adj[i] : adj[i][k] = o })

(* No waiting packet is forgotten: though a frame's schedule may leave out  *)
(* packets whose entries were overwritten, each of them still has an edge   *)
(* of its own, and is coloured again with the next frame.                   *)
WaitingAreColored ==
    \A i \in Inputs, o \in Outputs :
        queue_len[i][o] <= EdgesOf(_multigraph_adj, i, o) + (IF arrivals[i] = o THEN 1 ELSE 0)

(* The edges, as <<input, rank>>, and those of one of two ports.            *)
EdgesIn(adj) == UNION { {i} \X DOMAIN adj[i] : i \in Inputs }
Touching(adj, edges, i, o) == { e \in edges : e[1] = i \/ adj[e[1]][e[2]] = o }

(* As greedy colouring should, an edge fails to find a colour only if the   *)
(* other edges of its two ports are as many as there are colours: what is   *)
(* drawn in place of a colour never takes up more than one.                 *)
Crowded(adj) ==
    \E e \in EdgesIn(adj) :
        Cardinality(Touching(adj, EdgesIn(adj) \ {e}, e[1], adj[e[1]][e[2]])) >= BatchSize

AbortsOnlyIfCrowded == aborted => Crowded(Arrived)

(* When packets stop arriving, an input that has only ever had packets for  *)
(* one output runs empty, unless an assertion ends the program first: one   *)
(* of its edges is the last to be coloured, and is not overwritten.  (With  *)
(* packets for two outputs one of them may be overwritten in every frame.)  *)
DrainsIfOneOutput ==
    LET oneOutput(i) == \A k, l \in DOMAIN _multigraph_adj[i] :
                           _multigraph_adj[i][k] = _multigraph_adj[i][l]
    IN  \A i \in Inputs :
          <>[](arrivals = NoMatch /\ oneOutput(i)) =>
            []<>(aborted \/ \A o \in Outputs : queue_len[i][o] = 0)

(* gIQSwitch, of what a scheduler hands out: "output must be a matching".   *)
HandsOutMatchings == IsMatching(in_match)
=============================================================================
