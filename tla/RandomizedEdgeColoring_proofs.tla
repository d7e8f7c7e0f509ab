-------------------- MODULE RandomizedEdgeColoring_proofs --------------------
(***************************************************************************)
(* Proofs about the edge-colouring scheduler, for any ports, frame size    *)
(* and number of edges: no waiting packet is without an edge in the graph, *)
(* and an edge is without a colour only if its ports are crowded.          *)
(***************************************************************************)
EXTENDS RandomizedEdgeColoring, InductionLemmas

-----------------------------------------------------------------------------
(* Edges.                                                                  *)

LEMMA EdgesOfType ==
    ASSUME NEW adj \in [Inputs -> Seq(Outputs)], NEW i \in Inputs, NEW o
    PROVE  /\ IsFiniteSet({ k \in DOMAIN adj[i] : adj[i][k] = o })
           /\ EdgesOf(adj, i, o) \in Nat
<1>1. IsFiniteSet(DOMAIN adj[i])
  <2>1. adj[i] \in Seq(Outputs)
    OBVIOUS
  <2>2. DOMAIN adj[i] = 1 .. Len(adj[i]) /\ Len(adj[i]) \in Nat
    BY <2>1
  <2>3. QED
    BY <2>2, FS_Interval
<1>2. { k \in DOMAIN adj[i] : adj[i][k] = o } \in SUBSET DOMAIN adj[i]
  OBVIOUS
<1>3. QED
  BY <1>1, <1>2, FS_Subset, FS_CardinalityType DEF EdgesOf

(* A packet that arrives becomes one more edge between its ports. *)
LEMMA EdgesOfArrived ==
    ASSUME _multigraph_adj \in [Inputs -> Seq(Outputs)], arrivals \in Assignments,
           NEW i \in Inputs, NEW o \in Outputs
    PROVE  EdgesOf(Arrived, i, o) =
             EdgesOf(_multigraph_adj, i, o) + (IF arrivals[i] = o THEN 1 ELSE 0)
<1> DEFINE old == _multigraph_adj[i]
           oldEdges == { k \in DOMAIN old : old[k] = o }
           new == Arrived[i]
           newEdges == { k \in DOMAIN new : new[k] = o }
<1>1. old \in Seq(Outputs) /\ arrivals[i] \in Outputs \cup {None}
  BY DEF Assignments
<1>2. IsFiniteSet(oldEdges) /\ Cardinality(oldEdges) \in Nat
  BY EdgesOfType DEF EdgesOf
<1>3. EdgesOf(Arrived, i, o) = Cardinality(newEdges)
      /\ EdgesOf(_multigraph_adj, i, o) = Cardinality(oldEdges)
  BY DEF EdgesOf
<1>4. new = IF arrivals[i] = None THEN old ELSE Append(old, arrivals[i])
  BY DEF Arrived
<1> HIDE DEF old, new
<1>5. CASE arrivals[i] = None
  BY <1>2, <1>3, <1>4, <1>5, NoneIsNoPort
<1>6. CASE arrivals[i] # None
  <2>1. DOMAIN old = 1 .. Len(old) /\ Len(old) \in Nat /\ new = Append(old, arrivals[i])
    BY <1>1, <1>4, <1>6
  <2>2. /\ DOMAIN new = 1 .. Len(old) + 1
        /\ \A k \in 1 .. Len(old) + 1 :
             new[k] = IF k = Len(old) + 1 THEN arrivals[i] ELSE old[k]
    BY <1>1, <1>6, <2>1
  <2>3. CASE arrivals[i] = o
    <3>1. newEdges = oldEdges \cup {Len(old) + 1}
      BY <2>1, <2>2, <2>3
    <3>2. Len(old) + 1 \notin oldEdges
      BY <2>1
    <3> HIDE DEF oldEdges, newEdges
    <3>3. Cardinality(newEdges) = Cardinality(oldEdges) + 1
      BY <1>2, <3>1, <3>2, FS_AddElement
    <3>4. QED
      BY <1>2, <1>3, <2>3, <3>3
  <2>4. CASE arrivals[i] # o
    <3>1. newEdges = oldEdges
      BY <2>1, <2>2, <2>4
    <3> HIDE DEF oldEdges, newEdges
    <3>2. QED
      BY <1>2, <1>3, <2>4, <3>1
  <2>5. QED
    BY <2>3, <2>4
<1>7. QED
  BY <1>5, <1>6

-----------------------------------------------------------------------------
(* The invariant.                                                          *)

(* The arrivals are handed over between the calls that write and read them. *)
ColoringInv ==
    /\ queue_len \in QueueLengths
    /\ arrivals \in Assignments
    /\ phase # "schedule" => arrivals = NoMatch
    /\ _multigraph_adj \in [Inputs -> Seq(Outputs)]
    /\ WaitingAreColored

LEMMA ColoringInit == Init => ColoringInv
<1> SUFFICES ASSUME Init PROVE ColoringInv
  OBVIOUS
<1>1. /\ queue_len \in QueueLengths /\ arrivals \in Assignments /\ arrivals = NoMatch
      /\ _multigraph_adj \in [Inputs -> Seq(Outputs)]
  BY DEF Init, SwitchInit, QueueLengths, EmptyQueues, Assignments, NoMatch, NoEdges
<1>2. WaitingAreColored
  <2> SUFFICES ASSUME NEW i \in Inputs, NEW o \in Outputs
               PROVE  queue_len[i][o] <=
                        EdgesOf(_multigraph_adj, i, o) + (IF arrivals[i] = o THEN 1 ELSE 0)
    BY DEF WaitingAreColored
  <2>1. EdgesOf(_multigraph_adj, i, o) \in Nat
    BY <1>1, EdgesOfType
  <2>2. queue_len[i][o] = 0
    BY DEF Init, SwitchInit, EmptyQueues
  <2>3. QED
    BY <2>1, <2>2
<1>3. QED
  BY <1>1, <1>2 DEF ColoringInv

(* A call of schedule(), whatever it hands out and however it colours. *)
LEMMA ColoringSchedule ==
    ASSUME ColoringInv, NEW m, ScheduleWith(m), _multigraph_adj' = Arrived
    PROVE  ColoringInv'
<1>1. arrivals' = NoMatch /\ queue_len' = queue_len
  BY DEF ScheduleWith
<1>2. Arrived \in [Inputs -> Seq(Outputs)]
  BY DEF Arrived, ColoringInv, Assignments
<1>3. ASSUME NEW i \in Inputs, NEW o \in Outputs
      PROVE  queue_len'[i][o] <=
               EdgesOf(_multigraph_adj', i, o) + (IF arrivals'[i] = o THEN 1 ELSE 0)
  <2>1. queue_len[i][o] <= EdgesOf(_multigraph_adj, i, o) + (IF arrivals[i] = o THEN 1 ELSE 0)
    BY DEF ColoringInv, WaitingAreColored
  <2>2. EdgesOf(Arrived, i, o) =
          EdgesOf(_multigraph_adj, i, o) + (IF arrivals[i] = o THEN 1 ELSE 0)
    BY EdgesOfArrived DEF ColoringInv
  <2>3. EdgesOf(Arrived, i, o) \in Nat /\ queue_len[i][o] \in Nat
    BY <1>2, EdgesOfType DEF ColoringInv, QueueLengths
  <2>4. arrivals'[i] # o
    BY <1>1, NoneIsNoPort DEF NoMatch
  <2>5. QED
    BY <1>1, <2>1, <2>2, <2>3, <2>4
<1>4. WaitingAreColored'
  BY <1>3 DEF WaitingAreColored, EdgesOf
<1>5. arrivals' \in Assignments
  BY <1>1 DEF NoMatch, Assignments
<1>6. QED
  BY <1>1, <1>2, <1>4, <1>5 DEF ColoringInv

LEMMA ColoringReadInputs ==
    ASSUME ColoringInv, ReadInputs, UNCHANGED frameVars
    PROVE  ColoringInv'
<1>1. PICK arr \in Assignments : arrivals' = arr /\ queue_len' = Enqueue(queue_len, arr)
  BY DEF ReadInputs
<1>2. phase' = "schedule" /\ _multigraph_adj' = _multigraph_adj /\ arrivals = NoMatch
  BY DEF ReadInputs, frameVars, ColoringInv
<1>3. queue_len \in QueueLengths /\ _multigraph_adj \in [Inputs -> Seq(Outputs)]
  BY DEF ColoringInv
<1>4. ASSUME NEW i \in Inputs, NEW o \in Outputs
      PROVE  queue_len'[i][o] <=
               EdgesOf(_multigraph_adj', i, o) + (IF arrivals'[i] = o THEN 1 ELSE 0)
  <2>1. queue_len[i][o] <= EdgesOf(_multigraph_adj, i, o) + 0
    BY <1>2, NoneIsNoPort DEF ColoringInv, WaitingAreColored, NoMatch
  <2>2. queue_len[i][o] \in Nat /\ EdgesOf(_multigraph_adj, i, o) \in Nat
    BY <1>3, EdgesOfType DEF QueueLengths
  <2>3. queue_len'[i][o] = queue_len[i][o] + IF arr[i] = o THEN 1 ELSE 0
    BY <1>1 DEF Enqueue
  <2>4. QED
    BY <1>1, <1>2, <2>1, <2>2, <2>3
<1>5. WaitingAreColored'
  BY <1>4 DEF WaitingAreColored, EdgesOf
<1>6. queue_len' \in QueueLengths
  BY <1>1, <1>3 DEF QueueLengths, Enqueue
<1>7. QED
  BY <1>1, <1>2, <1>3, <1>5, <1>6 DEF ColoringInv

LEMMA ColoringWriteOutputs ==
    ASSUME ColoringInv, WriteOutputs, UNCHANGED frameVars
    PROVE  ColoringInv'
<1>1. /\ phase = "write_outputs" /\ arrivals' = arrivals /\ arrivals = NoMatch
      /\ queue_len' = Dequeue(queue_len, in_match) /\ _multigraph_adj' = _multigraph_adj
  BY DEF WriteOutputs, frameVars, ColoringInv
<1>2. queue_len \in QueueLengths /\ _multigraph_adj \in [Inputs -> Seq(Outputs)]
  BY DEF ColoringInv
<1>3. \A i \in Inputs, o \in Outputs :
        /\ queue_len[i][o] \in Nat
        /\ queue_len'[i][o] =
             queue_len[i][o] - IF in_match[i] = o /\ queue_len[i][o] # 0 THEN 1 ELSE 0
  BY <1>1, <1>2 DEF Dequeue, QueueLengths
<1>4. ASSUME NEW i \in Inputs, NEW o \in Outputs
      PROVE  queue_len'[i][o] <=
               EdgesOf(_multigraph_adj', i, o) + (IF arrivals'[i] = o THEN 1 ELSE 0)
  <2>1. queue_len[i][o] <= EdgesOf(_multigraph_adj, i, o) + (IF arrivals[i] = o THEN 1 ELSE 0)
    BY DEF ColoringInv, WaitingAreColored
  <2>2. queue_len[i][o] \in Nat /\ EdgesOf(_multigraph_adj, i, o) \in Nat
    BY <1>2, EdgesOfType DEF QueueLengths
  <2>3. QED
    BY <1>1, <1>3, <2>1, <2>2
<1>5. WaitingAreColored'
  BY <1>4 DEF WaitingAreColored, EdgesOf
<1>6. queue_len' \in QueueLengths
  BY <1>1, <1>3 DEF QueueLengths, Dequeue
<1>7. arrivals' \in Assignments
  BY <1>1 DEF NoMatch, Assignments
<1>8. QED
  BY <1>1, <1>2, <1>5, <1>6, <1>7 DEF ColoringInv

LEMMA ColoringStep == ColoringInv /\ [Next]_vars => ColoringInv'
<1> SUFFICES ASSUME ColoringInv, [Next]_vars PROVE ColoringInv'
  OBVIOUS
<1>1. CASE SwitchStep
  BY <1>1, ColoringReadInputs, ColoringWriteOutputs DEF SwitchStep
<1>2. CASE ScheduleInFrame
  BY <1>2, ColoringSchedule DEF ScheduleInFrame
<1>3. CASE ScheduleEndOfFrame
  BY <1>3, ColoringSchedule DEF ScheduleEndOfFrame
<1>4. CASE UNCHANGED <<switchVars, frameVars>>
  BY <1>4 DEF ColoringInv, WaitingAreColored, EdgesOf, switchVars, frameVars
<1>5. CASE Reset
  <2>1. /\ queue_len' = EmptyQueues /\ arrivals' = NoMatch /\ _multigraph_adj' = NoEdges
    BY <1>5 DEF Reset, SwitchReset
  <2>2. /\ queue_len' \in QueueLengths /\ arrivals' \in Assignments
        /\ _multigraph_adj' \in [Inputs -> Seq(Outputs)]
    BY <2>1 DEF QueueLengths, EmptyQueues, Assignments, NoMatch, NoEdges
  <2>3. ASSUME NEW i \in Inputs, NEW o \in Outputs
        PROVE  queue_len'[i][o] <=
                 EdgesOf(_multigraph_adj', i, o) + (IF arrivals'[i] = o THEN 1 ELSE 0)
    <3>1. EdgesOf(_multigraph_adj', i, o) \in Nat
      BY <2>2, EdgesOfType
    <3>2. QED
      BY <2>1, <3>1 DEF EmptyQueues
  <2>4. WaitingAreColored'
    BY <2>3 DEF WaitingAreColored, EdgesOf
  <2>5. QED
    BY <2>1, <2>2, <2>4 DEF ColoringInv
<1>6. QED
  BY <1>1, <1>2, <1>3, <1>4, <1>5 DEF Next, NoExtraColor, vars

(* Whatever colours were drawn, in every frame and between resets: a        *)
(* waiting packet has an edge, with which it will be coloured again.        *)
THEOREM ColoringKeepsWaiting == Spec => []WaitingAreColored
<1>1. ColoringInv => WaitingAreColored
  BY DEF ColoringInv
<1>2. QED
  BY <1>1, ColoringInit, ColoringStep, PTL DEF Spec

-----------------------------------------------------------------------------
(* Colours.                                                                *)

Graphs == [Inputs -> Seq(Outputs)]
Works == [stuck : BOOLEAN, sched : [Colors -> Assignments],
          in : [Inputs -> SUBSET Colors], out : [Outputs -> SUBSET Colors]]

LEMMA ColorsFinite ==
    /\ IsFiniteSet(Colors) /\ Cardinality(Colors) = BatchSize
    /\ \A S \in SUBSET Colors : /\ IsFiniteSet(S) /\ Cardinality(S) \in Nat
                                /\ 1 .. Cardinality(S) \subseteq Colors
<1>1. IsFiniteSet(Colors) /\ Cardinality(Colors) = BatchSize
  <2>1. 1 \in Int /\ BatchSize \in Nat \ {0} /\ BatchSize \in Int
    BY FrameSizePos
  <2>2. IsFiniteSet(1 .. BatchSize) /\
        Cardinality(1 .. BatchSize) = IF 1 > BatchSize THEN 0 ELSE BatchSize - 1 + 1
    BY <2>1, FS_Interval
  <2>3. QED
    BY <2>1, <2>2 DEF Colors
<1>2. ASSUME NEW S \in SUBSET Colors
      PROVE  IsFiniteSet(S) /\ Cardinality(S) \in Nat /\ 1 .. Cardinality(S) \subseteq Colors
  <2>1. IsFiniteSet(S) /\ Cardinality(S) \in Nat /\ Cardinality(S) <= Cardinality(Colors)
    BY <1>1, FS_Subset, FS_CardinalityType
  <2>2. PICK c \in Nat : c = Cardinality(S)
    BY <2>1
  <2>3. 1 .. c \subseteq Colors
    BY <1>1, <2>1, <2>2, FrameSizePos DEF Colors
  <2>4. QED
    BY <2>1, <2>2, <2>3
<1>3. QED
  BY <1>1, <1>2

LEMMA EdgesInFacts ==
    ASSUME NEW adj \in Graphs
    PROVE  /\ \A e \in EdgesIn(adj) : /\ e[1] \in Inputs /\ e[2] \in 1 .. Len(adj[e[1]])
                                      /\ e = <<e[1], e[2]>> /\ adj[e[1]][e[2]] \in Outputs
           /\ \A i \in Inputs, s \in Nat \ {0} : s <= Len(adj[i]) => <<i, s>> \in EdgesIn(adj)
           /\ \A S \in SUBSET EdgesIn(adj) : IsFiniteSet(S) /\ Cardinality(S) \in Nat
<1>1. ASSUME NEW i \in Inputs
      PROVE  /\ adj[i] \in Seq(Outputs) /\ Len(adj[i]) \in Nat /\ DOMAIN adj[i] = 1 .. Len(adj[i])
             /\ \A s \in 1 .. Len(adj[i]) : adj[i][s] \in Outputs
  <2>1. adj[i] \in Seq(Outputs)
    BY DEF Graphs
  <2>2. QED
    BY <2>1
<1>2. \A e \in EdgesIn(adj) : /\ e[1] \in Inputs /\ e[2] \in 1 .. Len(adj[e[1]])
                              /\ e = <<e[1], e[2]>> /\ adj[e[1]][e[2]] \in Outputs
  <2> SUFFICES ASSUME NEW i \in Inputs, NEW s \in DOMAIN adj[i]
               PROVE  /\ <<i, s>>[1] \in Inputs /\ <<i, s>>[2] \in 1 .. Len(adj[<<i, s>>[1]])
                      /\ <<i, s>> = <<<<i, s>>[1], <<i, s>>[2]>>
                      /\ adj[<<i, s>>[1]][<<i, s>>[2]] \in Outputs
    BY DEF EdgesIn
  <2>1. QED
    BY <1>1
<1>3. ASSUME NEW i \in Inputs, NEW s \in Nat \ {0}, s <= Len(adj[i])
      PROVE  <<i, s>> \in EdgesIn(adj)
  <2>1. s \in DOMAIN adj[i]
    BY <1>1, <1>3
  <2>2. QED
    BY <2>1 DEF EdgesIn
<1>4. IsFiniteSet(EdgesIn(adj))
  <2>1. IsFiniteSet({ {i} \X DOMAIN adj[i] : i \in Inputs })
    <3> DEFINE f == [i \in Inputs |-> {i} \X DOMAIN adj[i]]
               T == { {i} \X DOMAIN adj[i] : i \in Inputs }
    <3>1. f \in Surjection(Inputs, T)
      BY DEF Surjection
    <3> HIDE DEF f, T
    <3>2. IsFiniteSet(T)
      BY <3>1, InputsInOrder, FS_Surjection
    <3>3. QED
      BY <3>2 DEF T
  <2>2. ASSUME NEW i \in Inputs PROVE IsFiniteSet({i} \X DOMAIN adj[i])
    <3>1. 1 \in Int /\ Len(adj[i]) \in Int
      BY <1>1
    <3>2. IsFiniteSet(DOMAIN adj[i])
      BY <1>1, <3>1, FS_Interval
    <3>3. QED
      BY <3>2, FS_Singleton, FS_Product
  <2>3. QED
    BY <2>1, <2>2, FS_UNION DEF EdgesIn
<1>5. QED
  BY <1>2, <1>3, <1>4, FS_Subset, FS_CardinalityType

(* What the colouring has made of the edges of D: unless an edge could not  *)
(* be coloured, where the graph is crowded, two ports have used no more     *)
(* colours than they have edges in D.                                       *)
Colored(adj, D) ==
    { w \in Works :
        IF w.stuck THEN Crowded(adj)
        ELSE \A i \in Inputs, o \in Outputs :
               Cardinality(w.in[i] \cup w.out[o]) <= Cardinality(Touching(adj, D, i, o)) }

LEMMA ColorType ==
    ASSUME NEW w \in Works, NEW i \in Inputs, NEW o \in Outputs
    PROVE  Color(w, <<i, o>>) \in SUBSET Works
<1>1. w = [stuck |-> w.stuck, sched |-> w.sched, in |-> w.in, out |-> w.out]
      /\ w.stuck \in BOOLEAN /\ w.sched \in [Colors -> [Inputs -> Outputs \cup {None}]]
      /\ w.in \in [Inputs -> SUBSET Colors] /\ w.out \in [Outputs -> SUBSET Colors]
  BY DEF Works, Assignments
<1>2. <<i, o>>[1] = i /\ <<i, o>>[2] = o
  OBVIOUS
<1>3. FreeColors(w, <<i, o>>) \in SUBSET Colors
  BY DEF FreeColors
<1>4. [w EXCEPT !.stuck = TRUE] \in Works
  BY <1>1 DEF Works, Assignments
<1>5. ASSUME NEW c \in 1 .. Cardinality(FreeColors(w, <<i, o>>))
      PROVE  [stuck |-> FALSE,
              sched |-> [w.sched EXCEPT ![c][i] = o],
              in    |-> [w.in EXCEPT ![i] = @ \cup {c}],
              out   |-> [w.out EXCEPT ![o] = @ \cup {c}]] \in Works
  <2>1. c \in Colors
    BY <1>3, ColorsFinite
  <2>2. [w.sched EXCEPT ![c][i] = o] \in [Colors -> [Inputs -> Outputs \cup {None}]]
    BY <1>1, <2>1
  <2>3. [w.in EXCEPT ![i] = @ \cup {c}] \in [Inputs -> SUBSET Colors]
    BY <1>1, <2>1
  <2>4. [w.out EXCEPT ![o] = @ \cup {c}] \in [Outputs -> SUBSET Colors]
    BY <1>1, <2>1
  <2>5. QED
    BY <2>2, <2>3, <2>4 DEF Works, Assignments
<1>6. QED
  BY <1>2, <1>4, <1>5 DEF Color

LEMMA ColorKeeps ==
    ASSUME NEW adj \in Graphs, NEW D \in SUBSET EdgesIn(adj), NEW e \in EdgesIn(adj), e \notin D,
           NEW w \in Colored(adj, D), NEW r \in Color(w, <<e[1], adj[e[1]][e[2]]>>)
    PROVE  r \in Colored(adj, D \cup {e})
<1>1. PICK i \in Inputs, o \in Outputs : i = e[1] /\ o = adj[e[1]][e[2]]
  BY EdgesInFacts
<1>2. w \in Works /\ r \in Works /\ r \in Color(w, <<i, o>>)
  BY <1>1, ColorType DEF Colored
<1>3. <<i, o>>[1] = i /\ <<i, o>>[2] = o
  OBVIOUS
<1>4. w.in \in [Inputs -> SUBSET Colors] /\ w.out \in [Outputs -> SUBSET Colors]
  BY <1>2 DEF Works
<1>5. ~ w.stuck => \A j \in Inputs, p \in Outputs :
        Cardinality(w.in[j] \cup w.out[p]) <= Cardinality(Touching(adj, D, j, p))
  BY DEF Colored
<1>6. \A S \in SUBSET EdgesIn(adj) : IsFiniteSet(S) /\ Cardinality(S) \in Nat
  BY EdgesInFacts
<1>7. CASE w.stuck \/ FreeColors(w, <<i, o>>) = {}
  <2>1. Crowded(adj)
    <3>1. CASE w.stuck
      BY <3>1 DEF Colored
    <3>2. CASE ~ w.stuck
      <4>1. Colors \subseteq w.in[i] \cup w.out[o]
        BY <1>3, <1>7, <3>2 DEF FreeColors
      <4>2. w.in[i] \cup w.out[o] = Colors
        BY <1>4, <4>1
      <4>3. Cardinality(w.in[i] \cup w.out[o]) = BatchSize
        BY <4>2, ColorsFinite, Zenon
      <4>4. PICK X, Y : X = Touching(adj, D, i, o) /\ Y = Touching(adj, EdgesIn(adj) \ {e}, i, o)
        OBVIOUS
      <4>5. X \subseteq Y /\ Y \subseteq EdgesIn(adj)
        BY <4>4 DEF Touching
      <4>6. /\ Cardinality(X) \in Nat /\ Cardinality(Y) \in Nat
            /\ Cardinality(X) <= Cardinality(Y)
        BY <1>6, <4>5, FS_Subset
      <4>7. BatchSize <= Cardinality(X)
        BY <1>5, <3>2, <4>3, <4>4, Zenon
      <4>8. Cardinality(Y) >= BatchSize
        BY <4>6, <4>7, FrameSizePos
      <4>9. Cardinality(Touching(adj, EdgesIn(adj) \ {e}, e[1], adj[e[1]][e[2]])) >= BatchSize
        BY <1>1, <4>4, <4>8, Zenon
      <4>10. QED
        BY <4>9 DEF Crowded
    <3>3. QED
      BY <3>1, <3>2
  <2>2. r.stuck
    <3>1. r = [w EXCEPT !.stuck = TRUE]
      BY <1>2, <1>7 DEF Color
    <3>2. QED
      BY <1>2, <3>1 DEF Works
  <2>3. QED
    BY <1>2, <2>1, <2>2 DEF Colored
<1>8. CASE ~ (w.stuck \/ FreeColors(w, <<i, o>>) = {})
  <2>1. PICK c \in 1 .. Cardinality(FreeColors(w, <<i, o>>)) :
          r = [stuck |-> FALSE,
               sched |-> [w.sched EXCEPT ![c][i] = o],
               in    |-> [w.in EXCEPT ![i] = @ \cup {c}],
               out   |-> [w.out EXCEPT ![o] = @ \cup {c}]]
    BY <1>2, <1>3, <1>8 DEF Color
  <2>2. /\ ~ r.stuck /\ r.in = [w.in EXCEPT ![i] = @ \cup {c}]
        /\ r.out = [w.out EXCEPT ![o] = @ \cup {c}]
    BY <2>1
  <2>3. ASSUME NEW j \in Inputs, NEW p \in Outputs
        PROVE  Cardinality(r.in[j] \cup r.out[p]) <= Cardinality(Touching(adj, D \cup {e}, j, p))
    <3>1. PICK U, V : U = w.in[j] \cup w.out[p] /\ V = r.in[j] \cup r.out[p]
      OBVIOUS
    <3>2. PICK X, Y : X = Touching(adj, D, j, p) /\ Y = Touching(adj, D \cup {e}, j, p)
      OBVIOUS
    <3>3. /\ IsFiniteSet(U) /\ Cardinality(U) \in Nat
          /\ IsFiniteSet(X) /\ Cardinality(X) \in Nat
      <4>1. U \subseteq Colors
        BY <1>4, <3>1
      <4>2. X \subseteq EdgesIn(adj)
        BY <3>2 DEF Touching
      <4>3. QED
        BY <1>6, <4>1, <4>2, ColorsFinite
    <3>4. Cardinality(U) <= Cardinality(X)
      BY <1>5, <1>8, <3>1, <3>2, Zenon
    <3>5. CASE j = i \/ p = o
      <4>1. V \subseteq U \cup {c}
        BY <1>4, <2>2, <3>1
      <4>2. Y = X \cup {e} /\ e \notin X
        BY <1>1, <3>2, <3>5 DEF Touching
      <4>3. Cardinality(Y) = Cardinality(X) + 1
        BY <3>3, <4>2, FS_AddElement
      <4>4. /\ IsFiniteSet(U \cup {c}) /\ Cardinality(U \cup {c}) \in Nat
            /\ Cardinality(U \cup {c}) <= Cardinality(U) + 1
        <5>1. CASE c \in U
          <6>1. U \cup {c} = U
            BY <5>1
          <6>2. Cardinality(U) <= Cardinality(U) + 1
            BY <3>3
          <6>3. QED
            BY <3>3, <6>1, <6>2, Zenon
        <5>2. CASE c \notin U
          <6>1. IsFiniteSet(U \cup {c}) /\ Cardinality(U \cup {c}) = Cardinality(U) + 1
            BY <3>3, <5>2, FS_AddElement
          <6>2. QED
            BY <3>3, <6>1
        <5>3. QED
          BY <5>1, <5>2
      <4>5. Cardinality(V) \in Nat /\ Cardinality(V) <= Cardinality(U \cup {c})
        BY <4>1, <4>4, FS_Subset, FS_CardinalityType
      <4>6. Cardinality(V) <= Cardinality(Y)
        BY <3>3, <3>4, <4>3, <4>4, <4>5
      <4>7. QED
        BY <3>1, <3>2, <4>6, Zenon
    <3>6. CASE j # i /\ p # o
      <4>1. V = U
        BY <1>4, <2>2, <3>1, <3>6
      <4>2. Y = X
        BY <1>1, <3>2, <3>6 DEF Touching
      <4>3. QED
        BY <3>1, <3>2, <3>4, <4>1, <4>2, Zenon
    <3>7. QED
      BY <3>5, <3>6
  <2>4. QED
    BY <1>2, <2>2, <2>3 DEF Colored
<1>9. QED
  BY <1>7, <1>8

(* ... and so on for the edges of one rank, input by input ...              *)
RankEdges(adj, s) == { i \in Inputs : s <= Len(adj[i]) } \X {s}

(* ColorRank is a fold over the inputs, whose first n it colours the s-th   *)
(* edges of.                                                               *)
OneMore(ws, adj, i, s) ==
    IF s > Len(adj[i]) THEN ws ELSE UNION { Color(w, <<i, adj[i][s]>>) : w \in ws }

LEMMA InOrderFacts ==
    /\ Cardinality(Inputs) \in Nat /\ DOMAIN InOrder = 1 .. Cardinality(Inputs)
    /\ \A k \in 1 .. Cardinality(Inputs) : InOrder[k] = k - 1 /\ InOrder[k] \in Inputs
    /\ \A i \in Inputs : i + 1 \in 1 .. Cardinality(Inputs) /\ InOrder[i + 1] = i
    /\ Inputs \subseteq Int
<1>1. PICK N : N = Cardinality(Inputs)
  OBVIOUS
<1>2. N \in Nat /\ Inputs = 0 .. N - 1
  BY <1>1, InputsInOrder, FS_CardinalityType
<1>3. InOrder = [n \in 1 .. N |-> n - 1]
  BY <1>1 DEF InOrder
<1>4. DOMAIN InOrder = 1 .. N /\ \A k \in 1 .. N : InOrder[k] = k - 1
  BY <1>3
<1>5. ASSUME NEW k \in 1 .. N PROVE InOrder[k] \in Inputs
  BY <1>2, <1>4
<1>6. ASSUME NEW i \in Inputs PROVE i + 1 \in 1 .. N /\ InOrder[i + 1] = i
  <2>1. i \in 0 .. N - 1
    BY <1>2
  <2>2. i + 1 \in 1 .. N /\ i + 1 - 1 = i
    BY <1>2, <2>1
  <2>3. PICK k \in 1 .. N : k = i + 1
    BY <2>2
  <2>4. InOrder[k] = k - 1 /\ k - 1 = i
    BY <1>4, <2>1, <2>3
  <2>5. QED
    BY <2>2, <2>3, <2>4
<1>7. Inputs \subseteq Int
  BY <1>2
<1>8. QED
  BY <1>1, <1>2, <1>4, <1>5, <1>6, <1>7

LEMMA OneMoreType ==
    ASSUME NEW adj \in Graphs, NEW s \in Nat \ {0}, NEW i \in Inputs, NEW ws \in SUBSET Works
    PROVE  OneMore(ws, adj, i, s) \in SUBSET Works
<1>1. CASE s > Len(adj[i])
  BY <1>1 DEF OneMore
<1>2. CASE ~ s > Len(adj[i])
  <2>1. adj[i][s] \in Outputs
    <3>1. adj[i] \in Seq(Outputs)
      BY DEF Graphs
    <3>2. s \in 1 .. Len(adj[i])
      BY <1>2, <3>1
    <3>3. QED
      BY <3>1, <3>2
  <2>2. \A w \in ws : Color(w, <<i, adj[i][s]>>) \in SUBSET Works
    BY <2>1, ColorType
  <2>3. QED
    BY <1>2, <2>2 DEF OneMore
<1>3. QED
  BY <1>1, <1>2

RankFolds(it, works, adj, s, n) ==
    /\ ColorRank(works, adj, s) = it[1 .. n]
    /\ it[{}] = works
    /\ \A T \in (SUBSET (1 .. n)) \ {{}} :
         it[T] = OneMore(it[T \ {Greatest(T)}], adj, InOrder[Greatest(T)], s)

LEMMA RankFold ==
    ASSUME NEW adj \in Graphs, NEW s \in Nat \ {0}, NEW works \in SUBSET Works, NEW n \in Nat,
           n = Cardinality(Inputs)
    PROVE  \E it : RankFolds(it, works, adj, s, n)
<1>1. /\ DOMAIN InOrder = 1 .. n
      /\ \A k \in 1 .. n : InOrder[k] \in Inputs
  BY InOrderFacts
<1> DEFINE A == SUBSET Works
           Put(k, ws) == IF s > Len(adj[InOrder[k]]) THEN ws
                         ELSE UNION { Color(w, <<InOrder[k], adj[InOrder[k]][s]>>) : w \in ws }
           Body(h, T) == IF T = {} THEN works ELSE Put(Max(T), h[T \ {Max(T)}])
           F == [k \in 1 .. n |-> [ws \in A |-> Put(k, ws)]]
<1>2. \A k, ws : Put(k, ws) = OneMore(ws, adj, InOrder[k], s)
  BY DEF OneMore
<1>3. ASSUME NEW k \in 1 .. n, NEW ws \in A PROVE Put(k, ws) \in A
  <2>1. PICK i \in Inputs : i = InOrder[k]
    BY <1>1
  <2>2. OneMore(ws, adj, i, s) \in A
    BY OneMoreType
  <2>3. QED
    BY <1>2, <2>1, <2>2
<1> HIDE DEF A, Put
<1>4. works \in A
  BY DEF A
<1>5. \E it : it = [T \in SUBSET DOMAIN InOrder |-> Body(it, T)]
  <2>1. IsStep(n, A, F)
    BY <1>3 DEF IsStep
  <2>2. PICK it : it \in [SUBSET (1 .. n) -> A] /\ LeftFoldIs(it, n, works, F)
    <3> HIDE DEF F
    <3> QED
      BY <1>4, <2>1, LeftFoldExists
  <2>3. ASSUME NEW T \in SUBSET (1 .. n) PROVE it[T] = Body(it, T)
    <3>1. CASE T = {}
      BY <2>2, <3>1 DEF LeftFoldIs
    <3>2. CASE T # {}
      <4>1. Greatest(T) \in 1 .. n /\ Max(T) = Greatest(T)
        BY <3>2, GreatestFacts DEF Max, Greatest
      <4>2. it[T \ {Greatest(T)}] \in A
        BY <2>2
      <4>3. it[T] = F[Greatest(T)][it[T \ {Greatest(T)}]]
        BY <2>2, <3>2 DEF LeftFoldIs
      <4>4. QED
        BY <3>2, <4>1, <4>2, <4>3
    <3>3. QED
      BY <3>1, <3>2
  <2> HIDE DEF Body
  <2>4. it = [T \in SUBSET DOMAIN InOrder |-> Body(it, T)]
    BY <1>1, <2>2, <2>3
  <2>5. QED
    BY <2>4
<1>6. PICK it : /\ ColorRank(works, adj, s) = it[DOMAIN InOrder]
                /\ it = [T \in SUBSET DOMAIN InOrder |-> Body(it, T)]
  BY <1>5 DEF ColorRank, FoldLeft, MapThenFoldSet, Put
<1>7. it[{}] = works
  BY <1>1, <1>6
<1>8. ASSUME NEW T \in (SUBSET (1 .. n)) \ {{}}
      PROVE  it[T] = OneMore(it[T \ {Greatest(T)}], adj, InOrder[Greatest(T)], s)
  <2>1. Greatest(T) \in 1 .. n /\ Max(T) = Greatest(T)
    BY GreatestFacts DEF Max, Greatest
  <2>2. it[T] = Put(Greatest(T), it[T \ {Greatest(T)}])
    BY <1>1, <1>6, <2>1
  <2>3. QED
    BY <1>2, <2>2
<1>9. QED
  BY <1>1, <1>6, <1>7, <1>8 DEF RankFolds

LEMMA RankKeeps ==
    ASSUME NEW adj \in Graphs, NEW s \in Nat \ {0}, NEW D \in SUBSET EdgesIn(adj),
           D \cap RankEdges(adj, s) = {}, NEW works \in SUBSET Colored(adj, D)
    PROVE  ColorRank(works, adj, s) \in SUBSET Colored(adj, D \cup RankEdges(adj, s))
<1>1. PICK n \in Nat : n = Cardinality(Inputs)
  BY InOrderFacts
<1>2. works \in SUBSET Works
  BY DEF Colored
<1>0. PICK it : RankFolds(it, works, adj, s, n)
  BY <1>1, <1>2, RankFold
<1>3. /\ ColorRank(works, adj, s) = it[1 .. n]
      /\ it[{}] = works
      /\ \A T \in (SUBSET (1 .. n)) \ {{}} :
           it[T] = OneMore(it[T \ {Greatest(T)}], adj, InOrder[Greatest(T)], s)
  BY <1>0 DEF RankFolds
<1> DEFINE done(T) == { e \in RankEdges(adj, s) : e[1] + 1 \in T }
           A == [T \in SUBSET (1 .. n) |-> SUBSET Colored(adj, D \cup done(T))]
<1>4. it[{}] \in A[{}]
  <2>1. D \cup done({}) = D
    OBVIOUS
  <2> HIDE DEF done
  <2>2. A[{}] = SUBSET Colored(adj, D)
    BY <2>1
  <2>3. QED
    BY <1>3, <2>2
<1>5. ASSUME NEW T \in (SUBSET (1 .. n)) \ {{}}, it[T \ {Greatest(T)}] \in A[T \ {Greatest(T)}]
      PROVE  it[T] \in A[T]
  <2>1. PICK m \in T : m = Greatest(T)
    BY GreatestFacts
  <2>2. PICK i \in Inputs : i = InOrder[m] /\ m = i + 1
    BY <1>1, InOrderFacts
  <2>3. PICK ws \in SUBSET Colored(adj, D \cup done(T \ {m})) : ws = it[T \ {m}]
    BY <1>5, <2>1
  <2>4. it[T] = OneMore(ws, adj, i, s)
    BY <1>3, <2>1, <2>2, <2>3
  <2>5. \A e \in RankEdges(adj, s) : /\ e[1] \in Inputs /\ e[2] = s /\ e = <<e[1], s>>
                                     /\ s <= Len(adj[e[1]]) /\ e \in EdgesIn(adj)
    BY EdgesInFacts DEF RankEdges
  <2>6. Inputs \subseteq Int
    BY InOrderFacts
  <2>7. CASE s > Len(adj[i])
    <3>1. it[T] = ws
      BY <2>4, <2>7 DEF OneMore
    <3>2. done(T) = done(T \ {m})
      <4>1. \A e \in RankEdges(adj, s) : e[1] # i
        <5>1. Len(adj[i]) \in Nat
          BY DEF Graphs
        <5>2. QED
          BY <2>5, <2>7, <5>1
      <4>2. \A e \in RankEdges(adj, s) : e[1] + 1 # m
        BY <2>2, <2>5, <2>6, <4>1
      <4>3. QED
        BY <4>2
    <3> HIDE DEF done
    <3>3. QED
      BY <2>3, <3>1, <3>2
  <2>8. CASE ~ s > Len(adj[i])
    <3>1. it[T] = UNION { Color(w, <<i, adj[i][s]>>) : w \in ws }
      BY <2>4, <2>8 DEF OneMore
    <3>2. PICK e \in EdgesIn(adj) : e = <<i, s>> /\ e \in RankEdges(adj, s)
      <4>1. s <= Len(adj[i])
        <5>1. Len(adj[i]) \in Nat
          BY DEF Graphs
        <5>2. QED
          BY <2>8, <5>1
      <4>2. <<i, s>> \in EdgesIn(adj)
        BY <4>1, EdgesInFacts
      <4>3. QED
        BY <4>1, <4>2 DEF RankEdges
    <3>3. e[1] = i /\ e[2] = s
      BY <3>2
    <3>4. done(T) = done(T \ {m}) \cup {e}
      <4>1. ASSUME NEW f \in RankEdges(adj, s), f[1] + 1 = m PROVE f = e
        <5>1. PICK x \in Int, y \in Int : x = f[1] /\ y = i
          BY <2>5, <2>6
        <5>2. x = y
          BY <2>2, <4>1, <5>1
        <5>3. QED
          BY <2>5, <3>2, <5>1, <5>2
      <4>2. e[1] + 1 = m
        BY <2>2, <3>3
      <4>3. QED
        BY <3>2, <4>1, <4>2
    <3>5. e \notin D \cup done(T \ {m})
      <4>1. e[1] + 1 = m
        BY <2>2, <3>3
      <4>2. QED
        BY <3>2, <4>1
    <3>6. D \cup done(T \ {m}) \in SUBSET EdgesIn(adj)
      BY <2>5
    <3> HIDE DEF done
    <3>7. \A w \in ws : Color(w, <<i, adj[i][s]>>) \subseteq Colored(adj, (D \cup done(T \ {m})) \cup {e})
      <4> SUFFICES ASSUME NEW w \in ws, NEW r \in Color(w, <<i, adj[i][s]>>)
                   PROVE  r \in Colored(adj, (D \cup done(T \ {m})) \cup {e})
        OBVIOUS
      <4>1. PICK E \in SUBSET EdgesIn(adj) : E = D \cup done(T \ {m})
        BY <3>6
      <4>2. w \in Colored(adj, E) /\ e \notin E /\ r \in Color(w, <<e[1], adj[e[1]][e[2]]>>)
        BY <2>3, <3>3, <3>5, <4>1
      <4>3. r \in Colored(adj, E \cup {e})
        BY <4>2, ColorKeeps
      <4>4. QED
        BY <4>1, <4>3
    <3>8. (D \cup done(T \ {m})) \cup {e} = D \cup done(T)
      BY <3>4
    <3>9. it[T] \subseteq Colored(adj, D \cup done(T))
      BY <3>1, <3>7, <3>8
    <3>10. QED
      BY <3>9
  <2>9. QED
    BY <2>7, <2>8
<1>6. RankEdges(adj, s) = done(1 .. n)
  <2>1. \A e \in RankEdges(adj, s) : e[1] + 1 \in 1 .. n
    BY <1>1, InOrderFacts DEF RankEdges
  <2>2. QED
    BY <2>1
<1>7. it[1 .. n] \in A[1 .. n]
  <2> HIDE DEF A
  <2>1. QED
    BY <1>4, <1>5, FoldKeeps
<1>8. A[1 .. n] = SUBSET Colored(adj, D \cup RankEdges(adj, s))
  <2>1. 1 .. n \in SUBSET (1 .. n)
    OBVIOUS
  <2> HIDE DEF done
  <2>2. QED
    BY <1>6, <2>1
<1>9. QED
  BY <1>3, <1>7, <1>8

(* ... and rank by rank.                                                    *)
LEMMA MaxDegreeNat ==
    ASSUME NEW adj \in Graphs
    PROVE  MaxDegree(adj) \in Nat
<1>1. ASSUME NEW i \in Inputs PROVE Len(adj[i]) \in Nat
  <2>1. adj[i] \in Seq(Outputs)
    BY DEF Graphs
  <2>2. QED
    BY <2>1
<1> DEFINE P == { T \in SUBSET Inputs : \E b \in Nat : \A i \in T : Len(adj[i]) <= b }
<1>2. ASSUME NEW T \in SUBSET Inputs, \A x \in T : T \ {x} \in P PROVE T \in P
  <2>1. CASE T = {}
    <3>1. 0 \in Nat
      OBVIOUS
    <3>2. QED
      BY <2>1, <3>1
  <2>2. CASE T # {}
    <3>1. PICK x \in T : TRUE
      BY <2>2
    <3>2. T \ {x} \in P
      BY <1>2, <3>1
    <3>3. PICK b \in Nat : \A i \in T \ {x} : Len(adj[i]) <= b
      BY <3>2
    <3>4. PICK c \in Nat : c = Len(adj[x])
      BY <1>1
    <3>5. b + c \in Nat /\ \A i \in T : Len(adj[i]) <= b + c
      <4>1. ASSUME NEW i \in T PROVE Len(adj[i]) <= b + c
        <5>1. PICK k \in Nat : k = Len(adj[i])
          BY <1>1
        <5>2. k <= b \/ k = c
          BY <3>3, <3>4, <5>1
        <5>3. QED
          BY <5>1, <5>2
      <4>2. QED
        BY <4>1
    <3>6. QED
      BY <3>5
  <2>3. QED
    BY <2>1, <2>2
<1>3. Inputs \in P
  <2> HIDE DEF P
  <2>1. SUBSET Inputs \subseteq P
    BY <1>2, InputsInOrder, SubsetInduction
  <2>2. QED
    BY <2>1
<1>4. PICK b \in Nat : \A i \in Inputs : Len(adj[i]) <= b
  BY <1>3
<1>5. PICK S : S = {0} \cup { Len(adj[i]) : i \in Inputs }
  OBVIOUS
<1>6. S \in SUBSET (0 .. b) /\ S # {}
  <2>1. ASSUME NEW x \in S PROVE x \in 0 .. b
    <3>1. CASE x = 0
      BY <3>1
    <3>2. CASE x # 0
      <4>1. PICK i \in Inputs : x = Len(adj[i])
        BY <1>5, <3>2
      <4>2. x \in Nat /\ x <= b
        BY <1>1, <1>4, <4>1
      <4>3. QED
        BY <4>2
    <3>3. QED
      BY <3>1, <3>2
  <2>2. QED
    BY <1>5, <2>1
<1>7. PICK n \in S : \A m \in S : m <= n
  BY <1>6, GreatestNat
<1>8. \A m \in S : n >= m
  BY <1>6, <1>7
<1>9. MaxDegree(adj) = CHOOSE x \in S : \A y \in S : x >= y
  BY <1>5 DEF MaxDegree, Max
<1>10. MaxDegree(adj) \in S
  BY <1>7, <1>8, <1>9
<1>11. MaxDegree(adj) \in 0 .. b
  BY <1>6, <1>10
<1>12. QED
  BY <1>11

LEMMA ColorRankType ==
    ASSUME NEW adj \in Graphs, NEW s \in Nat \ {0}, NEW works \in SUBSET Works
    PROVE  ColorRank(works, adj, s) \in SUBSET Works
<1>1. PICK n \in Nat : n = Cardinality(Inputs)
  BY InOrderFacts
<1>2. PICK it : RankFolds(it, works, adj, s, n)
  BY <1>1, RankFold
<1>3. /\ ColorRank(works, adj, s) = it[1 .. n] /\ it[{}] = works
      /\ \A T \in (SUBSET (1 .. n)) \ {{}} :
           it[T] = OneMore(it[T \ {Greatest(T)}], adj, InOrder[Greatest(T)], s)
  BY <1>2 DEF RankFolds
<1> DEFINE A == SUBSET Works
<1>4. ASSUME NEW T \in (SUBSET (1 .. n)) \ {{}}, it[T \ {Greatest(T)}] \in A PROVE it[T] \in A
  <2>1. Greatest(T) \in 1 .. n
    BY GreatestFacts
  <2>2. PICK i \in Inputs : i = InOrder[Greatest(T)]
    BY <1>1, <2>1, InOrderFacts
  <2>3. PICK ws \in A : ws = it[T \ {Greatest(T)}]
    BY <1>4
  <2>4. OneMore(ws, adj, i, s) \in A
    BY OneMoreType
  <2>5. QED
    BY <1>3, <2>2, <2>3, <2>4
<1>5. it[{}] \in A
  BY <1>3
<1> HIDE DEF A
<1>6. it[1 .. n] \in A
  BY <1>4, <1>5, FoldStays
<1>7. QED
  BY <1>3, <1>6 DEF A

LEMMA ColoringsCrowded ==
    ASSUME NEW adj \in Graphs, NEW w \in Colorings(adj), w.stuck
    PROVE  Crowded(adj)
<1>1. PICK d \in Nat : d = MaxDegree(adj)
  BY MaxDegreeNat
<1>2. PICK perm \in SetToSeqs(1 .. d) :
        w \in FoldLeft(LAMBDA works, s : ColorRank(works, adj, s), {Uncolored}, perm)
  BY <1>1, Zenon DEF Colorings
<1>3. PICK n \in Nat : n = Cardinality(1 .. d)
  <2>1. 1 \in Int /\ d \in Int
    OBVIOUS
  <2>2. QED
    BY <2>1, FS_Interval, FS_CardinalityType
<1>4. /\ perm \in [1 .. n -> 1 .. d] /\ DOMAIN perm = 1 .. n
      /\ \A j, k \in 1 .. n : perm[j] = perm[k] => j = k
  BY <1>3 DEF SetToSeqs
<1>5. \A k \in 1 .. n : perm[k] \in Nat \ {0}
  BY <1>4
<1> DEFINE A == SUBSET Works
           Put(k, ws) == ColorRank(ws, adj, perm[k])
           Body(h, T) == IF T = {} THEN {Uncolored} ELSE Put(Max(T), h[T \ {Max(T)}])
           F == [k \in 1 .. n |-> [ws \in A |-> Put(k, ws)]]
<1>6. Uncolored \in Works /\ ~ Uncolored.stuck
      /\ \A i \in Inputs, o \in Outputs : Uncolored.in[i] = {} /\ Uncolored.out[o] = {}
  BY DEF Uncolored, Works, Assignments, NoMatch
<1>7. ASSUME NEW k \in 1 .. n, NEW ws \in A PROVE Put(k, ws) \in A
  BY <1>5, ColorRankType
<1> DEFINE Ranks(T) == UNION { RankEdges(adj, perm[k]) : k \in T }
           C == [T \in SUBSET (1 .. n) |-> SUBSET Colored(adj, Ranks(T))]
<1> HIDE DEF A, Put, C, Ranks
<1>8. {Uncolored} \in A
  BY <1>6 DEF A
<1>9. \E it : it = [T \in SUBSET DOMAIN perm |-> Body(it, T)]
  <2>1. IsStep(n, A, F)
    BY <1>7 DEF IsStep
  <2>2. PICK base \in A : base = {Uncolored}
    BY <1>8
  <2>3. PICK it : it \in [SUBSET (1 .. n) -> A] /\ LeftFoldIs(it, n, base, F)
    <3> HIDE DEF F
    <3> QED
      BY <2>1, LeftFoldExists
  <2>4. ASSUME NEW T \in SUBSET (1 .. n) PROVE it[T] = Body(it, T)
    <3>1. CASE T = {}
      BY <2>2, <2>3, <3>1 DEF LeftFoldIs
    <3>2. CASE T # {}
      <4>1. Greatest(T) \in 1 .. n /\ Max(T) = Greatest(T)
        BY <3>2, GreatestFacts DEF Max, Greatest
      <4>2. it[T \ {Greatest(T)}] \in A
        BY <2>3
      <4>3. it[T] = F[Greatest(T)][it[T \ {Greatest(T)}]]
        BY <2>3, <3>2 DEF LeftFoldIs
      <4>4. QED
        BY <3>2, <4>1, <4>2, <4>3
    <3>3. QED
      BY <3>1, <3>2
  <2> HIDE DEF Body
  <2>5. it = [T \in SUBSET DOMAIN perm |-> Body(it, T)]
    BY <1>4, <2>3, <2>4
  <2>6. QED
    BY <2>5
<1>10. PICK it :
         /\ FoldLeft(LAMBDA works, s : ColorRank(works, adj, s), {Uncolored}, perm)
              = it[DOMAIN perm]
         /\ it = [T \in SUBSET DOMAIN perm |-> Body(it, T)]
  BY <1>9 DEF FoldLeft, MapThenFoldSet, Put
<1>11. ASSUME NEW T \in SUBSET (1 .. n) PROVE Ranks(T) \in SUBSET EdgesIn(adj)
  <2>1. \A k \in T : RankEdges(adj, perm[k]) \subseteq EdgesIn(adj)
    BY <1>5, EdgesInFacts DEF RankEdges
  <2>2. QED
    BY <2>1 DEF Ranks
<1>12. it[{}] \in C[{}]
  <2>1. Ranks({}) = {}
    BY DEF Ranks
  <2>2. it[{}] = {Uncolored}
    BY <1>4, <1>10
  <2>3. Uncolored \in Colored(adj, {})
    <3>1. ASSUME NEW i \in Inputs, NEW o \in Outputs
          PROVE  Cardinality(Uncolored.in[i] \cup Uncolored.out[o])
                   <= Cardinality(Touching(adj, {}, i, o))
      <4>1. Uncolored.in[i] \cup Uncolored.out[o] = {} /\ Touching(adj, {}, i, o) = {}
        BY <1>6 DEF Touching
      <4>2. Cardinality({}) <= Cardinality({})
        BY FS_EmptySet
      <4>3. QED
        BY <4>1, <4>2, Zenon
    <3>2. QED
      BY <1>6, <3>1 DEF Colored
  <2>4. C[{}] = SUBSET Colored(adj, {})
    BY <2>1 DEF C
  <2>5. QED
    BY <2>2, <2>3, <2>4
<1>13. ASSUME NEW T \in (SUBSET (1 .. n)) \ {{}}, it[T \ {Greatest(T)}] \in C[T \ {Greatest(T)}]
       PROVE  it[T] \in C[T]
  <2>1. PICK m \in T : m = Greatest(T) /\ Max(T) = Greatest(T)
    BY GreatestFacts DEF Max, Greatest
  <2>2. PICK D \in SUBSET EdgesIn(adj), s \in Nat \ {0} : D = Ranks(T \ {m}) /\ s = perm[m]
    BY <1>5, <1>11
  <2>3. PICK ws \in SUBSET Colored(adj, D) : ws = it[T \ {m}]
    BY <1>13, <2>1, <2>2 DEF C
  <2>4. it[T] = ColorRank(ws, adj, s)
    BY <1>4, <1>10, <2>1, <2>2, <2>3 DEF Put
  <2>5. D \cap RankEdges(adj, s) = {}
    <3>1. \A k \in T \ {m} : perm[k] # s
      BY <1>4, <2>1, <2>2
    <3>2. \A k \in T \ {m} : RankEdges(adj, perm[k]) \cap RankEdges(adj, s) = {}
      BY <3>1 DEF RankEdges
    <3>3. QED
      BY <2>2, <3>2 DEF Ranks
  <2>6. it[T] \in SUBSET Colored(adj, D \cup RankEdges(adj, s))
    BY <2>4, <2>5, RankKeeps
  <2>7. D \cup RankEdges(adj, s) = Ranks(T)
    BY <2>1, <2>2 DEF Ranks
  <2>8. QED
    BY <2>6, <2>7 DEF C
<1> HIDE DEF Body
<1>14. it[1 .. n] \in C[1 .. n]
  BY <1>12, <1>13, FoldKeeps
<1>15. C[1 .. n] = SUBSET Colored(adj, Ranks(1 .. n))
  BY DEF C
<1>16. w \in Colored(adj, Ranks(1 .. n))
  BY <1>2, <1>4, <1>10, <1>14, <1>15
<1>17. QED
  BY <1>16 DEF Colored

-----------------------------------------------------------------------------
(* The assertion fails at the end of a frame, from a graph that nothing     *)
(* changes any more.                                                       *)
CrowdedInv == ColoringInv /\ AbortsOnlyIfCrowded

LEMMA CrowdedStep == CrowdedInv /\ [Next]_vars => CrowdedInv'
<1> SUFFICES ASSUME CrowdedInv, [Next]_vars PROVE CrowdedInv'
  OBVIOUS
<1>1. ColoringInv' /\ Arrived \in Graphs
  <2>1. ColoringInv'
    BY ColoringStep DEF CrowdedInv
  <2>2. Arrived \in Graphs
    BY DEF Arrived, Graphs, CrowdedInv, ColoringInv, Assignments
  <2>3. QED
    BY <2>1, <2>2
<1>2. CASE ~ aborted /\ NoExtraColor
  <2>1. PICK work \in Colorings(Arrived) : work.stuck
    BY <1>2 DEF NoExtraColor
  <2>2. Crowded(Arrived)
    <3>1. PICK adj \in Graphs : adj = Arrived
      BY <1>1
    <3>2. work \in Colorings(adj)
      BY <2>1, <3>1
    <3>3. Crowded(adj)
      BY <2>1, <3>2, ColoringsCrowded
    <3>4. QED
      BY <3>1, <3>3
  <2>3. arrivals' = arrivals /\ _multigraph_adj' = _multigraph_adj
    BY <1>2 DEF NoExtraColor, switchVars, frameVars
  <2>4. Arrived' = Arrived
    BY <2>3 DEF Arrived
  <2>5. Crowded(Arrived)'
    BY <2>2, <2>4, Zenon DEF Crowded, EdgesIn, Touching
  <2>6. QED
    BY <1>1, <2>5 DEF CrowdedInv, AbortsOnlyIfCrowded
<1>3. CASE ~ aborted /\ (SwitchStep \/ ScheduleInFrame \/ ScheduleEndOfFrame \/ Reset)
  <2>1. aborted' = aborted
    BY <1>3 DEF SwitchStep, ScheduleInFrame, ScheduleEndOfFrame, Reset
  <2>2. QED
    BY <1>1, <1>3, <2>1 DEF CrowdedInv, AbortsOnlyIfCrowded
<1>4. CASE UNCHANGED vars
  <2>1. arrivals' = arrivals /\ _multigraph_adj' = _multigraph_adj /\ aborted' = aborted
    BY <1>4 DEF vars, switchVars, frameVars
  <2>2. Arrived' = Arrived
    BY <2>1 DEF Arrived
  <2>3. AbortsOnlyIfCrowded'
    BY <2>1, <2>2, Zenon DEF CrowdedInv, AbortsOnlyIfCrowded, Crowded, EdgesIn, Touching
  <2>4. QED
    BY <1>1, <2>3 DEF CrowdedInv
<1>5. QED
  BY <1>2, <1>3, <1>4 DEF Next

(* The assertion on the extra colour fails only where the other edges of an *)
(* edge's two ports are as many as the frame has slots: a number drawn in   *)
(* place of a colour uses up no more than one colour of a port.             *)
THEOREM ColoringAbortsOnlyIfCrowded == Spec => []AbortsOnlyIfCrowded
<1>1. Init => CrowdedInv
  BY ColoringInit DEF Init, CrowdedInv, AbortsOnlyIfCrowded
<1>2. CrowdedInv => AbortsOnlyIfCrowded
  BY DEF CrowdedInv
<1>3. QED
  BY <1>1, <1>2, CrowdedStep, PTL DEF Spec
=============================================================================
