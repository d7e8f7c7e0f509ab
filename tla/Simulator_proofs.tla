-------------------------- MODULE Simulator_proofs --------------------------
(***************************************************************************)
(* What the simulator counts and measures on the packet-level switch, and  *)
(* what a scheduler sees of that switch, for every number of ports, every  *)
(* effort and every threshold.                                             *)
(***************************************************************************)
EXTENDS Simulator, InductionLemmas, SequenceTheorems

-----------------------------------------------------------------------------
(* Sums, first as the community modules define them.                       *)

LEMMA SumIsTotal ==
    ASSUME NEW S, IsFiniteSet(S), NEW f, S = DOMAIN f, \A x \in S : f[x] \in Int
    PROVE  SumFunction(f) = Total(f, S)
<1> DEFINE first(T) == CHOOSE x \in T : TRUE
           Body(h, T) == IF T = {} THEN 0 ELSE f[first(T)] + h[T \ {first(T)}]
<1>1. \A T \in (SUBSET S) \ {{}} : first(T) \in T
  OBVIOUS
<1>2. PICK g : SumsUp(g, S, f) /\ Total(f, S) = g[S]
  BY TotalIs
<1>3. /\ g = [T \in SUBSET S |-> IF T = {} THEN 0 ELSE g[T \ {first(T)}] + f[first(T)]]
      /\ \A T \in SUBSET S : g[T] \in Int
  <2>1. \A T \in SUBSET S : g[T] \in Int
    BY <1>2, SumsFacts
  <2>2. QED
    BY <1>2, <2>1 DEF SumsUp
<1>4. \E it : it = [T \in SUBSET S |-> Body(it, T)]
  <2>1. \A T \in SUBSET S : g[T] = Body(g, T)
    <3> SUFFICES ASSUME NEW T \in SUBSET S, T # {} PROVE g[T] = Body(g, T)
      BY <1>3
    <3>1. g[T] = g[T \ {first(T)}] + f[first(T)] /\ first(T) \in S
      BY <1>1, <1>3
    <3>2. f[first(T)] \in Int /\ g[T \ {first(T)}] \in Int
      BY <1>3, <3>1
    <3> HIDE DEF first
    <3>3. QED
      BY <3>1, <3>2
  <2> HIDE DEF Body
  <2>2. g = [T \in SUBSET S |-> Body(g, T)]
    BY <1>3, <2>1
  <2>3. QED
    BY <2>2
<1>5. PICK it : /\ SumFunction(f) = it[S]
                /\ it = [T \in SUBSET S |-> Body(it, T)]
  <2>1. \E it : it = [T \in SUBSET DOMAIN f |-> Body(it, T)]
    BY <1>4
  <2>2. \E it : SumFunction(f) = it[DOMAIN f] /\ it = [T \in SUBSET DOMAIN f |-> Body(it, T)]
    BY <2>1 DEF SumFunction, SumFunctionOnSet, FoldFunctionOnSet, MapThenFoldSet
  <2>3. QED
    BY <2>2
<1> DEFINE P == { T \in SUBSET S : it[T] = g[T] }
<1>6. ASSUME NEW T \in SUBSET S, \A x \in T : T \ {x} \in P PROVE T \in P
  <2>1. CASE T = {}
    BY <1>3, <1>5, <2>1
  <2>2. CASE T # {}
    <3>1. first(T) \in T /\ first(T) \in S
      BY <1>1, <2>2
    <3>2. it[T \ {first(T)}] = g[T \ {first(T)}]
      BY <1>6, <3>1
    <3>3. it[T] = f[first(T)] + it[T \ {first(T)}]
      BY <1>5, <2>2
    <3>4. g[T] = g[T \ {first(T)}] + f[first(T)]
      BY <1>3, <2>2
    <3>5. f[first(T)] \in Int /\ g[T \ {first(T)}] \in Int
      BY <1>3, <3>1
    <3>6. it[T] = g[T]
      <4> HIDE DEF first
      <4> QED
        BY <3>2, <3>3, <3>4, <3>5
    <3>7. QED
      BY <3>6
  <2>3. QED
    BY <2>1, <2>2
<1>7. S \in P
  <2>1. SUBSET S \subseteq P
    <3>1. PICK D : D = S
      OBVIOUS
    <3>2. IsFiniteSet(D) /\ \A T \in SUBSET D : (\A x \in T : T \ {x} \in P) => T \in P
      BY <1>6, <3>1
    <3> HIDE DEF P
    <3>3. SUBSET D \subseteq P
      BY <3>2, SubsetInduction
    <3>4. QED
      BY <3>1, <3>3
  <2>2. QED
    BY <2>1
<1>8. QED
  BY <1>2, <1>5, <1>7

Matrices == [Inputs -> [Outputs -> Int]]

(* The sum over the VOQs, and by what it grows.                            *)
LEMMA QueuesSum ==
    ASSUME NEW f \in Matrices
    PROVE  /\ SumOverQueues(f) = Total([i \in Inputs |-> Total(f[i], Outputs)], Inputs)
           /\ \A i \in Inputs : Total(f[i], Outputs) \in Int
           /\ SumOverQueues(f) \in Int
<1>1. IsFiniteSet(Inputs) /\ IsFiniteSet(Outputs)
  BY PortsAreFinite
<1>2. ASSUME NEW i \in Inputs
      PROVE  SumFunction(f[i]) = Total(f[i], Outputs) /\ Total(f[i], Outputs) \in Int
  <2>1. Outputs = DOMAIN f[i] /\ \A o \in Outputs : f[i][o] \in Int
    BY DEF Matrices
  <2>2. QED
    BY <1>1, <2>1, SumIsTotal, TotalFacts
<1> DEFINE row == [i \in Inputs |-> Total(f[i], Outputs)]
<1>3. Inputs = DOMAIN row /\ \A i \in Inputs : row[i] \in Int
  BY <1>2
<1>4. row = [i \in Inputs |-> SumFunction(f[i])]
  BY <1>2
<1>5. SumOverQueues(f) = SumFunction(row)
  <2> HIDE DEF row
  <2> QED
    BY <1>4 DEF SumOverQueues
<1>6. SumFunction(row) = Total(row, Inputs) /\ Total(row, Inputs) \in Int
  <2> HIDE DEF row
  <2> QED
    BY <1>1, <1>3, SumIsTotal, TotalFacts
<1>7. QED
  BY <1>2, <1>5, <1>6

LEMMA QueuesPlus ==
    ASSUME NEW f \in Matrices, NEW d \in Matrices, NEW e \in Matrices,
           \A i \in Inputs, o \in Outputs : e[i][o] = f[i][o] + d[i][o]
    PROVE  SumOverQueues(e) = SumOverQueues(f) + SumOverQueues(d)
<1> DEFINE row(h) == [i \in Inputs |-> Total(h[i], Outputs)]
<1>1. IsFiniteSet(Inputs) /\ IsFiniteSet(Outputs)
  BY PortsAreFinite
<1>2. ASSUME NEW i \in Inputs
      PROVE  row(f)[i] \in Int /\ row(d)[i] \in Int /\ row(e)[i] = row(f)[i] + row(d)[i]
  <2>1. Total(f[i], Outputs) \in Int /\ Total(d[i], Outputs) \in Int
    BY QueuesSum
  <2>2. \A o \in Outputs : f[i][o] \in Int /\ d[i][o] \in Int /\ e[i][o] = f[i][o] + d[i][o]
    BY DEF Matrices
  <2>3. Total(e[i], Outputs) = Total(f[i], Outputs) + Total(d[i], Outputs)
    BY <1>1, <2>2, TotalPlus
  <2>4. QED
    BY <2>1, <2>3
<1>3. /\ SumOverQueues(e) = Total(row(e), Inputs)
      /\ SumOverQueues(f) = Total(row(f), Inputs)
      /\ SumOverQueues(d) = Total(row(d), Inputs)
  BY QueuesSum
<1> HIDE DEF row
<1>4. QED
  BY <1>1, <1>2, <1>3, TotalPlus

(* One for each input that has an output in m. *)
LEMMA QueuesOfAssignment ==
    ASSUME NEW m \in Assignments, NEW f \in Matrices,
           \A i \in Inputs, o \in Outputs : f[i][o] = IF m[i] = o THEN 1 ELSE 0
    PROVE  SumOverQueues(f) = Cardinality({ i \in Inputs : m[i] # None })
<1> DEFINE row == [i \in Inputs |-> Total(f[i], Outputs)]
           U == { i \in Inputs : m[i] # None }
<1>1. IsFiniteSet(Inputs) /\ IsFiniteSet(Outputs)
  BY PortsAreFinite
<1>2. ASSUME NEW i \in Inputs PROVE Total(f[i], Outputs) = IF i \in U THEN 1 ELSE 0
  <2>1. CASE m[i] = None
    <3>1. \A o \in Outputs : f[i][o] = 0
      BY <2>1, NoneIsNoPort
    <3>2. QED
      BY <1>1, <2>1, <3>1, TotalZero
  <2>2. CASE m[i] # None
    <3>1. PICK o \in Outputs : m[i] = o
      BY <2>2 DEF Assignments
    <3>2. f[i][o] = 1 /\ \A x \in Outputs : x # o => f[i][x] = 0
      BY <3>1
    <3>3. Total(f[i], Outputs) = f[i][o]
      BY <1>1, <3>2, TotalOne
    <3>4. QED
      BY <2>2, <3>2, <3>3
  <2>3. QED
    BY <2>1, <2>2
<1>3. U \in SUBSET Inputs /\ \A i \in Inputs : row[i] = IF i \in U THEN 1 ELSE 0
  BY <1>2
<1>4. SumOverQueues(f) = Total(row, Inputs)
  BY QueuesSum
<1> HIDE DEF row, U
<1>5. Total(row, Inputs) = Cardinality(U)
  BY <1>1, <1>3, TotalCounts
<1>6. QED
  BY <1>4, <1>5 DEF U

(* If for every output only one input has a share, add up the outputs.      *)
LEMMA QueuesByOutput ==
    ASSUME NEW f \in Matrices, NEW g \in [Outputs -> Int],
           \A o \in Outputs :
             \/ g[o] = 0 /\ \A i \in Inputs : f[i][o] = 0
             \/ \E i \in Inputs : f[i][o] = g[o] /\ \A j \in Inputs : j # i => f[j][o] = 0
    PROVE  SumOverQueues(f) = SumFunction(g)
<1> DEFINE col(o) == [i \in Inputs |-> f[i][o]]
           cols == [o \in Outputs |-> Total(col(o), Inputs)]
<1>1. IsFiniteSet(Inputs) /\ IsFiniteSet(Outputs)
  BY PortsAreFinite
<1>2. \A i \in Inputs, o \in Outputs : f[i][o] \in Int /\ col(o)[i] = f[i][o]
  BY DEF Matrices
<1>3. Total([i \in Inputs |-> Total(f[i], Outputs)], Inputs) = Total(cols, Outputs)
  <2>1. PICK r : r = [i \in Inputs |-> Total(f[i], Outputs)]
    OBVIOUS
  <2>2. PICK h : h = [o \in Outputs |-> col(o)]
    OBVIOUS
  <2>3. PICK c : c = cols
    OBVIOUS
  <2>4. \A i \in Inputs, o \in Outputs : f[i][o] \in Int /\ h[o][i] = f[i][o]
    BY <1>2, <2>2
  <2>5. (\A i \in Inputs : r[i] = Total(f[i], Outputs)) /\ \A o \in Outputs : c[o] = Total(h[o], Inputs)
    BY <2>1, <2>2, <2>3
  <2>6. Total(r, Inputs) = Total(c, Outputs)
    <3>1. /\ IsFiniteSet(Inputs) /\ IsFiniteSet(Outputs)
          /\ Exchanged(f, h, Inputs, Outputs)
          /\ SumsOfRows(r, f, Inputs, Outputs)
          /\ SumsOfRows(c, h, Outputs, Inputs)
      BY <1>1, <2>4, <2>5 DEF Exchanged, SumsOfRows
    <3> HIDE DEF col, cols
    <3>2. QED
      BY ONLY <3>1, TotalSwap
  <2>7. QED
    BY <2>1, <2>3, <2>6
<1>4. ASSUME NEW o \in Outputs PROVE Total(col(o), Inputs) = g[o]
  <2>1. CASE g[o] = 0 /\ \A i \in Inputs : f[i][o] = 0
    <3>1. \A i \in Inputs : col(o)[i] = 0
      BY <2>1
    <3> HIDE DEF col
    <3>2. QED
      BY <1>1, <2>1, <3>1, TotalZero
  <2>2. CASE \E i \in Inputs : f[i][o] = g[o] /\ \A j \in Inputs : j # i => f[j][o] = 0
    <3>1. PICK i \in Inputs : f[i][o] = g[o] /\ \A j \in Inputs : j # i => f[j][o] = 0
      BY <2>2
    <3>2. col(o)[i] = g[o] /\ col(o)[i] \in Int /\ \A j \in Inputs : j # i => col(o)[j] = 0
      BY <1>2, <3>1
    <3> HIDE DEF col
    <3>3. QED
      BY <1>1, <3>2, TotalOne
  <2>3. QED
    BY <2>1, <2>2
<1>5. cols = g
  BY <1>4
<1>6. SumFunction(g) = Total(g, Outputs)
  BY <1>1, SumIsTotal
<1>7. QED
  <2> HIDE DEF cols
  <2> QED
    BY <1>3, <1>5, <1>6, QueuesSum

(* At most one entry in each row of a, and f has it. *)
OneEach(f, a, S, T) ==
    \A x \in S :
      /\ f[x] \in Int
      /\ \/ f[x] = 0 /\ \A y \in T : a[x][y] = 0
         \/ \E y \in T : a[x][y] = f[x] /\ \A z \in T : z # y => a[x][z] = 0

LEMMA OneEachSums ==
    ASSUME NEW S, NEW T, IsFiniteSet(T), NEW f, NEW a, OneEach(f, a, S, T)
    PROVE  SumsOfRows(f, a, S, T)
<1> SUFFICES ASSUME NEW x \in S PROVE f[x] = Total(a[x], T)
  BY DEF SumsOfRows
<1>1. PICK r : r = a[x]
  OBVIOUS
<1>2. CASE f[x] = 0 /\ \A y \in T : a[x][y] = 0
  <2>1. \A y \in T : r[y] = 0
    BY <1>1, <1>2
  <2>2. QED
    BY <1>1, <1>2, <2>1, TotalZero
<1>3. CASE \E y \in T : a[x][y] = f[x] /\ \A z \in T : z # y => a[x][z] = 0
  <2>1. PICK y \in T : a[x][y] = f[x] /\ \A z \in T : z # y => a[x][z] = 0
    BY <1>3
  <2>2. r[y] = f[x] /\ r[y] \in Int /\ \A z \in T : z # y => r[z] = 0
    BY <1>1, <2>1 DEF OneEach
  <2>3. Total(r, T) = r[y]
    BY <2>2, TotalOne
  <2>4. QED
    BY <1>1, <2>2, <2>3
<1>4. QED
  BY <1>2, <1>3 DEF OneEach

(* What is only moved from one set to another adds up to the same.          *)
LEMMA MovedSums ==
    ASSUME NEW S, IsFiniteSet(S), NEW T, IsFiniteSet(T), NEW a, NEW b, Exchanged(a, b, S, T),
           NEW f, OneEach(f, a, S, T), NEW g, OneEach(g, b, T, S)
    PROVE  Total(f, S) = Total(g, T)
<1>1. SumsOfRows(f, a, S, T) /\ SumsOfRows(g, b, T, S)
  BY OneEachSums
<1>2. QED
  BY <1>1, TotalSwap

-----------------------------------------------------------------------------
(* The time that the packets of a queue have spent there at time t.         *)

Spent(q, t) == SumFunction([k \in DOMAIN q |-> t - q[k]])

LEMMA SpentIsTotal ==
    ASSUME NEW q \in Seq(Nat), NEW t \in Nat
    PROVE  /\ Spent(q, t) = Total([k \in 1 .. Len(q) |-> t - q[k]], 1 .. Len(q))
           /\ Spent(q, t) \in Int
<1>1. PICK f : f = [k \in 1 .. Len(q) |-> t - q[k]]
  OBVIOUS
<1>2. PICK D : D = 1 .. Len(q)
  OBVIOUS
<1>3. IsFiniteSet(D) /\ D = DOMAIN f /\ \A k \in D : f[k] \in Int
  <2>1. IsFiniteSet(D)
    BY <1>2, FS_Interval
  <2>2. QED
    BY <1>1, <1>2, <2>1
<1>4. SumFunction(f) = Total(f, D) /\ Total(f, D) \in Int
  BY <1>3, SumIsTotal, TotalFacts
<1>5. Spent(q, t) = SumFunction(f)
  BY <1>1, DOMAIN q = 1 .. Len(q) DEF Spent
<1>6. QED
  BY <1>1, <1>2, <1>4, <1>5

LEMMA SpentAppend ==
    ASSUME NEW q \in Seq(Nat), NEW t \in Nat, NEW a \in Nat
    PROVE  Spent(Append(q, a), t) = Spent(q, t) + (t - a)
<1>1. PICK n0 \in Nat, s \in Seq(Nat) : n0 = Len(q) /\ s = Append(q, a)
  <2>1. Len(q) \in Nat /\ Append(q, a) \in Seq(Nat)
    OBVIOUS
  <2>2. QED
    BY <2>1
<1>2. Len(s) = n0 + 1 /\ s[n0 + 1] = a /\ \A k \in 1 .. n0 : s[k] = q[k] /\ q[k] \in Nat
  BY <1>1
<1>3. PICK f, g, C, D : /\ f = [k \in 1 .. Len(q) |-> t - q[k]] /\ C = 1 .. Len(q)
                        /\ g = [k \in 1 .. Len(s) |-> t - s[k]] /\ D = 1 .. Len(s)
  OBVIOUS
<1>4. /\ IsFiniteSet(C) /\ IsFiniteSet(D) /\ C = D \ {n0 + 1} /\ n0 + 1 \in D
      /\ \A k \in D : g[k] \in Int
      /\ \A k \in C : f[k] \in Int /\ g[k] = f[k]
  <2>1. IsFiniteSet(C) /\ IsFiniteSet(D)
    BY <1>1, <1>2, <1>3, FS_Interval
  <2>2. C = D \ {n0 + 1} /\ n0 + 1 \in D
    BY <1>1, <1>2, <1>3
  <2>3. \A k \in C : f[k] = t - q[k] /\ g[k] = t - q[k]
    BY <1>1, <1>2, <1>3
  <2>4. QED
    BY <1>1, <1>2, <1>3, <2>1, <2>2, <2>3
<1>5. Total(g, D) = Total(g, C) + g[n0 + 1]
  BY <1>4, TotalFacts
<1>6. Total(g, C) = Total(f, C)
  BY <1>4, TotalSame
<1>7. g[n0 + 1] = t - a
  BY <1>2, <1>3
<1>8. Spent(q, t) = Total(f, C) /\ Spent(s, t) = Total(g, D)
  BY <1>3, SpentIsTotal
<1>9. QED
  BY <1>1, <1>5, <1>6, <1>7, <1>8

LEMMA SpentHead ==
    ASSUME NEW q \in Seq(Nat), q # <<>>, NEW t \in Nat
    PROVE  Spent(q, t) = (t - Head(q)) + Spent(Tail(q), t)
<1>1. PICK n0 \in Nat, s \in Seq(Nat) : Len(q) = n0 + 1 /\ s = Tail(q)
  <2>1. Len(q) \in Nat /\ Len(q) # 0 /\ Tail(q) \in Seq(Nat)
    OBVIOUS
  <2>2. Len(q) - 1 \in Nat /\ Len(q) = (Len(q) - 1) + 1
    BY <2>1
  <2>3. QED
    BY <2>1, <2>2
<1>2. /\ Len(s) = n0 /\ Head(q) = q[1]
      /\ \A k \in 1 .. n0 : s[k] = q[k + 1]
      /\ \A k \in 1 .. n0 + 1 : q[k] \in Nat
  BY <1>1
<1>3. PICK f, g : /\ f = [k \in 1 .. Len(q) |-> t - q[k]]
                  /\ g = [k \in 1 .. Len(s) |-> t - s[k]]
  OBVIOUS
<1>4. /\ \A k \in 1 .. n0 + 1 : f[k] = t - q[k] /\ f[k] \in Int
      /\ \A k \in 1 .. n0 : g[k] = f[k + 1]
  <2>1. \A k \in 1 .. n0 + 1 : f[k] = t - q[k] /\ f[k] \in Int
    BY <1>1, <1>2, <1>3
  <2>2. ASSUME NEW k \in 1 .. n0 PROVE g[k] = f[k + 1]
    <3>1. k + 1 \in 1 .. n0 + 1 /\ k \in 1 .. Len(s)
      BY <1>2
    <3>2. QED
      BY <1>2, <1>3, <2>1, <3>1
  <2>3. QED
    BY <2>1, <2>2
<1>5. Total(f, 1 .. n0 + 1) = f[1] + Total(g, 1 .. n0)
  BY <1>4, TotalShift
<1>6. Spent(q, t) = Total(f, 1 .. n0 + 1) /\ Spent(s, t) = Total(g, 1 .. n0)
  BY <1>1, <1>2, <1>3, SpentIsTotal
<1>7. f[1] = t - Head(q)
  BY <1>2, <1>4
<1>8. QED
  BY <1>1, <1>5, <1>6, <1>7

LEMMA SpentLater ==
    ASSUME NEW q \in Seq(Nat), NEW t \in Nat
    PROVE  Spent(q, t + 1) = Spent(q, t) + Len(q)
<1>1. PICK f, g, D : /\ f = [k \in 1 .. Len(q) |-> t - q[k]]
                     /\ g = [k \in 1 .. Len(q) |-> (t + 1) - q[k]] /\ D = 1 .. Len(q)
  OBVIOUS
<1>2. PICK ones : ones = [k \in D |-> 1]
  OBVIOUS
<1>3. /\ IsFiniteSet(D) /\ Cardinality(D) = Len(q) /\ D \in SUBSET D
      /\ \A k \in D : ones[k] = IF k \in D THEN 1 ELSE 0
      /\ \A k \in D : f[k] \in Int /\ ones[k] \in Int /\ g[k] = f[k] + ones[k]
  <2>1. IsFiniteSet(D) /\ Cardinality(D) = Len(q)
    <3>1. 1 \in Int /\ Len(q) \in Nat
      OBVIOUS
    <3>2. IsFiniteSet(1 .. Len(q)) /\
            Cardinality(1 .. Len(q)) = IF 1 > Len(q) THEN 0 ELSE Len(q) - 1 + 1
      BY <3>1, FS_Interval
    <3>3. QED
      BY <1>1, <3>1, <3>2
  <2>2. \A k \in D : q[k] \in Nat
    BY <1>1
  <2>3. QED
    BY <1>1, <1>2, <2>1, <2>2
<1>4. Total(ones, D) = Len(q)
  BY <1>3, TotalCounts
<1>5. Total(g, D) = Total(f, D) + Total(ones, D)
  BY <1>3, TotalPlus
<1>6. Spent(q, t) = Total(f, D) /\ Spent(q, t + 1) = Total(g, D)
  <2>1. t + 1 \in Nat
    OBVIOUS
  <2>2. QED
    BY <1>1, <2>1, SpentIsTotal
<1>7. QED
  BY <1>4, <1>5, <1>6

-----------------------------------------------------------------------------
(* The inductive invariant.                                                *)

SimPhases == {"arriving", "read_inputs", "schedule", "write_outputs", "departing"}
Packets == [source : Inputs, arrival : Nat, departure : Nat]
SampleSums == [num_samples : Int, sample_sum : Int]
VOQs == [Inputs -> [Outputs -> Seq(Nat)]]

SimTypeOK ==
    /\ phase \in SimPhases
    /\ input_channel \in Assignments
    /\ voq \in VOQs
    /\ arrivals \in Seq((Inputs \cup {None}) \X (Outputs \cup {None}))
    /\ in_match \in Assignments
    /\ output_channel \in [Outputs -> Seq(Packets)]
    /\ time \in Nat /\ n \in Nat /\ num_stall_packets \in Int
    /\ instruments \in [delay : SampleSums, totalQueueLength : SampleSums]

(* Where packets can be, and the timer, when each call is due. *)
InTurn ==
    /\ time = IF phase = "departing" THEN n + 1 ELSE n
    /\ phase # "read_inputs" => input_channel = NoMatch
    /\ phase # "departing" => output_channel = EmptyOutputs
    /\ phase = "read_inputs" =>
         \A i \in Inputs : input_channel[i] # None =>
            Len(voq[i][input_channel[i]]) < MaxQueueLen
    /\ phase = "write_outputs" => IsMatching(in_match)

(* The packets of a queue came one after the other, before the next slot.  *)
Stamped ==
    \A i \in Inputs, o \in Outputs : \A k \in DOMAIN voq[i][o] :
        /\ voq[i][o][k] < IF phase \in {"schedule", "write_outputs"} THEN time + 1 ELSE time
        /\ \A l \in DOMAIN voq[i][o] : k < l => voq[i][o][k] < voq[i][o][l]

(* A packet in an output channel is from the input that the output was     *)
(* given to, is sent in this slot, and came before all that its queue has. *)
Sent ==
    \A o \in Outputs :
        /\ Len(output_channel[o]) <= 1
        /\ output_channel[o] # <<>> =>
             /\ in_match[output_channel[o][1].source] = o
             /\ output_channel[o][1].departure = n
             /\ \A l \in DOMAIN voq[output_channel[o][1].source][o] :
                  output_channel[o][1].arrival < voq[output_channel[o][1].source][o][l]

DelaysSent ==
    [o \in Outputs |-> IF output_channel[o] = <<>> THEN 0
                       ELSE output_channel[o][1].departure - output_channel[o][1].arrival]

(* Little's law at every point of a slot: what was sent is not recorded yet. *)
Little ==
    instruments.totalQueueLength.sample_sum =
        instruments.delay.sample_sum + SumOverQueues(TimesSpent) + SumFunction(DelaysSent)

SimInv == SimTypeOK /\ InTurn /\ Stamped /\ Sent /\ StallsCounted /\ Little

OutputLengths == [o \in Outputs |-> Len(output_channel[o])]

LEMMA OutputsSum ==
    ASSUME NEW g \in [Outputs -> Int]
    PROVE  /\ SumFunction(g) = Total(g, Outputs)
           /\ SumFunction(g) \in Int
           /\ (\A o \in Outputs : g[o] = 0) => SumFunction(g) = 0
<1>1. IsFiniteSet(Outputs)
  BY PortsAreFinite
<1>2. SumFunction(g) = Total(g, Outputs)
  BY <1>1, SumIsTotal
<1>3. QED
  BY <1>1, <1>2, TotalFacts, TotalZero

LEMMA QueuesZero ==
    ASSUME NEW f \in Matrices, \A i \in Inputs, o \in Outputs : f[i][o] = 0
    PROVE  SumOverQueues(f) = 0
<1>1. NoMatch \in Assignments /\ \A i \in Inputs, o \in Outputs : NoMatch[i] # o
  BY NoneIsNoPort DEF NoMatch, Assignments
<1>2. SumOverQueues(f) = Cardinality({ i \in Inputs : NoMatch[i] # None })
  BY <1>1, QueuesOfAssignment
<1>3. { i \in Inputs : NoMatch[i] # None } = {}
  BY DEF NoMatch
<1>4. QED
  BY <1>2, <1>3, FS_EmptySet

(* The sums of the invariant are of integers.                              *)
LEMMA SumsTyped ==
    ASSUME SimTypeOK
    PROVE  /\ QueueLengths \in Matrices /\ TimesSpent \in Matrices
           /\ OutputLengths \in [Outputs -> Int] /\ DelaysSent \in [Outputs -> Int]
           /\ \A i \in Inputs, o \in Outputs :
                /\ voq[i][o] \in Seq(Nat)
                /\ QueueLengths[i][o] = Len(voq[i][o])
                /\ TimesSpent[i][o] = Spent(voq[i][o], n)
           /\ SumOverQueues(QueueLengths) \in Int /\ SumOverQueues(TimesSpent) \in Int
           /\ SumFunction(OutputLengths) \in Int /\ SumFunction(DelaysSent) \in Int
<1>1. \A i \in Inputs, o \in Outputs : voq[i][o] \in Seq(Nat)
  BY DEF SimTypeOK, VOQs
<1>2. QueueLengths \in Matrices
  BY <1>1 DEF QueueLengths, Matrices
<1>3. \A i \in Inputs, o \in Outputs :
        TimesSpent[i][o] = Spent(voq[i][o], n) /\ Spent(voq[i][o], n) \in Int
  <2>1. TimesSpent = [i \in Inputs |-> [o \in Outputs |-> Spent(voq[i][o], n)]]
    BY DEF TimesSpent, Spent
  <2>2. \A i \in Inputs, o \in Outputs : Spent(voq[i][o], n) \in Int
    BY <1>1, SpentIsTotal DEF SimTypeOK
  <2>3. QED
    BY <2>1, <2>2
<1>4. TimesSpent \in Matrices
  <2>1. TimesSpent = [i \in Inputs |-> [o \in Outputs |-> Spent(voq[i][o], n)]]
    BY DEF TimesSpent, Spent
  <2>2. QED
    BY <1>3, <2>1 DEF Matrices
<1>5. ASSUME NEW o \in Outputs
      PROVE  /\ Len(output_channel[o]) \in Int
             /\ output_channel[o] # <<>> =>
                  /\ output_channel[o][1].departure \in Int
                  /\ output_channel[o][1].arrival \in Int
  <2>1. output_channel[o] \in Seq(Packets)
    BY DEF SimTypeOK
  <2>2. output_channel[o] # <<>> => output_channel[o][1] \in Packets
    BY <2>1
  <2>3. QED
    BY <2>1, <2>2 DEF Packets
<1>6. OutputLengths \in [Outputs -> Int] /\ DelaysSent \in [Outputs -> Int]
  BY <1>5 DEF OutputLengths, DelaysSent
<1>7. \A i \in Inputs, o \in Outputs : QueueLengths[i][o] = Len(voq[i][o])
  BY DEF QueueLengths
<1>8. QED
  BY <1>1, <1>2, <1>3, <1>4, <1>6, <1>7, QueuesSum, OutputsSum

(* A switch without packets. *)
EmptySwitch ==
    input_channel = NoMatch /\ voq = EmptyQueues /\ output_channel = EmptyOutputs

NothingToCount ==
    /\ Cardinality({ i \in Inputs : input_channel[i] # None }) = 0
    /\ SumOverQueues(QueueLengths) = 0 /\ SumOverQueues(TimesSpent) = 0
    /\ SumFunction(OutputLengths) = 0 /\ SumFunction(DelaysSent) = 0

LEMMA EmptySums == SimTypeOK /\ EmptySwitch => NothingToCount
<1> SUFFICES ASSUME SimTypeOK, EmptySwitch PROVE NothingToCount
  OBVIOUS
<1>1. { i \in Inputs : input_channel[i] # None } = {}
  BY DEF EmptySwitch, NoMatch
<1>2. \A i \in Inputs, o \in Outputs : voq[i][o] = <<>>
  BY DEF EmptySwitch, EmptyQueues
<1>3. ASSUME NEW i \in Inputs, NEW o \in Outputs
      PROVE  QueueLengths[i][o] = 0 /\ TimesSpent[i][o] = 0
  <2>1. QueueLengths[i][o] = 0 /\ TimesSpent[i][o] = Spent(<<>>, n)
    BY <1>2, SumsTyped
  <2>2. Spent(<<>>, n) = 0
    <3>1. <<>> \in Seq(Nat) /\ Len(<<>>) = 0 /\ n \in Nat
      BY DEF SimTypeOK
    <3>2. PICK f : f = [k \in 1 .. Len(<<>>) |-> n - <<>>[k]]
      OBVIOUS
    <3>3. Spent(<<>>, n) = Total(f, 1 .. Len(<<>>))
      BY <3>1, <3>2, SpentIsTotal
    <3>4. 1 .. Len(<<>>) = {}
      BY <3>1
    <3>5. Total(f, {}) = 0
      BY FS_EmptySet, TotalZero
    <3>6. QED
      BY <3>3, <3>4, <3>5
  <2>3. QED
    BY <2>1, <2>2
<1>4. \A o \in Outputs : OutputLengths[o] = 0 /\ DelaysSent[o] = 0
  BY DEF EmptySwitch, EmptyOutputs, OutputLengths, DelaysSent
<1>5. QED
  BY <1>1, <1>3, <1>4, FS_EmptySet, SumsTyped, QueuesZero, OutputsSum DEF NothingToCount

-----------------------------------------------------------------------------
(* What write_outputs sends.                                               *)

LEMMA SequencesOfFew ==
    /\ SetToSeq({}) = <<>>
    /\ \A a : SetToSeq({a}) = <<a>>
<1>1. SetToSeq({}) = <<>>
  <2>1. Cardinality({}) = 0 /\ 1 .. 0 = {}
    BY FS_EmptySet
  <2>2. \A f \in [1 .. Cardinality({}) -> {}] : f = <<>>
    BY <2>1
  <2>3. <<>> \in [1 .. Cardinality({}) -> {}] /\ IsInjective(<<>>)
    BY <2>1 DEF IsInjective
  <2>4. QED
    BY <2>2, <2>3 DEF SetToSeq
<1>2. ASSUME NEW a PROVE SetToSeq({a}) = <<a>>
  <2>1. Cardinality({a}) = 1 /\ 1 .. 1 = {1}
    BY FS_Singleton
  <2>2. \A f \in [1 .. Cardinality({a}) -> {a}] : f = <<a>>
    BY <2>1
  <2>3. <<a>> \in [1 .. Cardinality({a}) -> {a}] /\ IsInjective(<<a>>)
    BY <2>1 DEF IsInjective
  <2>4. QED
    BY <2>2, <2>3 DEF SetToSeq
<1>3. QED
  BY <1>1, <1>2

(* Every output receives the head of one queue, or nothing.                *)
SentFrom(o, i) ==
    /\ Sends(i, o)
    /\ \A j \in Inputs : Sends(j, o) => j = i
    /\ output_channel'[o] = <<[source |-> i, arrival |-> Head(voq[i][o]), departure |-> time]>>

NothingSent(o) == (\A i \in Inputs : ~ Sends(i, o)) /\ output_channel'[o] = <<>>

LEMMA WhatIsSent ==
    ASSUME SimInv, WriteOutputs, NEW o \in Outputs
    PROVE  NothingSent(o) \/ \E i \in Inputs : SentFrom(o, i)
<1> DEFINE packet(i) == [source |-> i, arrival |-> Head(voq[i][o]), departure |-> time]
           packets == { packet(i) : i \in { j \in Inputs : Sends(j, o) } }
<1>1. output_channel'[o] = SetToSeq(packets)
  <2>1. output_channel'[o] = output_channel[o] \o SetToSeq(packets)
    BY DEF WriteOutputs, Served
  <2>2. output_channel[o] = <<>>
    BY DEF SimInv, InTurn, WriteOutputs, EmptyOutputs
  <2>4. \A i, j \in Inputs : Sends(i, o) /\ Sends(j, o) => i = j
    <3>1. IsMatching(in_match)
      BY DEF SimInv, InTurn, WriteOutputs
    <3>2. QED
      BY <3>1, NoneIsNoPort DEF IsMatching, Sends
  <2>5. CASE \A i \in Inputs : ~ Sends(i, o)
    <3>1. packets = {}
      BY <2>5
    <3>2. SetToSeq(packets) = <<>>
      BY <3>1, SequencesOfFew
    <3> HIDE DEF packets
    <3>3. QED
      BY <2>1, <2>2, <3>2
  <2>6. CASE \E i \in Inputs : Sends(i, o)
    <3>1. PICK i \in Inputs : Sends(i, o)
      BY <2>6
    <3>2. packets = {packet(i)}
      BY <2>4, <3>1
    <3>3. SetToSeq(packets) = <<packet(i)>>
      BY <3>2, SequencesOfFew
    <3> HIDE DEF packets, packet
    <3>4. QED
      BY <2>1, <2>2, <3>3
  <2>7. QED
    BY <2>5, <2>6
<1>2. \A i, j \in Inputs : Sends(i, o) /\ Sends(j, o) => i = j
  <2>1. IsMatching(in_match)
    BY DEF SimInv, InTurn, WriteOutputs
  <2>2. QED
    BY <2>1, NoneIsNoPort DEF IsMatching, Sends
<1>3. CASE \A i \in Inputs : ~ Sends(i, o)
  <2>1. packets = {}
    BY <1>3
  <2> HIDE DEF packets
  <2>2. QED
    BY <1>1, <1>3, <2>1, SequencesOfFew DEF NothingSent
<1>4. CASE \E i \in Inputs : Sends(i, o)
  <2>1. PICK i \in Inputs : Sends(i, o)
    BY <1>4
  <2>2. packets = {packet(i)}
    BY <1>2, <2>1
  <2>3. output_channel'[o] = <<packet(i)>>
    <3> HIDE DEF packets, packet
    <3> QED
      BY <1>1, <2>2, SequencesOfFew
  <2>4. SentFrom(o, i)
    BY <1>2, <2>1, <2>3 DEF SentFrom
  <2>5. QED
    BY <2>4
<1>5. QED
  BY <1>3, <1>4

-----------------------------------------------------------------------------
(* The invariant holds initially and is kept by every step.                *)

LEMMA SimInitCorrect == Init => SimInv
<1> SUFFICES ASSUME Init PROVE SimInv
  OBVIOUS
<1> USE DEF Init, SwitchInit
<1>1. SimTypeOK
  BY NoneIsNoPort DEF SimTypeOK, SimPhases, Assignments, NoMatch, VOQs, EmptyQueues,
     EmptyOutputs, SampleSums, NoSamples
<1>2. InTurn
  BY DEF InTurn
<1>3. Stamped /\ Sent
  BY DEF Stamped, Sent, EmptyQueues, EmptyOutputs
<1>4. EmptySwitch
  BY DEF EmptySwitch
<1>5. StallsCounted
  BY <1>1, <1>4, EmptySums DEF StallsCounted, OutputLengths, NothingToCount
<1>6. Little
  BY <1>1, <1>4, EmptySums DEF Little, NoSamples, NothingToCount
<1>7. QED
  BY <1>1, <1>2, <1>3, <1>5, <1>6 DEF SimInv

LEMMA ResetCorrect ==
    ASSUME SimInv, Reset
    PROVE  SimInv'
<1> USE DEF Reset, SwitchReset
<1>1. SimTypeOK'
  <2>1. arrivals' \in Seq((Inputs \cup {None}) \X (Outputs \cup {None}))
    BY DEF SimInv, SimTypeOK
  <2>2. QED
    BY <2>1, NoneIsNoPort DEF SimTypeOK, SimPhases, Assignments, NoMatch, VOQs, EmptyQueues,
       EmptyOutputs, SampleSums, NoSamples
<1>2. InTurn'
  BY DEF InTurn
<1>3. Stamped' /\ Sent'
  BY DEF Stamped, Sent, EmptyQueues, EmptyOutputs
<1>4. EmptySwitch'
  BY DEF EmptySwitch
<1>5. NothingToCount'
  BY <1>1, <1>4, EmptySums, PTL
<1>6. StallsCounted'
  BY <1>5 DEF StallsCounted, OutputLengths, NothingToCount
<1>7. Little'
  BY <1>5 DEF Little, NoSamples, NothingToCount
<1>8. QED
  BY <1>1, <1>2, <1>3, <1>6, <1>7 DEF SimInv

LEMMA ArrivingCorrect ==
    ASSUME SimInv, Arriving
    PROVE  SimInv'
<1> USE DEF Arriving
<1>1. PICK new \in Assignments :
        /\ \A i \in Inputs : new[i] # None => Len(voq[i][new[i]]) < MaxQueueLen
        /\ input_channel' = new
        /\ num_stall_packets' = num_stall_packets + Cardinality({ i \in Inputs : new[i] # None })
  OBVIOUS
<1>2. Cardinality({ i \in Inputs : new[i] # None }) \in Nat
  <2>1. IsFiniteSet({ i \in Inputs : new[i] # None })
    BY PortsAreFinite, FS_Subset
  <2>2. QED
    BY <2>1, FS_CardinalityType
<1>3. SimTypeOK'
  BY <1>1, <1>2 DEF SimInv, SimTypeOK, SimPhases
<1>4. InTurn'
  BY <1>1 DEF SimInv, InTurn
<1>5. Stamped' /\ Sent'
  <2>1. Stamped'
    BY DEF SimInv, Stamped
  <2>2. Sent'
    BY DEF SimInv, Sent
  <2>3. QED
    BY <2>1, <2>2
<1>6. StallsCounted'
  <2>1. Cardinality({ i \in Inputs : input_channel[i] # None }) = 0
    <3>1. { i \in Inputs : input_channel[i] # None } = {}
      BY DEF SimInv, InTurn, NoMatch
    <3>2. QED
      BY <3>1, FS_EmptySet
  <2>2. /\ SumOverQueues(QueueLengths)' = SumOverQueues(QueueLengths)
        /\ SumFunction(OutputLengths)' = SumFunction(OutputLengths)
    <3>1. QueueLengths' = QueueLengths /\ OutputLengths' = OutputLengths
      BY DEF QueueLengths, OutputLengths
    <3>2. QED
      BY <3>1 DEF SumOverQueues
  <2>3. /\ SumOverQueues(QueueLengths) \in Int /\ SumFunction(OutputLengths) \in Int
        /\ num_stall_packets \in Int
    BY SumsTyped DEF SimInv, SimTypeOK
  <2>4. num_stall_packets = SumOverQueues(QueueLengths) + SumFunction(OutputLengths)
    BY <2>1, <2>3 DEF SimInv, StallsCounted, OutputLengths
  <2>5. num_stall_packets' = Cardinality({ i \in Inputs : new[i] # None })
          + SumOverQueues(QueueLengths)' + SumFunction(OutputLengths)'
    BY <1>1, <1>2, <2>2, <2>3, <2>4
  <2>6. QED
    BY <1>1, <2>5 DEF StallsCounted, OutputLengths
<1>7. Little'
  <2>1. TimesSpent' = TimesSpent /\ DelaysSent' = DelaysSent
    BY DEF TimesSpent, DelaysSent
  <2>2. QED
    BY <2>1 DEF SimInv, Little, SumOverQueues
<1>8. QED
  BY <1>3, <1>4, <1>5, <1>6, <1>7 DEF SimInv

LEMMA ScheduleCorrect ==
    ASSUME SimInv, Schedule, UNCHANGED <<n, num_stall_packets, instruments>>
    PROVE  SimInv'
<1> USE DEF Schedule
<1>1. SimTypeOK'
  BY DEF SimInv, SimTypeOK, SimPhases
<1>2. InTurn'
  BY DEF SimInv, InTurn
<1>3. Stamped'
  BY DEF SimInv, Stamped
<1>4. Sent'
  BY DEF SimInv, InTurn, EmptyOutputs, Sent
<1>5. StallsCounted'
  BY DEF SimInv, StallsCounted, QueueLengths, SumOverQueues
<1>6. Little'
  <2>1. TimesSpent' = TimesSpent /\ DelaysSent' = DelaysSent
    BY DEF TimesSpent, DelaysSent
  <2>2. QED
    BY <2>1 DEF SimInv, Little, SumOverQueues
<1>7. QED
  BY <1>1, <1>2, <1>3, <1>4, <1>5, <1>6 DEF SimInv

-----------------------------------------------------------------------------
(* What read_inputs lists.                                                 *)

LEMMA InputsFacts ==
    /\ Cardinality(Inputs) \in Nat
    /\ \A k \in 1 .. Cardinality(Inputs) : k - 1 \in Inputs
    /\ \A i \in Inputs : i + 1 \in 1 .. Cardinality(Inputs) /\ (i + 1) - 1 = i
<1>1. Cardinality(Inputs) \in Nat
  BY PortsAreFinite, FS_CardinalityType
<1>2. PICK c \in Nat : c = Cardinality(Inputs)
  BY <1>1
<1>3. Inputs = 0 .. c - 1
  BY <1>2, InputsAreNumbered
<1>4. /\ \A k \in 1 .. c : k - 1 \in Inputs
      /\ \A i \in Inputs : i + 1 \in 1 .. c /\ (i + 1) - 1 = i
  BY <1>3
<1>5. QED
  BY <1>2, <1>4

Lists == Seq(Inputs \X Outputs)

(* The list has exactly what the inputs before k have received. *)
ListsUpTo(list, k) ==
    /\ list \in Lists
    /\ \A e \in DOMAIN list : input_channel[list[e][1]] = list[e][2]
    /\ \A i \in Inputs : i + 1 <= k /\ input_channel[i] # None =>
         \E e \in DOMAIN list : list[e] = <<i, input_channel[i]>>

LEMMA ReceivedFacts ==
    ASSUME input_channel \in Assignments
    PROVE  ListsUpTo(Received, Cardinality(Inputs))
<1> DEFINE c == Cardinality(Inputs)
           Add(k, list) == IF input_channel[k - 1] = None THEN list
                           ELSE Append(list, <<k - 1, input_channel[k - 1]>>)
           F == [k \in 1 .. c |-> [list \in Lists |-> Add(k, list)]]
<1>1. /\ c \in Nat /\ \A k \in 1 .. c : k - 1 \in Inputs
      /\ \A i \in Inputs : i + 1 \in 1 .. c /\ (i + 1) - 1 = i
  BY InputsFacts
<1>2. ASSUME NEW k \in 1 .. c, NEW list \in Lists
      PROVE  Add(k, list) \in Lists
  <2>1. CASE input_channel[k - 1] = None
    BY <2>1
  <2>2. CASE input_channel[k - 1] # None
    <3>1. PICK p \in Inputs \X Outputs : p = <<k - 1, input_channel[k - 1]>>
      BY <1>1, <2>2 DEF Assignments
    <3>2. Append(list, p) \in Lists
      BY DEF Lists
    <3>3. QED
      BY <2>2, <3>1, <3>2
  <2>3. QED
    BY <2>1, <2>2
<1>3. IsStep(c, Lists, F)
  BY <1>2 DEF IsStep
<1>4. \A k \in 1 .. c, list \in Lists : F[k][list] = Add(k, list)
  OBVIOUS
<1>5. PICK ex : LeftFolds(ex, c, Lists, <<>>, F)
  <2>1. <<>> \in Lists
    BY DEF Lists
  <2> HIDE DEF c, F
  <2>2. QED
    BY <1>1, <1>3, <2>1, LeftFoldFacts
<1> DEFINE at(T) == InOrder[Max(T)]
           rest(h, T) == h[T \ {Max(T)}]
           Body(h, T) == IF T = {} THEN <<>>
                         ELSE IF input_channel[at(T)] = None THEN rest(h, T)
                              ELSE Append(rest(h, T), <<at(T), input_channel[at(T)]>>)
<1>6. \A T \in (SUBSET (1 .. c)) \ {{}} :
        Max(T) = Greatest(T) /\ Greatest(T) \in 1 .. c /\ at(T) = Greatest(T) - 1
  <2>1. \A T \in (SUBSET (1 .. c)) \ {{}} : Greatest(T) \in T
    BY <1>1, GreatestFacts
  <2>2. \A T \in (SUBSET (1 .. c)) \ {{}} : Max(T) = Greatest(T) /\ Greatest(T) \in 1 .. c
    BY <2>1 DEF Max, Greatest
  <2>3. QED
    BY <2>2 DEF InOrder
<1>7. \E it : it = [T \in SUBSET (1 .. c) |-> Body(it, T)]
  <2>0. /\ ex \in [SUBSET (1 .. c) -> Lists]
        /\ ex[{}] = <<>>
        /\ \A T \in (SUBSET (1 .. c)) \ {{}} :
             ex[T] = F[Greatest(T)][ex[T \ {Greatest(T)}]]
    BY <1>5 DEF LeftFolds
  <2>1. ASSUME NEW T \in (SUBSET (1 .. c)) \ {{}}
        PROVE  ex[T] = Add(Greatest(T), ex[T \ {Greatest(T)}])
    <3>1. Greatest(T) \in 1 .. c /\ ex[T \ {Greatest(T)}] \in Lists
      BY <1>6, <2>0
    <3>2. ex[T] = F[Greatest(T)][ex[T \ {Greatest(T)}]]
      BY <2>0
    <3>3. QED
      BY <1>4, <3>1, <3>2
  <2>2. ASSUME NEW T \in SUBSET (1 .. c) PROVE ex[T] = Body(ex, T)
    <3>1. CASE T = {}
      BY <2>0, <3>1
    <3>2. CASE T # {}
      <4>1. ex[T] = IF input_channel[at(T)] = None THEN rest(ex, T)
                    ELSE Append(rest(ex, T), <<at(T), input_channel[at(T)]>>)
        BY <1>6, <2>1, <3>2
      <4> HIDE DEF at, rest
      <4>2. QED
        BY <3>2, <4>1
    <3>3. QED
      BY <3>1, <3>2
  <2> HIDE DEF Body, F
  <2>3. ex = [T \in SUBSET (1 .. c) |-> Body(ex, T)]
    BY <2>0, <2>2
  <2>4. QED
    BY <2>3
<1>8. PICK it : /\ Received = it[1 .. c]
                /\ it = [T \in SUBSET (1 .. c) |-> Body(it, T)]
  <2>1. \E it : it = [T \in SUBSET DOMAIN InOrder |-> Body(it, T)]
    BY <1>7 DEF InOrder
  <2>2. \E it : /\ Received = it[DOMAIN InOrder]
                /\ it = [T \in SUBSET DOMAIN InOrder |-> Body(it, T)]
    BY <2>1 DEF Received, FoldLeft, MapThenFoldSet
  <2>3. DOMAIN InOrder = 1 .. c
    BY DEF InOrder
  <2> HIDE DEF Body
  <2>4. QED
    BY <2>2, <2>3
<1>9. ASSUME NEW k \in 1 .. c
      PROVE  it[1 .. k] = Add(k, it[1 .. k - 1])
  <2>1. 1 .. k \in (SUBSET (1 .. c)) \ {{}}
    BY <1>1
  <2>2. it[1 .. k] = Body(it, 1 .. k)
    <3> HIDE DEF Body
    <3> QED
      BY <1>8, <2>1
  <2>3. Greatest(1 .. k) = k /\ (1 .. k) \ {k} = 1 .. k - 1
    BY <1>1, GreatestFacts
  <2>4. QED
    BY <1>6, <2>1, <2>2, <2>3
<1> DEFINE S == { k \in 0 .. c : ListsUpTo(it[1 .. k], k) }
<1>10. 0 \in S
  <2>1. 1 .. 0 = {} /\ it[{}] = <<>>
    BY <1>8
  <2>2. 0 \in 0 .. c
    BY <1>1
  <2>3. \A i \in Inputs : ~ i + 1 <= 0
    BY <1>1
  <2>4. ListsUpTo(<<>>, 0)
    BY <2>3 DEF ListsUpTo, Lists
  <2>5. QED
    BY <2>1, <2>2, <2>4
<1>11. ASSUME NEW j \in 0 .. c - 1, j \in S PROVE j + 1 \in S
  <2>1. PICK k \in 1 .. c, i \in Inputs : k = j + 1 /\ i = k - 1 /\ k - 1 = j
    <3>1. j + 1 \in 1 .. c /\ (j + 1) - 1 = j
      BY <1>1
    <3>2. QED
      BY <1>1, <3>1
  <2>2. PICK list \in Lists : list = it[1 .. j] /\ ListsUpTo(list, j)
    BY <1>11 DEF ListsUpTo
  <2>3. PICK new : new = it[1 .. k]
    OBVIOUS
  <2>4. new = IF input_channel[i] = None THEN list ELSE Append(list, <<i, input_channel[i]>>)
    BY <1>9, <2>1, <2>2, <2>3
  <2>5. \A h \in Inputs : h + 1 <= k => h + 1 <= j \/ h = i
    BY <1>1, <2>1
  <2>6. ListsUpTo(new, k)
    <3>1. CASE input_channel[i] = None
      BY <2>2, <2>4, <2>5, <3>1 DEF ListsUpTo
    <3>2. CASE input_channel[i] # None
      <4>1. PICK p \in Inputs \X Outputs : p = <<i, input_channel[i]>>
        BY <3>2 DEF Assignments
      <4>2. new = Append(list, p)
        BY <2>4, <3>2, <4>1
      <4>3. /\ new \in Lists /\ DOMAIN new = 1 .. Len(list) + 1 /\ Len(list) \in Nat
            /\ DOMAIN list = 1 .. Len(list) /\ new[Len(list) + 1] = p
            /\ \A e \in DOMAIN list : new[e] = list[e]
        BY <4>2 DEF Lists
      <4>4. \A e \in DOMAIN new : input_channel[new[e][1]] = new[e][2]
        BY <2>2, <4>1, <4>3 DEF ListsUpTo
      <4>5. ASSUME NEW h \in Inputs, h + 1 <= k, input_channel[h] # None
            PROVE  \E e \in DOMAIN new : new[e] = <<h, input_channel[h]>>
        <5>1. CASE h = i
          BY <4>1, <4>3, <5>1
        <5>2. CASE h # i
          <6>1. PICK e \in DOMAIN list : list[e] = <<h, input_channel[h]>>
            BY <2>2, <2>5, <4>5, <5>2 DEF ListsUpTo
          <6>2. e \in DOMAIN new /\ new[e] = list[e]
            BY <4>3
          <6>3. QED
            BY <6>1, <6>2
        <5>3. QED
          BY <5>1, <5>2
      <4>6. QED
        BY <4>3, <4>4, <4>5 DEF ListsUpTo
    <3>3. QED
      BY <3>1, <3>2
  <2>7. QED
    BY <2>1, <2>3, <2>6
<1>12. 0 .. c \subseteq S
  <2> HIDE DEF S, c
  <2> QED
    BY <1>1, <1>10, <1>11, IntervalInduction
<1>13. c \in S
  BY <1>1, <1>12
<1>14. QED
  BY <1>8, <1>13

(* The scheduler reads in the list what has just arrived, whatever the     *)
(* vector had before.                                                      *)
LEMMA ToldOfArrivals ==
    ASSUME input_channel \in Assignments, NEW X, NEW old \in Seq(X)
    PROVE  Told(Listed(old, Received)) = input_channel
<1> DEFINE list == Listed(old, Received)
           valid == { k \in DOMAIN list : \A l \in 1 .. k : list[l][1] # None }
<1>1. PICK new \in Lists : new = Received
  BY ReceivedFacts DEF ListsUpTo
<1>2. /\ \A e \in DOMAIN new : input_channel[new[e][1]] = new[e][2]
      /\ \A i \in Inputs : input_channel[i] # None =>
           \E e \in DOMAIN new : new[e] = <<i, input_channel[i]>>
  <2>1. \A i \in Inputs : i + 1 <= Cardinality(Inputs)
    BY InputsFacts
  <2>2. QED
    BY <1>1, <2>1, ReceivedFacts DEF ListsUpTo
<1>3. PICK len \in Nat : len = Len(new) /\ DOMAIN new = 1 .. len
  BY DEF Lists
<1>4. \A e \in 1 .. len : new[e] \in Inputs \X Outputs
  BY <1>3 DEF Lists
<1>5. /\ 1 .. len \subseteq DOMAIN list
      /\ \A e \in 1 .. len : list[e] = new[e]
      /\ \A e \in DOMAIN list : e \in Nat \ {0}
      /\ len + 1 \in DOMAIN list => list[len + 1][1] = None
      /\ \E m \in Nat : DOMAIN list = 1 .. m
  <2>1. CASE Len(new) >= Len(old)
    <3>1. list = new
      BY <1>1, <2>1 DEF Listed
    <3>2. QED
      BY <1>3, <3>1
  <2>2. CASE Len(new) < Len(old)
    <3>1. PICK oldLen \in Nat : oldLen = Len(old) /\ len < oldLen
      BY <1>3, <2>2
    <3>2. PICK mark : mark = <<None, old[len + 1][2]>>
      OBVIOUS
    <3>3. PICK tail : tail = SubSeq(old, len + 2, oldLen)
      OBVIOUS
    <3>4. tail \in Seq(X)
      BY <3>1, <3>3
    <3>5. list = new \o <<mark>> \o tail
      <4>1. list = Listed(old, new) /\ ~ Len(new) >= Len(old)
        BY <1>1, <1>3, <3>1
      <4>2. list = new \o <<<<None, old[Len(new) + 1][2]>>>> \o SubSeq(old, Len(new) + 2, Len(old))
        <5> HIDE DEF list
        <5> QED
          BY <4>1 DEF Listed
      <4> HIDE DEF list
      <4>3. QED
        BY <1>3, <3>1, <3>2, <3>3, <4>2
    <3>6. PICK Y : /\ Inputs \X Outputs \subseteq Y /\ X \subseteq Y /\ mark \in Y
      <4>1. PICK Y : Y = (Inputs \X Outputs) \cup X \cup {mark}
        OBVIOUS
      <4>2. QED
        BY <4>1
    <3>7. new \in Seq(Y) /\ <<mark>> \in Seq(Y) /\ tail \in Seq(Y)
      BY <3>4, <3>6 DEF Lists
    <3>8. /\ Len(list) = len + 1 + Len(tail) /\ Len(tail) \in Nat
          /\ DOMAIN list = 1 .. Len(list)
          /\ \A e \in 1 .. len : list[e] = new[e]
          /\ list[len + 1] = mark
      BY <1>3, <3>5, <3>7
    <3>9. QED
      BY <3>2, <3>8
  <2>3. QED
    BY <1>3, <2>1, <2>2
<1> HIDE DEF list
<1>6. valid = 1 .. len
  <2>1. ASSUME NEW k \in 1 .. len PROVE k \in valid
    <3>1. \A l \in 1 .. k : l \in 1 .. len
      OBVIOUS
    <3>2. \A l \in 1 .. len : list[l][1] \in Inputs
      BY <1>4, <1>5
    <3>3. QED
      BY <1>5, <3>1, <3>2, NoneIsNoPort
  <2>2. ASSUME NEW k \in valid, k \notin 1 .. len PROVE FALSE
    <3>1. k \in Nat /\ k > len
      BY <1>5, <2>2
    <3>2. len + 1 \in 1 .. k
      BY <3>1
    <3>3. list[len + 1][1] # None
      BY <3>2
    <3>4. CASE len + 1 \in DOMAIN list
      BY <1>5, <3>3, <3>4
    <3>5. CASE len + 1 \notin DOMAIN list
      <4>1. PICK m \in Nat : DOMAIN list = 1 .. m
        BY <1>5
      <4>2. QED
        BY <3>1, <3>2, <3>5, <4>1
    <3>6. QED
      BY <3>4, <3>5
  <2>3. QED
    BY <2>1, <2>2
<1>7. ASSUME NEW i \in Inputs
      PROVE  (IF \E k \in valid : list[k][1] = i
              THEN list[CHOOSE k \in valid : list[k][1] = i][2] ELSE None) = input_channel[i]
  <2>1. \A k \in 1 .. len : list[k][1] = i => list[k][2] = input_channel[i]
    BY <1>2, <1>3, <1>5
  <2>2. CASE input_channel[i] = None
    <3>1. ~ \E k \in valid : list[k][1] = i
      <4>1. \A k \in 1 .. len : list[k][2] \in Outputs
        BY <1>4, <1>5
      <4>2. QED
        BY <1>6, <2>1, <2>2, <4>1, NoneIsNoPort
    <3>2. QED
      BY <2>2, <3>1
  <2>3. CASE input_channel[i] # None
    <3>1. PICK e \in 1 .. len : new[e] = <<i, input_channel[i]>>
      BY <1>2, <1>3, <2>3
    <3>2. list[e][1] = i
      BY <1>5, <3>1
    <3>3. PICK k \in valid : k = (CHOOSE j \in valid : list[j][1] = i) /\ list[k][1] = i
      BY <1>6, <3>2
    <3>4. list[k][2] = input_channel[i]
      BY <1>6, <2>1, <3>3
    <3>5. QED
      BY <1>6, <3>2, <3>3, <3>4
  <2>4. QED
    BY <2>2, <2>3
<1>8. QED
  BY <1>7 DEF Told, Assignments, list

Marks == (Inputs \cup {None}) \X (Outputs \cup {None})

LEMMA ListedType ==
    ASSUME input_channel \in Assignments, NEW old \in Seq(Marks)
    PROVE  Listed(old, Received) \in Seq(Marks)
<1>1. PICK new \in Seq(Marks) : new = Received
  <2>1. Received \in Seq(Inputs \X Outputs)
    BY ReceivedFacts DEF ListsUpTo, Lists
  <2>2. Inputs \X Outputs \subseteq Marks
    BY DEF Marks
  <2>3. QED
    BY <2>1, <2>2
<1>2. CASE Len(new) >= Len(old)
  BY <1>1, <1>2 DEF Listed
<1>3. CASE ~ Len(new) >= Len(old)
  <2>1. PICK at \in DOMAIN old : at = Len(new) + 1
    BY <1>3
  <2>2. old[at] \in Marks
    BY <2>1
  <2>3. PICK mark \in Marks : mark = <<None, old[Len(new) + 1][2]>>
    BY <2>1, <2>2 DEF Marks
  <2>4. PICK tail \in Seq(Marks) : tail = SubSeq(old, Len(new) + 2, Len(old))
    <3>1. PICK a \in Nat, b \in Nat : a = Len(new) + 2 /\ b = Len(old)
      OBVIOUS
    <3>2. \A e \in a .. b : old[e] \in Marks
      BY <3>1
    <3>3. SubSeq(old, a, b) \in Seq(Marks)
      BY <3>1, <3>2
    <3>4. QED
      BY <3>1, <3>3
  <2>5. Listed(old, new) = new \o <<mark>> \o tail
    BY <1>3, <2>3, <2>4 DEF Listed
  <2>6. new \o <<mark>> \o tail \in Seq(Marks)
    OBVIOUS
  <2>7. QED
    BY <1>1, <2>5, <2>6
<1>4. QED
  BY <1>2, <1>3

LEMMA ReadInputsCorrect ==
    ASSUME SimInv, ReadInputs, UNCHANGED <<n, num_stall_packets, instruments>>
    PROVE  SimInv'
<1> USE DEF ReadInputs
<1>1. /\ input_channel \in Assignments /\ input_channel' = NoMatch
      /\ \A i \in Inputs, o \in Outputs :
           /\ voq[i][o] \in Seq(Nat)
           /\ voq'[i][o] = IF input_channel[i] = o THEN Append(voq[i][o], time) ELSE voq[i][o]
      /\ time \in Nat /\ n \in Nat /\ time = n /\ time' = time /\ n' = n
      /\ phase = "read_inputs" /\ phase' = "schedule"
  BY DEF SimInv, SimTypeOK, VOQs, InTurn
<1>2. SimTypeOK'
  <2>1. arrivals' \in Seq(Marks)
    BY <1>1, ListedType DEF SimInv, SimTypeOK, Marks
  <2>2. voq' \in VOQs
    <3>1. \A i \in Inputs, o \in Outputs : voq'[i][o] \in Seq(Nat)
      BY <1>1
    <3>2. QED
      BY <3>1 DEF VOQs
  <2>3. NoMatch \in Assignments
    BY DEF NoMatch, Assignments
  <2>4. QED
    BY <2>1, <2>2, <2>3 DEF SimInv, SimTypeOK, SimPhases, Marks
<1>3. InTurn'
  BY DEF SimInv, InTurn
<1>4. Stamped'
  <2> SUFFICES ASSUME NEW i \in Inputs, NEW o \in Outputs, NEW k \in DOMAIN voq'[i][o]
               PROVE  /\ voq'[i][o][k] < time + 1
                      /\ \A l \in DOMAIN voq'[i][o] : k < l => voq'[i][o][k] < voq'[i][o][l]
    BY <1>1 DEF Stamped
  <2>1. PICK q \in Seq(Nat), r \in Seq(Nat) : q = voq[i][o] /\ r = voq'[i][o]
    <3>1. voq'[i][o] \in Seq(Nat)
      BY <1>2 DEF SimTypeOK, VOQs
    <3>2. QED
      BY <1>1, <3>1
  <2>2. \A m \in DOMAIN q : q[m] < time /\ \A l \in DOMAIN q : m < l => q[m] < q[l]
    BY <1>1, <2>1 DEF SimInv, Stamped
  <2>3. r = q \/ r = Append(q, time)
    BY <1>1, <2>1
  <2>4. k \in DOMAIN r
    BY <2>1
  <2>5. r[k] < time + 1 /\ \A l \in DOMAIN r : k < l => r[k] < r[l]
    <3>1. \A m \in DOMAIN q : q[m] \in Nat
      OBVIOUS
    <3>2. CASE r = q
      BY <1>1, <2>2, <2>4, <3>1, <3>2
    <3>3. CASE r = Append(q, time)
      <4>1. PICK len \in Nat : len = Len(q) /\ DOMAIN q = 1 .. len
        OBVIOUS
      <4>2. /\ DOMAIN r = 1 .. len + 1 /\ r[len + 1] = time
            /\ \A m \in 1 .. len : r[m] = q[m]
        BY <1>1, <3>3, <4>1
      <4>3. \A m \in 1 .. len : r[m] \in Nat /\ r[m] < time
        BY <2>2, <3>1, <4>1, <4>2
      <4>4. CASE k = len + 1
        BY <1>1, <4>2, <4>4
      <4>5. CASE k # len + 1
        <5>1. k \in 1 .. len
          BY <2>4, <4>1, <4>2, <4>5
        <5>2. ASSUME NEW l \in DOMAIN r, k < l PROVE r[k] < r[l]
          <6>1. CASE l = len + 1
            BY <4>2, <4>3, <5>1, <6>1
          <6>2. CASE l # len + 1
            <7>1. l \in 1 .. len
              BY <4>1, <4>2, <6>2
            <7>2. QED
              BY <2>2, <4>1, <4>2, <5>1, <5>2, <7>1
          <6>3. QED
            BY <6>1, <6>2
        <5>3. QED
          BY <1>1, <4>3, <5>1, <5>2
      <4>6. QED
        BY <4>4, <4>5
    <3>4. QED
      BY <2>3, <3>2, <3>3
  <2>6. QED
    BY <2>1, <2>5
<1>5. Sent'
  BY DEF SimInv, InTurn, EmptyOutputs, Sent
<1>6. /\ QueueLengths \in Matrices /\ TimesSpent \in Matrices
      /\ \A i \in Inputs, o \in Outputs :
           /\ QueueLengths[i][o] = Len(voq[i][o])
           /\ TimesSpent[i][o] = Spent(voq[i][o], n)
      /\ SumOverQueues(QueueLengths) \in Int /\ SumFunction(OutputLengths) \in Int
  BY SumsTyped DEF SimInv
<1>7. StallsCounted'
  <2>1. PICK come : come = [i \in Inputs |-> [o \in Outputs |-> IF input_channel[i] = o THEN 1 ELSE 0]]
    OBVIOUS
  <2>2. come \in Matrices
    BY <2>1 DEF Matrices
  <2>3. PICK len : len = QueueLengths'
    OBVIOUS
  <2>4. len = [i \in Inputs |-> [o \in Outputs |-> Len(voq'[i][o])]]
    BY <2>3 DEF QueueLengths
  <2>5. \A i \in Inputs, o \in Outputs : Len(voq'[i][o]) = QueueLengths[i][o] + come[i][o]
    BY <1>1, <1>6, <2>1
  <2>6. \A i \in Inputs, o \in Outputs : Len(voq'[i][o]) \in Int
    BY <1>1
  <2>7. len \in Matrices /\ \A i \in Inputs, o \in Outputs : len[i][o] = QueueLengths[i][o] + come[i][o]
    BY <2>4, <2>5, <2>6 DEF Matrices
  <2>8. SumOverQueues(len) = SumOverQueues(QueueLengths) + SumOverQueues(come)
    BY <1>6, <2>2, <2>7, QueuesPlus
  <2>9. SumOverQueues(come) = Cardinality({ i \in Inputs : input_channel[i] # None })
    BY <1>1, <2>1, <2>2, QueuesOfAssignment
  <2>10. Cardinality({ i \in Inputs : input_channel'[i] # None }) = 0
    <3>1. { i \in Inputs : input_channel'[i] # None } = {}
      BY <1>1 DEF NoMatch
    <3>2. QED
      BY <3>1, FS_EmptySet
  <2>11. SumFunction(OutputLengths)' = SumFunction(OutputLengths)
    BY DEF OutputLengths
  <2>12. Cardinality({ i \in Inputs : input_channel[i] # None }) \in Nat
    <3>1. IsFiniteSet({ i \in Inputs : input_channel[i] # None })
      BY PortsAreFinite, FS_Subset
    <3>2. QED
      BY <3>1, FS_CardinalityType
  <2>13. num_stall_packets = Cardinality({ i \in Inputs : input_channel[i] # None })
           + SumOverQueues(QueueLengths) + SumFunction(OutputLengths)
    BY DEF SimInv, StallsCounted, OutputLengths
  <2>14. num_stall_packets' = 0 + SumOverQueues(len) + SumFunction(OutputLengths)'
    BY <1>6, <2>8, <2>9, <2>11, <2>12, <2>13
  <2>15. SumOverQueues(QueueLengths)' = SumOverQueues(len)
    BY <2>3 DEF SumOverQueues
  <2>16. QED
    BY <2>10, <2>14, <2>15 DEF StallsCounted, OutputLengths
<1>8. Little'
  <2>1. ASSUME NEW i \in Inputs, NEW o \in Outputs
        PROVE  Spent(voq'[i][o], n) = TimesSpent[i][o]
    <3>1. CASE input_channel[i] # o
      BY <1>1, <1>6, <3>1
    <3>2. CASE input_channel[i] = o
      <4>1. Spent(voq'[i][o], n) = Spent(voq[i][o], n) + (n - n)
        BY <1>1, <3>2, SpentAppend
      <4>2. Spent(voq[i][o], n) \in Int
        BY <1>1, SpentIsTotal
      <4>3. QED
        BY <1>1, <1>6, <4>1, <4>2
    <3>3. QED
      BY <3>1, <3>2
  <2>2. TimesSpent' = [i \in Inputs |-> [o \in Outputs |-> Spent(voq'[i][o], n)]]
    BY <1>1 DEF TimesSpent, Spent
  <2>3. TimesSpent = [i \in Inputs |-> [o \in Outputs |-> Spent(voq[i][o], n)]]
    BY DEF TimesSpent, Spent
  <2>4. TimesSpent' = TimesSpent
    BY <1>6, <2>1, <2>2, <2>3
  <2>5. DelaysSent' = DelaysSent
    BY DEF DelaysSent
  <2>6. QED
    BY <2>4, <2>5 DEF SimInv, Little, SumOverQueues
<1>9. QED
  BY <1>2, <1>3, <1>4, <1>5, <1>7, <1>8 DEF SimInv

LEMMA WriteOutputsCorrect ==
    ASSUME SimInv, WriteOutputs, UNCHANGED <<n, num_stall_packets, instruments>>
    PROVE  SimInv'
<1>1. /\ \A i \in Inputs, o \in Outputs :
           /\ voq[i][o] \in Seq(Nat)
           /\ voq'[i][o] = IF Sends(i, o) THEN Tail(voq[i][o]) ELSE voq[i][o]
           /\ Sends(i, o) => voq[i][o] # <<>> /\ in_match[i] = o
      /\ time \in Nat /\ n \in Nat /\ time = n /\ time' = time + 1
      /\ phase = "write_outputs" /\ phase' = "departing"
      /\ input_channel = NoMatch
      /\ UNCHANGED <<input_channel, arrivals, in_match, n, num_stall_packets, instruments>>
  BY DEF SimInv, SimTypeOK, VOQs, InTurn, WriteOutputs, Sends, Served
<1>2. \A o \in Outputs : NothingSent(o) \/ \E i \in Inputs : SentFrom(o, i)
  BY WhatIsSent
<1>3. \A i \in Inputs, o \in Outputs :
        /\ Sends(i, o) =>
             /\ Head(voq[i][o]) \in Nat /\ Tail(voq[i][o]) \in Seq(Nat)
             /\ Len(voq[i][o]) = Len(Tail(voq[i][o])) + 1 /\ Len(Tail(voq[i][o])) \in Nat
        /\ voq'[i][o] \in Seq(Nat)
  <2> SUFFICES ASSUME NEW i \in Inputs, NEW o \in Outputs
               PROVE  /\ Sends(i, o) =>
                           /\ Head(voq[i][o]) \in Nat /\ Tail(voq[i][o]) \in Seq(Nat)
                           /\ Len(voq[i][o]) = Len(Tail(voq[i][o])) + 1
                           /\ Len(Tail(voq[i][o])) \in Nat
                      /\ voq'[i][o] \in Seq(Nat)
    OBVIOUS
  <2>1. PICK q \in Seq(Nat) : q = voq[i][o]
    BY <1>1
  <2>2. q # <<>> => /\ Head(q) \in Nat /\ Tail(q) \in Seq(Nat)
                    /\ Len(q) = Len(Tail(q)) + 1 /\ Len(Tail(q)) \in Nat
    OBVIOUS
  <2>3. CASE Sends(i, o)
    <3>1. q # <<>> /\ voq'[i][o] = Tail(q)
      BY <1>1, <2>1, <2>3
    <3>2. QED
      BY <2>1, <2>2, <3>1
  <2>4. CASE ~ Sends(i, o)
    BY <1>1, <2>1, <2>4
  <2>5. QED
    BY <2>3, <2>4
<1>4. SimTypeOK'
  <2>1. voq' \in VOQs
    <3>1. \A i \in Inputs, o \in Outputs : voq'[i][o] \in Seq(Nat)
      BY <1>3
    <3>2. voq' = [i \in Inputs |-> [o \in Outputs |-> voq'[i][o]]]
      BY DEF WriteOutputs
    <3>3. QED
      BY <3>1, <3>2 DEF VOQs
  <2>2. output_channel' \in [Outputs -> Seq(Packets)]
    <3>1. ASSUME NEW o \in Outputs PROVE output_channel'[o] \in Seq(Packets)
      <4>1. CASE NothingSent(o)
        BY <4>1 DEF NothingSent
      <4>2. CASE \E i \in Inputs : SentFrom(o, i)
        <5>1. PICK i \in Inputs : SentFrom(o, i)
          BY <4>2
        <5>2. [source |-> i, arrival |-> Head(voq[i][o]), departure |-> time] \in Packets
          BY <1>1, <1>3, <5>1 DEF SentFrom, Packets
        <5>3. QED
          BY <5>1, <5>2 DEF SentFrom
      <4>3. QED
        BY <1>2, <4>1, <4>2
    <3>2. output_channel' = [o \in Outputs |-> output_channel'[o]]
      BY DEF WriteOutputs
    <3>3. QED
      BY <3>1, <3>2
  <2>3. QED
    BY <1>1, <2>1, <2>2 DEF SimInv, SimTypeOK, SimPhases
<1>5. InTurn'
  BY <1>1 DEF InTurn
<1>6. ASSUME NEW i \in Inputs, NEW o \in Outputs, NEW q \in Seq(Nat), q = voq[i][o]
      PROVE  \A m \in DOMAIN q : q[m] < time + 1 /\ \A l \in DOMAIN q : m < l => q[m] < q[l]
  BY <1>1, <1>6 DEF SimInv, Stamped
<1>7. Stamped'
  <2> SUFFICES ASSUME NEW i \in Inputs, NEW o \in Outputs, NEW k \in DOMAIN voq'[i][o]
               PROVE  /\ voq'[i][o][k] < time + 1
                      /\ \A l \in DOMAIN voq'[i][o] : k < l => voq'[i][o][k] < voq'[i][o][l]
    BY <1>1 DEF Stamped
  <2>1. PICK q \in Seq(Nat) : q = voq[i][o]
    BY <1>1
  <2>2. \A m \in DOMAIN q : q[m] < time + 1 /\ \A l \in DOMAIN q : m < l => q[m] < q[l]
    BY <1>6, <2>1
  <2>3. CASE ~ Sends(i, o)
    <3>1. voq'[i][o] = q
      BY <1>1, <2>1, <2>3
    <3>2. QED
      BY <2>2, <3>1
  <2>4. CASE Sends(i, o)
    <3>1. PICK r \in Seq(Nat) : r = Tail(q) /\ r = voq'[i][o]
      BY <1>1, <1>3, <2>1, <2>4
    <3>2. \A m \in DOMAIN r : m + 1 \in DOMAIN q /\ r[m] = q[m + 1] /\ m \in Nat
      BY <1>1, <2>1, <2>4, <3>1
    <3>3. \A m \in DOMAIN r : r[m] < time + 1 /\ \A l \in DOMAIN r : m < l => r[m] < r[l]
      <4> SUFFICES ASSUME NEW m \in DOMAIN r
                   PROVE  r[m] < time + 1 /\ \A l \in DOMAIN r : m < l => r[m] < r[l]
        OBVIOUS
      <4>1. r[m] < time + 1
        BY <2>2, <3>2
      <4>2. ASSUME NEW l \in DOMAIN r, m < l PROVE r[m] < r[l]
        <5>1. m + 1 < l + 1
          BY <3>2, <4>2
        <5>2. QED
          BY <2>2, <3>2, <5>1
      <4>3. QED
        BY <4>1, <4>2
    <3>4. k \in DOMAIN r
      BY <3>1
    <3>5. QED
      BY <3>1, <3>3, <3>4
  <2>5. QED
    BY <2>3, <2>4
<1>8. Sent'
  <2> SUFFICES ASSUME NEW o \in Outputs
               PROVE  /\ Len(output_channel'[o]) <= 1
                      /\ output_channel'[o] # <<>> =>
                           /\ in_match'[output_channel'[o][1].source] = o
                           /\ output_channel'[o][1].departure = n'
                           /\ \A l \in DOMAIN voq'[output_channel'[o][1].source][o] :
                                output_channel'[o][1].arrival < voq'[output_channel'[o][1].source][o][l]
    BY DEF Sent
  <2>1. CASE NothingSent(o)
    BY <2>1 DEF NothingSent
  <2>2. CASE \E i \in Inputs : SentFrom(o, i)
    <3>1. PICK i \in Inputs : SentFrom(o, i)
      BY <2>2
    <3>2. PICK p : p = [source |-> i, arrival |-> Head(voq[i][o]), departure |-> time]
      OBVIOUS
    <3>3. output_channel'[o] = <<p>> /\ Sends(i, o)
      BY <3>1, <3>2 DEF SentFrom
    <3>4. Len(output_channel'[o]) = 1 /\ output_channel'[o][1] = p
      BY <3>3
    <3>5. p.source = i /\ p.departure = n /\ p.arrival = Head(voq[i][o])
      BY <1>1, <3>2
    <3>6. ASSUME NEW l \in DOMAIN voq'[i][o] PROVE Head(voq[i][o]) < voq'[i][o][l]
      <4>1. PICK q \in Seq(Nat) : q = voq[i][o] /\ q # <<>>
        BY <1>1, <3>3
      <4>2. PICK r \in Seq(Nat) : r = Tail(q) /\ r = voq'[i][o]
        <5>1. voq'[i][o] = Tail(q)
          BY <1>1, <3>3, <4>1
        <5>2. QED
          BY <1>3, <5>1
      <4>3. /\ l \in DOMAIN r /\ l \in Nat \ {0} /\ l + 1 \in DOMAIN q /\ r[l] = q[l + 1]
            /\ 1 \in DOMAIN q /\ Head(q) = q[1]
        BY <4>1, <4>2
      <4>4. q[1] < q[l + 1]
        <5>1. 1 < l + 1
          BY <4>3
        <5>2. QED
          BY <1>6, <4>1, <4>3, <5>1
      <4>5. QED
        BY <4>1, <4>2, <4>3, <4>4
    <3>7. QED
      BY <1>1, <3>3, <3>4, <3>5, <3>6
  <2>3. QED
    BY <1>2, <2>1, <2>2
<1>9. /\ QueueLengths \in Matrices /\ TimesSpent \in Matrices
      /\ \A i \in Inputs, o \in Outputs :
           /\ QueueLengths[i][o] = Len(voq[i][o])
           /\ TimesSpent[i][o] = Spent(voq[i][o], n)
      /\ SumOverQueues(QueueLengths) \in Int /\ SumOverQueues(TimesSpent) \in Int
  BY SumsTyped DEF SimInv
<1>10. /\ \A o \in Outputs : output_channel[o] = <<>>
       /\ SumFunction(OutputLengths) = 0 /\ SumFunction(DelaysSent) = 0
  <2>1. \A o \in Outputs : output_channel[o] = <<>>
    BY <1>1 DEF SimInv, InTurn, EmptyOutputs
  <2>2. \A o \in Outputs : OutputLengths[o] = 0 /\ DelaysSent[o] = 0
    BY <2>1 DEF OutputLengths, DelaysSent
  <2>3. OutputLengths \in [Outputs -> Int] /\ DelaysSent \in [Outputs -> Int]
    BY SumsTyped DEF SimInv
  <2>4. QED
    BY <2>1, <2>2, <2>3, OutputsSum
<1>11. StallsCounted'
  <2>1. PICK go : go = [i \in Inputs |-> [o \in Outputs |-> IF Sends(i, o) THEN 1 ELSE 0]]
    OBVIOUS
  <2>2. go \in Matrices
    BY <2>1 DEF Matrices
  <2>3. PICK len : len = [i \in Inputs |-> [o \in Outputs |-> Len(voq'[i][o])]]
    OBVIOUS
  <2>4. \A i \in Inputs, o \in Outputs :
          Len(voq'[i][o]) \in Int /\ QueueLengths[i][o] = Len(voq'[i][o]) + go[i][o]
    <3> SUFFICES ASSUME NEW i \in Inputs, NEW o \in Outputs
                 PROVE  Len(voq'[i][o]) \in Int /\ QueueLengths[i][o] = Len(voq'[i][o]) + go[i][o]
      OBVIOUS
    <3>1. CASE Sends(i, o)
      <4>1. go[i][o] = 1 /\ voq'[i][o] = Tail(voq[i][o])
        BY <1>1, <2>1, <3>1
      <4>2. QED
        BY <1>3, <1>9, <3>1, <4>1
    <3>2. CASE ~ Sends(i, o)
      <4>1. go[i][o] = 0 /\ voq'[i][o] = voq[i][o] /\ Len(voq[i][o]) \in Nat
        BY <1>1, <2>1, <3>2
      <4>2. QED
        BY <1>9, <4>1
    <3>3. QED
      BY <3>1, <3>2
  <2>5. len \in Matrices /\ \A i \in Inputs, o \in Outputs : QueueLengths[i][o] = len[i][o] + go[i][o]
    BY <2>3, <2>4 DEF Matrices
  <2>6. SumOverQueues(QueueLengths) = SumOverQueues(len) + SumOverQueues(go)
    BY <1>9, <2>2, <2>5, QueuesPlus
  <2>7. PICK out : out = [o \in Outputs |-> Len(output_channel'[o])]
    OBVIOUS
  <2>8. ASSUME NEW o \in Outputs
        PROVE  /\ out[o] \in Int
               /\ \/ out[o] = 0 /\ \A i \in Inputs : go[i][o] = 0
                  \/ \E i \in Inputs : go[i][o] = out[o] /\ \A j \in Inputs : j # i => go[j][o] = 0
    <3>1. CASE NothingSent(o)
      BY <2>1, <2>7, <3>1 DEF NothingSent
    <3>2. CASE \E i \in Inputs : SentFrom(o, i)
      <4>1. PICK i \in Inputs : SentFrom(o, i)
        BY <3>2
      <4>2. Len(output_channel'[o]) = 1
        BY <4>1 DEF SentFrom
      <4>3. go[i][o] = 1 /\ \A j \in Inputs : j # i => go[j][o] = 0
        BY <2>1, <4>1 DEF SentFrom
      <4>4. out[o] = 1
        BY <2>7, <4>2
      <4>5. QED
        BY <4>3, <4>4
    <3>3. QED
      BY <1>2, <3>1, <3>2
  <2>9. out \in [Outputs -> Int]
    BY <2>7, <2>8
  <2>10. SumOverQueues(go) = SumFunction(out)
    BY <2>2, <2>8, <2>9, QueuesByOutput
  <2>11. Cardinality({ i \in Inputs : input_channel[i] # None }) = 0
    <3>1. { i \in Inputs : input_channel[i] # None } = {}
      BY <1>1 DEF NoMatch
    <3>2. QED
      BY <3>1, FS_EmptySet
  <2>12. num_stall_packets = 0 + SumOverQueues(QueueLengths) + 0
    BY <1>10, <2>11 DEF SimInv, StallsCounted, OutputLengths
  <2>13. SumOverQueues(len) \in Int /\ SumFunction(out) \in Int
    BY <2>5, <2>9, QueuesSum, OutputsSum
  <2>14. num_stall_packets' = 0 + SumOverQueues(len) + SumFunction(out)
    BY <1>1, <1>9, <2>6, <2>10, <2>12, <2>13
  <2>15. QED
    BY <1>1, <2>3, <2>7, <2>11, <2>14 DEF StallsCounted, QueueLengths, SumOverQueues
<1>12. Little'
  <2>1. PICK go : go = [i \in Inputs |-> [o \in Outputs |->
                          IF Sends(i, o) THEN n - Head(voq[i][o]) ELSE 0]]
    OBVIOUS
  <2>2. go \in Matrices
    <3>1. \A i \in Inputs, o \in Outputs :
            (IF Sends(i, o) THEN n - Head(voq[i][o]) ELSE 0) \in Int
      BY <1>1, <1>3
    <3>2. QED
      BY <2>1, <3>1 DEF Matrices
  <2>3. PICK left : left = [i \in Inputs |-> [o \in Outputs |-> Spent(voq'[i][o], n)]]
    OBVIOUS
  <2>4. ASSUME NEW i \in Inputs, NEW o \in Outputs
        PROVE  Spent(voq'[i][o], n) \in Int /\ TimesSpent[i][o] = Spent(voq'[i][o], n) + go[i][o]
    <3>1. voq'[i][o] \in Seq(Nat)
      BY <1>3
    <3>2. Spent(voq'[i][o], n) \in Int
      BY <1>1, <3>1, SpentIsTotal
    <3>3. CASE ~ Sends(i, o)
      BY <1>1, <1>9, <2>1, <3>2, <3>3
    <3>4. CASE Sends(i, o)
      <4>1. Spent(voq[i][o], n) = (n - Head(voq[i][o])) + Spent(Tail(voq[i][o]), n)
        BY <1>1, <3>4, SpentHead
      <4>2. go[i][o] = n - Head(voq[i][o]) /\ n - Head(voq[i][o]) \in Int
        BY <1>1, <1>3, <2>1, <3>4
      <4>3. QED
        BY <1>1, <1>9, <3>2, <3>4, <4>1, <4>2
    <3>5. QED
      BY <3>2, <3>3, <3>4
  <2>5. left \in Matrices /\ \A i \in Inputs, o \in Outputs : TimesSpent[i][o] = left[i][o] + go[i][o]
    BY <2>3, <2>4 DEF Matrices
  <2>6. SumOverQueues(TimesSpent) = SumOverQueues(left) + SumOverQueues(go)
    BY <1>9, <2>2, <2>5, QueuesPlus
  <2>7. PICK out : out = DelaysSent'
    OBVIOUS
  <2>8. ASSUME NEW o \in Outputs
        PROVE  /\ out[o] \in Int
               /\ \/ out[o] = 0 /\ \A i \in Inputs : go[i][o] = 0
                  \/ \E i \in Inputs : go[i][o] = out[o] /\ \A j \in Inputs : j # i => go[j][o] = 0
    <3>0. out[o] = IF output_channel'[o] = <<>> THEN 0
                   ELSE output_channel'[o][1].departure - output_channel'[o][1].arrival
      BY <2>7 DEF DelaysSent
    <3>1. CASE NothingSent(o)
      BY <2>1, <3>0, <3>1 DEF NothingSent
    <3>2. CASE \E i \in Inputs : SentFrom(o, i)
      <4>1. PICK i \in Inputs : SentFrom(o, i)
        BY <3>2
      <4>2. PICK p : p = [source |-> i, arrival |-> Head(voq[i][o]), departure |-> time]
        OBVIOUS
      <4>3. output_channel'[o] = <<p>> /\ Sends(i, o)
        BY <4>1, <4>2 DEF SentFrom
      <4>4. output_channel'[o] # <<>> /\ output_channel'[o][1] = p
        BY <4>3
      <4>5. p.departure = n /\ p.arrival = Head(voq[i][o])
        BY <1>1, <4>2
      <4>6. out[o] = n - Head(voq[i][o]) /\ out[o] \in Int
        BY <1>1, <1>3, <3>0, <4>3, <4>4, <4>5
      <4>7. go[i][o] = out[o] /\ \A j \in Inputs : j # i => go[j][o] = 0
        BY <2>1, <4>1, <4>6 DEF SentFrom
      <4>8. QED
        BY <4>6, <4>7
    <3>3. QED
      BY <1>2, <3>1, <3>2
  <2>9. out \in [Outputs -> Int]
    <3>1. out = [o \in Outputs |-> out[o]]
      BY <2>7 DEF DelaysSent
    <3>2. QED
      BY <2>8, <3>1
  <2>10. SumOverQueues(go) = SumFunction(out)
    BY <2>2, <2>8, <2>9, QueuesByOutput
  <2>11. PICK Q \in Int, D \in Int : /\ Q = instruments.totalQueueLength.sample_sum
                                     /\ D = instruments.delay.sample_sum
    BY DEF SimInv, SimTypeOK, SampleSums
  <2>12. Q = D + SumOverQueues(TimesSpent) + 0
    BY <1>10, <2>11 DEF SimInv, Little
  <2>13. SumOverQueues(left) \in Int /\ SumFunction(out) \in Int
    BY <2>5, <2>9, QueuesSum, OutputsSum
  <2>14. Q = D + SumOverQueues(left) + SumFunction(out)
    BY <1>9, <2>6, <2>10, <2>12, <2>13
  <2>15. TimesSpent' = left
    BY <1>1, <2>3 DEF TimesSpent, Spent
  <2>16. SumOverQueues(TimesSpent)' = SumOverQueues(left) /\ SumFunction(DelaysSent)' = SumFunction(out)
    BY <2>7, <2>15 DEF SumOverQueues
  <2>17. QED
    BY <1>1, <2>11, <2>14, <2>16 DEF Little
<1>13. QED
  BY <1>4, <1>5, <1>7, <1>8, <1>11, <1>12 DEF SimInv

(* What is received from the output channels, packet by packet, adds up as *)
(* it does channel by channel.                                             *)
LEMMA DepartedSums ==
    ASSUME SimInv, NEW v \in [Outputs -> Int], NEW u, DOMAIN u = Departed,
           \A o \in Outputs : IF output_channel[o] = <<>> THEN v[o] = 0
                              ELSE u[output_channel[o][1]] = v[o]
    PROVE  /\ IsFiniteSet(Departed) /\ \A p \in Departed : u[p] \in Int
           /\ Total(u, Departed) = SumFunction(v) /\ SumFunction(u) = SumFunction(v)
<1> DEFINE full(o) == output_channel[o] # <<>>
           a == [p \in Departed |-> [o \in Outputs |->
                   IF full(o) /\ output_channel[o][1] = p THEN v[o] ELSE 0]]
           b == [o \in Outputs |-> [p \in Departed |-> a[p][o]]]
<1>1. IsFiniteSet(Outputs)
  BY PortsAreFinite
<1>2. /\ \A o \in Outputs : full(o) => output_channel[o][1] \in Departed
      /\ \A p \in Departed : \E o \in Outputs : full(o) /\ p = output_channel[o][1]
  BY DEF Departed
<1>3. \A o1, o2 \in Outputs :
        full(o1) /\ full(o2) /\ output_channel[o1][1] = output_channel[o2][1] => o1 = o2
  BY DEF SimInv, Sent
<1>4. IsFiniteSet(Departed)
  <2>1. Departed = { output_channel[o][1] : o \in { d \in Outputs : full(d) } }
    BY DEF Departed
  <2>2. IsFiniteSet({ d \in Outputs : full(d) })
    BY <1>1, FS_Subset
  <2>3. PICK D : D = { d \in Outputs : full(d) }
    OBVIOUS
  <2>4. PICK f : f = [d \in D |-> output_channel[d][1]]
    OBVIOUS
  <2>5. /\ f \in [D -> Departed]
        /\ \A x, y \in D : f[x] = f[y] => x = y
        /\ \A p \in Departed : \E x \in D : f[x] = p
    BY <1>2, <1>3, <2>3, <2>4
  <2>6. QED
    BY <2>2, <2>3, <2>5, SameCount
<1>5. \A p \in Departed, o \in Outputs :
        a[p][o] = (IF full(o) /\ output_channel[o][1] = p THEN v[o] ELSE 0) /\ b[o][p] = a[p][o]
  OBVIOUS
<1> HIDE DEF a, b
<1>6. Exchanged(a, b, Departed, Outputs)
  <2>1. \A p \in Departed, o \in Outputs : a[p][o] \in Int
    BY <1>5
  <2>2. QED
    BY <1>5, <2>1 DEF Exchanged
<1>7. OneEach(u, a, Departed, Outputs)
  <2> SUFFICES ASSUME NEW p \in Departed
               PROVE  /\ u[p] \in Int
                      /\ \E o \in Outputs : a[p][o] = u[p] /\ \A z \in Outputs : z # o => a[p][z] = 0
    BY DEF OneEach
  <2>1. PICK o \in Outputs : full(o) /\ p = output_channel[o][1]
    BY <1>2
  <2>2. u[p] = v[o] /\ a[p][o] = v[o]
    BY <1>5, <2>1
  <2>3. \A z \in Outputs : z # o => a[p][z] = 0
    BY <1>3, <1>5, <2>1
  <2>4. QED
    BY <2>2, <2>3
<1>8. OneEach(v, b, Outputs, Departed)
  <2> SUFFICES ASSUME NEW o \in Outputs
               PROVE  \/ v[o] = 0 /\ \A p \in Departed : b[o][p] = 0
                      \/ \E p \in Departed : b[o][p] = v[o] /\ \A z \in Departed : z # p => b[o][z] = 0
    BY DEF OneEach
  <2>1. CASE full(o)
    BY <1>2, <1>5, <2>1
  <2>2. CASE ~ full(o)
    BY <1>5, <2>2
  <2>3. QED
    BY <2>1, <2>2
<1>9. Total(u, Departed) = Total(v, Outputs)
  BY <1>1, <1>4, <1>6, <1>7, <1>8, MovedSums
<1>10. \A p \in Departed : u[p] \in Int
  BY <1>7 DEF OneEach
<1>11. SumFunction(v) = Total(v, Outputs) /\ SumFunction(u) = Total(u, Departed)
  <2>1. SumFunction(v) = Total(v, Outputs)
    BY OutputsSum
  <2>2. SumFunction(u) = Total(u, Departed)
    BY <1>4, <1>10, SumIsTotal
  <2>3. QED
    BY <2>1, <2>2
<1>12. QED
  BY <1>4, <1>9, <1>10, <1>11

(* A channel that is not empty has one packet, and none when it is taken. *)
LEMMA OnlyOne ==
    ASSUME NEW S, NEW s \in Seq(S), Len(s) <= 1, s # <<>>
    PROVE  Len(s) = 1 /\ Tail(s) = <<>>
<1>1. PICK len \in Nat : len = Len(s)
  BY LenProperties
<1>2. len # 0
  BY <1>1, EmptySeq
<1>3. len <= 1
  BY <1>1
<1>4. len = 1
  BY <1>2, <1>3
<1>5. Tail(s) \in Seq(S) /\ Len(Tail(s)) = len - 1
  BY <1>1
<1>6. Tail(s) = <<>>
  BY <1>4, <1>5, EmptySeq
<1>7. QED
  BY <1>1, <1>4, <1>6

LEMMA DepartedFacts ==
    ASSUME SimInv
    PROVE  /\ Cardinality(Departed) = SumFunction(OutputLengths)
           /\ SumFunction([p \in Departed |-> p.departure - p.arrival]) = SumFunction(DelaysSent)
<1>1. OutputLengths \in [Outputs -> Int] /\ DelaysSent \in [Outputs -> Int]
  BY SumsTyped DEF SimInv
<1>2. \A o \in Outputs : output_channel[o] # <<>> => output_channel[o][1] \in Departed
  BY DEF Departed
<1>3. Cardinality(Departed) = SumFunction(OutputLengths)
  <2>1. PICK u : u = [p \in Departed |-> 1]
    OBVIOUS
  <2>2. ASSUME NEW o \in Outputs
        PROVE  IF output_channel[o] = <<>> THEN OutputLengths[o] = 0
               ELSE u[output_channel[o][1]] = OutputLengths[o]
    <3>1. PICK s \in Seq(Packets) : s = output_channel[o] /\ Len(s) <= 1
      BY DEF SimInv, SimTypeOK, Sent
    <3>2. OutputLengths[o] = Len(s)
      BY <3>1 DEF OutputLengths
    <3>3. s # <<>> => Len(s) = 1
      BY <3>1, OnlyOne
    <3>4. QED
      BY <1>2, <2>1, <3>1, <3>2, <3>3
  <2>3. IsFiniteSet(Departed) /\ Total(u, Departed) = SumFunction(OutputLengths)
    BY <1>1, <2>1, <2>2, DepartedSums
  <2>4. Departed \in SUBSET Departed /\ \A p \in Departed : u[p] = IF p \in Departed THEN 1 ELSE 0
    BY <2>1
  <2>5. Total(u, Departed) = Cardinality(Departed)
    BY <2>3, <2>4, TotalCounts
  <2>6. QED
    BY <2>3, <2>5
<1>4. SumFunction([p \in Departed |-> p.departure - p.arrival]) = SumFunction(DelaysSent)
  <2>1. PICK u : u = [p \in Departed |-> p.departure - p.arrival]
    OBVIOUS
  <2>2. ASSUME NEW o \in Outputs
        PROVE  IF output_channel[o] = <<>> THEN DelaysSent[o] = 0
               ELSE u[output_channel[o][1]] = DelaysSent[o]
    BY <1>2, <2>1 DEF DelaysSent
  <2>3. SumFunction(u) = SumFunction(DelaysSent)
    BY <1>1, <2>1, <2>2, DepartedSums
  <2>4. QED
    BY <2>1, <2>3
<1>5. QED
  BY <1>3, <1>4

LEMMA DepartingCorrect ==
    ASSUME SimInv, Departing
    PROVE  SimInv'
<1> DEFINE received == Cardinality(Departed)
           delays == SumFunction([p \in Departed |-> p.departure - p.arrival])
<1>1. /\ phase = "departing" /\ phase' = "arriving" /\ n' = n + 1 /\ time' = time /\ time = n + 1
      /\ input_channel = NoMatch
      /\ UNCHANGED <<input_channel, voq, arrivals, in_match, time>>
      /\ num_stall_packets' = num_stall_packets - received
      /\ n \in Nat /\ time \in Nat
  BY DEF SimInv, SimTypeOK, InTurn, Departing
<1>2. /\ received = SumFunction(OutputLengths) /\ delays = SumFunction(DelaysSent)
      /\ received \in Int /\ delays \in Int
      /\ SumOverQueues(QueueLengths) \in Int /\ SumOverQueues(TimesSpent) \in Int
      /\ QueueLengths \in Matrices /\ TimesSpent \in Matrices
      /\ \A i \in Inputs, o \in Outputs :
           /\ voq[i][o] \in Seq(Nat)
           /\ QueueLengths[i][o] = Len(voq[i][o])
           /\ TimesSpent[i][o] = Spent(voq[i][o], n)
  BY DepartedFacts, SumsTyped DEF SimInv
<1>3. num_stall_packets' = SumOverQueues(QueueLengths)
  <2>1. Cardinality({ i \in Inputs : input_channel[i] # None }) = 0
    <3>1. { i \in Inputs : input_channel[i] # None } = {}
      BY <1>1 DEF NoMatch
    <3>2. QED
      BY <3>1, FS_EmptySet
  <2>2. num_stall_packets = 0 + SumOverQueues(QueueLengths) + SumFunction(OutputLengths)
    BY <2>1 DEF SimInv, StallsCounted, OutputLengths
  <2> HIDE DEF received
  <2>3. QED
    BY <1>1, <1>2, <2>2
<1>4. output_channel' = EmptyOutputs
  <2>1. ASSUME NEW o \in Outputs
        PROVE  (IF output_channel[o] = <<>> THEN <<>> ELSE Tail(output_channel[o])) = <<>>
    <3>1. PICK s \in Seq(Packets) : s = output_channel[o] /\ Len(s) <= 1
      BY DEF SimInv, SimTypeOK, Sent
    <3>2. s # <<>> => Tail(s) = <<>>
      BY <3>1, OnlyOne
    <3>3. QED
      BY <3>1, <3>2
  <2>2. QED
    BY <2>1 DEF Departing, EmptyOutputs
<1>5. PICK c \in Int, d \in Int, e \in Int, f \in Int :
        /\ c = instruments.delay.num_samples /\ d = instruments.delay.sample_sum
        /\ e = instruments.totalQueueLength.num_samples /\ f = instruments.totalQueueLength.sample_sum
  BY DEF SimInv, SimTypeOK, SampleSums
<1>6. instruments' =
        [delay |-> [num_samples |-> c + received, sample_sum |-> d + delays],
         totalQueueLength |-> [num_samples |-> e + 1, sample_sum |-> f + num_stall_packets']]
  BY <1>5 DEF Departing, AddSamples
<1>7. SimTypeOK'
  <2>1. output_channel' \in [Outputs -> Seq(Packets)]
    BY <1>4 DEF EmptyOutputs
  <2>2. num_stall_packets' \in Int /\ n' \in Nat
    BY <1>1, <1>2, <1>3
  <2>3. instruments' \in [delay : SampleSums, totalQueueLength : SampleSums]
    <3>1. c + received \in Int /\ d + delays \in Int /\ e + 1 \in Int /\ f + num_stall_packets' \in Int
      BY <1>2, <2>2
    <3> HIDE DEF received, delays
    <3>2. QED
      BY <1>6, <3>1 DEF SampleSums
  <2>4. QED
    BY <1>1, <2>1, <2>2, <2>3 DEF SimInv, SimTypeOK, SimPhases
<1>8. InTurn'
  BY <1>1, <1>4 DEF InTurn
<1>9. Stamped'
  BY <1>1 DEF SimInv, Stamped
<1>10. Sent'
  BY <1>4 DEF Sent, EmptyOutputs
<1>11. SumFunction(OutputLengths)' = 0 /\ SumFunction(DelaysSent)' = 0
  <2>1. PICK g : g = [o \in Outputs |-> 0]
    OBVIOUS
  <2>2. g \in [Outputs -> Int] /\ \A o \in Outputs : g[o] = 0
    BY <2>1
  <2>3. SumFunction(g) = 0
    BY <2>2, OutputsSum
  <2>4. OutputLengths' = g /\ DelaysSent' = g
    BY <1>4, <2>1 DEF OutputLengths, DelaysSent, EmptyOutputs
  <2>5. QED
    BY <2>3, <2>4
<1>12. StallsCounted'
  <2>1. { i \in Inputs : input_channel'[i] # None } = {}
    BY <1>1 DEF NoMatch
  <2>2. Cardinality({ i \in Inputs : input_channel'[i] # None }) = 0
    BY <2>1, FS_EmptySet
  <2>3. SumOverQueues(QueueLengths)' = SumOverQueues(QueueLengths)
    BY <1>1 DEF SumOverQueues, QueueLengths
  <2>4. num_stall_packets' = 0 + SumOverQueues(QueueLengths)' + SumFunction(OutputLengths)'
    BY <1>2, <1>3, <1>11, <2>3
  <2>5. QED
    BY <2>2, <2>4 DEF StallsCounted, OutputLengths
<1>13. Little'
  <2>1. PICK later : later = TimesSpent'
    OBVIOUS
  <2>2. later = [i \in Inputs |-> [o \in Outputs |-> Spent(voq[i][o], n + 1)]]
    BY <1>1, <2>1 DEF TimesSpent, Spent
  <2>3. ASSUME NEW i \in Inputs, NEW o \in Outputs
        PROVE  later[i][o] \in Int /\ later[i][o] = TimesSpent[i][o] + QueueLengths[i][o]
    <3>1. Spent(voq[i][o], n + 1) = Spent(voq[i][o], n) + Len(voq[i][o])
      BY <1>1, <1>2, SpentLater
    <3>2. Spent(voq[i][o], n + 1) \in Int
      BY <1>1, <1>2, SpentIsTotal
    <3>3. QED
      BY <1>2, <2>2, <3>1, <3>2
  <2>4. later \in Matrices
    BY <2>2, <2>3 DEF Matrices
  <2>5. SumOverQueues(later) = SumOverQueues(TimesSpent) + SumOverQueues(QueueLengths)
    BY <1>2, <2>3, <2>4, QueuesPlus
  <2>6. f = d + SumOverQueues(TimesSpent) + delays
    BY <1>2, <1>5 DEF SimInv, Little
  <2>7. PICK g \in Int, r \in Int, w \in Int :
          g = delays /\ r = SumOverQueues(TimesSpent) /\ w = SumOverQueues(QueueLengths)
    BY <1>2
  <2>8. f + num_stall_packets' = (d + g) + SumOverQueues(later) + 0
    <3>1. num_stall_packets' = w /\ SumOverQueues(later) = r + w
      BY <1>3, <2>5, <2>7
    <3>2. f = d + r + g
      BY <2>6, <2>7
    <3> HIDE DEF delays, received
    <3>3. QED
      BY <3>1, <3>2
  <2>9. instruments'.totalQueueLength.sample_sum = f + num_stall_packets'
        /\ instruments'.delay.sample_sum = d + g
    BY <1>6, <2>7
  <2>10. SumOverQueues(TimesSpent)' = SumOverQueues(later)
    BY <2>1 DEF SumOverQueues
  <2>11. QED
    BY <1>11, <2>8, <2>9, <2>10 DEF Little
<1>14. QED
  BY <1>7, <1>8, <1>9, <1>10, <1>12, <1>13 DEF SimInv

-----------------------------------------------------------------------------
LEMMA SimStuttering ==
    ASSUME SimInv, UNCHANGED vars
    PROVE  SimInv'
<1> USE DEF vars, switchVars
<1>1. SimTypeOK' /\ InTurn' /\ Stamped' /\ Sent'
  <2>1. SimTypeOK'
    BY DEF SimInv, SimTypeOK
  <2>2. InTurn'
    BY DEF SimInv, InTurn, IsMatching
  <2>3. Stamped'
    BY DEF SimInv, Stamped
  <2>4. Sent'
    BY DEF SimInv, Sent
  <2>5. QED
    BY <2>1, <2>2, <2>3, <2>4
<1>2. StallsCounted'
  BY DEF SimInv, StallsCounted, SumOverQueues, QueueLengths
<1>3. Little'
  BY DEF SimInv, Little, SumOverQueues, TimesSpent, DelaysSent
<1>4. QED
  BY <1>1, <1>2, <1>3 DEF SimInv

(* The invariant that every call of the loop preserves: at each point of a  *)
(* slot, each packet that was sent is where the code has it, and nowhere    *)
(* else.                                                                    *)
THEOREM SimCorrect == Spec => []SimInv
<1>1. SimInv /\ [Next]_vars => SimInv'
  <2> SUFFICES ASSUME SimInv, [Next]_vars PROVE SimInv'
    OBVIOUS
  <2>1. CASE Arriving
    BY <2>1, ArrivingCorrect
  <2>2. CASE Switching
    <3>1. CASE ReadInputs
      BY <2>2, <3>1, ReadInputsCorrect DEF Switching
    <3>2. CASE Schedule
      BY <2>2, <3>2, ScheduleCorrect DEF Switching
    <3>3. CASE WriteOutputs
      BY <2>2, <3>3, WriteOutputsCorrect DEF Switching
    <3>4. QED
      BY <2>2, <3>1, <3>2, <3>3 DEF Switching
  <2>3. CASE Departing
    BY <2>3, DepartingCorrect
  <2>4. CASE Reset
    BY <2>4, ResetCorrect
  <2>5. CASE UNCHANGED vars
    BY <2>5, SimStuttering
  <2>6. QED
    BY <2>1, <2>2, <2>3, <2>4, <2>5 DEF Next
<1>2. QED
  BY <1>1, SimInitCorrect, PTL DEF Spec

(* The simulator's count of waiting packets is right at every point of      *)
(* every slot, in every experiment: no packet is lost or counted twice.     *)
THEOREM StallsAreCounted == Spec => []StallsCounted
<1>1. SimInv => StallsCounted
  BY DEF SimInv
<1>2. QED
  BY <1>1, SimCorrect, PTL

(* An output channel has one packet at most when the simulator takes the    *)
(* first, which is what departing() asserts, and that packet came before    *)
(* all that its queue still has.                                            *)
THEOREM PacketsServedInOrder == Spec => []ServedInOrder
<1>1. SimInv => ServedInOrder
  <2> SUFFICES ASSUME SimInv, NEW o \in Outputs
               PROVE  /\ Len(output_channel[o]) <= 1
                      /\ \A k \in DOMAIN output_channel[o] :
                           \A l \in DOMAIN voq[output_channel[o][k].source][o] :
                             output_channel[o][k].arrival < voq[output_channel[o][k].source][o][l]
    BY DEF ServedInOrder
  <2>1. PICK s \in Seq(Packets) : s = output_channel[o] /\ Len(s) <= 1
    BY DEF SimInv, SimTypeOK, Sent
  <2>2. \A k \in DOMAIN s : k = 1 /\ s # <<>>
    <3> SUFFICES ASSUME NEW k \in DOMAIN s PROVE k = 1 /\ s # <<>>
      OBVIOUS
    <3>1. PICK len \in Nat : len = Len(s)
      OBVIOUS
    <3>2. k \in 1 .. len /\ len <= 1
      BY <2>1, <3>1
    <3>3. k = 1 /\ len # 0
      BY <3>2
    <3>4. s # <<>>
      BY <3>1, <3>3
    <3>5. QED
      BY <3>3, <3>4
  <2>3. QED
    BY <2>1, <2>2 DEF SimInv, Sent
<1>2. QED
  BY <1>1, SimCorrect, PTL

(* Little's law for every experiment: between two slots the samples of the  *)
(* queue lengths add up to the delays recorded and the time that the        *)
(* packets still queued have spent there.                                   *)
THEOREM LittlesLaw == Spec => []DelaysMatchQueueLengths
<1>1. SimInv => DelaysMatchQueueLengths
  <2> SUFFICES ASSUME SimInv, phase = "arriving"
               PROVE  instruments.totalQueueLength.sample_sum =
                        instruments.delay.sample_sum + SumOverQueues(TimesSpent)
    BY DEF DelaysMatchQueueLengths
  <2>1. \A o \in Outputs : output_channel[o] = <<>>
    BY DEF SimInv, InTurn, EmptyOutputs
  <2>2. DelaysSent \in [Outputs -> Int] /\ \A o \in Outputs : DelaysSent[o] = 0
    BY <2>1 DEF DelaysSent
  <2>3. SumFunction(DelaysSent) = 0
    BY <2>2, OutputsSum
  <2>4. SumOverQueues(TimesSpent) \in Int /\ instruments.delay.sample_sum \in Int
    BY SumsTyped DEF SimInv, SimTypeOK, SampleSums
  <2>5. QED
    BY <2>3, <2>4 DEF SimInv, Little
<1>2. QED
  BY <1>1, SimCorrect, PTL

-----------------------------------------------------------------------------
(* The refinement: each of the three calls is the call of that name of the *)
(* switch by its queue lengths, and the rest of a slot does not change it.  *)

LEMMA LengthsOfReadInputs ==
    ASSUME SimInv, ReadInputs
    PROVE  Lengths!ReadInputs
<1>1. /\ phase = "read_inputs" /\ phase' = "schedule"
      /\ input_channel \in Assignments /\ UNCHANGED in_match
      /\ arrivals' = Listed(arrivals, Received)
      /\ arrivals \in Seq(Marks)
      /\ \A i \in Inputs : input_channel[i] # None => Len(voq[i][input_channel[i]]) < MaxQueueLen
  BY DEF SimInv, SimTypeOK, InTurn, ReadInputs, Marks
<1>2. Told(Listed(arrivals, Received)) = input_channel
  BY <1>1, ToldOfArrivals
<1>3. Told(arrivals)' = input_channel
  BY <1>1, <1>2 DEF Told
<1>4. \A i \in Inputs, o \in Outputs :
        /\ QueueLengths[i][o] = Len(voq[i][o])
        /\ Len(voq'[i][o]) = Len(voq[i][o]) + IF input_channel[i] = o THEN 1 ELSE 0
  <2> SUFFICES ASSUME NEW i \in Inputs, NEW o \in Outputs
               PROVE  /\ QueueLengths[i][o] = Len(voq[i][o])
                      /\ Len(voq'[i][o]) = Len(voq[i][o]) + IF input_channel[i] = o THEN 1 ELSE 0
    OBVIOUS
  <2>1. PICK q \in Seq(Nat) : q = voq[i][o]
    BY DEF SimInv, SimTypeOK, VOQs
  <2>2. voq'[i][o] = IF input_channel[i] = o THEN Append(q, time) ELSE q
    BY <2>1 DEF ReadInputs
  <2>3. Len(q) \in Nat /\ Len(Append(q, time)) = Len(q) + 1
    BY DEF SimInv, SimTypeOK
  <2>4. Len(voq'[i][o]) = Len(q) + IF input_channel[i] = o THEN 1 ELSE 0
    <3>1. CASE input_channel[i] = o
      BY <2>2, <2>3, <3>1
    <3>2. CASE input_channel[i] # o
      BY <2>2, <2>3, <3>2
    <3>3. QED
      BY <3>1, <3>2
  <2>5. QED
    BY <2>1, <2>4 DEF QueueLengths
<1>5. QueueLengths' = Lengths!Enqueue(QueueLengths, input_channel)
  BY <1>4 DEF QueueLengths, Lengths!Enqueue
<1>6. \A i \in Inputs : input_channel[i] # None =>
        QueueLengths[i][input_channel[i]] < MaxQueueLen
  BY <1>1 DEF QueueLengths, Assignments
<1>7. input_channel \in Lengths!Assignments
  BY <1>1 DEF Assignments, Lengths!Assignments
<1>8. QED
  BY <1>1, <1>3, <1>5, <1>6, <1>7 DEF Lengths!ReadInputs, NoMatch, Lengths!NoMatch

LEMMA LengthsOfSchedule ==
    ASSUME Schedule
    PROVE  \E m \in Lengths!Assignments : Lengths!IsMatching(m) /\ Lengths!ScheduleWith(m)
<1>1. PICK m \in Assignments : IsMatching(m) /\ in_match' = m
  BY DEF Schedule
<1>2. QueueLengths' = QueueLengths
  BY DEF Schedule, QueueLengths
<1>3. m \in Lengths!Assignments /\ Lengths!IsMatching(m)
  BY <1>1 DEF Assignments, Lengths!Assignments, IsMatching, Lengths!IsMatching
<1>4. Lengths!ScheduleWith(m)
  BY <1>1, <1>2 DEF Schedule, Lengths!ScheduleWith, NoMatch, Lengths!NoMatch
<1>5. QED
  BY <1>3, <1>4

LEMMA LengthsOfWriteOutputs ==
    ASSUME SimInv, WriteOutputs
    PROVE  Lengths!WriteOutputs
<1>1. \A i \in Inputs, o \in Outputs :
        /\ QueueLengths[i][o] = Len(voq[i][o])
        /\ Len(voq'[i][o]) =
             Len(voq[i][o]) - IF in_match[i] = o /\ Len(voq[i][o]) # 0 THEN 1 ELSE 0
  <2> SUFFICES ASSUME NEW i \in Inputs, NEW o \in Outputs
               PROVE  /\ QueueLengths[i][o] = Len(voq[i][o])
                      /\ Len(voq'[i][o]) = Len(voq[i][o])
                           - IF in_match[i] = o /\ Len(voq[i][o]) # 0 THEN 1 ELSE 0
    OBVIOUS
  <2>1. PICK q \in Seq(Nat) : q = voq[i][o]
    BY DEF SimInv, SimTypeOK, VOQs
  <2>2. voq'[i][o] = IF in_match[i] = o /\ q # <<>> THEN Tail(q) ELSE q
    BY <2>1 DEF WriteOutputs, Sends, Served
  <2>3. Len(q) \in Nat /\ (q # <<>> => Len(Tail(q)) = Len(q) - 1)
    OBVIOUS
  <2>4. q # <<>> <=> Len(q) # 0
    BY EmptySeq
  <2>5. QED
    BY <2>1, <2>2, <2>3, <2>4 DEF QueueLengths
<1>2. QueueLengths' = Lengths!Dequeue(QueueLengths, in_match)
  BY <1>1 DEF QueueLengths, Lengths!Dequeue
<1>3. QED
  BY <1>2 DEF WriteOutputs, Lengths!WriteOutputs, NoMatch, Lengths!NoMatch

LEMMA LengthsOfReset ==
    ASSUME Reset
    PROVE  Lengths!SwitchReset
<1>1. QueueLengths' = Lengths!EmptyQueues
  BY DEF Reset, SwitchReset, QueueLengths, EmptyQueues, Lengths!EmptyQueues
<1>2. QED
  BY <1>1 DEF Reset, Lengths!SwitchReset, NoMatch, Lengths!NoMatch

(* To a scheduler the switch of packets is the switch of queue lengths that *)
(* the schedulers are verified with: what the vector _arrivals tells, old   *)
(* entries past its mark and all, is what has joined the queues.            *)
THEOREM PacketsImplementLengths == Spec => LengthsSpec
<1>1. Init => Lengths!SwitchInit
  <2> SUFFICES ASSUME Init PROVE Lengths!SwitchInit
    OBVIOUS
  <2>1. QueueLengths = Lengths!EmptyQueues
    BY DEF Init, SwitchInit, QueueLengths, EmptyQueues, Lengths!EmptyQueues
  <2>2. QED
    BY <2>1 DEF Init, Lengths!SwitchInit, NoMatch, Lengths!NoMatch
<1>2. SimInv /\ [Next]_vars => [Lengths!SwitchNext]_Lengths!switchVars
  <2> SUFFICES ASSUME SimInv, [Next]_vars
               PROVE  [Lengths!SwitchNext]_Lengths!switchVars
    OBVIOUS
  <2>1. CASE Arriving
    BY <2>1 DEF Arriving, Lengths!switchVars, QueueLengths, NoMatch, Lengths!NoMatch
  <2>2. CASE Switching
    <3>1. CASE ReadInputs
      BY <3>1, LengthsOfReadInputs DEF Lengths!SwitchNext
    <3>2. CASE Schedule
      BY <3>2, LengthsOfSchedule DEF Lengths!SwitchNext
    <3>3. CASE WriteOutputs
      BY <3>3, LengthsOfWriteOutputs DEF Lengths!SwitchNext
    <3>4. QED
      BY <2>2, <3>1, <3>2, <3>3 DEF Switching
  <2>3. CASE Departing
    BY <2>3 DEF Departing, Lengths!switchVars, QueueLengths, NoMatch, Lengths!NoMatch
  <2>4. CASE Reset
    BY <2>4, LengthsOfReset DEF Lengths!SwitchNext
  <2>5. CASE UNCHANGED vars
    BY <2>5 DEF vars, switchVars, Lengths!switchVars, QueueLengths, Told, NoMatch, Lengths!NoMatch
  <2>6. QED
    BY <2>1, <2>2, <2>3, <2>4, <2>5 DEF Next
<1>3. QED
  BY <1>1, <1>2, SimCorrect, PTL DEF Spec, LengthsSpec, Lengths!SwitchSpec
=============================================================================
