-------------------------- MODULE SlotBySlot_proofs --------------------------
(***************************************************************************)
(* Proofs about the schedulers that look at the queues in every slot, for  *)
(* any ports and queues: the account that each keeps of the queues agrees  *)
(* with them, what is handed out is a matching, and the trees are sampled  *)
(* in proportion to the queues.                                            *)
(***************************************************************************)
EXTENDS MCSlotBySlot, InductionLemmas, SequenceTheorems

-----------------------------------------------------------------------------
(* RandomizedMaximal: the array of edges and its index.                    *)

Graphs == [e : Seq(Inputs \X Outputs), x : [Inputs -> [Outputs -> Nat]]]

(* x says of every edge where in e, of length n, it is, and that others are  *)
(* not in it.                                                               *)
Indexes(x, e, n) ==
    \A s \in Inputs, d \in Outputs :
        /\ x[s][d] <= n
        /\ \A k \in 1 .. n : x[s][d] = k <=> e[k] = <<s, d>>

Indexed(g) == g \in Graphs /\ Indexes(g.x, g.e, Len(g.e))

HasEdge(g, s, d) == g.x[s][d] # 0

LEMMA EdgesAre ==
    ASSUME NEW g, Indexed(g), NEW s \in Inputs, NEW d \in Outputs
    PROVE  <<s, d>> \in ToSet(g.e) <=> HasEdge(g, s, d)
<1>1. /\ g.e \in Seq(Inputs \X Outputs) /\ g.x[s][d] \in Nat /\ g.x[s][d] <= Len(g.e)
      /\ \A k \in 1 .. Len(g.e) : g.x[s][d] = k <=> g.e[k] = <<s, d>>
  BY DEF Indexed, Indexes, Graphs
<1>2. ToSet(g.e) = { g.e[k] : k \in 1 .. Len(g.e) }
  BY <1>1 DEF ToSet
<1>3. QED
  BY <1>1, <1>2 DEF HasEdge

LEMMA BeforeLast ==
    ASSUME NEW n \in Nat, NEW m \in Nat, m <= n, m # n
    PROVE  m <= n - 1
OBVIOUS

LEMMA WithoutLast ==
    ASSUME NEW n \in Nat, NEW at \in 1 .. n
    PROVE  /\ n - 1 \in Int /\ n - 1 >= 0 /\ (n - 1) - 1 + 1 = n - 1
           /\ \A k \in 1 .. n - 1 : k \in 1 .. n /\ 1 + k - 1 = k
OBVIOUS

LEMMA EntriesOf ==
    ASSUME NEW S, NEW q \in Seq(S)
    PROVE  \A k \in 1 .. Len(q) : q[k] \in S
OBVIOUS

LEMMA Overwritten ==
    ASSUME NEW S, NEW e \in Seq(S), NEW at \in 1 .. Len(e), NEW c \in S,
           NEW h, h = [e EXCEPT ![at] = c]
    PROVE  /\ h \in Seq(S) /\ Len(h) = Len(e) /\ h[at] = c
           /\ \A k \in 1 .. Len(e) : k # at => h[k] = e[k]
BY ExceptSeq

(* An edge is written behind the others. *)
Written(x, e, n, s, d, y, f) ==
    /\ x \in [Inputs -> [Outputs -> Nat]]
    /\ x[s][d] = 0
    /\ f[n + 1] = <<s, d>> /\ \A k \in 1 .. n : f[k] = e[k]
    /\ y[s][d] = n + 1
    /\ \A t \in Inputs, c \in Outputs : ~ (t = s /\ c = d) => y[t][c] = x[t][c]

LEMMA WrittenBehind ==
    ASSUME NEW n \in Nat, NEW e, NEW x, Indexes(x, e, n),
           NEW s \in Inputs, NEW d \in Outputs, NEW f, NEW y,
           Written(x, e, n, s, d, y, f)
    PROVE  Indexes(y, f, n + 1)
<1>5. /\ x \in [Inputs -> [Outputs -> Nat]]
      /\ f[n + 1] = <<s, d>> /\ \A k \in 1 .. n : f[k] = e[k]
      /\ y[s][d] = n + 1
      /\ \A t \in Inputs, c \in Outputs : ~ (t = s /\ c = d) => y[t][c] = x[t][c]
  BY DEF Written
<1>6. x[s][d] = 0
  BY DEF Written
<1> SUFFICES ASSUME NEW t \in Inputs, NEW c \in Outputs
             PROVE  /\ y[t][c] <= n + 1
                    /\ \A k \in 1 .. n + 1 : y[t][c] = k <=> f[k] = <<t, c>>
  BY DEF Indexes
<1>1. /\ x[t][c] \in Nat /\ x[t][c] <= n
      /\ \A k \in 1 .. n : x[t][c] = k <=> e[k] = <<t, c>>
  BY <1>5 DEF Indexes
<1>2. CASE t = s /\ c = d
  <2>1. \A k \in 1 .. n : f[k] # <<t, c>>
    BY <1>1, <1>2, <1>5, <1>6
  <2>2. \A k \in 1 .. n + 1 : k = n + 1 \/ k \in 1 .. n
    OBVIOUS
  <2>3. f[n + 1] = <<t, c>> /\ y[t][c] = n + 1
    BY <1>2, <1>5
  <2>4. QED
    BY <2>1, <2>2, <2>3
<1>3. CASE ~ (t = s /\ c = d)
  <2>1. y[t][c] = x[t][c] /\ <<s, d>> # <<t, c>>
    BY <1>3, <1>5
  <2>2. \A k \in 1 .. n + 1 : k = n + 1 \/ k \in 1 .. n
    OBVIOUS
  <2>3. f[n + 1] # <<t, c>> /\ y[t][c] # n + 1 /\ y[t][c] <= n + 1
    BY <1>1, <1>5, <2>1
  <2>4. \A k \in 1 .. n : y[t][c] = k <=> f[k] = <<t, c>>
    BY <1>1, <1>5, <2>1
  <2>5. QED
    BY <2>2, <2>3, <2>4
<1>4. QED
  BY <1>2, <1>3

(* The last edge, <<t0, c0>>, takes the place of another one, or of itself. *)
Moved(x, e, n, s, d, t0, c0, y, f) ==
    /\ x \in [Inputs -> [Outputs -> Nat]]
    /\ x[s][d] \in 1 .. n
    /\ e[n] = <<t0, c0>>
    /\ x[s][d] \in 1 .. n - 1 => f[x[s][d]] = <<t0, c0>>
    /\ \A k \in 1 .. n - 1 : k # x[s][d] => f[k] = e[k]
    /\ y[s][d] = 0 /\ (~ (t0 = s /\ c0 = d) => y[t0][c0] = x[s][d])
    /\ \A t \in Inputs, c \in Outputs :
         ~ (t = s /\ c = d) /\ ~ (t = t0 /\ c = c0) => y[t][c] = x[t][c]

LEMMA LastMoves ==
    ASSUME NEW n \in Nat, NEW e, NEW x, Indexes(x, e, n),
           NEW s \in Inputs, NEW d \in Outputs, NEW t0 \in Inputs, NEW c0 \in Outputs,
           NEW f, NEW y, Moved(x, e, n, s, d, t0, c0, y, f)
    PROVE  /\ Indexes(y, f, n - 1)
           /\ \A t \in Inputs, c \in Outputs :
                y[t][c] # 0 <=> x[t][c] # 0 /\ ~ (t = s /\ c = d)
<1> USE DEF Moved
<1>0. PICK at \in 1 .. n : x[s][d] = at
  OBVIOUS
<1> USE <1>0
<1>1. x[t0][c0] = n /\ e[at] = <<s, d>>
  BY DEF Indexes
<1>2. (n = at) <=> (t0 = s /\ c0 = d)
  BY <1>1
<1>3. ASSUME NEW t \in Inputs, NEW c \in Outputs
      PROVE  /\ y[t][c] <= n - 1
             /\ \A k \in 1 .. n - 1 : y[t][c] = k <=> f[k] = <<t, c>>
             /\ y[t][c] # 0 <=> x[t][c] # 0 /\ ~ (t = s /\ c = d)
  <2>1. /\ x[t][c] \in Nat /\ x[t][c] <= n
        /\ \A k \in 1 .. n : x[t][c] = k <=> e[k] = <<t, c>>
    BY DEF Indexes
  <2>2. CASE t = s /\ c = d
    <3>1. ASSUME NEW k \in 1 .. n - 1 PROVE f[k] # <<t, c>>
      <4>1. CASE k = at
        <5>1. f[k] = <<t0, c0>> /\ n # at
          BY <4>1
        <5>2. QED
          BY <1>2, <2>2, <5>1
      <4>2. CASE k # at
        BY <2>1, <2>2, <4>2
      <4>3. QED
        BY <4>1, <4>2
    <3>2. QED
      BY <2>2, <3>1
  <2>3. CASE ~ (t = s /\ c = d) /\ t = t0 /\ c = c0
    <3>1. n # at /\ y[t][c] = at /\ at \in 1 .. n - 1 /\ f[at] = <<t, c>> /\ x[t][c] = n
      BY <1>1, <1>2, <2>3
    <3>2. \A k \in 1 .. n - 1 : k # at => f[k] # <<t, c>>
      BY <2>1, <3>1
    <3>3. QED
      BY <2>3, <3>1, <3>2
  <2>4. CASE ~ (t = s /\ c = d) /\ ~ (t = t0 /\ c = c0)
    <3>1. y[t][c] = x[t][c] /\ <<s, d>> # <<t, c>> /\ <<t0, c0>> # <<t, c>>
      BY <2>4
    <3>2. x[t][c] # n /\ x[t][c] # at
      BY <1>1, <2>1, <3>1
    <3>3. \A k \in 1 .. n - 1 : x[t][c] = k <=> f[k] = <<t, c>>
      BY <2>1, <3>1, <3>2
    <3>4. y[t][c] <= n - 1 /\ (y[t][c] # 0 <=> x[t][c] # 0)
      <4>1. PICK m \in Nat : m = x[t][c] /\ m <= n /\ m # n
        BY <2>1, <3>2
      <4>2. m <= n - 1
        BY <4>1, BeforeLast
      <4>3. QED
        BY <3>1, <4>1, <4>2
    <3>5. QED
      BY <2>4, <3>1, <3>3, <3>4
  <2>5. QED
    BY <2>2, <2>3, <2>4
<1>4. QED
  BY <1>3 DEF Indexes

(* insert adds the edge, and erase takes it out, and neither touches        *)
(* another edge.                                                            *)
LEMMA InsertFacts ==
    ASSUME NEW g, Indexed(g), NEW s \in Inputs, NEW d \in Outputs
    PROVE  /\ Indexed(Maximal!Insert(g, s, d))
           /\ \A t \in Inputs, c \in Outputs :
                HasEdge(Maximal!Insert(g, s, d), t, c) <=> HasEdge(g, t, c) \/ (t = s /\ c = d)
<1>1. CASE g.x[s][d] # 0
  BY <1>1 DEF Maximal!Insert, HasEdge
<1>2. CASE g.x[s][d] = 0
  <2>1. PICK e \in Seq(Inputs \X Outputs), x \in [Inputs -> [Outputs -> Nat]] :
          g.e = e /\ g.x = x /\ Indexes(x, e, Len(e))
    BY DEF Indexed, Graphs
  <2>2. PICK n \in Nat : n = Len(e)
    OBVIOUS
  <2>3. PICK f, y : f = Append(e, <<s, d>>) /\ y = [x EXCEPT ![s][d] = n + 1]
    OBVIOUS
  <2>4. Maximal!Insert(g, s, d) = [e |-> f, x |-> y]
    BY <1>2, <2>1, <2>2, <2>3 DEF Maximal!Insert
  <2>5. /\ f \in Seq(Inputs \X Outputs) /\ Len(f) = n + 1 /\ f[n + 1] = <<s, d>>
        /\ \A k \in 1 .. n : f[k] = e[k]
    BY <2>2, <2>3
  <2>6. /\ y \in [Inputs -> [Outputs -> Nat]] /\ y[s][d] = n + 1
        /\ \A t \in Inputs, c \in Outputs : ~ (t = s /\ c = d) => y[t][c] = x[t][c]
    BY <2>3
  <2>7. Indexes(y, f, n + 1)
    <3>1. x[s][d] = 0 /\ Indexes(x, e, n)
      BY <1>2, <2>1, <2>2
    <3>2. Written(x, e, n, s, d, y, f)
      BY <2>5, <2>6, <3>1 DEF Written
    <3>3. QED
      BY <3>1, <3>2, WrittenBehind
  <2>8. Indexed([e |-> f, x |-> y])
    BY <2>5, <2>6, <2>7 DEF Indexed, Graphs
  <2>9. \A t \in Inputs, c \in Outputs : y[t][c] # 0 <=> x[t][c] # 0 \/ (t = s /\ c = d)
    BY <2>6
  <2>10. QED
    BY <2>1, <2>4, <2>8, <2>9 DEF HasEdge
<1>3. QED
  BY <1>1, <1>2

LEMMA EraseFacts ==
    ASSUME NEW g, Indexed(g), NEW s \in Inputs, NEW d \in Outputs
    PROVE  /\ Indexed(Maximal!Erase(g, s, d))
           /\ \A t \in Inputs, c \in Outputs :
                HasEdge(Maximal!Erase(g, s, d), t, c) <=> HasEdge(g, t, c) /\ ~ (t = s /\ c = d)
<1>1. CASE g.x[s][d] = 0
  BY <1>1 DEF Maximal!Erase, HasEdge
<1>2. CASE g.x[s][d] # 0
  <2>1. PICK e \in Seq(Inputs \X Outputs), x \in [Inputs -> [Outputs -> Nat]] :
          g.e = e /\ g.x = x /\ Indexes(x, e, Len(e))
    BY DEF Indexed, Graphs
  <2>2. PICK n \in Nat, at \in Nat : n = Len(e) /\ at = x[s][d] /\ at \in 1 .. n
    BY <1>2, <2>1 DEF Indexes
  <2>3. PICK t0 \in Inputs, c0 \in Outputs : e[n] = <<t0, c0>>
    BY <2>2
  <2>13. PICK last \in Inputs \X Outputs : last = <<t0, c0>>
    OBVIOUS
  <2>4. PICK h, f, y : /\ h = [e EXCEPT ![at] = last]
                       /\ f = SubSeq(h, 1, n - 1)
                       /\ y = [[x EXCEPT ![t0][c0] = at] EXCEPT ![s][d] = 0]
    OBVIOUS
  <2>5. /\ h \in Seq(Inputs \X Outputs) /\ Len(h) = n
        /\ h[at] = <<t0, c0>> /\ \A k \in 1 .. n : k # at => h[k] = e[k]
    <3>1. e \in Seq(Inputs \X Outputs) /\ at \in 1 .. Len(e)
      BY <2>1, <2>2, <2>3
    <3>2. h = [e EXCEPT ![at] = last]
      BY <2>4
    <3>3. /\ h \in Seq(Inputs \X Outputs) /\ Len(h) = Len(e) /\ h[at] = last
          /\ \A k \in 1 .. Len(e) : k # at => h[k] = e[k]
      BY <3>1, <3>2, Overwritten
    <3>4. QED
      BY <2>2, <2>13, <3>3
  <2>6. Maximal!Erase(g, s, d) = [e |-> f, x |-> y]
    <3>1. Maximal!Last(e) = <<t0, c0>> /\ <<t0, c0>>[1] = t0 /\ <<t0, c0>>[2] = c0
      BY <2>2, <2>3 DEF Maximal!Last
    <3>2. Maximal!Front(h) = f
      BY <2>4, <2>5 DEF Maximal!Front
    <3>3. at # 0
      BY <2>2
    <3>4. QED
      BY <2>1, <2>2, <2>4, <2>13, <3>1, <3>2, <3>3 DEF Maximal!Erase
  <2>7. /\ f \in Seq(Inputs \X Outputs) /\ Len(f) = n - 1
        /\ \A k \in 1 .. n - 1 : f[k] = h[k]
    <3>2. /\ n - 1 \in Int /\ n - 1 >= 0 /\ (n - 1) - 1 + 1 = n - 1
          /\ \A k \in 1 .. n - 1 : k \in 1 .. n /\ 1 + k - 1 = k
      BY <2>2, WithoutLast
    <3>1. \A k \in 1 .. n - 1 : h[k] \in Inputs \X Outputs
      <4>1. \A k \in 1 .. n : h[k] \in Inputs \X Outputs
        BY <2>5, EntriesOf
      <4>2. QED
        BY <3>2, <4>1, Zenon
    <3>3. /\ f \in Seq(Inputs \X Outputs) /\ Len(f) = IF 1 <= n - 1 THEN (n - 1) - 1 + 1 ELSE 0
          /\ \A k \in 1 .. (n - 1) - 1 + 1 : f[k] = h[1 + k - 1]
      BY <2>4, <3>1, <3>2, SubSeqProperties
    <3>4. Len(f) = n - 1
      BY <3>2, <3>3
    <3>5. \A k \in 1 .. n - 1 : f[k] = h[1 + k - 1]
      BY <3>2, <3>3, Zenon
    <3>6. \A k \in 1 .. n - 1 : f[k] = h[k]
      BY <3>2, <3>5, Zenon
    <3>7. QED
      BY <3>3, <3>4, <3>6
  <2>8. /\ at \in 1 .. n - 1 => f[at] = <<t0, c0>>
        /\ \A k \in 1 .. n - 1 : k # at => f[k] = e[k]
    <3>1. \A k \in 1 .. n - 1 : k \in 1 .. n
      BY <2>2
    <3>2. QED
      BY <2>5, <2>7, <3>1
  <2>9. /\ y \in [Inputs -> [Outputs -> Nat]] /\ y[s][d] = 0
        /\ ~ (t0 = s /\ c0 = d) => y[t0][c0] = at
        /\ \A t \in Inputs, c \in Outputs :
             ~ (t = s /\ c = d) /\ ~ (t = t0 /\ c = c0) => y[t][c] = x[t][c]
    BY <2>4
  <2>10. /\ Indexes(y, f, n - 1)
         /\ \A t \in Inputs, c \in Outputs :
              y[t][c] # 0 <=> x[t][c] # 0 /\ ~ (t = s /\ c = d)
    <3>1. at \in 1 .. n /\ x[s][d] = at /\ Indexes(x, e, n)
      BY <2>1, <2>2
    <3>2. Moved(x, e, n, s, d, t0, c0, y, f)
      BY <2>3, <2>8, <2>9, <3>1 DEF Moved
    <3>3. QED
      BY <3>1, <3>2, LastMoves
  <2>11. Indexed([e |-> f, x |-> y])
    BY <2>7, <2>9, <2>10 DEF Indexed, Graphs
  <2>12. QED
    BY <2>1, <2>6, <2>10, <2>11 DEF HasEdge
<1>3. QED
  BY <1>1, <1>2

-----------------------------------------------------------------------------
(* RandomizedMaximal: the graph when the arrivals, or the departures, of    *)
(* all inputs have been told to it, one input after the other.              *)

IndexedGraphs == { g \in Graphs : Indexed(g) }

LEMMA PortsFacts ==
    /\ Cardinality(Inputs) \in Nat /\ Inputs = 0 .. Cardinality(Inputs) - 1
    /\ Cardinality(Outputs) \in Nat /\ Outputs = 0 .. Cardinality(Outputs) - 1
BY PortsNumbered, FS_CardinalityType

(* Input i loses the edges that are not in "keep" and gets those in     *)
(* "come"; no other input is concerned.                                     *)
StepOfInput(h, g, i, keep, come) ==
    \A t \in Inputs, c \in Outputs :
        /\ t = i => (HasEdge(h, t, c) <=>
                           (HasEdge(g, t, c) /\ <<t, c>> \in keep) \/ <<t, c>> \in come)
        /\ t # i => (HasEdge(h, t, c) <=> HasEdge(g, t, c))

(* it[1 .. k] is what inputs 0 .. k - 1 have made of the graph. *)
ToldInTurn(it, n, base, F, keep, come) ==
    /\ IsStep(n, IndexedGraphs, F)
    /\ it[{}] = base
    /\ \A k \in 1 .. n :
         it[1 .. k - 1] \in IndexedGraphs => it[1 .. k] = F[k][it[1 .. k - 1]]
    /\ \A k \in 1 .. n, g \in IndexedGraphs : StepOfInput(F[k][g], g, k - 1, keep, come)

LEMMA InputByInput ==
    ASSUME NEW n \in Nat, Inputs = 0 .. n - 1, NEW base \in IndexedGraphs, NEW F,
           NEW it, NEW keep, NEW come, ToldInTurn(it, n, base, F, keep, come)
    PROVE  /\ it[1 .. n] \in IndexedGraphs
           /\ \A t \in Inputs, c \in Outputs :
                HasEdge(it[1 .. n], t, c) <=>
                  (HasEdge(base, t, c) /\ <<t, c>> \in keep) \/ <<t, c>> \in come
<1> DEFINE Told(k) ==
             /\ it[1 .. k] \in IndexedGraphs
             /\ \A t \in Inputs, c \in Outputs :
                  /\ t < k => (HasEdge(it[1 .. k], t, c) <=>
                       (HasEdge(base, t, c) /\ <<t, c>> \in keep) \/ <<t, c>> \in come)
                  /\ t >= k => (HasEdge(it[1 .. k], t, c) <=> HasEdge(base, t, c))
           S == { k \in 0 .. n : Told(k) }
<1>0. /\ IsStep(n, IndexedGraphs, F)
      /\ it[{}] = base
      /\ \A k \in 1 .. n :
           it[1 .. k - 1] \in IndexedGraphs => it[1 .. k] = F[k][it[1 .. k - 1]]
      /\ \A k \in 1 .. n, g \in IndexedGraphs : StepOfInput(F[k][g], g, k - 1, keep, come)
  BY DEF ToldInTurn
<1>1. 0 \in S
  <2>1. 1 .. 0 = {} /\ \A t \in Inputs : ~ t < 0 /\ t >= 0
    OBVIOUS
  <2>2. QED
    BY <1>0, <2>1
<1>2. ASSUME NEW k \in 0 .. n - 1, k \in S PROVE k + 1 \in S
  <2>1. Told(k) /\ k + 1 \in 1 .. n /\ k + 1 - 1 = k
    BY <1>2
  <2>2. PICK g \in IndexedGraphs : g = it[1 .. k]
    BY <2>1
  <2>3. PICK h : h = F[k + 1][g]
    OBVIOUS
  <2>4. it[1 .. k + 1] = h
    <3>1. it[1 .. k + 1] = F[k + 1][it[1 .. k + 1 - 1]]
      BY <1>0, <2>1
    <3>2. QED
      BY <2>1, <2>2, <2>3, <3>1
  <2>5. h \in IndexedGraphs
    BY <1>0, <2>1, <2>2, <2>3 DEF IsStep
  <2>6. StepOfInput(h, g, k, keep, come)
    <3>1. StepOfInput(F[k + 1][g], g, k + 1 - 1, keep, come)
      BY <1>0, <2>1
    <3>2. QED
      BY <2>1, <2>3, <3>1
  <2>7. \A t \in Inputs, c \in Outputs :
          /\ t = k => (HasEdge(h, t, c) <=>
                         (HasEdge(g, t, c) /\ <<t, c>> \in keep) \/ <<t, c>> \in come)
          /\ t # k => (HasEdge(h, t, c) <=> HasEdge(g, t, c))
    BY <2>6, Zenon DEF StepOfInput
  <2>8. ASSUME NEW t \in Inputs, NEW c \in Outputs
        PROVE  /\ t < k + 1 => (HasEdge(h, t, c) <=>
                    (HasEdge(base, t, c) /\ <<t, c>> \in keep) \/ <<t, c>> \in come)
               /\ t >= k + 1 => (HasEdge(h, t, c) <=> HasEdge(base, t, c))
    <3>1. /\ t < k => (HasEdge(g, t, c) <=>
                (HasEdge(base, t, c) /\ <<t, c>> \in keep) \/ <<t, c>> \in come)
          /\ t >= k => (HasEdge(g, t, c) <=> HasEdge(base, t, c))
      BY <2>1, <2>2
    <3>2. t < k \/ t = k \/ t > k
      OBVIOUS
    <3>3. /\ t < k => t # k /\ t < k + 1 /\ ~ t >= k + 1
          /\ t = k => t >= k /\ t < k + 1 /\ ~ t >= k + 1
          /\ t > k => t # k /\ t >= k /\ ~ t < k + 1 /\ t >= k + 1
      OBVIOUS
    <3>4. QED
      BY <2>7, <3>1, <3>2, <3>3, Zenon
  <2>9. Told(k + 1)
    BY <2>4, <2>5, <2>8
  <2>10. QED
    BY <2>1, <2>9
<1>3. 0 .. n \subseteq S
  <2> HIDE DEF S
  <2> QED
    BY <1>1, <1>2, IntervalInduction
<1>4. Told(n) /\ \A t \in Inputs : t < n
  BY <1>3
<1>5. QED
  BY <1>4

LEMMA SegmentIsSubset ==
    ASSUME NEW n \in Nat, NEW k \in 1 .. n
    PROVE  1 .. k \in (SUBSET (1 .. n)) \ {{}}
OBVIOUS

LEMMA InOrderFacts ==
    /\ DOMAIN Maximal!InOrder = 1 .. Cardinality(Inputs)
    /\ \A k \in 1 .. Cardinality(Inputs) : Maximal!InOrder[k] = k - 1
<1>1. Maximal!NumInputs = Cardinality(Inputs)
  BY DEF Maximal!NumInputs, Maximal!Cardinality, Cardinality
<1>2. QED
  BY <1>1 DEF Maximal!InOrder

(* The graph that the scheduler keeps. *)
Graph == [e |-> edges, x |-> index]

(* Every arrival has its edge afterwards. *)
LEMMA ArrivedGraph ==
    ASSUME Graph \in IndexedGraphs, arrivals \in Assignments
    PROVE  /\ Maximal!Arrived \in IndexedGraphs
           /\ \A s \in Inputs, d \in Outputs :
                HasEdge(Maximal!Arrived, s, d) <=> HasEdge(Graph, s, d) \/ arrivals[s] = d
<1> DEFINE n == Cardinality(Inputs)
           Tell(k, g) == IF arrivals[k - 1] = None THEN g
                         ELSE Maximal!Insert(g, k - 1, arrivals[k - 1])
           F == [k \in 1 .. n |-> [g \in IndexedGraphs |-> Tell(k, g)]]
           keep == Inputs \X Outputs
           come == { p \in Inputs \X Outputs : arrivals[p[1]] = p[2] }
<1>1. /\ n \in Nat /\ Inputs = 0 .. n - 1
      /\ \A k \in 1 .. n : k - 1 \in Inputs
  BY PortsFacts
<1>2. ASSUME NEW k \in 1 .. n, NEW g \in IndexedGraphs
      PROVE  Tell(k, g) \in IndexedGraphs /\ StepOfInput(Tell(k, g), g, k - 1, keep, come)
  <2>1. PICK i \in Inputs : i = k - 1
    BY <1>1
  <2>2. Indexed(g)
    BY DEF IndexedGraphs
  <2>3. CASE arrivals[i] = None
    <3>1. Tell(k, g) = g
      BY <2>1, <2>3
    <3>2. \A c \in Outputs : <<i, c>> \in keep /\ <<i, c>> \notin come
      BY <2>3, NoneIsNoPort
    <3>3. StepOfInput(g, g, i, keep, come)
      BY <3>2, Zenon DEF StepOfInput
    <3>4. QED
      BY <2>1, <3>1, <3>3
  <2>4. CASE arrivals[i] # None
    <3>1. PICK o \in Outputs : arrivals[i] = o
      BY <2>4 DEF Assignments
    <3>2. PICK h : h = Maximal!Insert(g, i, o)
      OBVIOUS
    <3>3. Tell(k, g) = h
      BY <2>1, <2>4, <3>1, <3>2
    <3>4. /\ Indexed(h)
          /\ \A t \in Inputs, c \in Outputs :
               HasEdge(h, t, c) <=> HasEdge(g, t, c) \/ (t = i /\ c = o)
      BY <2>2, <3>2, InsertFacts
    <3>5. \A c \in Outputs : <<i, c>> \in keep /\ (<<i, c>> \in come <=> c = o)
      BY <3>1
    <3>6. StepOfInput(h, g, i, keep, come)
      <4> HIDE DEF keep, come
      <4> QED
        BY <3>4, <3>5 DEF StepOfInput
    <3>7. h \in IndexedGraphs
      BY <3>4 DEF IndexedGraphs, Indexed
    <3>8. QED
      BY <2>1, <3>3, <3>6, <3>7
  <2>5. QED
    BY <2>3, <2>4
<1>3. IsStep(n, IndexedGraphs, F)
  BY <1>2 DEF IsStep
<1>4. \A k \in 1 .. n, g \in IndexedGraphs : F[k][g] = Tell(k, g)
  OBVIOUS
<1>9. PICK base \in IndexedGraphs : base = Graph
  OBVIOUS
<1>5. PICK ex : LeftFolds(ex, n, IndexedGraphs, base, F)
  <2> HIDE DEF n, F
  <2> QED
    BY <1>1, <1>3, LeftFoldFacts
<1> DEFINE at(T) == Maximal!InOrder[Maximal!Max(T)]
           rest(h, T) == h[T \ {Maximal!Max(T)}]
           Body(h, T) == IF T = {} THEN [e |-> edges, x |-> index]
                         ELSE IF arrivals[at(T)] = None THEN rest(h, T)
                              ELSE Maximal!Insert(rest(h, T), at(T), arrivals[at(T)])
<1>10. \A T \in (SUBSET (1 .. n)) \ {{}} :
         Maximal!Max(T) = Greatest(T) /\ Greatest(T) \in 1 .. n /\ at(T) = Greatest(T) - 1
  BY <1>1, GreatestFacts, InOrderFacts DEF Maximal!Max, Greatest
<1>11. \E it : it = [T \in SUBSET DOMAIN Maximal!InOrder |-> Body(it, T)]
  <2>0. /\ ex \in [SUBSET (1 .. n) -> IndexedGraphs]
        /\ ex[{}] = Graph
        /\ \A T \in (SUBSET (1 .. n)) \ {{}} :
             ex[T] = F[Greatest(T)][ex[T \ {Greatest(T)}]]
    BY <1>5, <1>9 DEF LeftFolds
  <2>1. ASSUME NEW T \in (SUBSET (1 .. n)) \ {{}}
        PROVE  ex[T] = Tell(Greatest(T), ex[T \ {Greatest(T)}])
    <3>1. Greatest(T) \in 1 .. n /\ ex[T \ {Greatest(T)}] \in IndexedGraphs
      BY <1>10, <2>0
    <3>2. ex[T] = F[Greatest(T)][ex[T \ {Greatest(T)}]]
      BY <2>0
    <3>3. QED
      BY <1>4, <3>1, <3>2
  <2>2. ASSUME NEW T \in SUBSET (1 .. n) PROVE ex[T] = Body(ex, T)
    <3>1. CASE T = {}
      BY <2>0, <3>1 DEF Graph
    <3>2. CASE T # {}
      <4>1. ex[T] = IF arrivals[at(T)] = None THEN rest(ex, T)
                    ELSE Maximal!Insert(rest(ex, T), at(T), arrivals[at(T)])
        BY <1>10, <2>1, <3>2
      <4> HIDE DEF at, rest
      <4>2. QED
        BY <3>2, <4>1
    <3>3. QED
      BY <3>1, <3>2
  <2> HIDE DEF Body, F, keep, come
  <2>3. ex = [T \in SUBSET DOMAIN Maximal!InOrder |-> Body(ex, T)]
    BY <2>0, <2>2, InOrderFacts
  <2>4. QED
    BY <2>3
<1>12. PICK it : /\ Maximal!Arrived = it[DOMAIN Maximal!InOrder]
                 /\ it = [T \in SUBSET DOMAIN Maximal!InOrder |-> Body(it, T)]
  BY <1>11 DEF Maximal!Arrived, Maximal!FoldLeft, Maximal!MapThenFoldSet
<1>13. it[{}] = base
  BY <1>9, <1>12 DEF Graph
<1>14. ASSUME NEW k \in 1 .. n, it[1 .. k - 1] \in IndexedGraphs
       PROVE  it[1 .. k] = F[k][it[1 .. k - 1]]
  <2>1. 1 .. k \in (SUBSET (1 .. n)) \ {{}}
    BY <1>1, SegmentIsSubset
  <2>2. it[1 .. k] = Body(it, 1 .. k)
    <3> HIDE DEF Body
    <3> QED
      BY <1>12, <2>1, InOrderFacts
  <2>3. Greatest(1 .. k) = k /\ (1 .. k) \ {k} = 1 .. k - 1
    BY <1>1, GreatestFacts
  <2>4. Body(it, 1 .. k) = Tell(k, it[1 .. k - 1])
    BY <1>10, <2>1, <2>3
  <2>5. QED
    BY <1>4, <1>14, <2>2, <2>4
<1>6. /\ it[1 .. n] \in IndexedGraphs
      /\ \A t \in Inputs, c \in Outputs :
           HasEdge(it[1 .. n], t, c) <=>
             (HasEdge(base, t, c) /\ <<t, c>> \in keep) \/ <<t, c>> \in come
  <2>1. \A k \in 1 .. n, g \in IndexedGraphs : StepOfInput(F[k][g], g, k - 1, keep, come)
    BY <1>2, <1>4
  <2> HIDE DEF n, F, keep, come
  <2>2. ToldInTurn(it, n, base, F, keep, come)
    BY <1>3, <1>13, <1>14, <2>1 DEF ToldInTurn
  <2>3. QED
    BY <1>1, <2>2, InputByInput
<1>7. Maximal!Arrived = it[1 .. n]
  BY <1>12, InOrderFacts
<1>8. QED
  BY <1>6, <1>7, <1>9

(* A VOQ has lost its edge afterwards exactly if it is about to run empty. *)
LEMMA DepartedGraph ==
    ASSUME NEW base \in IndexedGraphs, NEW m \in Assignments
    PROVE  /\ Maximal!Departed(base, m) \in IndexedGraphs
           /\ \A s \in Inputs, d \in Outputs :
                HasEdge(Maximal!Departed(base, m), s, d) <=>
                  HasEdge(base, s, d) /\ ~ (m[s] = d /\ queue_len[s][d] = 1)
<1> DEFINE n == Cardinality(Inputs)
           Tell(k, g) == IF Maximal!Departs(m, k - 1)
                         THEN Maximal!Erase(g, k - 1, m[k - 1]) ELSE g
           F == [k \in 1 .. n |-> [g \in IndexedGraphs |-> Tell(k, g)]]
           keep == { p \in Inputs \X Outputs :
                       ~ (m[p[1]] = p[2] /\ queue_len[p[1]][p[2]] = 1) }
           come == {}
<1>1. /\ n \in Nat /\ Inputs = 0 .. n - 1
      /\ \A k \in 1 .. n : k - 1 \in Inputs
  BY PortsFacts
<1>2. ASSUME NEW k \in 1 .. n, NEW g \in IndexedGraphs
      PROVE  Tell(k, g) \in IndexedGraphs /\ StepOfInput(Tell(k, g), g, k - 1, keep, come)
  <2>1. PICK i \in Inputs : i = k - 1
    BY <1>1
  <2>2. Indexed(g)
    BY DEF IndexedGraphs
  <2>3. CASE ~ Maximal!Departs(m, i)
    <3>1. Tell(k, g) = g
      BY <2>1, <2>3
    <3>2. \A c \in Outputs : <<i, c>> \in keep /\ <<i, c>> \notin come
      BY <2>3, NoneIsNoPort DEF Maximal!Departs
    <3>3. StepOfInput(g, g, i, keep, come)
      BY <3>2, Zenon DEF StepOfInput
    <3>4. QED
      BY <2>1, <3>1, <3>3
  <2>4. CASE Maximal!Departs(m, i)
    <3>1. PICK o \in Outputs : m[i] = o /\ queue_len[i][o] = 1
      BY <2>4 DEF Assignments, Maximal!Departs
    <3>2. PICK h : h = Maximal!Erase(g, i, o)
      OBVIOUS
    <3>3. Tell(k, g) = h
      BY <2>1, <2>4, <3>1, <3>2
    <3>4. /\ Indexed(h)
          /\ \A t \in Inputs, c \in Outputs :
               HasEdge(h, t, c) <=> HasEdge(g, t, c) /\ ~ (t = i /\ c = o)
      BY <2>2, <3>2, EraseFacts
    <3>5. \A c \in Outputs : (<<i, c>> \in keep <=> c # o) /\ <<i, c>> \notin come
      BY <3>1
    <3>6. StepOfInput(h, g, i, keep, come)
      <4> HIDE DEF keep, come
      <4> QED
        BY <3>4, <3>5 DEF StepOfInput
    <3>7. h \in IndexedGraphs
      BY <3>4 DEF IndexedGraphs, Indexed
    <3>8. QED
      BY <2>1, <3>3, <3>6, <3>7
  <2>5. QED
    BY <2>3, <2>4
<1>3. IsStep(n, IndexedGraphs, F)
  BY <1>2 DEF IsStep
<1>4. \A k \in 1 .. n, g \in IndexedGraphs : F[k][g] = Tell(k, g)
  OBVIOUS
<1>5. PICK ex : LeftFolds(ex, n, IndexedGraphs, base, F)
  <2> HIDE DEF n, F
  <2> QED
    BY <1>1, <1>3, LeftFoldFacts
<1> DEFINE at(T) == Maximal!InOrder[Maximal!Max(T)]
           rest(h, T) == h[T \ {Maximal!Max(T)}]
           Body(h, T) == IF T = {} THEN base
                         ELSE IF Maximal!Departs(m, at(T))
                              THEN Maximal!Erase(rest(h, T), at(T), m[at(T)])
                              ELSE rest(h, T)
<1>10. \A T \in (SUBSET (1 .. n)) \ {{}} :
         Maximal!Max(T) = Greatest(T) /\ Greatest(T) \in 1 .. n /\ at(T) = Greatest(T) - 1
  BY <1>1, GreatestFacts, InOrderFacts DEF Maximal!Max, Greatest
<1>11. \E it : it = [T \in SUBSET DOMAIN Maximal!InOrder |-> Body(it, T)]
  <2>0. /\ ex \in [SUBSET (1 .. n) -> IndexedGraphs]
        /\ ex[{}] = base
        /\ \A T \in (SUBSET (1 .. n)) \ {{}} :
             ex[T] = F[Greatest(T)][ex[T \ {Greatest(T)}]]
    BY <1>5 DEF LeftFolds
  <2>1. ASSUME NEW T \in (SUBSET (1 .. n)) \ {{}}
        PROVE  ex[T] = Tell(Greatest(T), ex[T \ {Greatest(T)}])
    <3>1. Greatest(T) \in 1 .. n /\ ex[T \ {Greatest(T)}] \in IndexedGraphs
      BY <1>10, <2>0
    <3>2. ex[T] = F[Greatest(T)][ex[T \ {Greatest(T)}]]
      BY <2>0
    <3>3. QED
      BY <1>4, <3>1, <3>2
  <2>2. ASSUME NEW T \in SUBSET (1 .. n) PROVE ex[T] = Body(ex, T)
    <3>1. CASE T = {}
      BY <2>0, <3>1
    <3>2. CASE T # {}
      <4>1. ex[T] = IF Maximal!Departs(m, at(T))
                    THEN Maximal!Erase(rest(ex, T), at(T), m[at(T)])
                    ELSE rest(ex, T)
        BY <1>10, <2>1, <3>2
      <4> HIDE DEF at, rest
      <4>2. QED
        BY <3>2, <4>1
    <3>3. QED
      BY <3>1, <3>2
  <2> HIDE DEF Body, F, keep, come
  <2>3. ex = [T \in SUBSET DOMAIN Maximal!InOrder |-> Body(ex, T)]
    BY <2>0, <2>2, InOrderFacts
  <2>4. QED
    BY <2>3
<1>12. PICK it : /\ Maximal!Departed(base, m) = it[DOMAIN Maximal!InOrder]
                 /\ it = [T \in SUBSET DOMAIN Maximal!InOrder |-> Body(it, T)]
  BY <1>11 DEF Maximal!Departed, Maximal!FoldLeft, Maximal!MapThenFoldSet
<1>13. it[{}] = base
  BY <1>12
<1>14. ASSUME NEW k \in 1 .. n, it[1 .. k - 1] \in IndexedGraphs
       PROVE  it[1 .. k] = F[k][it[1 .. k - 1]]
  <2>1. 1 .. k \in (SUBSET (1 .. n)) \ {{}}
    BY <1>1, SegmentIsSubset
  <2>2. it[1 .. k] = Body(it, 1 .. k)
    <3> HIDE DEF Body
    <3> QED
      BY <1>12, <2>1, InOrderFacts
  <2>3. Greatest(1 .. k) = k /\ (1 .. k) \ {k} = 1 .. k - 1
    BY <1>1, GreatestFacts
  <2>4. Body(it, 1 .. k) = Tell(k, it[1 .. k - 1])
    BY <1>10, <2>1, <2>3
  <2>5. QED
    BY <1>4, <1>14, <2>2, <2>4
<1>6. /\ it[1 .. n] \in IndexedGraphs
      /\ \A t \in Inputs, c \in Outputs :
           HasEdge(it[1 .. n], t, c) <=>
             (HasEdge(base, t, c) /\ <<t, c>> \in keep) \/ <<t, c>> \in come
  <2>1. \A k \in 1 .. n, g \in IndexedGraphs : StepOfInput(F[k][g], g, k - 1, keep, come)
    BY <1>2, <1>4
  <2> HIDE DEF n, F, keep, come
  <2>2. ToldInTurn(it, n, base, F, keep, come)
    BY <1>3, <1>13, <1>14, <2>1 DEF ToldInTurn
  <2>3. QED
    BY <1>1, <2>2, InputByInput
<1>7. Maximal!Departed(base, m) = it[1 .. n]
  BY <1>12, InOrderFacts
<1>8. QED
  BY <1>6, <1>7

-----------------------------------------------------------------------------
(* The switch, whatever the scheduler.                                     *)

(* The hand-overs carry something only between the calls that write and     *)
(* read them, and every arrival is in the queue that it is reported of.     *)
HandOvers ==
    /\ phase # "schedule" => arrivals = NoMatch
    /\ phase # "write_outputs" => in_match = NoMatch
    /\ \A i \in Inputs : arrivals[i] # None => queue_len[i][arrivals[i]] > 0

SwitchInv == SwitchTypeOK /\ HandOvers /\ IsMatching(in_match)

(* The packets of a VOQ that a scheduler has been told of and that are not  *)
(* about to depart: what each of them keeps account of.                     *)
Told(i, o) ==
    queue_len[i][o] - (IF arrivals[i] = o THEN 1 ELSE 0)
                    - (IF in_match[i] = o /\ queue_len[i][o] > 0 THEN 1 ELSE 0)

LEMMA ToldIsNat ==
    ASSUME SwitchInv, NEW i \in Inputs, NEW o \in Outputs
    PROVE  Told(i, o) \in Nat /\ queue_len[i][o] \in Nat
<1>1. queue_len[i][o] \in Nat
  BY DEF SwitchInv, SwitchTypeOK, QueueLengths
<1>2. arrivals[i] = o => queue_len[i][o] > 0 /\ in_match[i] # o
  BY NoneIsNoPort DEF SwitchInv, HandOvers, NoMatch
<1>3. QED
  BY <1>1, <1>2 DEF Told

(* What a scheduler has been told of does not change while packets come and *)
(* go.                                                                      *)
LEMMA SwitchSteps ==
    ASSUME SwitchInv, ReadInputs \/ WriteOutputs
    PROVE  /\ SwitchInv' /\ phase' # "write_outputs" /\ in_match' = NoMatch
           /\ \A i \in Inputs, o \in Outputs : Told(i, o)' = Told(i, o)
<1>1. SwitchTypeOK /\ queue_len \in QueueLengths /\ NoMatch \in Assignments
  BY DEF SwitchInv, SwitchTypeOK, NoMatch, Assignments
<1>2. CASE ReadInputs
  <2>1. PICK arr \in Assignments : arrivals' = arr /\ queue_len' = Enqueue(queue_len, arr)
    BY <1>2 DEF ReadInputs
  <2>2. /\ phase' = "schedule" /\ in_match' = in_match /\ phase = "read_inputs"
        /\ arrivals = NoMatch /\ in_match = NoMatch
    BY <1>2 DEF ReadInputs, SwitchInv, HandOvers
  <2>3. \A i \in Inputs, o \in Outputs :
          /\ queue_len[i][o] \in Nat
          /\ queue_len'[i][o] = queue_len[i][o] + IF arr[i] = o THEN 1 ELSE 0
    BY <1>1, <2>1 DEF Enqueue, QueueLengths
  <2>4. SwitchTypeOK'
    BY <1>1, <2>1, <2>2, <2>3 DEF SwitchTypeOK, Phases, QueueLengths, Enqueue
  <2>5. \A i \in Inputs : arrivals'[i] # None => queue_len'[i][arrivals'[i]] > 0
    BY <2>1, <2>3 DEF Assignments
  <2>6. HandOvers' /\ IsMatching(in_match)'
    BY <2>2, <2>5 DEF HandOvers, IsMatching, NoMatch
  <2>7. ASSUME NEW i \in Inputs, NEW o \in Outputs PROVE Told(i, o)' = Told(i, o)
    <3>1. arrivals[i] # o /\ in_match[i] # o /\ in_match'[i] # o /\ arrivals'[i] = arr[i]
      BY <2>1, <2>2, NoneIsNoPort DEF NoMatch
    <3>2. QED
      BY <2>3, <3>1 DEF Told
  <2>8. QED
    BY <2>2, <2>4, <2>6, <2>7 DEF SwitchInv
<1>3. CASE WriteOutputs
  <2>1. /\ phase' = "read_inputs" /\ in_match' = NoMatch /\ phase = "write_outputs"
        /\ arrivals' = arrivals /\ arrivals = NoMatch
        /\ queue_len' = Dequeue(queue_len, in_match)
    BY <1>3 DEF WriteOutputs, SwitchInv, HandOvers
  <2>2. \A i \in Inputs, o \in Outputs :
          /\ queue_len[i][o] \in Nat
          /\ queue_len'[i][o] =
               queue_len[i][o] - IF in_match[i] = o /\ queue_len[i][o] # 0 THEN 1 ELSE 0
    BY <1>1, <2>1 DEF Dequeue, QueueLengths
  <2>3. queue_len' \in QueueLengths
    BY <2>1, <2>2 DEF QueueLengths, Dequeue
  <2>4. SwitchTypeOK'
    BY <1>1, <2>1, <2>3 DEF SwitchTypeOK, Phases
  <2>5. HandOvers' /\ IsMatching(in_match)'
    BY <2>1 DEF HandOvers, IsMatching, NoMatch
  <2>6. ASSUME NEW i \in Inputs, NEW o \in Outputs PROVE Told(i, o)' = Told(i, o)
    <3>1. arrivals[i] # o /\ in_match'[i] # o /\ arrivals'[i] # o
      BY <2>1, NoneIsNoPort DEF NoMatch
    <3>2. QED
      BY <2>2, <3>1 DEF Told
  <2>7. QED
    BY <2>1, <2>4, <2>5, <2>6 DEF SwitchInv
<1>4. QED
  BY <1>2, <1>3

LEMMA SwitchSchedules ==
    ASSUME SwitchInv, NEW m \in Assignments, IsMatching(m), ScheduleWith(m)
    PROVE  /\ SwitchInv' /\ phase' = "write_outputs" /\ in_match' = m
           /\ queue_len' = queue_len /\ SwitchNext
           /\ \A i \in Inputs, o \in Outputs :
                /\ Told(i, o) = queue_len[i][o] - IF arrivals[i] = o THEN 1 ELSE 0
                /\ Told(i, o)' = queue_len[i][o]
                                 - IF m[i] = o /\ queue_len[i][o] > 0 THEN 1 ELSE 0
<1>1. /\ in_match' = m /\ phase' = "write_outputs" /\ arrivals' = NoMatch
      /\ queue_len' = queue_len /\ phase = "schedule"
  BY DEF ScheduleWith
<1>2. SwitchTypeOK' /\ NoMatch \in Assignments
  BY <1>1 DEF SwitchInv, SwitchTypeOK, Phases, NoMatch, Assignments
<1>3. HandOvers' /\ IsMatching(in_match)'
  BY <1>1 DEF HandOvers, NoMatch, IsMatching
<1>4. in_match = NoMatch
  BY <1>1 DEF SwitchInv, HandOvers
<1>5. ASSUME NEW i \in Inputs, NEW o \in Outputs
      PROVE  /\ Told(i, o) = queue_len[i][o] - IF arrivals[i] = o THEN 1 ELSE 0
             /\ Told(i, o)' = queue_len[i][o]
                              - IF m[i] = o /\ queue_len[i][o] > 0 THEN 1 ELSE 0
  <2>1. in_match[i] # o /\ arrivals'[i] # o /\ queue_len[i][o] \in Nat
    BY <1>1, <1>4, NoneIsNoPort, ToldIsNat DEF NoMatch
  <2>2. QED
    BY <1>1, <2>1 DEF Told
<1>6. SwitchNext
  BY DEF SwitchNext
<1>7. QED
  BY <1>1, <1>2, <1>3, <1>5, <1>6 DEF SwitchInv

LEMMA SwitchResets ==
    ASSUME SwitchReset
    PROVE  /\ SwitchInv' /\ phase' # "write_outputs" /\ in_match' = NoMatch
           /\ \A i \in Inputs, o \in Outputs : Told(i, o)' = 0
<1>1. /\ phase' = "read_inputs" /\ queue_len' = EmptyQueues
      /\ arrivals' = NoMatch /\ in_match' = NoMatch
  BY DEF SwitchReset
<1>2. \A i \in Inputs, o \in Outputs : Told(i, o)' = 0
  BY <1>1, NoneIsNoPort DEF Told, NoMatch, EmptyQueues
<1>3. SwitchInv'
  BY <1>1 DEF SwitchInv, SwitchTypeOK, Phases, QueueLengths, EmptyQueues, Assignments,
              NoMatch, HandOvers, IsMatching
<1>4. QED
  BY <1>1, <1>2, <1>3

LEMMA SwitchStarts ==
    ASSUME SwitchInit
    PROVE  /\ SwitchInv /\ phase # "write_outputs" /\ in_match = NoMatch
           /\ \A i \in Inputs, o \in Outputs : Told(i, o) = 0
<1>1. /\ phase = "read_inputs" /\ queue_len = EmptyQueues
      /\ arrivals = NoMatch /\ in_match = NoMatch
  BY DEF SwitchInit
<1>2. \A i \in Inputs, o \in Outputs : Told(i, o) = 0
  BY <1>1, NoneIsNoPort DEF Told, NoMatch, EmptyQueues
<1>3. SwitchInv
  BY <1>1 DEF SwitchInv, SwitchTypeOK, Phases, QueueLengths, EmptyQueues, Assignments,
              NoMatch, HandOvers, IsMatching
<1>4. QED
  BY <1>1, <1>2, <1>3

-----------------------------------------------------------------------------
(* RandomizedMaximal in the switch.                                        *)

MaximalInv ==
    /\ Graph \in IndexedGraphs
    /\ class = "RandomizedMaximal" =>
         /\ \A s \in Inputs, d \in Outputs : HasEdge(Graph, s, d) <=> Told(s, d) > 0
         /\ NoIdlePair

(* The edges when the arrivals are in are the VOQs with packets. *)
LEMMA ArrivedEdges ==
    ASSUME SwitchInv, MaximalInv, class = "RandomizedMaximal", phase = "schedule"
    PROVE  /\ Maximal!Arrived \in IndexedGraphs
           /\ \A s \in Inputs, d \in Outputs :
                HasEdge(Maximal!Arrived, s, d) <=> queue_len[s][d] > 0
<1>1. /\ Graph \in IndexedGraphs /\ arrivals \in Assignments /\ in_match = NoMatch
      /\ \A s \in Inputs, d \in Outputs : HasEdge(Graph, s, d) <=> Told(s, d) > 0
  BY DEF SwitchInv, SwitchTypeOK, HandOvers, MaximalInv
<1>2. /\ Maximal!Arrived \in IndexedGraphs
      /\ \A s \in Inputs, d \in Outputs :
           HasEdge(Maximal!Arrived, s, d) <=> HasEdge(Graph, s, d) \/ arrivals[s] = d
  BY <1>1, ArrivedGraph
<1>3. ASSUME NEW s \in Inputs, NEW d \in Outputs
      PROVE  queue_len[s][d] > 0 <=> Told(s, d) > 0 \/ arrivals[s] = d
  <2>1. queue_len[s][d] \in Nat /\ in_match[s] # d
    BY <1>1, ToldIsNat, NoneIsNoPort DEF NoMatch
  <2>2. arrivals[s] = d => queue_len[s][d] > 0
    BY NoneIsNoPort DEF SwitchInv, HandOvers
  <2>3. QED
    BY <2>1, <2>2 DEF Told
<1>4. QED
  BY <1>1, <1>2, <1>3

LEMMA MaximalSchedules ==
    ASSUME SwitchInv, MaximalInv, class = "RandomizedMaximal", MCMaximal
    PROVE  SwitchInv' /\ MaximalInv' /\ SwitchNext
<1>1. PICK m \in Maximal!MaximalMatchings(Maximal!ToSet(Maximal!Arrived.e)) :
        /\ Maximal!ScheduleWith(m)
        /\ edges' = Maximal!Departed(Maximal!Arrived, m).e
        /\ index' = Maximal!Departed(Maximal!Arrived, m).x
  BY DEF MCMaximal, Maximal!Schedule
<1>2. PICK g : g = Maximal!Arrived
  OBVIOUS
<1>3. phase = "schedule" /\ ScheduleWith(m) /\ class' = class
  BY <1>1 DEF Maximal!ScheduleWith, ScheduleWith, Maximal!NoMatch, NoMatch, MCMaximal
<1>4. /\ g \in IndexedGraphs
      /\ \A s \in Inputs, d \in Outputs : HasEdge(g, s, d) <=> queue_len[s][d] > 0
  BY <1>2, <1>3, ArrivedEdges
<1>5. \A s \in Inputs, d \in Outputs :
        <<s, d>> \in Maximal!ToSet(g.e) <=> queue_len[s][d] > 0
  <2>1. Maximal!ToSet(g.e) = ToSet(g.e)
    BY DEF Maximal!ToSet, ToSet
  <2>2. Indexed(g)
    BY <1>4 DEF IndexedGraphs
  <2>3. QED
    BY <1>4, <2>1, <2>2, EdgesAre
<1>6. /\ m \in Assignments /\ IsMatching(m)
      /\ \A s \in Inputs : m[s] # None => <<s, m[s]>> \in Maximal!ToSet(g.e)
      /\ \A edge \in Maximal!ToSet(g.e) :
           m[edge[1]] # None \/ \E s \in Inputs : m[s] = edge[2]
  BY <1>1, <1>2 DEF Maximal!MaximalMatchings, Maximal!Assignments, Assignments,
                    Maximal!IsMatching, IsMatching
<1>7. /\ SwitchInv' /\ phase' = "write_outputs" /\ in_match' = m
      /\ queue_len' = queue_len /\ SwitchNext
      /\ \A i \in Inputs, o \in Outputs :
           Told(i, o)' = queue_len[i][o] - IF m[i] = o /\ queue_len[i][o] > 0 THEN 1 ELSE 0
  BY <1>3, <1>6, SwitchSchedules
<1>8. PICK h : h = Maximal!Departed(g, m)
  OBVIOUS
<1>9. /\ h \in IndexedGraphs
      /\ \A s \in Inputs, d \in Outputs :
           HasEdge(h, s, d) <=> HasEdge(g, s, d) /\ ~ (m[s] = d /\ queue_len[s][d] = 1)
  BY <1>4, <1>6, <1>8, DepartedGraph
<1>10. Graph' = h
  <2>1. h = [e |-> h.e, x |-> h.x]
    BY <1>9 DEF IndexedGraphs, Graphs
  <2>2. edges' = h.e /\ index' = h.x
    BY <1>1, <1>2, <1>8
  <2>3. QED
    BY <2>1, <2>2 DEF Graph
<1>11. ASSUME NEW s \in Inputs, NEW d \in Outputs
       PROVE  HasEdge(h, s, d) <=> Told(s, d)' > 0
  <2>1. queue_len[s][d] \in Nat
    BY ToldIsNat
  <2>2. HasEdge(h, s, d) <=> queue_len[s][d] > 0 /\ ~ (m[s] = d /\ queue_len[s][d] = 1)
    BY <1>4, <1>9
  <2>3. Told(s, d)' = queue_len[s][d] - IF m[s] = d /\ queue_len[s][d] > 0 THEN 1 ELSE 0
    BY <1>7
  <2>4. QED
    BY <2>1, <2>2, <2>3
<1>12. NoIdlePair'
  <2>1. \A i \in Inputs, o \in Outputs : queue_len[i][o] > 0 =>
          m[i] # None \/ \E j \in Inputs : m[j] = o
    <3> SUFFICES ASSUME NEW i \in Inputs, NEW o \in Outputs, queue_len[i][o] > 0
                 PROVE  m[i] # None \/ \E j \in Inputs : m[j] = o
      OBVIOUS
    <3>1. <<i, o>> \in Maximal!ToSet(g.e) /\ <<i, o>>[1] = i /\ <<i, o>>[2] = o
      BY <1>5
    <3>2. QED
      BY <1>6, <3>1
  <2>2. QED
    BY <1>7, <2>1 DEF NoIdlePair
<1>13. MaximalInv'
  BY <1>9, <1>10, <1>11, <1>12 DEF MaximalInv
<1>14. QED
  BY <1>7, <1>13

-----------------------------------------------------------------------------
(* MaxWeight in the switch.                                                *)

(* What input i adds to the weight of m. *)
Gain(w, m, i) == IF m[i] = None THEN 0 ELSE w[i][m[i]]

LEMMA WeightIsTotal ==
    ASSUME NEW w \in QueueLengths, NEW m \in Assignments
    PROVE  Heaviest!TotalWeight(w, m) = Total([i \in Inputs |-> Gain(w, m, i)], Inputs)
<1> DEFINE f == [i \in Inputs |-> Gain(w, m, i)]
           first(T) == CHOOSE x \in T : TRUE
           Body(h, T) == IF T = {} THEN 0 ELSE Gain(w, m, first(T)) + h[T \ {first(T)}]
<1>1. IsFiniteSet(Inputs) /\ \A i \in Inputs : f[i] \in Int /\ f[i] = Gain(w, m, i)
  BY PortsNumbered DEF Gain, Assignments, QueueLengths
<1>2. \A T \in (SUBSET Inputs) \ {{}} : first(T) \in T
  OBVIOUS
<1>3. PICK g : SumsUp(g, Inputs, f) /\ Total(f, Inputs) = g[Inputs]
  <2> HIDE DEF f
  <2> QED
    BY <1>1, TotalIs
<1>4. \E it : it = [T \in SUBSET Inputs |-> Body(it, T)]
  <2>1. g = [T \in SUBSET Inputs |-> IF T = {} THEN 0 ELSE g[T \ {first(T)}] + f[first(T)]]
    BY <1>3 DEF SumsUp
  <2>2. \A T \in SUBSET Inputs : g[T] \in Int
    <3> HIDE DEF f
    <3> QED
      BY <1>1, <1>3, SumsFacts
  <2>3. \A T \in SUBSET Inputs : g[T] = Body(g, T)
    <3> SUFFICES ASSUME NEW T \in SUBSET Inputs, T # {} PROVE g[T] = Body(g, T)
      BY <2>1
    <3>1. g[T] = g[T \ {first(T)}] + f[first(T)] /\ first(T) \in Inputs
      BY <1>2, <2>1
    <3>2. f[first(T)] = Gain(w, m, first(T)) /\ f[first(T)] \in Int
          /\ g[T \ {first(T)}] \in Int
      BY <1>1, <2>2, <3>1
    <3> HIDE DEF first, f
    <3>3. QED
      BY <3>1, <3>2
  <2> HIDE DEF Body
  <2>4. g = [T \in SUBSET Inputs |-> Body(g, T)]
    BY <2>1, <2>3
  <2>5. QED
    BY <2>4
<1>5. PICK it : /\ Heaviest!TotalWeight(w, m) = it[Inputs]
                /\ it = [T \in SUBSET Inputs |-> Body(it, T)]
  BY <1>4 DEF Heaviest!TotalWeight, Heaviest!MapThenSumSet, Heaviest!MapThenFoldSet, Gain
<1> DEFINE P == { T \in SUBSET Inputs : it[T] = g[T] }
<1>6. g = [T \in SUBSET Inputs |-> IF T = {} THEN 0 ELSE g[T \ {first(T)}] + f[first(T)]]
  BY <1>3 DEF SumsUp
<1>7. \A T \in SUBSET Inputs : g[T] \in Int
  <2> HIDE DEF f
  <2> QED
    BY <1>1, <1>3, SumsFacts
<1>8. ASSUME NEW T \in SUBSET Inputs, \A x \in T : T \ {x} \in P PROVE T \in P
  <2>1. CASE T = {}
    BY <1>5, <1>6, <2>1
  <2>2. CASE T # {}
    <3>1. first(T) \in T /\ first(T) \in Inputs
      BY <1>2, <2>2
    <3>2. it[T \ {first(T)}] = g[T \ {first(T)}]
      BY <1>8, <3>1
    <3>3. it[T] = Gain(w, m, first(T)) + it[T \ {first(T)}]
      BY <1>5, <2>2
    <3>4. g[T] = g[T \ {first(T)}] + f[first(T)]
      BY <1>6, <2>2
    <3>5. f[first(T)] = Gain(w, m, first(T)) /\ f[first(T)] \in Int
          /\ g[T \ {first(T)}] \in Int
      BY <1>1, <1>7, <3>1
    <3>6. it[T] = g[T]
      <4> HIDE DEF first, f
      <4> QED
        BY <3>2, <3>3, <3>4, <3>5
    <3>7. QED
      BY <3>6
  <2>3. QED
    BY <2>1, <2>2
<1>9. SUBSET Inputs \subseteq P
  <2> HIDE DEF P
  <2> QED
    BY <1>1, <1>8, SubsetInduction
<1>10. it[Inputs] = g[Inputs]
  BY <1>9
<1>11. QED
  BY <1>3, <1>5, <1>10

LEMMA SharesAreNat ==
    ASSUME NEW w \in QueueLengths, NEW m \in Assignments, NEW i \in Inputs
    PROVE  /\ Gain(w, m, i) \in Nat
           /\ m[i] = None => Gain(w, m, i) = 0
           /\ \A o \in Outputs : m[i] = o => Gain(w, m, i) = w[i][o]
BY NoneIsNoPort DEF Gain, Assignments, QueueLengths

(* No matching weighs more than one of the greatest weight. *)
LEMMA GreatestWeight ==
    ASSUME NEW w \in QueueLengths, NEW m \in Heaviest!MaxWeightMatchings(w)
    PROVE  /\ m \in Assignments /\ IsMatching(m)
           /\ \A other \in Assignments : IsMatching(other) =>
                Heaviest!TotalWeight(w, other) <= Heaviest!TotalWeight(w, m)
<1> DEFINE M == { a \in Assignments : IsMatching(a) }
           weigh(a) == Heaviest!TotalWeight(w, a)
           D == { weigh(a) : a \in M }
           row == [i \in Inputs |-> Total(w[i], Outputs)]
           b == Total(row, Inputs)
<1>0. IsFiniteSet(Inputs) /\ IsFiniteSet(Outputs)
  BY PortsNumbered
<1>1. Heaviest!Matchings = M
  BY DEF Heaviest!Matchings, Heaviest!Assignments, Assignments,
         Heaviest!IsMatching, IsMatching
<1>2. m \in M /\ weigh(m) = Heaviest!Max(D)
  BY <1>1 DEF Heaviest!MaxWeightMatchings
<1>3. ASSUME NEW i \in Inputs
      PROVE  row[i] \in Nat /\ \A o \in Outputs : w[i][o] <= row[i]
  <2>1. \A o \in Outputs : w[i][o] \in Nat
    BY DEF QueueLengths
  <2>2. Total(w[i], Outputs) \in Nat /\ \A o \in Outputs : w[i][o] <= Total(w[i], Outputs)
    BY <1>0, <2>1, TotalNat
  <2>3. QED
    BY <2>2
<1>4. b \in Nat
  <2> HIDE DEF row
  <2> QED
    BY <1>0, <1>3, TotalNat
<1>5. ASSUME NEW a \in M PROVE weigh(a) \in 0 .. b
  <2> DEFINE f == [i \in Inputs |-> Gain(w, a, i)]
             d == [i \in Inputs |-> row[i] - f[i]]
  <2>1. weigh(a) = Total(f, Inputs)
    BY WeightIsTotal
  <2>2. \A i \in Inputs : f[i] \in Nat /\ f[i] <= row[i]
    <3> SUFFICES ASSUME NEW i \in Inputs PROVE f[i] \in Nat /\ f[i] <= row[i]
      OBVIOUS
    <3>1. f[i] = Gain(w, a, i) /\ f[i] \in Nat /\ (a[i] = None \/ a[i] \in Outputs)
      BY SharesAreNat DEF Assignments
    <3>2. row[i] \in Nat /\ \A o \in Outputs : w[i][o] <= row[i]
      BY <1>3
    <3> HIDE DEF f, row
    <3>3. QED
      BY <3>1, <3>2, SharesAreNat
  <2>3. \A i \in Inputs : f[i] \in Int /\ d[i] \in Nat /\ d[i] \in Int /\ row[i] = f[i] + d[i]
    <3> SUFFICES ASSUME NEW i \in Inputs
                 PROVE  f[i] \in Int /\ d[i] \in Nat /\ d[i] \in Int /\ row[i] = f[i] + d[i]
      OBVIOUS
    <3>1. d[i] = row[i] - f[i] /\ row[i] \in Nat /\ f[i] \in Nat /\ f[i] <= row[i]
      BY <1>3, <2>2
    <3> HIDE DEF d, f, row
    <3>2. QED
      BY <3>1
  <2> HIDE DEF f, d, row
  <2>4. Total(row, Inputs) = Total(f, Inputs) + Total(d, Inputs)
    BY <1>0, <2>3, TotalPlus
  <2>5. Total(f, Inputs) \in Nat /\ Total(d, Inputs) \in Nat
    BY <1>0, <2>2, <2>3, TotalNat
  <2>6. QED
    BY <1>4, <2>1, <2>4, <2>5
<1>6. D \in SUBSET (0 .. b) /\ D # {}
  BY <1>2, <1>5
<1>7. PICK g \in D : \A k \in D : k <= g
  <2> HIDE DEF D, b
  <2> QED
    BY <1>4, <1>6, GreatestNat
<1>8. Heaviest!Max(D) \in D /\ \A k \in D : Heaviest!Max(D) >= k
  <2>1. \A k \in D : k \in Int
    BY <1>4, <1>6
  <2> HIDE DEF D
  <2>2. \A k \in D : g >= k
    BY <1>7, <2>1
  <2>3. QED
    BY <1>7, <2>2 DEF Heaviest!Max
<1>9. ASSUME NEW other \in Assignments, IsMatching(other) PROVE weigh(other) <= weigh(m)
  <2>1. weigh(other) \in D /\ weigh(m) \in D
    BY <1>2, <1>9
  <2>2. Heaviest!Max(D) >= weigh(other) /\ weigh(m) \in Int /\ weigh(other) \in Int
    BY <1>4, <1>6, <1>8, <2>1
  <2> HIDE DEF D, weigh
  <2>3. QED
    BY <1>2, <2>2
<1>10. QED
  BY <1>2, <1>9

(* ... and so none leaves both ports of a VOQ with packets idle. *)
LEMMA GreatestIsMaximal ==
    ASSUME NEW w \in QueueLengths, NEW m \in Heaviest!MaxWeightMatchings(w),
           NEW i \in Inputs, NEW o \in Outputs, w[i][o] > 0
    PROVE  m[i] # None \/ \E j \in Inputs : m[j] = o
<1> SUFFICES ASSUME m[i] = None, \A j \in Inputs : m[j] # o PROVE FALSE
  OBVIOUS
<1>1. /\ m \in Assignments /\ IsMatching(m)
      /\ \A other \in Assignments : IsMatching(other) =>
           Heaviest!TotalWeight(w, other) <= Heaviest!TotalWeight(w, m)
  BY GreatestWeight
<1>2. PICK more : more = [m EXCEPT ![i] = o]
  OBVIOUS
<1>3. more \in Assignments /\ more[i] = o /\ \A j \in Inputs \ {i} : more[j] = m[j]
  BY <1>1, <1>2 DEF Assignments
<1>4. IsMatching(more)
  BY <1>1, <1>3 DEF IsMatching
<1> DEFINE f == [j \in Inputs |-> Gain(w, m, j)]
           e == [j \in Inputs |-> Gain(w, more, j)]
           d == [j \in Inputs |-> IF j = i THEN w[i][o] ELSE 0]
<1>5. w[i][o] \in Nat
  BY DEF QueueLengths
<1>6. \A j \in Inputs : /\ f[j] \in Int /\ f[j] \in Nat /\ d[j] \in Int /\ d[j] \in Nat
                        /\ e[j] = f[j] + d[j]
  <2> SUFFICES ASSUME NEW j \in Inputs
               PROVE  /\ f[j] \in Nat /\ d[j] \in Nat /\ e[j] = f[j] + d[j]
    OBVIOUS
  <2>1. /\ f[j] = Gain(w, m, j) /\ e[j] = Gain(w, more, j) /\ f[j] \in Nat
        /\ d[j] = IF j = i THEN w[i][o] ELSE 0
    BY <1>1, SharesAreNat
  <2>2. CASE j = i
    <3>1. f[j] = 0 /\ e[j] = w[i][o] /\ d[j] = w[i][o]
      BY <1>1, <1>3, <2>1, <2>2, SharesAreNat
    <3> HIDE DEF f, e, d
    <3>2. QED
      BY <1>5, <3>1
  <2>3. CASE j # i
    <3>1. e[j] = f[j] /\ d[j] = 0
      BY <1>3, <2>1, <2>3 DEF Gain
    <3> HIDE DEF f, e, d
    <3>2. QED
      BY <2>1, <3>1
  <2>4. QED
    BY <2>2, <2>3
<1>7. Total(e, Inputs) = Total(f, Inputs) + Total(d, Inputs) /\ d[i] = w[i][o]
  <2>1. d[i] = w[i][o]
    OBVIOUS
  <2> HIDE DEF f, e, d
  <2>2. QED
    BY <1>6, <2>1, PortsNumbered, TotalPlus
<1>8. Total(f, Inputs) \in Nat /\ Total(d, Inputs) \in Nat /\ d[i] <= Total(d, Inputs)
  <2> HIDE DEF f, e, d
  <2> QED
    BY <1>6, PortsNumbered, TotalNat
<1>9. Heaviest!TotalWeight(w, more) = Total(e, Inputs)
      /\ Heaviest!TotalWeight(w, m) = Total(f, Inputs)
  BY <1>1, <1>3, WeightIsTotal
<1>10. Total(e, Inputs) <= Total(f, Inputs)
  BY <1>1, <1>3, <1>4, <1>9
<1>11. QED
  <2> HIDE DEF f, e, d
  <2> QED
    BY <1>5, <1>7, <1>8, <1>10

HeaviestInv ==
    /\ weight \in [Inputs -> [Outputs -> Int]]
    /\ class = "MaxWeight" =>
         /\ \A i \in Inputs, o \in Outputs : weight[i][o] = Told(i, o)
         /\ NoIdlePair

LEMMA HeaviestSchedules ==
    ASSUME SwitchInv, HeaviestInv, class = "MaxWeight", MCHeaviest
    PROVE  SwitchInv' /\ HeaviestInv' /\ SwitchNext
<1>1. PICK m \in Heaviest!MaxWeightMatchings(Heaviest!Arrived) :
        /\ Heaviest!ScheduleWith(m)
        /\ weight' = Heaviest!Departed(Heaviest!Arrived, m)
  BY DEF MCHeaviest, Heaviest!Schedule
<1>2. phase = "schedule" /\ ScheduleWith(m) /\ class' = class /\ in_match = NoMatch
  BY <1>1 DEF Heaviest!ScheduleWith, ScheduleWith, Heaviest!NoMatch, NoMatch, MCHeaviest,
              SwitchInv, HandOvers
<1>3. queue_len \in QueueLengths /\ \A i \in Inputs, o \in Outputs : queue_len[i][o] \in Nat
  BY DEF SwitchInv, SwitchTypeOK, QueueLengths
<1>4. Heaviest!Arrived = queue_len
  <2>1. ASSUME NEW i \in Inputs, NEW o \in Outputs
        PROVE  weight[i][o] + (IF arrivals[i] = o THEN 1 ELSE 0) = queue_len[i][o]
    <3>1. weight[i][o] = Told(i, o) /\ in_match[i] # o /\ queue_len[i][o] \in Nat
      BY <1>2, <1>3, NoneIsNoPort DEF HeaviestInv, NoMatch
    <3>2. QED
      BY <3>1 DEF Told
  <2>2. Heaviest!Arrived = [i \in Inputs |-> [o \in Outputs |->
                              weight[i][o] + IF arrivals[i] = o THEN 1 ELSE 0]]
    BY DEF Heaviest!Arrived, Heaviest!Enqueue
  <2>3. QED
    BY <1>3, <2>1, <2>2 DEF QueueLengths
<1>5. m \in Assignments /\ IsMatching(m)
  BY <1>1, <1>3, <1>4, GreatestWeight
<1>6. /\ SwitchInv' /\ phase' = "write_outputs" /\ in_match' = m
      /\ queue_len' = queue_len /\ SwitchNext
      /\ \A i \in Inputs, o \in Outputs :
           Told(i, o)' = queue_len[i][o] - IF m[i] = o /\ queue_len[i][o] > 0 THEN 1 ELSE 0
  BY <1>2, <1>5, SwitchSchedules
<1>7. weight' = [i \in Inputs |-> [o \in Outputs |->
                   queue_len[i][o] - IF m[i] = o /\ queue_len[i][o] > 0 THEN 1 ELSE 0]]
  BY <1>1, <1>4 DEF Heaviest!Departed
<1>8. weight' \in [Inputs -> [Outputs -> Int]]
  BY <1>3, <1>7
<1>9. \A i \in Inputs, o \in Outputs : weight'[i][o] = Told(i, o)'
  BY <1>6, <1>7
<1>10. NoIdlePair'
  <2>1. \A i \in Inputs, o \in Outputs : queue_len[i][o] > 0 =>
          m[i] # None \/ \E j \in Inputs : m[j] = o
    BY <1>1, <1>3, <1>4, GreatestIsMaximal
  <2>2. QED
    BY <1>6, <2>1 DEF NoIdlePair
<1>11. QED
  BY <1>6, <1>8, <1>9, <1>10 DEF HeaviestInv

-----------------------------------------------------------------------------
(* The tree of an input as an account of weights of the outputs: each leaf  *)
(* has the weight of its output, and each other position the sum of the two *)
(* below it.                                                               *)

LEMMA LeftStartFacts ==
    /\ LeftStart \in Nat /\ LeftStart >= 1
    /\ \A o \in Outputs : o \in Nat /\ LeftStart + o \in LeftStart .. 2 * LeftStart - 1
<1>1. /\ LeftStart \in Nat /\ LeftStart >= 1 /\ LeftStart >= Cardinality(Outputs)
  BY PortsFacts, LeavesEnough DEF LeftStart
<1>2. QED
  BY <1>1, PortsFacts

Trees == [Positions(LeftStart) -> Int]

Sums(tree) == \A p \in 1 .. LeftStart - 1 : tree[p] = tree[2 * p] + tree[2 * p + 1]

Account(tree, w) ==
    /\ tree \in Trees /\ Sums(tree)
    /\ \A q \in LeftStart .. 2 * LeftStart - 1 :
         tree[q] = IF q - LeftStart \in Outputs THEN w[q - LeftStart] ELSE 0

LEMMA AccountOf ==
    ASSUME NEW tree, NEW w, Account(tree, w), NEW o \in Outputs
    PROVE  tree[LeftStart + o] = w[o]
<1>1. (LeftStart + o) - LeftStart = o
  BY LeftStartFacts
<1>2. QED
  BY <1>1, LeftStartFacts DEF Account

(* Only the weights matter. *)
LEMMA AccountSame ==
    ASSUME NEW tree, NEW v, NEW w, Account(tree, v), \A o \in Outputs : w[o] = v[o]
    PROVE  Account(tree, w)
BY DEF Account

LEMMA UpdateAccount ==
    ASSUME NEW tree, NEW w, Account(tree, w), NEW o \in Outputs, NEW delta \in Int, NEW v,
           \A p \in Outputs : v[p] = IF p = o THEN w[p] + delta ELSE w[p],
           \A p \in Outputs : w[p] \in Int
    PROVE  Account(Update(tree, LeftStart + o, delta), v)
<1> DEFINE n == LeftStart
           pos == n + o
           new == Update(tree, pos, delta)
<1>1. /\ n \in Nat /\ n >= 1 /\ pos \in n .. 2 * n - 1 /\ pos \in Nat \ {0}
  BY LeftStartFacts
<1>2. /\ DOMAIN tree = 1 .. 2 * n - 1 /\ \A p \in 1 .. 2 * n - 1 : tree[p] \in Int
      /\ Sums(tree)
      /\ \A q \in n .. 2 * n - 1 : tree[q] = IF q - n \in Outputs THEN w[q - n] ELSE 0
  BY DEF Account, Trees, Positions
<1>3. \A p \in 1 .. 2 * n - 1 :
        /\ new[p] = tree[p] + IF p \in Path(pos) THEN delta ELSE 0
        /\ new[p] \in Int
  BY <1>2 DEF Update
<1>4. new \in Trees
  <2>1. DOMAIN new = 1 .. 2 * n - 1 /\ new = [p \in DOMAIN new |-> new[p]]
    BY <1>2 DEF Update
  <2> HIDE DEF new
  <2>2. QED
    BY <1>3, <2>1 DEF Trees, Positions
<1> HIDE DEF new
<1>5. Sums(new)
  <2> SUFFICES ASSUME NEW p \in 1 .. n - 1 PROVE new[p] = new[2 * p] + new[2 * p + 1]
    BY DEF Sums
  <2>1. /\ p \in 1 .. 2 * n - 1 /\ 2 * p \in 1 .. 2 * n - 1 /\ 2 * p + 1 \in 1 .. 2 * n - 1
        /\ p # pos /\ p \in Nat \ {0}
    BY <1>1
  <2>2. /\ p \in Path(pos) <=> 2 * p \in Path(pos) \/ 2 * p + 1 \in Path(pos)
        /\ ~ (2 * p \in Path(pos) /\ 2 * p + 1 \in Path(pos))
    BY <1>1, <2>1, PathGoesThrough DEF Through
  <2>3. tree[p] = tree[2 * p] + tree[2 * p + 1]
    BY <1>2 DEF Sums
  <2>4. PICK a \in Int, b \in Int, c \in Int :
          a = tree[p] /\ b = tree[2 * p] /\ c = tree[2 * p + 1]
    BY <1>2, <2>1
  <2>5. /\ new[p] = a + (IF p \in Path(pos) THEN delta ELSE 0)
        /\ new[2 * p] = b + (IF 2 * p \in Path(pos) THEN delta ELSE 0)
        /\ new[2 * p + 1] = c + (IF 2 * p + 1 \in Path(pos) THEN delta ELSE 0)
        /\ a = b + c
    BY <1>3, <2>1, <2>3, <2>4
  <2> HIDE DEF pos
  <2>6. QED
    BY <2>2, <2>5
<1>6. ASSUME NEW q \in n .. 2 * n - 1
      PROVE  new[q] = IF q - n \in Outputs THEN v[q - n] ELSE 0
  <2>1. q \in 1 .. 2 * n - 1 /\ (q \in Path(pos) <=> q = pos)
    BY <1>1, LeavesApart
  <2>2. (q = pos) <=> (q - n = o)
    BY <1>1, LeftStartFacts
  <2>3. new[q] = tree[q] + IF q - n = o THEN delta ELSE 0
    BY <1>3, <2>1, <2>2
  <2>4. tree[q] = IF q - n \in Outputs THEN w[q - n] ELSE 0
    BY <1>2
  <2>5. PICK r : r = q - n
    OBVIOUS
  <2>6. QED
    BY <2>3, <2>4, <2>5
<1>7. Account(new, v)
  BY <1>4, <1>5, <1>6 DEF Account
<1>8. QED
  BY <1>7 DEF new

(* What is in a tree that is the account of weights that are not negative:  *)
(* no position has less than one below it, so the root has none only if no  *)
(* leaf has any.                                                           *)
LEMMA TreesAreNat ==
    ASSUME NEW tree, NEW w, Account(tree, w), \A o \in Outputs : w[o] \in Nat
    PROVE  /\ \A p \in 1 .. 2 * LeftStart - 1 : tree[p] \in Nat
           /\ \A p \in 1 .. 2 * LeftStart - 1 : tree[p] <= tree[1]
<1> DEFINE n == LeftStart
           last == 2 * n - 1
<1>1. /\ n \in Nat /\ n >= 1 /\ last \in Nat
      /\ \A p \in 1 .. n - 1 : tree[p] = tree[2 * p] + tree[2 * p + 1]
      /\ \A q \in n .. last : tree[q] = IF q - n \in Outputs THEN w[q - n] ELSE 0
  BY LeftStartFacts DEF Account, Sums
<1>2. \A q \in n .. last : tree[q] \in Nat
  BY <1>1
<1> HIDE DEF n
<1> DEFINE S == { k \in 0 .. last : \A p \in 1 .. last : p > last - k => tree[p] \in Nat }
<1>3. 0 \in S
  <2>1. \A p \in 1 .. last : ~ p > last - 0
    BY <1>1
  <2>2. QED
    BY <1>1, <2>1
<1>4. ASSUME NEW k \in 0 .. last - 1, k \in S PROVE k + 1 \in S
  <2>1. k + 1 \in 0 .. last /\ \A p \in 1 .. last : p > last - k => tree[p] \in Nat
    BY <1>1, <1>4
  <2>2. ASSUME NEW p \in 1 .. last, p > last - (k + 1) PROVE tree[p] \in Nat
    <3>1. CASE p > last - k
      BY <2>1, <3>1
    <3>2. CASE ~ p > last - k /\ p \in n .. last
      BY <1>2, <3>2
    <3>3. CASE ~ p > last - k /\ p \notin n .. last
      <4>1. p \in 1 .. n - 1 /\ p = last - k
        BY <1>1, <2>2, <3>3
      <4>2. 2 * p \in 1 .. last /\ 2 * p + 1 \in 1 .. last /\ 2 * p > last - k /\ 2 * p + 1 > last - k
        BY <1>1, <4>1
      <4>3. tree[2 * p] \in Nat /\ tree[2 * p + 1] \in Nat
        BY <2>1, <4>2
      <4>4. QED
        BY <1>1, <4>1, <4>3
    <3>4. QED
      BY <3>1, <3>2, <3>3
  <2>3. QED
    BY <2>1, <2>2
<1>5. 0 .. last \subseteq S
  <2> HIDE DEF S, last
  <2> QED
    BY <1>1, <1>3, <1>4, IntervalInduction
<1>6. \A p \in 1 .. last : tree[p] \in Nat
  <2>1. last \in 0 .. last
    BY <1>1
  <2>2. \A p \in 1 .. last : p > last - last
    BY <1>1
  <2>3. last \in S
    BY <1>5, <2>1
  <2>4. QED
    BY <2>2, <2>3
<1> DEFINE R == { k \in 0 .. last : \A p \in 1 .. k : tree[p] <= tree[1] }
<1>7. 0 \in R
  BY <1>1
<1>8. ASSUME NEW k \in 0 .. last - 1, k \in R PROVE k + 1 \in R
  <2>1. k + 1 \in 0 .. last /\ k + 1 \in 1 .. last /\ 1 \in 1 .. last
    BY <1>1
  <2>2. CASE k = 0
    <3>1. \A p \in 1 .. k + 1 : p = 1
      BY <2>2
    <3>2. tree[1] <= tree[1]
      BY <1>6, <2>1
    <3>3. QED
      BY <2>1, <3>1, <3>2
  <2>3. CASE k # 0
    <3>1. PICK h \in 1 .. k : k + 1 = 2 * h \/ k + 1 = 2 * h + 1
      <4>1. (k + 1) \div 2 \in 1 .. k
        BY <2>3
      <4>2. k + 1 = 2 * ((k + 1) \div 2) \/ k + 1 = 2 * ((k + 1) \div 2) + 1
        OBVIOUS
      <4>3. QED
        BY <4>1, <4>2
    <3>2. /\ h \in 1 .. n - 1 /\ h \in 1 .. last
          /\ 2 * h \in 1 .. last /\ 2 * h + 1 \in 1 .. last
      BY <1>1, <2>1, <3>1
    <3>3. /\ tree[h] = tree[2 * h] + tree[2 * h + 1] /\ tree[h] \in Nat
          /\ tree[2 * h] \in Nat /\ tree[2 * h + 1] \in Nat /\ tree[1] \in Nat
          /\ tree[h] <= tree[1]
      BY <1>1, <1>6, <1>8, <2>1, <3>1, <3>2
    <3>4. tree[k + 1] <= tree[1]
      <4>1. tree[2 * h] <= tree[1] /\ tree[2 * h + 1] <= tree[1]
        BY <3>3
      <4>2. QED
        BY <3>1, <4>1
    <3>5. \A p \in 1 .. k + 1 : p = k + 1 \/ p \in 1 .. k
      OBVIOUS
    <3>6. QED
      BY <1>8, <2>1, <3>4, <3>5
  <2>4. QED
    BY <2>2, <2>3
<1>9. 0 .. last \subseteq R
  <2> HIDE DEF R, last
  <2> QED
    BY <1>1, <1>7, <1>8, IntervalInduction
<1>10. last \in R
  BY <1>1, <1>9
<1>11. QED
  BY <1>6, <1>10 DEF n

-----------------------------------------------------------------------------
(* Searching a tree. *)

(* What search finds has weight. *)
LEMMA AccountFinds ==
    ASSUME NEW tree, NEW w, Account(tree, w), \A o \in Outputs : w[o] \in Nat,
           NEW b \in 0 .. tree[1] - 1
    PROVE  /\ Search(tree, b) \in LeftStart .. 2 * LeftStart - 1
           /\ tree[Search(tree, b)] > 0
<1>1. PICK n \in Nat : n = LeftStart /\ n >= 1
  BY LeftStartFacts
<1>2. /\ DOMAIN tree = 1 .. 2 * n - 1 /\ tree = [p \in DOMAIN tree |-> tree[p]]
      /\ \A p \in 1 .. n - 1 : tree[p] = tree[2 * p] + tree[2 * p + 1]
  BY <1>1 DEF Account, Trees, Sums, Positions
<1>3. \A p \in 1 .. 2 * n - 1 : tree[p] \in Nat
  BY <1>1, TreesAreNat
<1>4. tree \in [1 .. 2 * n - 1 -> Nat]
  BY <1>2, <1>3
<1>5. \A p \in 1 .. n - 1 : tree[p] <= tree[2 * p] + tree[2 * p + 1]
  <2> SUFFICES ASSUME NEW p \in 1 .. n - 1 PROVE tree[p] <= tree[2 * p] + tree[2 * p + 1]
    OBVIOUS
  <2>1. tree[p] = tree[2 * p] + tree[2 * p + 1] /\ tree[p] \in Nat
    BY <1>1, <1>2, <1>3
  <2>2. QED
    BY <2>1
<1>6. Search(tree, b) \in n .. 2 * n - 1 /\ tree[Search(tree, b)] > 0
  BY <1>1, <1>4, <1>5, SearchFinds
<1>7. QED
  BY <1>1, <1>6

(* What search finds is an output that has weight. *)
LEMMA SamplingFinds ==
    ASSUME NEW tree, NEW w, Account(tree, w), \A o \in Outputs : w[o] \in Nat,
           NEW x \in Sampling(tree)
    PROVE  x \in Outputs /\ w[x] > 0
<1>1. PICK b \in 0 .. tree[1] - 1 : x = Search(tree, b) - LeftStart
  BY DEF Sampling
<1>2. PICK q : q = Search(tree, b)
  OBVIOUS
<1>3. q \in LeftStart .. 2 * LeftStart - 1 /\ tree[q] > 0
  BY <1>2, AccountFinds
<1>4. tree[q] = IF q - LeftStart \in Outputs THEN w[q - LeftStart] ELSE 0
  BY <1>3 DEF Account
<1>5. q - LeftStart \in Outputs /\ tree[q] = w[q - LeftStart]
  BY <1>3, <1>4
<1>6. QED
  BY <1>1, <1>2, <1>3, <1>5

(* There is something to sample unless no output has weight. *)
LEMMA SomethingToSample ==
    ASSUME NEW tree, NEW w, Account(tree, w), \A o \in Outputs : w[o] \in Nat
    PROVE  /\ tree[1] \in Nat
           /\ \A o \in Outputs : w[o] > 0 => tree[1] # 0
           /\ tree[1] # 0 => Sampling(tree) # {}
<1>1. /\ \A p \in 1 .. 2 * LeftStart - 1 : tree[p] \in Nat
      /\ \A p \in 1 .. 2 * LeftStart - 1 : tree[p] <= tree[1]
  BY TreesAreNat
<1>2. 1 \in 1 .. 2 * LeftStart - 1
  BY LeftStartFacts
<1>3. ASSUME NEW o \in Outputs, w[o] > 0 PROVE tree[1] # 0
  <2>1. tree[LeftStart + o] = w[o]
    BY AccountOf
  <2>2. LeftStart + o \in 1 .. 2 * LeftStart - 1
    BY LeftStartFacts
  <2>3. tree[LeftStart + o] <= tree[1] /\ tree[1] \in Nat /\ w[o] \in Nat
    BY <1>1, <1>2, <2>2
  <2>4. QED
    BY <1>3, <2>1, <2>3
<1>4. ASSUME tree[1] # 0 PROVE Sampling(tree) # {}
  <2>1. tree[1] \in Nat
    BY <1>1, <1>2
  <2>2. 0 \in 0 .. tree[1] - 1
    BY <1>4, <2>1
  <2>3. Search(tree, 0) - LeftStart \in Sampling(tree)
    BY <2>2 DEF Sampling
  <2>4. QED
    BY <2>3
<1>5. QED
  BY <1>1, <1>2, <1>3, <1>4

LEMMA UpdatedTrees ==
    ASSUME NEW trees \in [Inputs -> Trees], NEW at, NEW delta \in [Inputs -> Int]
    PROVE  Updated(trees, at, delta) \in [Inputs -> Trees]
<1>1. ASSUME NEW i \in Inputs
      PROVE  (IF at[i] = None THEN trees[i]
              ELSE Update(trees[i], LeftStart + at[i], delta[i])) \in Trees
  <2>1. trees[i] \in Trees /\ delta[i] \in Int
    OBVIOUS
  <2>2. Update(trees[i], LeftStart + at[i], delta[i]) \in Trees
    BY <2>1 DEF Update, Trees
  <2>3. QED
    BY <2>1, <2>2
<1>2. QED
  BY <1>1 DEF Updated

LEMMA UpdatedAccount ==
    ASSUME NEW trees, NEW at \in Assignments, NEW delta \in [Inputs -> Int],
           NEW i \in Inputs, NEW w, NEW v,
           Account(trees[i], w), \A o \in Outputs : w[o] \in Int,
           \A o \in Outputs : v[o] = IF at[i] = o THEN w[o] + delta[i] ELSE w[o]
    PROVE  Account(Updated(trees, at, delta)[i], v)
<1>1. CASE at[i] = None
  <2>1. Updated(trees, at, delta)[i] = trees[i]
    BY <1>1 DEF Updated
  <2>2. \A o \in Outputs : v[o] = w[o]
    BY <1>1, NoneIsNoPort
  <2>3. QED
    BY <2>1, <2>2, AccountSame
<1>2. CASE at[i] # None
  <2>1. PICK o \in Outputs : at[i] = o
    BY <1>2 DEF Assignments
  <2>2. PICK d \in Int : d = delta[i]
    OBVIOUS
  <2>3. PICK t : t = trees[i]
    OBVIOUS
  <2>4. Updated(trees, at, delta)[i] = Update(t, LeftStart + o, d)
    BY <1>2, <2>1, <2>2, <2>3 DEF Updated
  <2>5. \A p \in Outputs : v[p] = IF p = o THEN w[p] + d ELSE w[p]
    BY <2>1, <2>2
  <2>6. Account(Update(t, LeftStart + o, d), v)
    BY <2>3, <2>5, UpdateAccount
  <2>7. QED
    BY <2>4, <2>6
<1>3. QED
  BY <1>1, <1>2

-----------------------------------------------------------------------------
(* QPS: the iterations of one slot.                                        *)

Removals == Assignments \X [Inputs -> Int]
Works == [trees : [Inputs -> Trees], m : Assignments, removed : Seq(Removals)]

(* The VOQ of input i and output o is taken out by one of the removals.     *)
Out(r, i, o, S) == \E j \in S : r[j][1][i] = o

(* What the trees hold when the removals S of r are taken out. *)
Rest(r, S) == [i \in Inputs |-> [o \in Outputs |->
                 IF Out(r, i, o, S) THEN 0 ELSE queue_len[i][o]]]

(* No VOQ is taken out twice, and the length kept of it is that of the VOQ. *)
RemovedOnce(r, n) ==
    \A i \in Inputs, j \in 1 .. n : r[j][1][i] # None =>
        /\ r[j][2][i] = queue_len[i][r[j][1][i]]
        /\ \A k \in 1 .. n : r[k][1][i] = r[j][1][i] => k = j

(* Only outputs that are matched have rejected an unmatched input, and an   *)
(* iteration in which it proposed to none found all its VOQs taken out.     *)
RejectedByMatched(m, r, n) ==
    without_replacement =>
        \A i \in Inputs, j \in 1 .. n : m[i] = None =>
            /\ r[j][1][i] # None => \E h \in Inputs : m[h] = r[j][1][i]
            /\ r[j][1][i] = None =>
                 \A o \in Outputs : queue_len[i][o] > 0 => Out(r, i, o, 1 .. n)

(* The inputs that have packets for o only. *)
Only(o) == { i \in Inputs : \A p \in Outputs : queue_len[i][p] > 0 <=> p = o }

(* The accept policy does not prefer j to i. *)
Preferred(i, j, o) ==
    /\ policy = "longest_first" => queue_len[j][o] <= queue_len[i][o]
    /\ policy = "shortest_first" => queue_len[i][o] <= queue_len[j][o]
    /\ policy = "smallest_first" => i <= j

OnlyAnswered(m) ==
    \A o \in Outputs : \A j \in Only(o) : \E i \in Inputs : m[i] = o /\ Preferred(i, j, o)

WorkInv(w, n) ==
    /\ w \in Works /\ Len(w.removed) = n
    /\ \A i \in Inputs : Account(w.trees[i], Rest(w.removed, 1 .. n)[i])
    /\ RemovedOnce(w.removed, n)
    /\ IsMatching(w.m)
    /\ \A i \in Inputs : w.m[i] # None => queue_len[i][w.m[i]] > 0
    /\ RejectedByMatched(w.m, w.removed, n)
    /\ IF n = 0 THEN w.m = NoMatch ELSE OnlyAnswered(w.m)

(* Accepting changes the matching where it was open, and leaves no output   *)
(* that was asked without an input.                                         *)
LEMMA AcceptedFacts ==
    ASSUME NEW req \in Assignments, NEW m \in Assignments, IsMatching(m),
           NEW n \in Accepted(req, m)
    PROVE  /\ n \in Assignments /\ IsMatching(n)
           /\ \A i \in Inputs : n[i] # m[i] => m[i] = None /\ n[i] = req[i]
           /\ \A i \in Inputs : req[i] # None => \E h \in Inputs : n[h] = req[i]
<1>1. /\ n \in Assignments
      /\ \A i \in Inputs : n[i] # m[i] => m[i] = None /\ n[i] = req[i]
      /\ \A o \in Outputs : Proposers(req, m, o) = {} =>
           \A i \in Inputs : n[i] = o => m[i] = o
      /\ \A o \in Outputs : Proposers(req, m, o) # {} =>
           \E c : { i \in Proposers(req, m, o) : n[i] = o } = {c}
  BY DEF Accepted
<1>2. ASSUME NEW i \in Inputs, NEW j \in Inputs, n[i] # None, n[i] = n[j] PROVE i = j
  <2>1. PICK o \in Outputs : n[i] = o /\ n[j] = o
    BY <1>1, <1>2 DEF Assignments
  <2>2. CASE Proposers(req, m, o) = {}
    <3>1. m[i] = o /\ m[j] = o
      BY <1>1, <2>1, <2>2
    <3>2. QED
      BY <3>1, NoneIsNoPort DEF IsMatching
  <2>3. CASE Proposers(req, m, o) # {}
    <3>1. \A h \in Inputs : m[h] # o
      BY <2>3 DEF Proposers
    <3>2. i \in Proposers(req, m, o) /\ j \in Proposers(req, m, o)
      BY <1>1, <2>1, <3>1 DEF Proposers
    <3>3. PICK c : { h \in Proposers(req, m, o) : n[h] = o } = {c}
      BY <1>1, <2>3
    <3>4. i \in {c} /\ j \in {c}
      BY <2>1, <3>2, <3>3
    <3>5. QED
      BY <3>4
  <2>4. QED
    BY <2>2, <2>3
<1>3. ASSUME NEW i \in Inputs, req[i] # None PROVE \E h \in Inputs : n[h] = req[i]
  <2>1. PICK o \in Outputs : req[i] = o
    BY <1>3 DEF Assignments
  <2>2. CASE Proposers(req, m, o) = {}
    <3>1. PICK h \in Inputs : m[h] = o
      BY <2>1, <2>2 DEF Proposers
    <3>2. n[h] = o
      BY <1>1, <3>1, NoneIsNoPort
    <3>3. QED
      BY <2>1, <3>2
  <2>3. CASE Proposers(req, m, o) # {}
    <3>1. PICK c : { h \in Proposers(req, m, o) : n[h] = o } = {c}
      BY <1>1, <2>3
    <3>2. c \in { h \in Proposers(req, m, o) : n[h] = o }
      BY <3>1
    <3>3. QED
      BY <2>1, <3>2 DEF Proposers
  <2>4. QED
    BY <2>2, <2>3
<1>4. QED
  BY <1>1, <1>2, <1>3 DEF IsMatching
LEMMA RequestFacts ==
    ASSUME queue_len \in QueueLengths, NEW n \in Nat, NEW w, WorkInv(w, n),
           NEW req \in Requests(w.trees, w.m), NEW i \in Inputs
    PROVE  /\ req \in Assignments
           /\ req[i] # None =>
                /\ w.m[i] = None /\ req[i] \in Outputs /\ queue_len[i][req[i]] > 0
                /\ ~ Out(w.removed, i, req[i], 1 .. n)
           /\ req[i] = None /\ w.m[i] = None =>
                \A o \in Outputs : queue_len[i][o] > 0 => Out(w.removed, i, o, 1 .. n)
<1>1. /\ req \in Assignments
      /\ IF w.trees[i][1] = 0 \/ w.m[i] # None THEN req[i] = None
         ELSE req[i] \in Sampling(w.trees[i])
  BY DEF Requests
<1>2. PICK r : r = w.removed
  OBVIOUS
<1>3. PICK tree : tree = w.trees[i]
  OBVIOUS
<1>4. PICK v : v = Rest(r, 1 .. n)[i]
  OBVIOUS
<1>5. Account(tree, v)
  BY <1>2, <1>3, <1>4 DEF WorkInv
<1>6. \A o \in Outputs : v[o] = IF Out(r, i, o, 1 .. n) THEN 0 ELSE queue_len[i][o]
  BY <1>4 DEF Rest
<1>7. \A o \in Outputs : v[o] \in Nat /\ queue_len[i][o] \in Nat
  BY <1>6 DEF QueueLengths
<1>8. ASSUME req[i] # None
      PROVE  /\ w.m[i] = None /\ req[i] \in Outputs /\ queue_len[i][req[i]] > 0
             /\ ~ Out(r, i, req[i], 1 .. n)
  <2>1. w.m[i] = None /\ req[i] \in Sampling(tree)
    BY <1>1, <1>3, <1>8
  <2>2. req[i] \in Outputs /\ v[req[i]] > 0
    BY <1>5, <1>7, <2>1, SamplingFinds
  <2>3. QED
    BY <1>6, <2>1, <2>2
<1>9. ASSUME req[i] = None, w.m[i] = None
      PROVE  \A o \in Outputs : queue_len[i][o] > 0 => Out(r, i, o, 1 .. n)
  <2>1. tree[1] = 0
    <3>1. CASE tree[1] # 0
      <4>1. req[i] \in Sampling(tree)
        BY <1>1, <1>3, <1>9, <3>1
      <4>2. req[i] \in Outputs
        BY <1>5, <1>7, <4>1, SamplingFinds
      <4>3. QED
        BY <1>9, <4>2, NoneIsNoPort
    <3>2. QED
      BY <3>1
  <2>2. \A o \in Outputs : ~ v[o] > 0
    BY <1>5, <1>7, <2>1, SomethingToSample
  <2>3. QED
    BY <1>6, <2>2
<1>10. QED
  BY <1>1, <1>2, <1>8, <1>9

(* In the first iteration every input that has packets for one output only  *)
(* asks for it, so that one that the policy prefers is accepted.            *)
LEMMA FirstAnswers ==
    ASSUME queue_len \in QueueLengths, NEW w, WorkInv(w, 0),
           NEW req \in Requests(w.trees, w.m), NEW m \in Accepted(req, w.m)
    PROVE  OnlyAnswered(m)
<1> SUFFICES ASSUME NEW o \in Outputs, NEW j \in Only(o)
             PROVE  \E i \in Inputs : m[i] = o /\ Preferred(i, j, o)
  BY DEF OnlyAnswered
<1>1. w.m = NoMatch
  BY DEF WorkInv
<1>2. j \in Inputs /\ queue_len[j][o] > 0 /\ \A p \in Outputs : queue_len[j][p] > 0 => p = o
  BY DEF Only
<1>3. /\ req[j] # None => req[j] \in Outputs /\ queue_len[j][req[j]] > 0
      /\ req[j] = None /\ w.m[j] = None =>
           \A p \in Outputs : queue_len[j][p] > 0 => Out(w.removed, j, p, 1 .. 0)
  BY <1>2, RequestFacts
<1>4. ~ Out(w.removed, j, o, 1 .. 0)
  BY DEF Out
<1>5. req[j] = o
  BY <1>1, <1>2, <1>3, <1>4 DEF NoMatch
<1>6. PICK S : S = Proposers(req, w.m, o)
  OBVIOUS
<1>7. j \in S /\ S \subseteq Inputs
  BY <1>1, <1>2, <1>5, <1>6, NoneIsNoPort DEF Proposers, NoMatch
<1>8. PICK c \in Chosen(S, o) : { i \in S : m[i] = o } = {c}
  BY <1>6, <1>7 DEF Accepted
<1>9. c \in S /\ m[c] = o
  BY <1>8
<1>10. Preferred(c, j, o)
  <2>1. CASE policy = "longest_first"
    BY <1>7, <1>8, <2>1 DEF Chosen, Preferred
  <2>2. CASE policy = "shortest_first"
    BY <1>7, <1>8, <2>2 DEF Chosen, Preferred
  <2>3. CASE policy = "smallest_first"
    BY <1>7, <1>8, <2>3 DEF Chosen, Preferred
  <2>4. CASE policy \notin {"longest_first", "shortest_first", "smallest_first"}
    BY <2>4 DEF Preferred
  <2>5. QED
    BY <2>1, <2>2, <2>3, <2>4
<1>11. QED
  BY <1>7, <1>9, <1>10

(* What one more removal makes of those before. *)
LEMMA OneMore ==
    ASSUME NEW n \in Nat, NEW r \in Seq(Removals), Len(r) = n, NEW x \in Removals
    PROVE  /\ Append(r, x) \in Seq(Removals) /\ Len(Append(r, x)) = n + 1
           /\ Append(r, x)[n + 1] = x
           /\ \A j \in 1 .. n : Append(r, x)[j] = r[j]
           /\ \A j : j \in 1 .. n + 1 <=> j \in 1 .. n \/ j = n + 1
           /\ \A i, o : Out(Append(r, x), i, o, 1 .. n + 1) <=>
                          Out(r, i, o, 1 .. n) \/ x[1][i] = o
<1> DEFINE s == Append(r, x)
<1>1. /\ s \in Seq(Removals) /\ Len(s) = n + 1 /\ s[n + 1] = x
      /\ \A j \in 1 .. n : s[j] = r[j]
  OBVIOUS
<1>2. \A j : j \in 1 .. n + 1 <=> j \in 1 .. n \/ j = n + 1
  OBVIOUS
<1> HIDE DEF s
<1>3. ASSUME NEW i, NEW o
      PROVE  Out(s, i, o, 1 .. n + 1) <=> Out(r, i, o, 1 .. n) \/ x[1][i] = o
  BY <1>1, <1>2 DEF Out
<1>4. QED
  BY <1>1, <1>2, <1>3 DEF s

LEMMA IterationKeeps ==
    ASSUME queue_len \in QueueLengths, NEW n \in Nat, NEW w, WorkInv(w, n), NEW w2 \in Iterate(w)
    PROVE  WorkInv(w2, n + 1)
<1>0. PICK req \in Requests(w.trees, w.m) : \E m \in Accepted(req, w.m) : \E out, old :
        /\ out = Rejected(req, m)
        /\ old = [i \in Inputs |-> IF out[i] = None THEN 0
                                   ELSE w.trees[i][LeftStart + out[i]]]
        /\ w2 = [trees |-> Updated(w.trees, out, [i \in Inputs |-> -old[i]]),
                 m |-> m, removed |-> Append(w.removed, <<out, old>>)]
  BY DEF Iterate
<1>00. PICK m \in Accepted(req, w.m) : \E out, old :
        /\ out = Rejected(req, m)
        /\ old = [i \in Inputs |-> IF out[i] = None THEN 0
                                   ELSE w.trees[i][LeftStart + out[i]]]
        /\ w2 = [trees |-> Updated(w.trees, out, [i \in Inputs |-> -old[i]]),
                 m |-> m, removed |-> Append(w.removed, <<out, old>>)]
  BY <1>0
<1>1. PICK out, old :
        /\ out = Rejected(req, m)
        /\ old = [i \in Inputs |-> IF out[i] = None THEN 0
                                   ELSE w.trees[i][LeftStart + out[i]]]
        /\ w2 = [trees |-> Updated(w.trees, out, [i \in Inputs |-> -old[i]]),
                 m |-> m, removed |-> Append(w.removed, <<out, old>>)]
  BY <1>00
<1>2. PICK r : r = w.removed
  OBVIOUS
<1>3. PICK m0 : m0 = w.m
  OBVIOUS
<1>4. /\ w \in Works /\ r \in Seq(Removals) /\ Len(r) = n /\ m0 \in Assignments
      /\ w.trees \in [Inputs -> Trees] /\ IsMatching(m0)
      /\ \A i \in Inputs : m0[i] # None => queue_len[i][m0[i]] > 0
      /\ RemovedOnce(r, n) /\ RejectedByMatched(m0, r, n)
  BY <1>2, <1>3 DEF WorkInv, Works
<1>5. /\ req \in Assignments
      /\ \A i \in Inputs :
           /\ req[i] # None =>
                /\ m0[i] = None /\ req[i] \in Outputs /\ queue_len[i][req[i]] > 0
                /\ ~ Out(r, i, req[i], 1 .. n)
           /\ req[i] = None /\ m0[i] = None =>
                \A o \in Outputs : queue_len[i][o] > 0 => Out(r, i, o, 1 .. n)
  <2>1. req \in Assignments
    BY DEF Requests
  <2>2. QED
    BY <1>2, <1>3, <2>1, RequestFacts
<1>6. /\ m \in Assignments /\ IsMatching(m)
      /\ \A i \in Inputs : m[i] # m0[i] => m0[i] = None /\ m[i] = req[i]
      /\ \A i \in Inputs : req[i] # None => \E h \in Inputs : m[h] = req[i]
  BY <1>3, <1>4, <1>5, AcceptedFacts
<1>7. /\ out \in Assignments
      /\ \A i \in Inputs :
           out[i] = IF without_replacement /\ m[i] = None THEN req[i] ELSE None
  BY <1>1, <1>5 DEF Rejected, Assignments
<1>8. \A i \in Inputs : out[i] # None =>
        /\ out[i] = req[i] /\ out[i] \in Outputs
        /\ ~ Out(r, i, out[i], 1 .. n)
  BY <1>5, <1>7
<1>9. ASSUME NEW i \in Inputs
      PROVE  /\ old[i] \in Int
             /\ out[i] = None => old[i] = 0
             /\ out[i] # None => old[i] = queue_len[i][out[i]]
  <2>1. CASE out[i] = None
    BY <1>1, <2>1
  <2>2. CASE out[i] # None
    <3>1. PICK o \in Outputs : o = out[i]
      BY <1>8, <2>2
    <3>2. PICK tree, v : tree = w.trees[i] /\ v = Rest(r, 1 .. n)[i]
      OBVIOUS
    <3>3. Account(tree, v)
      BY <1>2, <3>2 DEF WorkInv
    <3>4. old[i] = tree[LeftStart + o]
      BY <1>1, <2>2, <3>1, <3>2
    <3>5. v[o] = queue_len[i][o]
      BY <1>8, <2>2, <3>1, <3>2 DEF Rest
    <3>6. QED
      BY <2>2, <3>1, <3>3, <3>4, <3>5, AccountOf DEF QueueLengths
  <2>3. QED
    BY <2>1, <2>2
<1>10. old \in [Inputs -> Int] /\ [i \in Inputs |-> -old[i]] \in [Inputs -> Int]
  BY <1>1, <1>9
<1>11. PICK x \in Removals : x = <<out, old>>
  BY <1>7, <1>10 DEF Removals
<1>12. PICK s : s = Append(r, x)
  OBVIOUS
<1>13. /\ s \in Seq(Removals) /\ Len(s) = n + 1 /\ s[n + 1] = x
       /\ \A j \in 1 .. n : s[j] = r[j]
       /\ \A j : j \in 1 .. n + 1 <=> j \in 1 .. n \/ j = n + 1
       /\ \A i, o : Out(s, i, o, 1 .. n + 1) <=> Out(r, i, o, 1 .. n) \/ out[i] = o
       /\ x[1] = out /\ x[2] = old
  BY <1>4, <1>11, <1>12, OneMore
<1>14. /\ w2 \in Works /\ w2.m = m /\ w2.removed = s
       /\ w2.trees = Updated(w.trees, out, [i \in Inputs |-> -old[i]])
  <2>1. w2 = [trees |-> Updated(w.trees, out, [i \in Inputs |-> -old[i]]), m |-> m, removed |-> s]
    BY <1>1, <1>2, <1>11, <1>12
  <2>2. Updated(w.trees, out, [i \in Inputs |-> -old[i]]) \in [Inputs -> Trees]
    BY <1>4, <1>10, UpdatedTrees
  <2>3. QED
    BY <1>6, <1>13, <2>1, <2>2 DEF Works
<1>15. ASSUME NEW i \in Inputs PROVE Account(w2.trees[i], Rest(s, 1 .. n + 1)[i])
  <2>1. PICK v : v = Rest(r, 1 .. n)[i]
    OBVIOUS
  <2>2. PICK v2 : v2 = Rest(s, 1 .. n + 1)[i]
    OBVIOUS
  <2>3. PICK delta \in [Inputs -> Int] : delta = [h \in Inputs |-> -old[h]]
    BY <1>10
  <2>4. Account(w.trees[i], v)
    BY <1>2, <2>1 DEF WorkInv
  <2>5. ASSUME NEW o \in Outputs
        PROVE  v[o] \in Int /\ v2[o] = IF out[i] = o THEN v[o] + delta[i] ELSE v[o]
    <3>1. v[o] = IF Out(r, i, o, 1 .. n) THEN 0 ELSE queue_len[i][o]
      BY <2>1 DEF Rest
    <3>2. v2[o] = IF Out(s, i, o, 1 .. n + 1) THEN 0 ELSE queue_len[i][o]
      BY <2>2 DEF Rest
    <3>3. queue_len[i][o] \in Nat
      BY DEF QueueLengths
    <3>4. CASE out[i] = o
      <4>1. ~ Out(r, i, o, 1 .. n) /\ Out(s, i, o, 1 .. n + 1) /\ old[i] = queue_len[i][o]
        BY <1>8, <1>9, <1>13, <3>4, NoneIsNoPort
      <4>2. delta[i] = -queue_len[i][o]
        BY <2>3, <4>1
      <4>3. QED
        BY <3>1, <3>2, <3>3, <3>4, <4>1, <4>2
    <3>5. CASE out[i] # o
      BY <1>13, <3>1, <3>2, <3>3, <3>5
    <3>6. QED
      BY <3>4, <3>5
  <2>6. Account(Updated(w.trees, out, delta)[i], v2)
    BY <1>7, <2>4, <2>5, UpdatedAccount
  <2>7. QED
    BY <1>14, <2>2, <2>3, <2>6
<1>16. RemovedOnce(s, n + 1)
  <2> SUFFICES ASSUME NEW i \in Inputs, NEW j \in 1 .. n + 1, s[j][1][i] # None
               PROVE  /\ s[j][2][i] = queue_len[i][s[j][1][i]]
                      /\ \A k \in 1 .. n + 1 : s[k][1][i] = s[j][1][i] => k = j
    BY DEF RemovedOnce
  <2>1. s[n + 1][1][i] = out[i] /\ s[n + 1][2][i] = old[i]
    BY <1>13
  <2>2. \A k \in 1 .. n : s[k] = r[k] /\ (out[i] # None => r[k][1][i] # out[i])
    BY <1>8, <1>13 DEF Out
  <2>3. CASE j = n + 1
    <3>1. \A k \in 1 .. n + 1 : s[k][1][i] = out[i] => k = n + 1
      BY <1>13, <2>1, <2>2, <2>3
    <3>2. QED
      BY <1>9, <2>1, <2>3, <3>1
  <2>4. CASE j \in 1 .. n
    <3>1. /\ r[j][2][i] = queue_len[i][r[j][1][i]]
          /\ \A k \in 1 .. n : r[k][1][i] = r[j][1][i] => k = j
      BY <1>4, <2>2, <2>4 DEF RemovedOnce
    <3>2. \A k \in 1 .. n + 1 : s[k][1][i] = r[j][1][i] => k = j
      BY <1>13, <2>1, <2>2, <2>4, <3>1
    <3>3. QED
      BY <2>2, <2>4, <3>1, <3>2
  <2>5. QED
    BY <1>13, <2>3, <2>4
<1>17. \A i \in Inputs : m[i] # None => queue_len[i][m[i]] > 0
  BY <1>4, <1>5, <1>6
<1>18. RejectedByMatched(m, s, n + 1)
  <2> SUFFICES ASSUME without_replacement, NEW i \in Inputs, NEW j \in 1 .. n + 1, m[i] = None
               PROVE  /\ s[j][1][i] # None => \E h \in Inputs : m[h] = s[j][1][i]
                      /\ s[j][1][i] = None =>
                           \A o \in Outputs : queue_len[i][o] > 0 => Out(s, i, o, 1 .. n + 1)
    BY DEF RejectedByMatched
  <2>1. m0[i] = None
    BY <1>6
  <2>2. CASE j = n + 1
    <3>1. s[j][1][i] = req[i]
      BY <1>7, <1>13, <2>2
    <3>2. QED
      BY <1>5, <1>6, <1>13, <2>1, <3>1
  <2>3. CASE j \in 1 .. n
    <3>1. /\ r[j][1][i] # None => \E h \in Inputs : m0[h] = r[j][1][i]
          /\ r[j][1][i] = None =>
               \A o \in Outputs : queue_len[i][o] > 0 => Out(r, i, o, 1 .. n)
      BY <1>4, <2>1, <2>3 DEF RejectedByMatched
    <3>2. \A h \in Inputs : m0[h] # None => m[h] = m0[h]
      BY <1>6
    <3>3. s[j] = r[j]
      BY <1>13, <2>3
    <3>4. QED
      BY <1>13, <3>1, <3>2, <3>3
  <2>4. QED
    BY <1>13, <2>2, <2>3
<1>19. OnlyAnswered(m)
  <2>1. CASE n = 0
    BY <2>1, FirstAnswers
  <2>2. CASE n # 0
    <3>1. OnlyAnswered(m0)
      BY <1>3, <2>2 DEF WorkInv
    <3>2. \A h \in Inputs, o \in Outputs : m0[h] = o => m[h] = o
      BY <1>6, NoneIsNoPort
    <3>3. QED
      BY <3>1, <3>2 DEF OnlyAnswered
  <2>3. QED
    BY <2>1, <2>2
<1>20. QED
  BY <1>6, <1>13, <1>14, <1>15, <1>16, <1>17, <1>18, <1>19 DEF WorkInv
LEMMA IterateWorks ==
    ASSUME NEW w \in Works, NEW w2 \in Iterate(w)
    PROVE  w2 \in Works
<1>0. PICK req \in Requests(w.trees, w.m) : \E m \in Accepted(req, w.m) : \E out, old :
        /\ out = Rejected(req, m)
        /\ old = [i \in Inputs |-> IF out[i] = None THEN 0
                                   ELSE w.trees[i][LeftStart + out[i]]]
        /\ w2 = [trees |-> Updated(w.trees, out, [i \in Inputs |-> -old[i]]),
                 m |-> m, removed |-> Append(w.removed, <<out, old>>)]
  BY DEF Iterate
<1>00. PICK m \in Accepted(req, w.m) : \E out, old :
        /\ out = Rejected(req, m)
        /\ old = [i \in Inputs |-> IF out[i] = None THEN 0
                                   ELSE w.trees[i][LeftStart + out[i]]]
        /\ w2 = [trees |-> Updated(w.trees, out, [i \in Inputs |-> -old[i]]),
                 m |-> m, removed |-> Append(w.removed, <<out, old>>)]
  BY <1>0
<1>1. PICK out, old :
        /\ out = Rejected(req, m)
        /\ old = [i \in Inputs |-> IF out[i] = None THEN 0
                                   ELSE w.trees[i][LeftStart + out[i]]]
        /\ w2 = [trees |-> Updated(w.trees, out, [i \in Inputs |-> -old[i]]),
                 m |-> m, removed |-> Append(w.removed, <<out, old>>)]
  BY <1>00
<1>2. req \in Assignments /\ m \in Assignments
  BY DEF Requests, Accepted
<1>3. out \in Assignments
  BY <1>1, <1>2 DEF Rejected, Assignments
<1>4. w.trees \in [Inputs -> Trees] /\ w.removed \in Seq(Removals)
  BY DEF Works
<1>5. ASSUME NEW i \in Inputs PROVE old[i] \in Int
  <2>1. CASE out[i] = None
    BY <1>1, <2>1
  <2>2. CASE out[i] # None
    <3>1. PICK o \in Outputs : out[i] = o
      BY <1>3, <2>2 DEF Assignments
    <3>2. LeftStart + o \in Positions(LeftStart)
      BY LeftStartFacts DEF Positions
    <3>3. w.trees[i][LeftStart + o] \in Int
      BY <1>4, <3>2 DEF Trees
    <3>4. QED
      BY <1>1, <2>2, <3>1, <3>3
  <2>3. QED
    BY <2>1, <2>2
<1>6. old \in [Inputs -> Int] /\ [i \in Inputs |-> -old[i]] \in [Inputs -> Int]
  BY <1>1, <1>5
<1>7. Updated(w.trees, out, [i \in Inputs |-> -old[i]]) \in [Inputs -> Trees]
  BY <1>4, <1>6, UpdatedTrees
<1>8. Append(w.removed, <<out, old>>) \in Seq(Removals)
  BY <1>3, <1>4, <1>6 DEF Removals
<1>9. QED
  BY <1>1, <1>2, <1>7, <1>8 DEF Works

(* What all the iterations may come to. *)
LEMMA OutcomesKeep ==
    ASSUME queue_len \in QueueLengths, NEW start,
           start = [trees |-> Arrived, m |-> NoMatch, removed |-> <<>>], WorkInv(start, 0),
           NEW work \in Outcomes
    PROVE  WorkInv(work, Iterations)
<1> DEFINE N == Iterations
           A == SUBSET Works
           Step(ws) == UNION { Iterate(w) : w \in ws }
           F == [k \in 1 .. N |-> [ws \in A |-> Step(ws)]]
           seq == [k \in 1 .. N |-> k]
           Body(h, T) == IF T = {} THEN { [trees |-> Arrived, m |-> NoMatch, removed |-> <<>>] }
                         ELSE Step(h[T \ {Max(T)}])
           Reached(k) == { w \in Works : WorkInv(w, k) }
<1>1. N \in Nat /\ DOMAIN seq = 1 .. N
  BY IterationsPositive
<1>2. \A ws \in A : Step(ws) \in A
  BY IterateWorks
<1> HIDE DEF N
<1>3. \A k \in 0 .. N : \A w \in Reached(k) : Iterate(w) \subseteq Reached(k + 1)
  <2>1. ASSUME NEW k \in 0 .. N, NEW w \in Reached(k), NEW u \in Iterate(w)
        PROVE  u \in Reached(k + 1)
    <3>1. k \in Nat /\ WorkInv(w, k)
      BY <1>1
    <3>2. WorkInv(u, k + 1)
      BY <3>1, IterationKeeps
    <3>3. u \in Works
      BY <3>2 DEF WorkInv
    <3>4. QED
      BY <3>2, <3>3
  <2>2. QED
    BY <2>1
<1>4. \E it : it = [T \in SUBSET DOMAIN seq |-> Body(it, T)]
  <2>1. IsStep(N, A, F)
    <3> HIDE DEF A, Step
    <3> QED
      BY <1>2 DEF IsStep
  <2>2. PICK base \in A : base = {start}
    BY DEF WorkInv
  <2>3. PICK ex : LeftFolds(ex, N, A, base, F)
    <3> HIDE DEF A, F
    <3> QED
      BY <1>1, <2>1, LeftFoldFacts
  <2>4. /\ ex \in [SUBSET (1 .. N) -> A] /\ ex[{}] = {start}
        /\ \A T \in (SUBSET (1 .. N)) \ {{}} :
             ex[T] = F[Greatest(T)][ex[T \ {Greatest(T)}]]
    BY <2>2, <2>3 DEF LeftFolds
  <2>5. ASSUME NEW T \in (SUBSET (1 .. N)) \ {{}}
        PROVE  ex[T] = Step(ex[T \ {Max(T)}])
    <3>1. Greatest(T) \in 1 .. N /\ Max(T) = Greatest(T)
      BY <1>1, GreatestFacts DEF Max, Greatest
    <3>2. ex[T \ {Greatest(T)}] \in A
      <4> HIDE DEF A
      <4> QED
        BY <2>4
    <3> HIDE DEF A, Step
    <3>3. QED
      BY <2>4, <3>1, <3>2
  <2>6. ASSUME NEW T \in SUBSET (1 .. N) PROVE ex[T] = Body(ex, T)
    <3>1. CASE T = {}
      BY <2>4, <3>1
    <3>2. CASE T # {}
      <4> HIDE DEF Step
      <4> QED
        BY <2>5, <3>2
    <3>3. QED
      BY <3>1, <3>2
  <2> HIDE DEF Body, F, A, seq
  <2>7. ex = [T \in SUBSET DOMAIN seq |-> Body(ex, T)]
    BY <1>1, <2>4, <2>6
  <2>8. QED
    BY <2>7
<1>5. PICK it : /\ Outcomes = it[DOMAIN seq]
                /\ it = [T \in SUBSET DOMAIN seq |-> Body(it, T)]
  BY <1>4 DEF Outcomes, FoldLeft, MapThenFoldSet, N
<1>6. start \in Reached(0)
  BY DEF WorkInv
<1>7. it[1 .. 0] = {start}
  BY <1>1, <1>5
<1> DEFINE R == { k \in 0 .. N : it[1 .. k] \subseteq Reached(k) }
<1>8. 0 \in R
  <2> HIDE DEF Reached
  <2> QED
    BY <1>1, <1>6, <1>7
<1>9. ASSUME NEW k \in 0 .. N - 1, k \in R PROVE k + 1 \in R
  <2>1. k + 1 \in 1 .. N /\ k + 1 \in 0 .. N /\ k \in 0 .. N
    BY <1>1
  <2>2. 1 .. k + 1 \in (SUBSET (1 .. N)) \ {{}}
    BY <1>1, <2>1, SegmentIsSubset
  <2>3. Max(1 .. k + 1) = k + 1 /\ (1 .. k + 1) \ {k + 1} = 1 .. k
    <3>1. Greatest(1 .. k + 1) = k + 1 /\ (1 .. k + 1) \ {k + 1} = 1 .. k + 1 - 1
      BY <1>1, <2>1, GreatestFacts
    <3>2. QED
      BY <3>1 DEF Max, Greatest
  <2>4. it[1 .. k + 1] = Body(it, 1 .. k + 1)
    <3> HIDE DEF Body
    <3> QED
      BY <1>1, <1>5, <2>2
  <2>5. it[1 .. k + 1] = Step(it[1 .. k])
    BY <2>2, <2>3, <2>4
  <2>6. it[1 .. k] \subseteq Reached(k)
    BY <1>9
  <2> HIDE DEF Reached
  <2>7. Step(it[1 .. k]) \subseteq Reached(k + 1)
    BY <1>3, <2>1, <2>6
  <2>8. QED
    BY <2>1, <2>5, <2>7
<1>10. N \in R
  <2>1. 0 .. N \subseteq R
    <3> HIDE DEF R
    <3> QED
      BY <1>1, <1>8, <1>9, IntervalInduction
  <2>2. N \in 0 .. N
    BY <1>1
  <2> HIDE DEF R
  <2>3. QED
    BY <2>1, <2>2
<1>11. QED
  BY <1>1, <1>5, <1>10 DEF N
(* After as many iterations as there are outputs, an input that is not      *)
(* matched has been rejected by all outputs that it has packets for.        *)
LEMMA RejectedByAll ==
    ASSUME queue_len \in QueueLengths, NEW n \in Nat, n >= Cardinality(Outputs), without_replacement,
           NEW m, NEW r, RemovedOnce(r, n), RejectedByMatched(m, r, n),
           \A i \in Inputs, j \in 1 .. n : r[j][1][i] \in Outputs \cup {None},
           NEW i \in Inputs, NEW o \in Outputs, queue_len[i][o] > 0, m[i] = None
    PROVE  \E h \in Inputs : m[h] = o
<1>1. \A j \in 1 .. n :
        /\ r[j][1][i] # None => \E h \in Inputs : m[h] = r[j][1][i]
        /\ r[j][1][i] = None => Out(r, i, o, 1 .. n)
  BY DEF RejectedByMatched
<1>2. ASSUME Out(r, i, o, 1 .. n) PROVE \E h \in Inputs : m[h] = o
  <2>1. PICK j \in 1 .. n : r[j][1][i] = o
    BY <1>2 DEF Out
  <2>2. QED
    BY <1>1, <2>1, NoneIsNoPort
<1>3. CASE \E j \in 1 .. n : r[j][1][i] = None
  BY <1>1, <1>2, <1>3
<1>4. CASE \A j \in 1 .. n : r[j][1][i] # None
  <2> DEFINE f == [j \in 1 .. n |-> r[j][1][i]]
  <2>1. CASE \A j \in 1 .. n : r[j][1][i] # o
    <3>1. f \in [1 .. n -> Outputs \ {o}]
      BY <1>4, <2>1
    <3>2. /\ IsFiniteSet(Outputs \ {o})
          /\ Cardinality(Outputs \ {o}) = Cardinality(Outputs) - 1
      BY PortsNumbered, FS_RemoveElement
    <3>3. IsFiniteSet(1 .. n) /\ Cardinality(1 .. n) = n
      BY FS_Interval
    <3>4. Cardinality(Outputs) \in Nat
      BY PortsFacts
    <3>5. Cardinality(Outputs \ {o}) < Cardinality(1 .. n)
      BY <3>2, <3>3, <3>4
    <3>6. PICK x \in 1 .. n, y \in 1 .. n : x # y /\ f[x] = f[y]
      <4> HIDE DEF f
      <4> QED
        BY <3>1, <3>2, <3>3, <3>5, FS_PigeonHole
    <3>7. r[x][1][i] = r[y][1][i] /\ r[y][1][i] # None
      BY <1>4, <3>6
    <3>8. QED
      BY <3>6, <3>7 DEF RemovedOnce
  <2>2. CASE ~ \A j \in 1 .. n : r[j][1][i] # o
    BY <1>2, <2>2 DEF Out
  <2>3. QED
    BY <2>1, <2>2
<1>5. QED
  BY <1>3, <1>4

(* Putting back what was taken out, one removal after another, gives every  *)
(* VOQ its length again.                                                    *)
LEMMA RestoredAccount ==
    ASSUME queue_len \in QueueLengths, NEW n \in Nat, NEW w, WorkInv(w, n)
    PROVE  /\ Restored(w) \in [Inputs -> Trees]
           /\ \A i \in Inputs : Account(Restored(w)[i], queue_len[i])
<1> DEFINE r == w.removed
           A == [Inputs -> Trees]
           Put(k, t) == Updated(t, r[k][1], r[k][2])
           F == [k \in 1 .. n |-> [t \in A |-> Put(k, t)]]
           Body(h, T) == IF T = {} THEN w.trees ELSE Put(Max(T), h[T \ {Max(T)}])
<1>1. /\ w.trees \in A /\ r \in Seq(Removals) /\ Len(r) = n /\ DOMAIN r = 1 .. n
      /\ RemovedOnce(r, n)
  BY DEF WorkInv, Works
<1>2. \A k \in 1 .. n :
        /\ r[k][1] \in Assignments /\ r[k][2] \in [Inputs -> Int]
        /\ \A i \in Inputs : r[k][2][i] \in Int
  <2>1. \A k \in 1 .. n : r[k] \in Removals
    BY <1>1
  <2>2. QED
    BY <2>1 DEF Removals
<1>3. \A k \in 1 .. n, t \in A : Put(k, t) \in A
  BY <1>2, UpdatedTrees
<1>4. \E it : it = [T \in SUBSET DOMAIN r |-> Body(it, T)]
  <2>1. IsStep(n, A, F)
    <3> HIDE DEF A, Put
    <3> QED
      BY <1>3 DEF IsStep
  <2>2. PICK base \in A : base = w.trees
    BY <1>1
  <2>3. PICK ex : LeftFolds(ex, n, A, base, F)
    <3> HIDE DEF A, F
    <3> QED
      BY <2>1, LeftFoldFacts
  <2>4. /\ ex \in [SUBSET (1 .. n) -> A] /\ ex[{}] = w.trees
        /\ \A T \in (SUBSET (1 .. n)) \ {{}} :
             ex[T] = F[Greatest(T)][ex[T \ {Greatest(T)}]]
    BY <2>2, <2>3 DEF LeftFolds
  <2>5. ASSUME NEW T \in (SUBSET (1 .. n)) \ {{}}
        PROVE  ex[T] = Put(Max(T), ex[T \ {Max(T)}])
    <3>1. Greatest(T) \in 1 .. n /\ Max(T) = Greatest(T)
      BY GreatestFacts DEF Max, Greatest
    <3>2. ex[T \ {Greatest(T)}] \in A
      <4> HIDE DEF A
      <4> QED
        BY <2>4
    <3> HIDE DEF A, Put
    <3>3. QED
      BY <2>4, <3>1, <3>2
  <2>6. ASSUME NEW T \in SUBSET (1 .. n) PROVE ex[T] = Body(ex, T)
    <3>1. CASE T = {}
      BY <2>4, <3>1
    <3>2. CASE T # {}
      <4> HIDE DEF Put
      <4> QED
        BY <2>5, <3>2
    <3>3. QED
      BY <3>1, <3>2
  <2> HIDE DEF Body, F, A, r
  <2>7. ex = [T \in SUBSET DOMAIN r |-> Body(ex, T)]
    BY <1>1, <2>4, <2>6
  <2>8. QED
    BY <2>7
<1>5. PICK it : /\ Restored(w) = it[DOMAIN r]
                /\ it = [T \in SUBSET DOMAIN r |-> Body(it, T)]
  BY <1>4 DEF Restored, FoldLeft, MapThenFoldSet
<1> DEFINE Left(k) == Rest(r, k + 1 .. n)
           R == { k \in 0 .. n : /\ it[1 .. k] \in A
                                 /\ \A i \in Inputs : Account(it[1 .. k][i], Left(k)[i]) }
<1>6. 0 \in R
  <2>1. 1 .. 0 = {} /\ 0 + 1 .. n = 1 .. n /\ {} \in SUBSET DOMAIN r
    OBVIOUS
  <2>2. it[1 .. 0] = w.trees
    BY <1>5, <2>1
  <2>3. \A i \in Inputs : Account(w.trees[i], Left(0)[i])
    BY <2>1 DEF WorkInv
  <2> HIDE DEF Left
  <2>4. QED
    BY <1>1, <2>2, <2>3
<1>7. ASSUME NEW k \in 0 .. n - 1, k \in R PROVE k + 1 \in R
  <2>1. k + 1 \in 1 .. n /\ k + 1 \in 0 .. n /\ k \in 0 .. n
    OBVIOUS
  <2>2. 1 .. k + 1 \in (SUBSET (1 .. n)) \ {{}}
    BY <2>1, SegmentIsSubset
  <2>3. Max(1 .. k + 1) = k + 1 /\ (1 .. k + 1) \ {k + 1} = 1 .. k
    <3>1. Greatest(1 .. k + 1) = k + 1 /\ (1 .. k + 1) \ {k + 1} = 1 .. k + 1 - 1
      BY <2>1, GreatestFacts
    <3>2. QED
      BY <3>1 DEF Max, Greatest
  <2>4. it[1 .. k + 1] = Body(it, 1 .. k + 1)
    <3> HIDE DEF Body
    <3> QED
      BY <1>1, <1>5, <2>2
  <2>5. it[1 .. k + 1] = Put(k + 1, it[1 .. k])
    BY <2>2, <2>3, <2>4
  <2>6. /\ it[1 .. k] \in A
        /\ \A i \in Inputs : Account(it[1 .. k][i], Left(k)[i])
    BY <1>7
  <2>7. it[1 .. k + 1] \in A
    <3> HIDE DEF A, Put
    <3> QED
      BY <1>3, <2>1, <2>5, <2>6
  <2>8. ASSUME NEW i \in Inputs PROVE Account(it[1 .. k + 1][i], Left(k + 1)[i])
    <3>1. PICK v : v = Left(k)[i]
      OBVIOUS
    <3>2. PICK v2 : v2 = Left(k + 1)[i]
      OBVIOUS
    <3>3. PICK out \in Assignments : out = r[k + 1][1]
      BY <1>2, <2>1
    <3>4. PICK old \in [Inputs -> Int] : old = r[k + 1][2]
      BY <1>2, <2>1
    <3>5. PICK trees : trees = it[1 .. k]
      OBVIOUS
    <3>6. Account(trees[i], v)
      BY <2>6, <3>1, <3>5
    <3>7. ASSUME NEW o \in Outputs
          PROVE  v[o] \in Int /\ v2[o] = IF out[i] = o THEN v[o] + old[i] ELSE v[o]
      <4>1. v[o] = IF Out(r, i, o, k + 1 .. n) THEN 0 ELSE queue_len[i][o]
        BY <3>1 DEF Rest
      <4>2. v2[o] = IF Out(r, i, o, k + 1 + 1 .. n) THEN 0 ELSE queue_len[i][o]
        BY <3>2 DEF Rest
      <4>3. queue_len[i][o] \in Nat
        BY DEF QueueLengths
      <4>4. \A j : j \in k + 1 .. n <=> j = k + 1 \/ j \in k + 1 + 1 .. n
        BY <2>1
      <4>5. Out(r, i, o, k + 1 .. n) <=> out[i] = o \/ Out(r, i, o, k + 1 + 1 .. n)
        BY <3>3, <4>4 DEF Out
      <4>6. ASSUME out[i] = o
            PROVE  old[i] = queue_len[i][o] /\ ~ Out(r, i, o, k + 1 + 1 .. n)
        <5>1. o # None
          BY NoneIsNoPort
        <5>2. /\ old[i] = queue_len[i][o]
              /\ \A j \in 1 .. n : r[j][1][i] = o => j = k + 1
          BY <1>1, <2>1, <3>3, <3>4, <4>6, <5>1 DEF RemovedOnce
        <5>3. \A j \in k + 1 + 1 .. n : j \in 1 .. n /\ j # k + 1
          BY <2>1
        <5>4. QED
          BY <5>2, <5>3 DEF Out
      <4> HIDE DEF r, Left
      <4>7. CASE out[i] = o
        <5>1. v[o] = 0 /\ v2[o] = queue_len[i][o] /\ old[i] = queue_len[i][o]
          BY <4>1, <4>2, <4>5, <4>6, <4>7
        <5>2. QED
          BY <4>3, <4>7, <5>1
      <4>8. CASE out[i] # o
        BY <4>1, <4>2, <4>3, <4>5, <4>8
      <4>9. QED
        BY <4>7, <4>8
    <3>8. Account(Updated(trees, out, old)[i], v2)
      <4> HIDE DEF r, Left
      <4> QED
        BY <3>6, <3>7, UpdatedAccount
    <3>9. it[1 .. k + 1] = Updated(trees, out, old)
      BY <2>5, <3>3, <3>4, <3>5
    <3> HIDE DEF Left
    <3>10. QED
      BY <3>2, <3>8, <3>9
  <2> HIDE DEF A, Left
  <2>9. QED
    BY <2>1, <2>7, <2>8
<1>8. n \in R
  <2>1. 0 .. n \subseteq R
    <3> HIDE DEF R
    <3> QED
      BY <1>6, <1>7, IntervalInduction
  <2>2. n \in 0 .. n
    OBVIOUS
  <2> HIDE DEF R
  <2>3. QED
    BY <2>1, <2>2
<1>9. it[1 .. n] \in A /\ \A i \in Inputs : Account(it[1 .. n][i], Left(n)[i])
  <2> HIDE DEF A, Left
  <2> QED
    BY <1>8
<1>10. ASSUME NEW i \in Inputs PROVE Account(it[1 .. n][i], queue_len[i])
  <2>1. n + 1 .. n = {}
    OBVIOUS
  <2>2. \A o \in Outputs : queue_len[i][o] = Left(n)[i][o]
    BY <2>1 DEF Rest, Out
  <2>3. PICK v : v = Left(n)[i]
    OBVIOUS
  <2>4. PICK t, q : t = it[1 .. n][i] /\ q = queue_len[i]
    OBVIOUS
  <2> HIDE DEF Left
  <2>5. Account(t, v) /\ \A o \in Outputs : q[o] = v[o]
    BY <1>9, <2>2, <2>3, <2>4
  <2>6. Account(t, q)
    BY <2>5, AccountSame
  <2>7. QED
    BY <2>4, <2>6
<1>11. Restored(w) = it[1 .. n]
  BY <1>1, <1>5
<1>12. QED
  BY <1>9, <1>10, <1>11
-----------------------------------------------------------------------------
(* QPS in the switch.                                                      *)

ToldOf(i) == [o \in Outputs |-> Told(i, o)]

TreesInv ==
    class = "QPS" =>
        /\ bst \in [Inputs -> Trees]
        /\ \A i \in Inputs : Account(bst[i], ToldOf(i))
        /\ GrantsHavePackets
        /\ MaximalWithoutReplacement
        /\ phase = "write_outputs" => OnlyAnswered(in_match)

LEMMA EmptyAccount ==
    ASSUME NEW w, \A o \in Outputs : w[o] = 0
    PROVE  Account(EmptyTree(LeftStart), w)
<1> DEFINE n == LeftStart
           tree == EmptyTree(n)
<1>1. n \in Nat /\ n >= 1
  BY LeftStartFacts
<1>2. tree \in Trees /\ \A p \in 1 .. 2 * n - 1 : tree[p] = 0
  BY DEF EmptyTree, Trees, Positions
<1> HIDE DEF n, tree
<1>3. ASSUME NEW p \in 1 .. n - 1 PROVE tree[p] = tree[2 * p] + tree[2 * p + 1]
  <2>1. p \in 1 .. 2 * n - 1 /\ 2 * p \in 1 .. 2 * n - 1 /\ 2 * p + 1 \in 1 .. 2 * n - 1
    BY <1>1
  <2>2. tree[p] = 0 /\ tree[2 * p] = 0 /\ tree[2 * p + 1] = 0
    BY <1>2, <2>1
  <2>3. QED
    BY <2>2
<1>4. ASSUME NEW q \in n .. 2 * n - 1 PROVE tree[q] = IF q - n \in Outputs THEN w[q - n] ELSE 0
  <2>1. q \in 1 .. 2 * n - 1
    BY <1>1
  <2>2. tree[q] = 0
    BY <1>2, <2>1
  <2>3. QED
    BY <2>2
<1>5. QED
  BY <1>2, <1>3, <1>4 DEF Account, Sums, n, tree

(* When the arrivals are in, the trees are those of the queues. *)
LEMMA ArrivedAccount ==
    ASSUME SwitchInv, TreesInv, class = "QPS", phase = "schedule"
    PROVE  /\ Arrived \in [Inputs -> Trees]
           /\ \A i \in Inputs : Account(Arrived[i], queue_len[i])
<1>1. /\ bst \in [Inputs -> Trees] /\ arrivals \in Assignments /\ in_match = NoMatch
      /\ \A i \in Inputs : Account(bst[i], ToldOf(i))
  BY DEF TreesInv, SwitchInv, SwitchTypeOK, HandOvers
<1>2. PICK at \in Assignments : at = arrivals
  BY <1>1
<1>3. PICK trees \in [Inputs -> Trees] : trees = bst
  BY <1>1
<1>4. PICK ones : ones = [i \in Inputs |-> 1]
  OBVIOUS
<1>5. ones \in [Inputs -> Int] /\ \A i \in Inputs : ones[i] = 1
  BY <1>4
<1>6. Arrived = Updated(trees, at, ones)
  BY <1>2, <1>3, <1>4 DEF Arrived
<1>7. Arrived \in [Inputs -> Trees]
  BY <1>5, <1>6, UpdatedTrees
<1>8. ASSUME NEW i \in Inputs PROVE Account(Arrived[i], queue_len[i])
  <2>1. PICK v : v = ToldOf(i)
    OBVIOUS
  <2>2. PICK v2 : v2 = queue_len[i]
    OBVIOUS
  <2>3. ASSUME NEW o \in Outputs
        PROVE  v[o] \in Int /\ v2[o] = IF at[i] = o THEN v[o] + ones[i] ELSE v[o]
    <3>1. v[o] = Told(i, o) /\ v[o] \in Nat /\ queue_len[i][o] \in Nat
      BY <2>1, ToldIsNat DEF ToldOf
    <3>2. in_match[i] # o
      BY <1>1, NoneIsNoPort DEF NoMatch
    <3>3. QED
      BY <1>2, <1>5, <2>2, <3>1, <3>2 DEF Told
  <2>4. Account(trees[i], v)
    BY <1>1, <1>3, <2>1
  <2>5. Account(Updated(trees, at, ones)[i], v2)
    BY <1>2, <1>5, <2>3, <2>4, UpdatedAccount
  <2>6. QED
    BY <1>6, <2>2, <2>5
<1>9. QED
  BY <1>7, <1>8

(* Nothing has been taken out of them yet. *)
LEMMA WorkStarts ==
    ASSUME SwitchInv, TreesInv, class = "QPS", phase = "schedule", NEW start,
           start = [trees |-> Arrived, m |-> NoMatch, removed |-> <<>>]
    PROVE  WorkInv(start, 0)
<1>1. ASSUME NEW i \in Inputs PROVE Account(Arrived[i], Rest(<<>>, 1 .. 0)[i])
  <2>1. PICK v : v = queue_len[i]
    OBVIOUS
  <2>2. PICK v2 : v2 = Rest(<<>>, 1 .. 0)[i]
    OBVIOUS
  <2>3. \A o \in Outputs : v2[o] = v[o]
    BY <2>1, <2>2 DEF Rest, Out
  <2>4. PICK tree : tree = Arrived[i]
    OBVIOUS
  <2>5. Account(tree, v)
    BY <2>1, <2>4, ArrivedAccount
  <2>6. Account(tree, v2)
    BY <2>3, <2>5, AccountSame
  <2>7. QED
    BY <2>2, <2>4, <2>6
<1>2. /\ start.trees = Arrived /\ start.m = NoMatch /\ start.removed = <<>>
      /\ NoMatch \in Assignments /\ <<>> \in Seq(Removals) /\ Len(<<>>) = 0
  BY DEF NoMatch, Assignments
<1>3. start \in Works
  BY <1>2, ArrivedAccount DEF Works
<1>4. RemovedOnce(<<>>, 0) /\ RejectedByMatched(NoMatch, <<>>, 0)
  BY DEF RemovedOnce, RejectedByMatched
<1>5. IsMatching(NoMatch) /\ \A i \in Inputs : NoMatch[i] = None
  BY DEF NoMatch, IsMatching
<1>6. QED
  BY <1>1, <1>2, <1>3, <1>4, <1>5 DEF WorkInv

LEMMA TreesSchedule ==
    ASSUME SwitchInv, TreesInv, class = "QPS", MCQPS
    PROVE  SwitchInv' /\ TreesInv' /\ SwitchNext
<1>1. PICK work \in Outcomes :
        /\ ScheduleWith(work.m)
        /\ bst' = Departed(Restored(work), work.m)
        /\ policy' = policy /\ without_replacement' = without_replacement /\ class' = class
  BY DEF MCQPS, Schedule, config, others
<1>2. phase = "schedule" /\ queue_len \in QueueLengths
  BY <1>1 DEF ScheduleWith, SwitchInv, SwitchTypeOK
<1>3. WorkInv(work, Iterations)
  <2>1. PICK start : start = [trees |-> Arrived, m |-> NoMatch, removed |-> <<>>]
    OBVIOUS
  <2>2. WorkInv(start, 0)
    BY <1>2, <2>1, WorkStarts
  <2>3. QED
    BY <1>2, <2>1, <2>2, OutcomesKeep
<1>4. Iterations \in Nat /\ Iterations # 0
  BY IterationsPositive
<1>5. PICK m, r : m = work.m /\ r = work.removed
  OBVIOUS
<1>6. /\ m \in Assignments /\ IsMatching(m) /\ OnlyAnswered(m)
      /\ \A i \in Inputs : m[i] # None => queue_len[i][m[i]] > 0
      /\ r \in Seq(Removals) /\ Len(r) = Iterations
      /\ RemovedOnce(r, Iterations) /\ RejectedByMatched(m, r, Iterations)
  BY <1>3, <1>4, <1>5 DEF WorkInv, Works
<1>7. /\ SwitchInv' /\ phase' = "write_outputs" /\ in_match' = m
      /\ queue_len' = queue_len /\ SwitchNext
      /\ \A i \in Inputs, o \in Outputs :
           Told(i, o)' = queue_len[i][o] - IF m[i] = o /\ queue_len[i][o] > 0 THEN 1 ELSE 0
  BY <1>1, <1>5, <1>6, SwitchSchedules
<1>8. PICK trees \in [Inputs -> Trees] : trees = Restored(work)
  BY <1>2, <1>3, <1>4, RestoredAccount
<1>9. PICK at : at = [i \in Inputs |-> IF m[i] # None /\ queue_len[i][m[i]] > 0
                                      THEN m[i] ELSE None]
  OBVIOUS
<1>19. PICK minus : minus = [i \in Inputs |-> -1]
  OBVIOUS
<1>10. /\ at \in Assignments /\ minus \in [Inputs -> Int]
       /\ \A i \in Inputs : at[i] = m[i] /\ minus[i] = -1
  BY <1>6, <1>9, <1>19 DEF Assignments
<1>11. bst' = Updated(trees, at, minus)
  BY <1>1, <1>5, <1>8, <1>9, <1>19 DEF Departed
<1>12. bst' \in [Inputs -> Trees]
  BY <1>8, <1>10, <1>11, UpdatedTrees
<1>13. ASSUME NEW i \in Inputs PROVE Account(bst'[i], ToldOf(i)')
  <2>1. PICK v : v = queue_len[i]
    OBVIOUS
  <2>2. PICK v2 : v2 = ToldOf(i)'
    OBVIOUS
  <2>3. Account(trees[i], v)
    BY <1>2, <1>3, <1>4, <1>8, <2>1, RestoredAccount
  <2>4. ASSUME NEW o \in Outputs
        PROVE  v[o] \in Int /\ v2[o] = IF at[i] = o THEN v[o] + minus[i] ELSE v[o]
    <3>1. v[o] = queue_len[i][o] /\ v[o] \in Nat
      BY <1>2, <2>1 DEF QueueLengths
    <3>2. v2[o] = queue_len[i][o] - IF m[i] = o /\ queue_len[i][o] > 0 THEN 1 ELSE 0
      BY <1>7, <2>2 DEF ToldOf
    <3>3. m[i] = o => queue_len[i][o] > 0
      BY <1>6, NoneIsNoPort
    <3>4. QED
      BY <1>10, <3>1, <3>2, <3>3
  <2>5. Account(Updated(trees, at, minus)[i], v2)
    BY <1>10, <2>3, <2>4, UpdatedAccount
  <2>6. QED
    BY <1>11, <2>2, <2>5
<1>14. GrantsHavePackets'
  BY <1>6, <1>7 DEF GrantsHavePackets
<1>15. MaximalWithoutReplacement'
  <2> SUFFICES ASSUME without_replacement, Iterations >= Cardinality(Outputs),
                      NEW i \in Inputs, NEW o \in Outputs, queue_len[i][o] > 0, m[i] = None
               PROVE  \E j \in Inputs : m[j] = o
    BY <1>1, <1>7 DEF MaximalWithoutReplacement, NoIdlePair
  <2>1. \A h \in Inputs, j \in 1 .. Iterations : r[j][1][h] \in Outputs \cup {None}
    <3>1. \A j \in 1 .. Iterations : r[j] \in Removals
      BY <1>4, <1>6
    <3>2. QED
      BY <3>1 DEF Removals, Assignments
  <2>2. PICK n \in Nat : n = Iterations
    BY <1>4
  <2>3. /\ n >= Cardinality(Outputs)
        /\ RemovedOnce(r, n) /\ RejectedByMatched(m, r, n)
        /\ \A h \in Inputs, j \in 1 .. n : r[j][1][h] \in Outputs \cup {None}
    BY <1>6, <2>1, <2>2
  <2>4. QED
    BY <1>2, <2>3, RejectedByAll
<1>16. OnlyAnswered(in_match)'
  BY <1>1, <1>6, <1>7 DEF OnlyAnswered, Only, Preferred
<1>17. TreesInv'
  BY <1>12, <1>13, <1>14, <1>15, <1>16 DEF TreesInv
<1>18. QED
  BY <1>7, <1>17

-----------------------------------------------------------------------------
(* All of them.                                                            *)

SlotInv ==
    /\ SwitchInv
    /\ class \in {"QPS", "RandomizedMaximal", "MaxWeight"}
    /\ class # "QPS" => policy = "random"
    /\ MaximalInv
    /\ HeaviestInv
    /\ TreesInv

(* The schedulers as they are constructed and reset. *)
AsNew ==
    /\ SwitchInv /\ phase # "write_outputs" /\ in_match = NoMatch /\ bst = EmptyTrees
    /\ \A i \in Inputs, o \in Outputs : Told(i, o) = 0
    /\ edges = <<>> /\ index = Maximal!Unindexed /\ weight = Heaviest!EmptyQueues

LEMMA NothingTold == AsNew => MaximalInv /\ HeaviestInv /\ TreesInv
<1> SUFFICES ASSUME AsNew PROVE MaximalInv /\ HeaviestInv /\ TreesInv
  OBVIOUS
<1> USE DEF AsNew
<1>1. MaximalInv
  <2>1. PICK g : g = Graph
    OBVIOUS
  <2>2. g = [e |-> <<>>, x |-> [s \in Inputs |-> [d \in Outputs |-> 0]]]
    BY <2>1 DEF Maximal!Unindexed, Graph
  <2>3. g \in Graphs /\ g.e = <<>> /\ Len(g.e) = 0
        /\ \A s \in Inputs, d \in Outputs : g.x[s][d] = 0
    BY <2>2 DEF Graphs
  <2>4. Indexes(g.x, g.e, 0)
    BY <2>3 DEF Indexes
  <2>5. g \in IndexedGraphs /\ \A s \in Inputs, d \in Outputs : ~ HasEdge(g, s, d)
    BY <2>3, <2>4 DEF IndexedGraphs, Indexed, HasEdge
  <2>6. NoIdlePair
    BY DEF NoIdlePair
  <2>7. QED
    BY <2>1, <2>5, <2>6 DEF MaximalInv
<1>2. HeaviestInv
  BY DEF HeaviestInv, NoIdlePair, Heaviest!EmptyQueues
<1>3. TreesInv
  <2>1. EmptyTree(LeftStart) \in Trees
    BY DEF EmptyTree, Trees
  <2>2. bst \in [Inputs -> Trees] /\ \A i \in Inputs : bst[i] = EmptyTree(LeftStart)
    BY <2>1 DEF EmptyTrees
  <2>3. \A i \in Inputs : Account(bst[i], ToldOf(i))
    BY <2>2, EmptyAccount DEF ToldOf
  <2>4. GrantsHavePackets /\ NoIdlePair
    BY DEF GrantsHavePackets, NoMatch, NoIdlePair
  <2>5. QED
    BY <2>2, <2>3, <2>4 DEF TreesInv, MaximalWithoutReplacement
<1>4. QED
  BY <1>1, <1>2, <1>3

-----------------------------------------------------------------------------
LEMMA SlotInit == MCInit => SlotInv
<1> SUFFICES ASSUME MCInit PROVE SlotInv
  OBVIOUS
<1>1. /\ SwitchInit /\ bst = EmptyTrees
      /\ class \in {"QPS", "RandomizedMaximal", "MaxWeight"}
      /\ class # "QPS" => policy = "random"
      /\ edges = <<>> /\ index = Maximal!Unindexed /\ weight = Heaviest!EmptyQueues
  BY DEF MCInit, Init, Maximal!Init, Heaviest!Init
<1>2. /\ SwitchInv /\ phase # "write_outputs" /\ in_match = NoMatch
      /\ \A i \in Inputs, o \in Outputs : Told(i, o) = 0
  BY <1>1, SwitchStarts
<1>3. MaximalInv /\ HeaviestInv /\ TreesInv
  BY <1>1, <1>2, NothingTold DEF AsNew
<1>4. QED
  BY <1>1, <1>2, <1>3 DEF SlotInv

(* The schedulers look at nothing while packets come and go. *)
LEMMA SlotSwitchStep ==
    ASSUME SlotInv, MCStep
    PROVE  SlotInv' /\ SwitchNext
<1>1. /\ ReadInputs \/ WriteOutputs
      /\ bst' = bst /\ policy' = policy /\ without_replacement' = without_replacement
      /\ class' = class /\ edges' = edges /\ index' = index /\ weight' = weight
  BY DEF MCStep, SwitchStep, config, others
<1>2. SwitchInv /\ MaximalInv /\ HeaviestInv /\ TreesInv
  BY DEF SlotInv
<1>3. /\ SwitchInv' /\ phase' # "write_outputs" /\ in_match' = NoMatch
      /\ \A i \in Inputs, o \in Outputs : Told(i, o)' = Told(i, o)
  BY <1>1, <1>2, SwitchSteps
<1>4. NoIdlePair' /\ GrantsHavePackets'
  BY <1>3 DEF NoIdlePair, GrantsHavePackets, NoMatch
<1>5. MaximalInv'
  <2>1. Graph' = Graph
    BY <1>1 DEF Graph
  <2>2. QED
    BY <1>1, <1>2, <1>3, <1>4, <2>1 DEF MaximalInv
<1>6. HeaviestInv'
  BY <1>1, <1>2, <1>3, <1>4 DEF HeaviestInv
<1>7. TreesInv'
  <2>1. ASSUME class = "QPS", NEW i \in Inputs PROVE Account(bst'[i], ToldOf(i)')
    <3>1. PICK t : t = bst[i]
      OBVIOUS
    <3>2. PICK v, v2 : v = ToldOf(i) /\ v2 = ToldOf(i)'
      OBVIOUS
    <3>3. Account(t, v)
      BY <1>2, <2>1, <3>1, <3>2 DEF TreesInv
    <3>4. \A o \in Outputs : v2[o] = v[o]
      BY <1>3, <3>2 DEF ToldOf
    <3>5. Account(t, v2)
      BY <3>3, <3>4, AccountSame
    <3>6. QED
      BY <1>1, <3>1, <3>2, <3>5
  <2>2. QED
    BY <1>1, <1>2, <1>3, <1>4, <2>1 DEF TreesInv, MaximalWithoutReplacement
<1>8. SwitchNext
  BY <1>1 DEF SwitchNext
<1>9. QED
  BY <1>1, <1>3, <1>5, <1>6, <1>7, <1>8 DEF SlotInv

LEMMA SlotReset ==
    ASSUME SlotInv, MCReset
    PROVE  SlotInv' /\ SwitchNext
<1>1. /\ SwitchReset /\ bst' = EmptyTrees /\ policy' = policy /\ class' = class
      /\ edges' = <<>> /\ index' = Maximal!Unindexed /\ weight' = Heaviest!EmptyQueues
  BY DEF MCReset, Reset, config, Maximal!Reset, Heaviest!Reset
<1>2. /\ SwitchInv' /\ phase' # "write_outputs" /\ in_match' = NoMatch
      /\ \A i \in Inputs, o \in Outputs : Told(i, o)' = 0
  BY <1>1, SwitchResets
<1>3. (MaximalInv /\ HeaviestInv /\ TreesInv)'
  <2>1. AsNew'
    BY <1>1, <1>2 DEF AsNew
  <2>2. QED
    BY <2>1, NothingTold, PTL
<1>4. SwitchNext
  BY <1>1 DEF SwitchNext
<1>5. QED
  BY <1>1, <1>2, <1>3, <1>4 DEF SlotInv

(* A call of one scheduler leaves the others, which do not exist, alone. *)
LEMMA SlotStep == SlotInv /\ [MCNext]_MCVars => SlotInv' /\ [SwitchNext]_switchVars
<1> SUFFICES ASSUME SlotInv, [MCNext]_MCVars PROVE SlotInv' /\ [SwitchNext]_switchVars
  OBVIOUS
<1>1. SwitchInv /\ MaximalInv /\ HeaviestInv /\ TreesInv
  BY DEF SlotInv
<1>2. CASE MCStep
  BY <1>2, SlotSwitchStep
<1>3. CASE MCReset
  BY <1>3, SlotReset
<1>4. CASE MCQPS
  <2>1. class = "QPS" /\ class' = class /\ edges' = edges /\ index' = index
        /\ weight' = weight /\ policy' = policy
    BY <1>4 DEF MCQPS, Schedule, config, others
  <2>2. SwitchInv' /\ TreesInv' /\ SwitchNext
    BY <1>1, <1>4, <2>1, TreesSchedule
  <2>3. MaximalInv' /\ HeaviestInv'
    BY <1>1, <2>1 DEF MaximalInv, HeaviestInv, Graph
  <2>4. QED
    BY <2>1, <2>2, <2>3 DEF SlotInv
<1>5. CASE MCMaximal
  <2>1. class = "RandomizedMaximal" /\ class' = class /\ weight' = weight /\ policy' = policy
    BY <1>5 DEF MCMaximal, config
  <2>2. SwitchInv' /\ MaximalInv' /\ SwitchNext
    BY <1>1, <1>5, <2>1, MaximalSchedules
  <2>3. HeaviestInv' /\ TreesInv'
    BY <1>1, <2>1 DEF HeaviestInv, TreesInv
  <2>4. QED
    BY <2>1, <2>2, <2>3 DEF SlotInv
<1>6. CASE MCHeaviest
  <2>1. class = "MaxWeight" /\ class' = class /\ edges' = edges /\ index' = index
        /\ policy' = policy
    BY <1>6 DEF MCHeaviest, config
  <2>2. SwitchInv' /\ HeaviestInv' /\ SwitchNext
    BY <1>1, <1>6, <2>1, HeaviestSchedules
  <2>3. MaximalInv' /\ TreesInv'
    BY <1>1, <2>1 DEF MaximalInv, TreesInv, Graph
  <2>4. QED
    BY <2>1, <2>2, <2>3 DEF SlotInv
<1>7. CASE UNCHANGED MCVars
  <2>1. /\ phase' = phase /\ queue_len' = queue_len /\ arrivals' = arrivals
        /\ in_match' = in_match /\ bst' = bst /\ policy' = policy
        /\ without_replacement' = without_replacement
        /\ class' = class /\ edges' = edges /\ index' = index /\ weight' = weight
    BY <1>7 DEF MCVars, vars, switchVars, config, others
  <2>2. SwitchInv'
    BY <1>1, <2>1 DEF SwitchInv, SwitchTypeOK, HandOvers, IsMatching
  <2>3. NoIdlePair' = NoIdlePair /\ GrantsHavePackets' = GrantsHavePackets
    BY <2>1 DEF NoIdlePair, GrantsHavePackets
  <2>4. \A i \in Inputs, o \in Outputs : Told(i, o)' = Told(i, o)
    BY <2>1 DEF Told
  <2>5. MaximalInv' /\ HeaviestInv'
    BY <1>1, <2>1, <2>3, <2>4 DEF MaximalInv, HeaviestInv, Graph
  <2>6. TreesInv'
    <3>1. \A i \in Inputs : ToldOf(i)' = ToldOf(i)
      BY <2>4 DEF ToldOf
    <3>2. OnlyAnswered(in_match)' <=> OnlyAnswered(in_match)
      BY <2>1 DEF OnlyAnswered, Only, Preferred
    <3>3. MaximalWithoutReplacement' <=> MaximalWithoutReplacement
      BY <2>1, <2>3 DEF MaximalWithoutReplacement
    <3>4. QED
      BY <1>1, <2>1, <2>3, <3>1, <3>2, <3>3 DEF TreesInv
  <2>7. QED
    BY <2>1, <2>2, <2>5, <2>6 DEF SlotInv, switchVars
<1>8. QED
  BY <1>2, <1>3, <1>4, <1>5, <1>6, <1>7 DEF MCNext

(* The inductive invariant of the three schedulers. *)
THEOREM SlotCorrect == MCSpec => []SlotInv
BY SlotInit, SlotStep, PTL DEF MCSpec

-----------------------------------------------------------------------------
(* Whatever packets come and go, the account that each of the schedulers    *)
(* keeps agrees with the switch's queues: the trees of QPS, leaf by leaf    *)
(* and sum by sum, although VOQs were taken out and put back by up to all   *)
(* the iterations of every slot; the edges of RandomizedMaximal, which it   *)
(* adds and deletes one at a time; the weights of MaxWeight.                *)
THEOREM AccountsAgree == MCSpec => []AccountAgrees
<1>1. SlotInv => AccountAgrees
  <2> SUFFICES ASSUME SlotInv PROVE AccountAgrees
    OBVIOUS
  <2>1. SwitchInv /\ MaximalInv /\ HeaviestInv /\ TreesInv
    BY DEF SlotInv
  <2>2. ASSUME class = "QPS" PROVE TreesAgree
    <3> SUFFICES ASSUME NEW i \in Inputs
                 PROVE  /\ \A o \in Outputs :
                             bst[i][LeftStart + o] = queue_len[i][o]
                               - (IF arrivals[i] = o THEN 1 ELSE 0)
                               - (IF in_match[i] = o THEN 1 ELSE 0)
                        /\ \A p \in Positions(LeftStart) \ Leaves(LeftStart) :
                             bst[i][p] = bst[i][2 * p] + bst[i][2 * p + 1]
      BY DEF TreesAgree
    <3>1. PICK tree, v : tree = bst[i] /\ v = ToldOf(i)
      OBVIOUS
    <3>2. Account(tree, v) /\ GrantsHavePackets
      BY <2>1, <2>2, <3>1 DEF TreesInv
    <3>3. ASSUME NEW o \in Outputs
          PROVE  tree[LeftStart + o] = queue_len[i][o]
                   - (IF arrivals[i] = o THEN 1 ELSE 0) - (IF in_match[i] = o THEN 1 ELSE 0)
      <4>1. tree[LeftStart + o] = Told(i, o)
        BY <3>1, <3>2, AccountOf DEF ToldOf
      <4>2. in_match[i] = o => queue_len[i][o] > 0
        BY <3>2, NoneIsNoPort DEF GrantsHavePackets
      <4>3. QED
        BY <4>1, <4>2 DEF Told
    <3>4. ASSUME NEW p \in Positions(LeftStart) \ Leaves(LeftStart)
          PROVE  tree[p] = tree[2 * p] + tree[2 * p + 1]
      <4>1. p \in 1 .. LeftStart - 1
        BY LeftStartFacts DEF Positions, Leaves
      <4>2. QED
        BY <3>2, <4>1 DEF Account, Sums
    <3>5. QED
      BY <3>1, <3>3, <3>4
  <2>3. ASSUME class = "RandomizedMaximal" PROVE Maximal!EdgesAgree
    <3>1. /\ Graph \in IndexedGraphs
          /\ \A s \in Inputs, d \in Outputs : HasEdge(Graph, s, d) <=> Told(s, d) > 0
      BY <2>1, <2>3 DEF MaximalInv
    <3>2. PICK g : g = Graph
      OBVIOUS
    <3>3. g.e = edges /\ Indexed(g)
      BY <3>1, <3>2 DEF Graph, IndexedGraphs
    <3>4. \A s \in Inputs, d \in Outputs : <<s, d>> \in ToSet(g.e) <=> HasEdge(g, s, d)
      BY <3>3, EdgesAre
    <3>5. Maximal!ToSet(edges) = ToSet(g.e)
      BY <3>3 DEF Maximal!ToSet, ToSet
    <3>6. ASSUME NEW s \in Inputs, NEW d \in Outputs
          PROVE  Told(s, d) > 0 <=> queue_len[s][d] > (IF arrivals[s] = d THEN 1 ELSE 0)
                                                      + (IF in_match[s] = d THEN 1 ELSE 0)
      BY <2>1, ToldIsNat DEF Told
    <3>7. QED
      BY <3>1, <3>2, <3>4, <3>5, <3>6 DEF Maximal!EdgesAgree
  <2>4. ASSUME class = "MaxWeight" PROVE Heaviest!WeightsAgree
    BY <2>1, <2>4 DEF HeaviestInv, Heaviest!WeightsAgree, Told
  <2>5. QED
    BY <2>2, <2>3, <2>4 DEF AccountAgrees
<1>2. QED
  BY <1>1, SlotCorrect, PTL

(* The index of RandomizedMaximal finds every edge where it is, whichever   *)
(* edges were moved by the deletion of others.                              *)
THEOREM IndexFindsEdges == MCSpec => []EdgesIndexed
<1>1. SlotInv => EdgesIndexed
  <2> SUFFICES ASSUME SlotInv PROVE EdgesIndexed
    OBVIOUS
  <2>1. PICK g : g = Graph
    OBVIOUS
  <2>2. g.e = edges /\ g.x = index /\ g \in IndexedGraphs
    BY <2>1 DEF SlotInv, MaximalInv, Graph
  <2>3. Indexes(g.x, g.e, Len(g.e))
    BY <2>2 DEF IndexedGraphs, Indexed
  <2>4. QED
    BY <2>2, <2>3 DEF Indexes, EdgesIndexed, Maximal!EdgesIndexed
<1>2. QED
  BY <1>1, SlotCorrect, PTL

(* Whatever a matching of the greatest weight, the order of a shuffle, or   *)
(* the sampling without replacement leaves out, no packet waits while both  *)
(* its ports are idle.                                                      *)
THEOREM NothingLeftIdle == MCSpec => []MaximalMatching
<1>1. SlotInv => MaximalMatching
  BY DEF SlotInv, MaximalInv, HeaviestInv, TreesInv, MaximalMatching
<1>2. QED
  BY <1>1, SlotCorrect, PTL

(* Of the inputs that have packets for one output only, the accept policy   *)
(* of QPS decides, whatever is sampled in whatever iteration.               *)
THEOREM PolicyIsObeyed == MCSpec => []PolicyObeyed
<1>1. SlotInv => PolicyObeyed
  <2> SUFFICES ASSUME SlotInv, phase = "write_outputs", NEW o \in Outputs,
                      NEW i \in Only(o), NEW j \in Only(o), in_match[i] = o
               PROVE  CASE policy = "longest_first"  -> queue_len[j][o] <= queue_len[i][o]
                        [] policy = "shortest_first" -> queue_len[i][o] <= queue_len[j][o]
                        [] policy = "smallest_first" -> i <= j
                        [] OTHER -> TRUE
    BY DEF PolicyObeyed, Only
  <2>1. Preferred(i, j, o)
    <3>1. CASE class = "QPS"
      <4>1. OnlyAnswered(in_match) /\ IsMatching(in_match)
        BY <3>1 DEF SlotInv, TreesInv, SwitchInv
      <4>2. PICK h \in Inputs : in_match[h] = o /\ Preferred(h, j, o)
        BY <4>1 DEF OnlyAnswered
      <4>3. h = i
        BY <4>1, <4>2, NoneIsNoPort DEF IsMatching, Only
      <4>4. QED
        BY <4>2, <4>3
    <3>2. CASE class # "QPS"
      BY <3>2 DEF SlotInv, Preferred
    <3>3. QED
      BY <3>1, <3>2
  <2>2. CASE policy = "longest_first"
    BY <2>1, <2>2 DEF Preferred
  <2>3. CASE policy = "shortest_first"
    BY <2>1, <2>3 DEF Preferred
  <2>4. CASE policy = "smallest_first"
    BY <2>1, <2>4 DEF Preferred
  <2>5. CASE policy \notin {"longest_first", "shortest_first", "smallest_first"}
    BY <2>5
  <2>6. QED
    BY <2>2, <2>3, <2>4, <2>5
<1>2. QED
  BY <1>1, SlotCorrect, PTL

(* Each of the three implements the contract of a scheduler: what it hands  *)
(* out is a matching.                                                       *)
THEOREM SlotImplementsSwitch == MCSpec => SwitchSpec
<1>1. MCInit => SwitchInit
  BY DEF MCInit, Init
<1>2. QED
  BY <1>1, SlotCorrect, SlotStep, PTL DEF MCSpec, SwitchSpec

(* Sampling is in proportion to the queues, in the trees of QPS and in the  *)
(* tree that a Queue_Sampler builds of any lengths the queues may have:     *)
(* every VOQ is found for exactly as many of the equally likely numbers as  *)
(* it has packets, and what is sampled uniformly has one.  Of the trees of  *)
(* QPS the account is used (AccountsAgree); the other schedulers leave      *)
(* theirs as they were made.                                                *)
THEOREM SamplingInProportion == MCSpec => []SamplersInProportion
<1> DEFINE IdleTrees == class # "QPS" => bst = EmptyTrees
<1>1. PICK n \in Nat : n = LeftStart /\ n >= 1
  BY LeftStartFacts
<1>2. ASSUME NEW tree, NEW w, Account(tree, w), \A o \in Outputs : w[o] \in Nat,
             NEW o \in Outputs
      PROVE  Cardinality({ bound \in 0 .. tree[1] - 1 : Search(tree, bound) = LeftStart + o })
               = tree[LeftStart + o]
  <2>1. /\ DOMAIN tree = 1 .. 2 * n - 1 /\ tree = [p \in DOMAIN tree |-> tree[p]]
        /\ \A p \in 1 .. n - 1 : tree[p] = tree[2 * p] + tree[2 * p + 1]
    BY <1>1, <1>2 DEF Account, Trees, Sums, Positions
  <2>2. \A p \in 1 .. 2 * n - 1 : tree[p] \in Nat
    BY <1>1, <1>2, TreesAreNat
  <2>3. tree \in [1 .. 2 * n - 1 -> Nat]
    BY <2>1, <2>2
  <2>4. n + o \in n .. 2 * n - 1
    BY <1>1, LeftStartFacts
  <2>5. PICK q : q = n + o
    OBVIOUS
  <2>6. Cardinality({ bound \in 0 .. tree[1] - 1 : Search(tree, bound) = q }) = tree[q]
    BY <1>1, <2>1, <2>3, <2>4, <2>5, SearchCounts
  <2>7. QED
    BY <1>1, <2>5, <2>6
<1>3. SlotInv /\ IdleTrees => SampledInProportion
  <2> SUFFICES ASSUME SlotInv, IdleTrees, NEW i \in Inputs, NEW o \in Outputs
               PROVE  Cardinality({ bound \in 0 .. bst[i][1] - 1 :
                                      Search(bst[i], bound) = LeftStart + o })
                        = bst[i][LeftStart + o]
    BY DEF SampledInProportion
  <2>1. PICK w : Account(bst[i], w) /\ \A d \in Outputs : w[d] \in Nat
    <3>1. CASE class = "QPS"
      <4>1. Account(bst[i], ToldOf(i)) /\ SwitchInv
        BY <3>1 DEF SlotInv, TreesInv
      <4>2. \A d \in Outputs : ToldOf(i)[d] \in Nat
        BY <4>1, ToldIsNat DEF ToldOf
      <4>3. QED
        BY <4>1, <4>2
    <3>2. CASE class # "QPS"
      <4>1. bst[i] = EmptyTree(LeftStart)
        BY <3>2 DEF EmptyTrees
      <4>2. \A d \in Outputs : [e \in Outputs |-> 0][d] = 0
        OBVIOUS
      <4>3. Account(bst[i], [e \in Outputs |-> 0])
        BY <4>1, <4>2, EmptyAccount
      <4>4. QED
        BY <4>2, <4>3
    <3>3. QED
      BY <3>1, <3>2
  <2>2. PICK tree : tree = bst[i]
    OBVIOUS
  <2>3. QED
    BY <1>2, <2>1, <2>2
<1>4. PICK N \in Nat : N = Cardinality(Outputs) /\ Outputs = 0 .. N - 1
  BY PortsFacts
<1>5. ASSUME SlotInv, NEW i \in Inputs
      PROVE  /\ queue_len[i] \in [0 .. N - 1 -> Nat]
             /\ n = NearestPowerOfTwo(N)
  BY <1>1, <1>4, <1>5 DEF SlotInv, SwitchInv, SwitchTypeOK, QueueLengths, LeftStart
<1>6. ASSUME SlotInv, NEW i \in Inputs, NEW o \in Outputs, NEW tree,
             tree = BuildTree(queue_len[i], FALSE)
      PROVE  Cardinality({ idx \in 0 .. tree[1] - 1 : Search(tree, idx) = LeftStart + o })
               = queue_len[i][o]
  <2>1. PICK weights \in [0 .. N - 1 -> Nat] : weights = queue_len[i]
    BY <1>5, <1>6
  <2>2. IsBuilt(tree, n, weights, FALSE)
    BY <1>5, <1>6, <2>1, BuiltTree
  <2>3. Account(tree, weights) /\ \A d \in Outputs : weights[d] \in Nat
    <3>1. tree \in [1 .. 2 * n - 1 -> Int]
      BY <2>2 DEF IsBuilt
    <3>2. DOMAIN weights = Outputs
      BY <1>4
    <3>3. QED
      BY <1>1, <1>4, <2>2, <3>1, <3>2 DEF IsBuilt, Account, Trees, Sums, Positions
  <2>4. tree[LeftStart + o] = weights[o]
    BY <2>3, AccountOf
  <2>5. QED
    BY <1>2, <2>1, <2>3, <2>4
<1>7. ASSUME SlotInv, NEW i \in Inputs, NEW o \in Samples(queue_len[i], TRUE)
      PROVE  queue_len[i][o] > 0
  <2>1. PICK weights \in [0 .. N - 1 -> Nat] : weights = queue_len[i]
    BY <1>5, <1>7
  <2>2. o \in Samples(weights, TRUE)
    BY <2>1
  <2>3. QED
    BY <2>1, <2>2, SamplesHavePackets
<1>8. SlotInv /\ IdleTrees => SamplersInProportion
  <2> SUFFICES ASSUME SlotInv, IdleTrees PROVE SamplersInProportion
    OBVIOUS
  <2> HIDE DEF IdleTrees
  <2>1. SampledInProportion
    BY <1>3
  <2>2. \A i \in Inputs :
          LET tree == BuildTree(queue_len[i], FALSE)
          IN  \A o \in Outputs :
                Cardinality({ idx \in 0 .. tree[1] - 1 : Search(tree, idx) = LeftStart + o })
                  = queue_len[i][o]
    <3> SUFFICES ASSUME NEW i \in Inputs, NEW o \in Outputs
                 PROVE  LET tree == BuildTree(queue_len[i], FALSE)
                        IN  Cardinality({ idx \in 0 .. tree[1] - 1 : Search(tree, idx) = LeftStart + o })
                              = queue_len[i][o]
      OBVIOUS
    <3>1. PICK tree : tree = BuildTree(queue_len[i], FALSE)
      OBVIOUS
    <3>2. QED
      BY <1>6, <3>1
  <2>3. QED
    BY <1>7, <2>1, <2>2 DEF SamplersInProportion
<1>9. MCInit => IdleTrees
  BY DEF MCInit, Init
<1>10. IdleTrees /\ [MCNext]_MCVars => IdleTrees'
  <2> SUFFICES ASSUME IdleTrees, [MCNext]_MCVars PROVE IdleTrees'
    OBVIOUS
  <2>1. CASE MCStep
    BY <2>1 DEF MCStep, SwitchStep, others
  <2>2. CASE MCQPS
    BY <2>2 DEF MCQPS, others
  <2>3. CASE MCMaximal
    BY <2>3 DEF MCMaximal
  <2>4. CASE MCHeaviest
    BY <2>4 DEF MCHeaviest
  <2>5. CASE MCReset
    BY <2>5 DEF MCReset, Reset
  <2>6. CASE UNCHANGED MCVars
    BY <2>6 DEF MCVars, vars, others
  <2>7. QED
    BY <2>1, <2>2, <2>3, <2>4, <2>5, <2>6 DEF MCNext
<1> HIDE DEF IdleTrees
<1>11. QED
  BY <1>8, <1>9, <1>10, SlotCorrect, PTL DEF MCSpec
=============================================================================
