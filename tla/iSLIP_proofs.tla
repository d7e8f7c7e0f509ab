---------------------------- MODULE iSLIP_proofs ----------------------------
(***************************************************************************)
(* Proofs about iSLIP, for any ports and any number of iterations: its     *)
(* status bits are right, what it hands out is a matching of VOQs that     *)
(* have packets, and every iteration adds a pair unless none can be added. *)
(***************************************************************************)
EXTENDS MCiSLIP, InductionLemmas

-----------------------------------------------------------------------------
(* Round robin.                                                            *)

LEMMA PortFacts ==
    /\ NumInputs \in Nat \ {0} /\ Inputs = 0 .. NumInputs - 1
    /\ NumOutputs \in Nat \ {0} /\ Outputs = 0 .. NumOutputs - 1
BY PortsAreNumbered, FS_CardinalityType, FS_EmptySet DEF NumInputs, NumOutputs

(* The first of a non-empty set from a port on is one of the set. *)
LEMMA FirstFromType ==
    ASSUME NEW n \in Nat \ {0}, NEW S \in SUBSET (0 .. n - 1), NEW p \in 0 .. n - 1
    PROVE  IF S = {} THEN FirstFrom(S, p, n) = None ELSE FirstFrom(S, p, n) \in S
<1>1. CASE S # {}
  <2> DEFINE distances == { (x + n - p) % n : x \in S }
  <2>1. \A x \in S : (x + n - p) % n \in Nat
    <3> SUFFICES ASSUME NEW x \in S PROVE (x + n - p) % n \in Nat
      OBVIOUS
    <3>1. x + n - p \in 0 .. 2 * n - 1
      OBVIOUS
    <3>2. QED
      BY <3>1, ModBelowTwice
  <2>2. distances \in SUBSET Nat /\ distances # {}
    BY <1>1, <2>1
  <2>3. PICK least \in distances : \A d \in distances : least <= d
    <3> HIDE DEF distances
    <3> QED
      BY <2>2, LeastNat
  <2>4. \E x \in S : \A y \in S : (x + n - p) % n <= (y + n - p) % n
    BY <2>3
  <2>5. QED
    BY <1>1, <2>4 DEF FirstFrom
<1>2. CASE S = {}
  BY <1>2 DEF FirstFrom
<1>3. QED
  BY <1>1, <1>2

LEMMA NextPort ==
    ASSUME NEW n \in Nat \ {0}, NEW x \in 0 .. n - 1
    PROVE  (x + 1) % n \in 0 .. n - 1
BY ModBelowTwice, x + 1 \in 0 .. 2 * n - 1

-----------------------------------------------------------------------------
(* One iteration.                                                          *)

Statuses == [Inputs -> [Outputs -> BOOLEAN]]

(* The states of a call of schedule() between two iterations. *)
Rounds == [match : Assignments, grant : [Outputs -> Inputs], accept : [Inputs -> Outputs]]

(* What holds between two iterations: the pairs are a matching of VOQs that *)
(* have packets.                                                            *)
RoundOK(r, status) ==
    /\ r \in Rounds
    /\ IsMatching(r.match)
    /\ \A i \in Inputs : r.match[i] # None => status[i][r.match[i]]

MatchedInputs(m) == { i \in Inputs : m[i] # None }

(* No VOQ that has packets has both its ports free. *)
Saturated(m, status) ==
    \A i \in Inputs, o \in Outputs :
        status[i][o] => m[i] # None \/ \E j \in Inputs : m[j] = o

(* After k iterations. *)
Progress(r, k, status) ==
    Cardinality(MatchedInputs(r.match)) >= k \/ Saturated(r.match, status)

LEMMA MatchedFinite ==
    ASSUME NEW m
    PROVE  IsFiniteSet(MatchedInputs(m)) /\ Cardinality(MatchedInputs(m)) \in Nat
BY PortsAreNumbered, FS_Subset, FS_CardinalityType DEF MatchedInputs

(* Which output grants which input, and which of them each input accepts.   *)
LEMMA GrantsFacts ==
    ASSUME NEW status \in Statuses, NEW r, RoundOK(r, status), NEW o \in Outputs
    PROVE  LET check == Grants(r, status)
           IN  /\ check[o] # None => /\ check[o] \in Inputs /\ r.match[check[o]] = None
                                     /\ status[check[o]][o]
                                     /\ \A j \in Inputs : r.match[j] # o
               /\ \A i \in Inputs :
                    /\ r.match[i] = None /\ status[i][o]
                    /\ \A j \in Inputs : r.match[j] # o
                    => check[o] # None
<1> DEFINE asking == { i \in FreeInputs(r) : status[i][o] }
           check == Grants(r, status)
<1>1. r.grant[o] \in 0 .. NumInputs - 1 /\ asking \in SUBSET (0 .. NumInputs - 1)
  BY PortFacts DEF RoundOK, Rounds, FreeInputs
<1>2. IF asking = {} THEN FirstFrom(asking, r.grant[o], NumInputs) = None
      ELSE FirstFrom(asking, r.grant[o], NumInputs) \in asking
  <2> HIDE DEF asking
  <2> QED
    BY <1>1, PortFacts, FirstFromType
<1>3. check[o] = IF o \in FreeOutputs(r)
                 THEN FirstFrom(asking, r.grant[o], NumInputs) ELSE None
  BY DEF Grants
<1>4. o \in FreeOutputs(r) <=> \A j \in Inputs : r.match[j] # o
  BY DEF FreeOutputs
<1>5. \A i \in asking : i \in Inputs /\ i # None /\ r.match[i] = None /\ status[i][o]
  BY NoneIsNoPort DEF FreeInputs
<1>6. \A i \in Inputs : r.match[i] = None /\ status[i][o] => i \in asking
  BY DEF FreeInputs
<1> HIDE DEF asking, check
<1>7. check[o] # None => o \in FreeOutputs(r) /\ check[o] \in asking
  BY <1>2, <1>3
<1>8. o \in FreeOutputs(r) /\ asking # {} => check[o] # None
  BY <1>2, <1>3, <1>5
<1>9. QED
  BY <1>4, <1>5, <1>6, <1>7, <1>8 DEF check

LEMMA AcceptedFacts ==
    ASSUME NEW r \in Rounds, NEW check, NEW i \in Inputs
    PROVE  LET acc == Accepted(r, check)
           IN  /\ acc[i] # None => /\ r.match[i] = None /\ acc[i] \in Outputs
                                   /\ check[acc[i]] = i
               /\ r.match[i] = None /\ (\E o \in Outputs : check[o] = i) => acc[i] # None
<1> DEFINE granting == { o \in Outputs : check[o] = i }
           acc == Accepted(r, check)
<1>1. r.accept[i] \in 0 .. NumOutputs - 1 /\ granting \in SUBSET (0 .. NumOutputs - 1)
  BY PortFacts DEF Rounds
<1>2. IF granting = {} THEN FirstFrom(granting, r.accept[i], NumOutputs) = None
      ELSE FirstFrom(granting, r.accept[i], NumOutputs) \in granting
  <2> HIDE DEF granting
  <2> QED
    BY <1>1, PortFacts, FirstFromType
<1>3. acc[i] = IF i \in FreeInputs(r)
               THEN FirstFrom(granting, r.accept[i], NumOutputs) ELSE None
  BY DEF Accepted
<1>4. i \in FreeInputs(r) <=> r.match[i] = None
  BY DEF FreeInputs
<1>5. \A o \in granting : o \in Outputs /\ o # None /\ check[o] = i
  BY NoneIsNoPort
<1>6. (\E o \in Outputs : check[o] = i) => granting # {}
  OBVIOUS
<1> HIDE DEF granting, acc
<1>7. acc[i] # None => i \in FreeInputs(r) /\ acc[i] \in granting
  BY <1>2, <1>3
<1>8. i \in FreeInputs(r) /\ granting # {} => acc[i] # None
  BY <1>2, <1>3, <1>5
<1>9. QED
  BY <1>4, <1>5, <1>6, <1>7, <1>8 DEF acc

(* An iteration keeps what holds between two of them, and unless nothing    *)
(* can be added adds a pair: an output that some free input asks grants one *)
(* of them, and that input accepts one of the outputs that grant it.        *)
LEMMA IterateFacts ==
    ASSUME NEW status \in Statuses, NEW r, RoundOK(r, status), NEW k \in Nat
    PROVE  /\ RoundOK(Iterate(r, k, status), status)
           /\ Progress(r, k, status) => Progress(Iterate(r, k, status), k + 1, status)
<1> DEFINE check == Grants(r, status)
           acc == Accepted(r, check)
           next == Iterate(r, k, status)
<1>1. \A o \in Outputs : check[o] # None =>
        /\ check[o] \in Inputs /\ r.match[check[o]] = None /\ status[check[o]][o]
        /\ \A j \in Inputs : r.match[j] # o
  BY GrantsFacts
<1>2. \A i \in Inputs : acc[i] # None =>
        r.match[i] = None /\ acc[i] \in Outputs /\ check[acc[i]] = i
  BY AcceptedFacts DEF RoundOK
<1>3. \A i \in Inputs : next.match[i] = IF acc[i] # None THEN acc[i] ELSE r.match[i]
  BY DEF Iterate
<1>4. \A i \in Inputs : i # None
  BY NoneIsNoPort
<1>5. next \in Rounds
  <2>1. next.match \in Assignments
    <3>1. \A i \in Inputs : next.match[i] \in Outputs \cup {None}
      BY <1>2, <1>3 DEF RoundOK, Rounds, Assignments
    <3>2. next.match = [i \in Inputs |-> next.match[i]]
      BY DEF Iterate
    <3>3. QED
      BY <3>1, <3>2 DEF Assignments
  <2>2. next.grant \in [Outputs -> Inputs]
    <3> SUFFICES ASSUME NEW o \in Outputs
                 PROVE  /\ r.grant[o] \in Inputs
                        /\ check[o] # None => (check[o] + 1) % NumInputs \in Inputs
      BY DEF Iterate, NextGrant
    <3>1. r.grant[o] \in Inputs
      BY DEF RoundOK, Rounds
    <3>2. check[o] # None => (check[o] + 1) % NumInputs \in Inputs
      BY <1>1, PortFacts, NextPort
    <3>3. QED
      BY <3>1, <3>2
  <2>3. next.accept \in [Inputs -> Outputs]
    <3> SUFFICES ASSUME NEW i \in Inputs
                 PROVE  /\ r.accept[i] \in Outputs
                        /\ acc[i] # None => (acc[i] + 1) % NumOutputs \in Outputs
      BY DEF Iterate
    <3>1. r.accept[i] \in Outputs
      BY DEF RoundOK, Rounds
    <3>2. acc[i] # None => (acc[i] + 1) % NumOutputs \in Outputs
      BY <1>2, PortFacts, NextPort
    <3>3. QED
      BY <3>1, <3>2
  <2>4. next = [match |-> next.match, grant |-> next.grant, accept |-> next.accept]
    BY DEF Iterate
  <2> HIDE DEF next
  <2>5. QED
    BY <2>1, <2>2, <2>3, <2>4 DEF Rounds
<1> HIDE DEF next, acc, check
<1>6. IsMatching(next.match)
  <2> SUFFICES ASSUME NEW i \in Inputs, NEW j \in Inputs,
                      next.match[i] # None, next.match[i] = next.match[j]
               PROVE  i = j
    BY DEF IsMatching
  <2>1. CASE acc[i] # None /\ acc[j] # None
    BY <1>2, <1>3, <2>1
  <2>2. CASE acc[i] # None /\ acc[j] = None
    BY <1>1, <1>2, <1>3, <1>4, <2>2
  <2>3. CASE acc[i] = None /\ acc[j] # None
    BY <1>1, <1>2, <1>3, <1>4, <2>3
  <2>4. CASE acc[i] = None /\ acc[j] = None
    BY <1>3, <2>4 DEF RoundOK, IsMatching
  <2>5. QED
    BY <2>1, <2>2, <2>3, <2>4
<1>7. \A i \in Inputs : next.match[i] # None => status[i][next.match[i]]
  BY <1>1, <1>2, <1>3, <1>4 DEF RoundOK
<1>8. ASSUME Saturated(r.match, status) PROVE Saturated(next.match, status)
  BY <1>2, <1>3, <1>8, NoneIsNoPort DEF Saturated
<1>9. ASSUME ~ Saturated(r.match, status), Cardinality(MatchedInputs(r.match)) >= k
      PROVE  Cardinality(MatchedInputs(next.match)) >= k + 1
  <2>1. PICK i \in Inputs, o \in Outputs :
          status[i][o] /\ r.match[i] = None /\ \A j \in Inputs : r.match[j] # o
    BY <1>9 DEF Saturated
  <2>2. check[o] # None
    BY <2>1, GrantsFacts DEF check
  <2>3. check[o] \in Inputs /\ r.match[check[o]] = None
    BY <1>1, <2>2
  <2>4. acc[check[o]] # None
    BY <2>3, AcceptedFacts DEF RoundOK, acc
  <2>5. MatchedInputs(r.match) \subseteq MatchedInputs(next.match)
    BY <1>3 DEF MatchedInputs
  <2>6. check[o] \in MatchedInputs(next.match) \ MatchedInputs(r.match)
    BY <1>3, <2>3, <2>4 DEF MatchedInputs
  <2>7. /\ Cardinality(MatchedInputs(r.match)) <= Cardinality(MatchedInputs(next.match))
        /\ Cardinality(MatchedInputs(r.match)) # Cardinality(MatchedInputs(next.match))
    <3>1. MatchedInputs(r.match) \in SUBSET MatchedInputs(next.match)
      BY <2>5
    <3>2. QED
      BY <2>6, <3>1, MatchedFinite, FS_Subset
  <2>8. QED
    BY <1>9, <2>7, MatchedFinite
<1>10. Progress(r, k, status) => Progress(next, k + 1, status)
  BY <1>8, <1>9 DEF Progress
<1>11. QED
  BY <1>5, <1>6, <1>7, <1>10 DEF RoundOK, next

-----------------------------------------------------------------------------
(* A call of schedule().                                                   *)

(* The states between the iterations of a call that makes n of them. *)
AreRounds(f, n, status) ==
    f = [k \in 0 .. n |-> IF k = 0 THEN Start ELSE Iterate(f[k - 1], k - 1, status)]

StartOK(status) == RoundOK(Start, status) /\ Progress(Start, 0, status)

LEMMA RoundsExist ==
    ASSUME NEW n \in Nat, NEW status \in Statuses, StartOK(status)
    PROVE  \E f : AreRounds(f, n, status)
<1> DEFINE A == { r \in Rounds : RoundOK(r, status) }
           F == [k \in 1 .. n |-> [r \in A |-> Iterate(r, k - 1, status)]]
<1>1. IsStep(n, A, F)
  <2>1. \A k \in 1 .. n : \A r \in A : Iterate(r, k - 1, status) \in A
    <3> SUFFICES ASSUME NEW k \in 1 .. n, NEW r \in A PROVE Iterate(r, k - 1, status) \in A
      OBVIOUS
    <3>1. RoundOK(r, status) /\ k - 1 \in Nat
      OBVIOUS
    <3>2. RoundOK(Iterate(r, k - 1, status), status)
      BY <3>1, IterateFacts
    <3>3. QED
      BY <3>2 DEF RoundOK
  <2> HIDE DEF A
  <2>2. QED
    BY <2>1 DEF IsStep
<1>2. Start \in A
  BY DEF StartOK, RoundOK
<1>3. \E f : Follows(f, n, A, Start, F)
  <2> HIDE DEF A, F
  <2>1. QED
    BY <1>1, <1>2, RecursionExists
<1>4. PICK f \in [0 .. n -> A] : f[0] = Start /\ \A k \in 1 .. n : f[k] = F[k][f[k - 1]]
  BY <1>3 DEF Follows
<1>5. \A k \in 0 .. n : f[k] = IF k = 0 THEN Start ELSE Iterate(f[k - 1], k - 1, status)
  <2> TAKE k \in 0 .. n
  <2>1. CASE k = 0
    BY <1>4, <2>1
  <2>2. CASE k # 0
    <3>1. k \in 1 .. n /\ f[k - 1] \in A
      BY <2>2
    <3> HIDE DEF A
    <3>2. F[k][f[k - 1]] = Iterate(f[k - 1], k - 1, status)
      BY <3>1
    <3>3. QED
      BY <1>4, <2>2, <3>1, <3>2
  <2>3. QED
    BY <2>1, <2>2
<1>6. QED
  BY <1>5 DEF AreRounds

(* After n iterations there are n pairs, or no more can be had. *)
LEMMA RoundsFacts ==
    ASSUME NEW n \in Nat, NEW status \in Statuses, StartOK(status),
           NEW f, AreRounds(f, n, status)
    PROVE  RoundOK(f[n], status) /\ Progress(f[n], n, status)
<1> DEFINE S == { k \in 0 .. n : RoundOK(f[k], status) /\ Progress(f[k], k, status) }
<1>1. 0 \in S
  BY DEF StartOK, AreRounds
<1>2. ASSUME NEW k \in 0 .. n - 1, k \in S PROVE k + 1 \in S
  <2>1. k + 1 \in 0 .. n /\ k + 1 # 0 /\ (k + 1) - 1 = k /\ k \in Nat
    OBVIOUS
  <2>2. f[k + 1] = Iterate(f[k], k, status)
    BY <2>1 DEF AreRounds
  <2>3. QED
    BY <1>2, <2>1, <2>2, IterateFacts
<1>3. 0 .. n \subseteq S
  <2> HIDE DEF S
  <2> QED
    BY <1>1, <1>2, IntervalInduction
<1>4. QED
  BY <1>3

LEMMA ResultIsRound ==
    ASSUME NEW status \in Statuses, StartOK(status)
    PROVE  \E f : AreRounds(f, Iterations, status) /\ Result(status) = f[Iterations]
<1>1. \E f : AreRounds(f, Iterations, status)
  BY RoundsExist, IterationsPos
<1>2. QED
  BY <1>1 DEF Result, AreRounds

LEMMA ResultFacts ==
    ASSUME NEW status \in Statuses, StartOK(status)
    PROVE  RoundOK(Result(status), status) /\ Progress(Result(status), Iterations, status)
<1>1. PICK f : AreRounds(f, Iterations, status) /\ Result(status) = f[Iterations]
  BY ResultIsRound
<1>2. QED
  BY <1>1, RoundsFacts, IterationsPos

-----------------------------------------------------------------------------
(* The invariant.                                                          *)

(* The hand-overs carry something only between the calls that write and     *)
(* read them, and every arrival is in the queue that it is reported of.     *)
HandOvers ==
    /\ phase # "schedule" => arrivals = NoMatch
    /\ phase # "write_outputs" => in_match = NoMatch
    /\ \A i \in Inputs : arrivals[i] # None => queue_len[i][arrivals[i]] > 0

SlipInv ==
    /\ SlipTypeOK
    /\ HandOvers
    /\ StatusAgrees
    /\ IsMatching(in_match)
    /\ GrantsHavePackets

(* MaximalOrProgress of a scheduler that makes n iterations. *)
PairsOrNoIdle(n) ==
    phase = "write_outputs" => Cardinality(MatchedInputs(in_match)) >= n \/ NoIdlePair

LEMMA SlipInit == Init => SlipInv /\ phase = "read_inputs" /\ SwitchInit
<1> SUFFICES ASSUME Init PROVE SlipInv /\ phase = "read_inputs" /\ SwitchInit
  OBVIOUS
<1>1. SlipTypeOK
  BY DEF Init, SwitchInit, SlipTypeOK, SwitchTypeOK, Phases, QueueLengths, EmptyQueues,
         Assignments, NoMatch, AllEmpty
<1>2. HandOvers /\ IsMatching(in_match) /\ GrantsHavePackets
  BY DEF Init, SwitchInit, HandOvers, IsMatching, GrantsHavePackets, NoMatch
<1>3. StatusAgrees
  BY NoneIsNoPort DEF Init, SwitchInit, StatusAgrees, EmptyQueues, AllEmpty, NoMatch
<1>4. QED
  BY <1>1, <1>2, <1>3 DEF SlipInv, Init, SwitchInit

(* Once the arrivals are in, a bit is set exactly if the VOQ has a packet,  *)
(* and the first iteration starts with nothing matched.                     *)
LEMMA StatusOfArrived ==
    ASSUME SlipInv, phase = "schedule"
    PROVE  LET status == Arrived(queue_status)
           IN  /\ status \in Statuses /\ StartOK(status)
               /\ \A i \in Inputs, o \in Outputs : status[i][o] <=> queue_len[i][o] > 0
<1> DEFINE status == Arrived(queue_status)
<1>1. /\ queue_status \in Statuses /\ queue_len \in QueueLengths
      /\ grant_pointers \in [Outputs -> Inputs] /\ accept_pointer \in [Inputs -> Outputs]
      /\ in_match = NoMatch /\ StatusAgrees /\ HandOvers
  BY DEF SlipInv, SlipTypeOK, SwitchTypeOK, HandOvers, Statuses
<1>2. status \in Statuses
  BY <1>1 DEF Arrived, Statuses
<1>3. ASSUME NEW i \in Inputs, NEW o \in Outputs
      PROVE  status[i][o] <=> queue_len[i][o] > 0
  <2>1. queue_status[i][o] <=> queue_len[i][o] > (IF arrivals[i] = o THEN 1 ELSE 0) + 0
    BY <1>1, NoneIsNoPort DEF StatusAgrees, NoMatch
  <2>2. status[i][o] <=> queue_status[i][o] \/ arrivals[i] = o
    BY DEF Arrived
  <2>3. queue_len[i][o] \in Nat /\ (arrivals[i] = o => queue_len[i][o] > 0)
    BY <1>1, NoneIsNoPort DEF QueueLengths, HandOvers
  <2> HIDE DEF status
  <2>4. QED
    BY <2>1, <2>2, <2>3
<1>4. Start \in Rounds /\ \A i \in Inputs : Start.match[i] = None
  BY <1>1 DEF Start, Rounds, NoMatch, Assignments
<1>5. RoundOK(Start, status)
  BY <1>4 DEF RoundOK, IsMatching
<1>6. Progress(Start, 0, status)
  BY MatchedFinite DEF Progress
<1>7. QED
  BY <1>2, <1>3, <1>5, <1>6 DEF StartOK

LEMMA SlipScheduling ==
    ASSUME SlipInv, phase = "schedule", NEW n \in Nat, NEW result,
           RoundOK(result, Arrived(queue_status)),
           Progress(result, n, Arrived(queue_status)),
           ScheduleWith(result.match),
           grant_pointers' = result.grant, accept_pointer' = result.accept,
           queue_status' = Departed(Arrived(queue_status), result.match)
    PROVE  SlipInv' /\ PairsOrNoIdle(n)' /\ SwitchNext
<1> DEFINE status == Arrived(queue_status)
           m == result.match
<1>1. /\ status \in Statuses
      /\ \A i \in Inputs, o \in Outputs : status[i][o] <=> queue_len[i][o] > 0
  BY StatusOfArrived
<1>2. /\ m \in Assignments /\ IsMatching(m)
      /\ \A i \in Inputs : m[i] # None => status[i][m[i]]
      /\ result.grant \in [Outputs -> Inputs] /\ result.accept \in [Inputs -> Outputs]
  BY DEF RoundOK, Rounds
<1>3. /\ in_match' = m /\ phase' = "write_outputs"
      /\ arrivals' = NoMatch /\ queue_len' = queue_len
  BY DEF ScheduleWith
<1>4. queue_len \in QueueLengths
  BY DEF SlipInv, SlipTypeOK, SwitchTypeOK
<1> HIDE DEF status, m
<1>5. SlipTypeOK'
  <2>1. queue_status' \in [Inputs -> [Outputs -> BOOLEAN]]
    BY DEF Departed
  <2>2. NoMatch \in Assignments
    BY DEF NoMatch, Assignments
  <2>3. QED
    BY <1>2, <1>3, <1>4, <2>1, <2>2 DEF SlipTypeOK, SwitchTypeOK, Phases, m
<1>6. HandOvers'
  BY <1>3 DEF HandOvers, NoMatch
<1>7. StatusAgrees'
  <2> SUFFICES ASSUME NEW i \in Inputs, NEW o \in Outputs
               PROVE  queue_status'[i][o] <=>
                        queue_len'[i][o] > (IF arrivals'[i] = o THEN 1 ELSE 0)
                                           + (IF in_match'[i] = o THEN 1 ELSE 0)
    BY DEF StatusAgrees
  <2>1. queue_status'[i][o] <=> status[i][o] /\ ~ (m[i] = o /\ queue_len[i][o] = 1)
    BY DEF Departed, status, m
  <2>2. status[i][o] <=> queue_len[i][o] > 0
    BY <1>1
  <2>3. arrivals'[i] # o /\ in_match'[i] = m[i] /\ queue_len'[i][o] = queue_len[i][o]
    BY <1>3, NoneIsNoPort DEF NoMatch
  <2>4. queue_len[i][o] \in Nat
    BY <1>4 DEF QueueLengths
  <2>5. CASE m[i] = o
    BY <2>1, <2>2, <2>3, <2>4, <2>5
  <2>6. CASE m[i] # o
    BY <2>1, <2>2, <2>3, <2>4, <2>6
  <2>7. QED
    BY <2>5, <2>6
<1>8. IsMatching(in_match)'
  BY <1>2, <1>3 DEF IsMatching
<1>9. GrantsHavePackets'
  BY <1>1, <1>2, <1>3 DEF GrantsHavePackets, Assignments
<1>10. PairsOrNoIdle(n)'
  <2>1. Progress(result, n, status)
    BY DEF status
  <2>2. Saturated(m, status) => NoIdlePair'
    BY <1>1, <1>3 DEF Saturated, NoIdlePair
  <2>3. MatchedInputs(in_match)' = MatchedInputs(m)
    BY <1>3 DEF MatchedInputs
  <2>4. QED
    BY <2>1, <2>2, <2>3 DEF PairsOrNoIdle, Progress, m
<1>11. SwitchNext
  BY <1>2 DEF SwitchNext, m
<1>12. QED
  BY <1>5, <1>6, <1>7, <1>8, <1>9, <1>10, <1>11 DEF SlipInv

(* The steps that are not the scheduler's leave nothing handed out to be    *)
(* maximal.                                                                 *)
LEMMA SlipReadInputs ==
    ASSUME SlipInv, ReadInputs, UNCHANGED slipVars
    PROVE  SlipInv' /\ phase' = "schedule"
<1>1. PICK arr \in Assignments : arrivals' = arr /\ queue_len' = Enqueue(queue_len, arr)
  BY DEF ReadInputs
<1>2. /\ phase' = "schedule" /\ in_match' = in_match /\ phase = "read_inputs"
      /\ queue_status' = queue_status /\ grant_pointers' = grant_pointers
      /\ accept_pointer' = accept_pointer
  BY DEF ReadInputs, slipVars
<1>3. SlipTypeOK /\ queue_len \in QueueLengths /\ arrivals = NoMatch /\ in_match = NoMatch
  BY <1>2 DEF SlipInv, SlipTypeOK, SwitchTypeOK, HandOvers
<1>4. \A i \in Inputs, o \in Outputs :
        /\ queue_len[i][o] \in Nat
        /\ queue_len'[i][o] = queue_len[i][o] + IF arr[i] = o THEN 1 ELSE 0
  BY <1>1, <1>3 DEF Enqueue, QueueLengths
<1>5. SlipTypeOK'
  BY <1>1, <1>2, <1>3 DEF SlipTypeOK, SwitchTypeOK, Phases, QueueLengths, Enqueue
<1>6. HandOvers'
  <2>1. \A i \in Inputs : arrivals'[i] # None => queue_len'[i][arrivals'[i]] > 0
    BY <1>1, <1>4 DEF Assignments
  <2>2. QED
    BY <1>2, <1>3, <2>1 DEF HandOvers
<1>7. StatusAgrees'
  <2> SUFFICES ASSUME NEW i \in Inputs, NEW o \in Outputs
               PROVE  queue_status'[i][o] <=>
                        queue_len'[i][o] > (IF arrivals'[i] = o THEN 1 ELSE 0)
                                           + (IF in_match'[i] = o THEN 1 ELSE 0)
    BY DEF StatusAgrees
  <2>1. queue_status[i][o] <=> queue_len[i][o] > 0
    BY <1>3, NoneIsNoPort DEF SlipInv, StatusAgrees, NoMatch
  <2>2. in_match'[i] # o /\ arrivals'[i] = arr[i]
    BY <1>1, <1>2, <1>3, NoneIsNoPort DEF NoMatch
  <2>3. QED
    BY <1>2, <1>4, <2>1, <2>2
<1>8. IsMatching(in_match)' /\ GrantsHavePackets'
  BY <1>2, <1>3 DEF IsMatching, GrantsHavePackets, NoMatch
<1>9. QED
  BY <1>2, <1>5, <1>6, <1>7, <1>8 DEF SlipInv

LEMMA SlipWriteOutputs ==
    ASSUME SlipInv, WriteOutputs, UNCHANGED slipVars
    PROVE  SlipInv' /\ phase' = "read_inputs"
<1>1. /\ phase' = "read_inputs" /\ in_match' = NoMatch /\ phase = "write_outputs"
      /\ arrivals' = arrivals /\ queue_len' = Dequeue(queue_len, in_match)
      /\ queue_status' = queue_status /\ grant_pointers' = grant_pointers
      /\ accept_pointer' = accept_pointer
  BY DEF WriteOutputs, slipVars
<1>2. SlipTypeOK /\ queue_len \in QueueLengths /\ arrivals = NoMatch
  BY <1>1 DEF SlipInv, SlipTypeOK, SwitchTypeOK, HandOvers
<1>3. \A i \in Inputs, o \in Outputs :
        /\ queue_len[i][o] \in Nat
        /\ queue_len'[i][o] =
             queue_len[i][o] - IF in_match[i] = o /\ queue_len[i][o] # 0 THEN 1 ELSE 0
  BY <1>1, <1>2 DEF Dequeue, QueueLengths
<1>4. SlipTypeOK'
  <2>1. queue_len' \in QueueLengths /\ NoMatch \in Assignments
    BY <1>1, <1>3 DEF QueueLengths, Dequeue, NoMatch, Assignments
  <2>2. QED
    BY <1>1, <1>2, <2>1 DEF SlipTypeOK, SwitchTypeOK, Phases
<1>5. HandOvers'
  BY <1>1, <1>2 DEF HandOvers, NoMatch
<1>6. StatusAgrees'
  <2> SUFFICES ASSUME NEW i \in Inputs, NEW o \in Outputs
               PROVE  queue_status'[i][o] <=>
                        queue_len'[i][o] > (IF arrivals'[i] = o THEN 1 ELSE 0)
                                           + (IF in_match'[i] = o THEN 1 ELSE 0)
    BY DEF StatusAgrees
  <2>1. arrivals[i] # o
    BY <1>2, NoneIsNoPort DEF NoMatch
  <2>2. queue_status[i][o] <=> queue_len[i][o] > IF in_match[i] = o THEN 1 ELSE 0
    BY <1>3, <2>1 DEF SlipInv, StatusAgrees
  <2>3. in_match'[i] # o /\ arrivals'[i] # o
    BY <1>1, <2>1, NoneIsNoPort DEF NoMatch
  <2>4. QED
    BY <1>1, <1>3, <2>2, <2>3
<1>7. IsMatching(in_match)' /\ GrantsHavePackets'
  BY <1>1 DEF IsMatching, GrantsHavePackets, NoMatch
<1>8. QED
  BY <1>1, <1>4, <1>5, <1>6, <1>7 DEF SlipInv

LEMMA SlipReset == ASSUME SlipInv, Reset PROVE SlipInv' /\ phase' = "read_inputs"
<1>1. /\ queue_len' = EmptyQueues /\ arrivals' = NoMatch /\ in_match' = NoMatch
      /\ phase' = "read_inputs" /\ queue_status' = AllEmpty
      /\ grant_pointers' = [o \in Outputs |-> 0] /\ accept_pointer' = [i \in Inputs |-> 0]
  BY DEF Reset, SwitchReset
<1>2. 0 \in Inputs /\ 0 \in Outputs
  BY PortFacts
<1>3. SlipTypeOK'
  BY <1>1, <1>2 DEF SlipTypeOK, SwitchTypeOK, Phases, QueueLengths, EmptyQueues,
       Assignments, NoMatch, AllEmpty
<1>4. HandOvers' /\ IsMatching(in_match)' /\ GrantsHavePackets'
  BY <1>1 DEF HandOvers, IsMatching, GrantsHavePackets, NoMatch
<1>5. StatusAgrees'
  BY <1>1, NoneIsNoPort DEF StatusAgrees, EmptyQueues, AllEmpty, NoMatch
<1>6. QED
  BY <1>1, <1>3, <1>4, <1>5 DEF SlipInv

LEMMA SlipUnchanged ==
    ASSUME SlipInv, UNCHANGED vars, NEW n, PairsOrNoIdle(n)
    PROVE  SlipInv' /\ PairsOrNoIdle(n)' /\ UNCHANGED switchVars
<1>1. /\ phase' = phase /\ queue_len' = queue_len /\ arrivals' = arrivals
      /\ in_match' = in_match /\ queue_status' = queue_status
      /\ grant_pointers' = grant_pointers /\ accept_pointer' = accept_pointer
  BY DEF vars, switchVars, slipVars
<1>2. QED
  BY <1>1 DEF SlipInv, SlipTypeOK, SwitchTypeOK, HandOvers, StatusAgrees, IsMatching,
     GrantsHavePackets, PairsOrNoIdle, MatchedInputs, NoIdlePair, switchVars

LEMMA SlipSchedule ==
    ASSUME SlipInv, Schedule
    PROVE  SlipInv' /\ PairsOrNoIdle(Iterations)' /\ SwitchNext
<1> DEFINE status == Arrived(queue_status)
           result == Result(status)
<1>1. /\ ScheduleWith(result.match) /\ grant_pointers' = result.grant
      /\ accept_pointer' = result.accept /\ queue_status' = Departed(status, result.match)
  BY DEF Schedule
<1>2. phase = "schedule"
  BY <1>1 DEF ScheduleWith
<1>3. RoundOK(result, status) /\ Progress(result, Iterations, status)
  <2>1. status \in Statuses /\ StartOK(status)
    BY <1>2, StatusOfArrived
  <2> HIDE DEF status
  <2>2. QED
    BY <2>1, ResultFacts
<1> HIDE DEF result
<1>4. QED
  BY <1>1, <1>2, <1>3, SlipScheduling, IterationsPos

(* The other steps, which leave the scheduler's state or reset it. *)
LEMMA SlipOther ==
    ASSUME SlipInv, SwitchStep \/ Reset, NEW n
    PROVE  SlipInv' /\ PairsOrNoIdle(n)' /\ SwitchNext
<1>1. CASE ReadInputs /\ UNCHANGED slipVars
  BY <1>1, SlipReadInputs DEF PairsOrNoIdle, SwitchNext
<1>2. CASE WriteOutputs /\ UNCHANGED slipVars
  BY <1>2, SlipWriteOutputs DEF PairsOrNoIdle, SwitchNext
<1>3. CASE Reset
  BY <1>3, SlipReset DEF PairsOrNoIdle, SwitchNext, Reset
<1>4. QED
  BY <1>1, <1>2, <1>3 DEF SwitchStep

-----------------------------------------------------------------------------
(* iSLIP with any number of iterations.                                    *)

(* The inductive invariant, and what the iterations of a slot come to.     *)
THEOREM SlipCorrect == Spec => [](SlipInv /\ PairsOrNoIdle(Iterations))
<1>1. Init => SlipInv /\ PairsOrNoIdle(Iterations)
  BY SlipInit DEF PairsOrNoIdle
<1>2. SlipInv /\ PairsOrNoIdle(Iterations) /\ [Next]_vars =>
        SlipInv' /\ PairsOrNoIdle(Iterations)'
  BY SlipSchedule, SlipOther, SlipUnchanged DEF Next
<1>3. QED
  BY <1>1, <1>2, PTL DEF Spec

(* A status bit is set exactly when the VOQ has a packet that iSLIP has     *)
(* been told of and that is not about to depart.                            *)
THEOREM SlipStatusAgrees == Spec => []StatusAgrees
<1>1. SlipInv => StatusAgrees
  BY DEF SlipInv
<1>2. QED
  BY <1>1, SlipCorrect, PTL

(* Whatever the pointers and the arrivals, the matching of a slot is        *)
(* maximal or has as many pairs as there are iterations.                    *)
THEOREM SlipMaximalOrProgress == Spec => []MaximalOrProgress
<1>1. PairsOrNoIdle(Iterations) => MaximalOrProgress
  BY DEF PairsOrNoIdle, MaximalOrProgress, MatchedInputs
<1>2. QED
  BY <1>1, SlipCorrect, PTL

(* No output is given to a VOQ that has no packet. *)
THEOREM SlipGrantsHavePackets == Spec => []GrantsHavePackets
<1>1. SlipInv => GrantsHavePackets
  BY DEF SlipInv
<1>2. QED
  BY <1>1, SlipCorrect, PTL

(* iSLIP keeps the contract of a scheduler: it hands out matchings. *)
THEOREM SlipImplementsSwitch == Spec => SwitchSpec
<1>1. Init => SwitchInit
  BY SlipInit
<1>2. SlipInv /\ PairsOrNoIdle(Iterations) /\ [Next]_vars => [SwitchNext]_switchVars
  BY SlipSchedule, SlipOther, SlipUnchanged DEF Next
<1>3. QED
  BY <1>1, <1>2, SlipCorrect, PTL DEF Spec, SwitchSpec

-----------------------------------------------------------------------------
(* iSLIP as the run has it, with one iteration or with several.            *)

LEMMA OneCardinality == \A S : One!Cardinality(S) = Cardinality(S)
BY DEF One!Cardinality, Cardinality

(* The definitions of the instance are those of the module. *)
LEMMA OneIterate ==
    ASSUME NEW status
    PROVE  \A r, k : One!Iterate(r, k, status) = Iterate(r, k, status)
<1>1. One!NumInputs = NumInputs /\ One!NumOutputs = NumOutputs
  BY OneCardinality DEF One!NumInputs, NumInputs, One!NumOutputs, NumOutputs
<1>2. \A S, p, n : One!FirstFrom(S, p, n) = FirstFrom(S, p, n)
  BY DEF One!FirstFrom, FirstFrom
<1>3. \A r : One!FreeInputs(r) = FreeInputs(r) /\ One!FreeOutputs(r) = FreeOutputs(r)
  BY DEF One!FreeInputs, FreeInputs, One!FreeOutputs, FreeOutputs
<1>4. \A r : One!Grants(r, status) = Grants(r, status)
  BY <1>1, <1>2, <1>3 DEF One!Grants, Grants
<1>5. \A r, check : One!Accepted(r, check) = Accepted(r, check)
  BY <1>1, <1>2, <1>3 DEF One!Accepted, Accepted
<1>6. \A o, check, acc, p : One!NextGrant(o, check, acc, p) = NextGrant(o, check, acc, p)
  BY <1>1 DEF One!NextGrant, NextGrant
<1>7. \A k : One!PointersMove(k) = PointersMove(k)
  BY DEF One!PointersMove, PointersMove
<1>8. QED
  BY <1>1, <1>4, <1>5, <1>6, <1>7 DEF One!Iterate, Iterate

LEMMA OneResultIsRound ==
    ASSUME NEW status \in Statuses, StartOK(status)
    PROVE  \E f : AreRounds(f, 1, status) /\ One!Result(status) = f[1]
<1>1. PICK f : AreRounds(f, 1, status)
  BY RoundsExist
<1>2. One!Start = Start
  BY DEF One!Start, Start, One!NoMatch, NoMatch
<1>3. \A r, k : One!Iterate(r, k, status) = Iterate(r, k, status)
  BY OneIterate
<1>4. \E g : g = [k \in 0 .. 1 |->
                  IF k = 0 THEN One!Start ELSE One!Iterate(g[k - 1], k - 1, status)]
  BY <1>1, <1>2, <1>3 DEF AreRounds
<1>5. PICK g : /\ One!Result(status) = g[1]
               /\ g = [k \in 0 .. 1 |->
                  IF k = 0 THEN One!Start ELSE One!Iterate(g[k - 1], k - 1, status)]
  BY <1>4 DEF One!Result
<1>6. AreRounds(g, 1, status)
  BY <1>2, <1>3, <1>5 DEF AreRounds
<1>7. QED
  BY <1>5, <1>6

LEMMA SlipOneSchedule ==
    ASSUME SlipInv, One!Schedule
    PROVE  SlipInv' /\ PairsOrNoIdle(1)' /\ SwitchNext
<1> DEFINE status == Arrived(queue_status)
           result == One!Result(status)
<1>1. One!Arrived(queue_status) = status
  BY DEF One!Arrived, Arrived
<1>2. \A m : One!ScheduleWith(m) <=> ScheduleWith(m)
  BY DEF One!ScheduleWith, ScheduleWith, One!NoMatch, NoMatch
<1>3. \A m : One!Departed(status, m) = Departed(status, m)
  BY DEF One!Departed, Departed
<1>4. /\ ScheduleWith(result.match) /\ grant_pointers' = result.grant
      /\ accept_pointer' = result.accept /\ queue_status' = Departed(status, result.match)
  <2> HIDE DEF status
  <2> QED
    BY <1>1, <1>2, <1>3 DEF One!Schedule
<1>5. phase = "schedule"
  BY <1>4 DEF ScheduleWith
<1>6. RoundOK(result, status) /\ Progress(result, 1, status)
  <2>1. status \in Statuses /\ StartOK(status)
    BY <1>5, StatusOfArrived
  <2> HIDE DEF status
  <2>2. PICK f : AreRounds(f, 1, status) /\ result = f[1]
    BY <2>1, OneResultIsRound
  <2>3. QED
    BY <2>1, <2>2, RoundsFacts
<1> HIDE DEF result
<1>7. QED
  BY <1>4, <1>5, <1>6, SlipScheduling

MCInv ==
    /\ SlipInv
    /\ iterations \in {1, Iterations}
    /\ PairsOrNoIdle(iterations)

LEMMA MCStep ==
    ASSUME MCInv, [MCNext]_<<vars, iterations>>
    PROVE  MCInv' /\ [SwitchNext]_switchVars
<1>1. iterations' = iterations /\ iterations \in {1, Iterations} /\ SlipInv
  BY DEF MCNext, MCOne, MCSeveral, MCInv
<1>2. PICK n : n = iterations
  OBVIOUS
<1>3. PairsOrNoIdle(n)
  BY <1>2 DEF MCInv, PairsOrNoIdle
<1>4. SlipInv' /\ PairsOrNoIdle(n)' /\ [SwitchNext]_switchVars
  <2>1. CASE SwitchStep \/ Reset
    BY <1>1, <2>1, SlipOther
  <2>2. CASE MCOne
    <3>1. n = 1 /\ SlipInv' /\ PairsOrNoIdle(1)' /\ SwitchNext
      BY <1>1, <1>2, <2>2, SlipOneSchedule DEF MCOne
    <3>2. QED
      BY <3>1 DEF PairsOrNoIdle
  <2>3. CASE MCSeveral
    <3>1. n = Iterations /\ SlipInv' /\ PairsOrNoIdle(Iterations)' /\ SwitchNext
      BY <1>1, <1>2, <2>3, SlipSchedule DEF MCSeveral
    <3>2. QED
      BY <3>1 DEF PairsOrNoIdle
  <2>4. CASE UNCHANGED vars
    BY <1>1, <1>3, <2>4, SlipUnchanged
  <2>5. QED
    BY <2>1, <2>2, <2>3, <2>4 DEF MCNext
<1>5. PairsOrNoIdle(iterations)'
  BY <1>1, <1>2, <1>4 DEF PairsOrNoIdle
<1>6. QED
  BY <1>1, <1>4, <1>5 DEF MCInv

(* The inductive invariant, for both numbers of iterations of the run.     *)
THEOREM MCSlipCorrect == MCSpec => []MCInv
<1>1. MCInit => MCInv
  BY SlipInit DEF MCInit, MCInv, PairsOrNoIdle
<1>2. MCInv /\ [MCNext]_<<vars, iterations>> => MCInv'
  BY MCStep
<1>3. QED
  BY <1>1, <1>2, PTL DEF MCSpec

(* The status bits are right, with one iteration and with several. *)
THEOREM MCStatusAgrees == MCSpec => []StatusAgrees
<1>1. MCInv => StatusAgrees
  BY DEF MCInv, SlipInv
<1>2. QED
  BY <1>1, MCSlipCorrect, PTL

(* A slot's matching has a pair per iteration or is maximal, with one       *)
(* iteration and with several.                                              *)
THEOREM MCPairPerIteration == MCSpec => []PairPerIteration
<1>1. One!NoIdlePair <=> NoIdlePair
  BY DEF One!NoIdlePair, NoIdlePair
<1>2. One!MaximalOrProgress <=> PairsOrNoIdle(1)
  BY <1>1, OneCardinality DEF One!MaximalOrProgress, PairsOrNoIdle, MatchedInputs
<1>3. MaximalOrProgress <=> PairsOrNoIdle(Iterations)
  BY DEF MaximalOrProgress, PairsOrNoIdle, MatchedInputs
<1>4. MCInv => PairPerIteration
  BY <1>2, <1>3 DEF MCInv, PairPerIteration
<1>5. QED
  BY <1>4, MCSlipCorrect, PTL

(* With one iteration and with several, iSLIP hands out matchings. *)
THEOREM MCImplementsSwitch == MCSpec => SwitchSpec
<1>1. MCInit => SwitchInit
  BY SlipInit DEF MCInit
<1>2. MCInv /\ [MCNext]_<<vars, iterations>> => [SwitchNext]_switchVars
  BY MCStep
<1>3. QED
  BY <1>1, <1>2, MCSlipCorrect, PTL DEF MCSpec, SwitchSpec
=============================================================================
