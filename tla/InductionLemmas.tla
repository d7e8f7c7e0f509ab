-------------------------- MODULE InductionLemmas --------------------------
(***************************************************************************)
(* Induction over the natural numbers and the existence of functions that  *)
(* are defined by recursion, in a form the provers can use: what is        *)
(* induced on is a set, and the step of a recursion a function, never an   *)
(* operator.  All rests on the strict subset ordering of a finite set      *)
(* being well founded.  At the end, what follows from it about the trees   *)
(* that the schedulers sample from.                                        *)
(***************************************************************************)
EXTENDS Queue_Sampler, FiniteSetTheorems, TLAPS

(* Every non-empty set of natural numbers has a least element.             *)
LEMMA LeastNat ==
    ASSUME NEW T \in SUBSET Nat, T # {}
    PROVE  \E n \in T : \A m \in T : n <= m
<1>1. PICK top \in T : TRUE
  OBVIOUS
<1> DEFINE S == 0 .. top
           Segments == { 0 .. m : m \in { k \in T : k <= top } }
<1>2. IsFiniteSet(S)
  BY FS_Interval
<1>3. IsWellFoundedOn(StrictSubsetOrdering(S), FiniteSubsetsOf(S))
  BY <1>2, FS_StrictSubsetOrderingWellFounded
<1>4. Segments \subseteq FiniteSubsetsOf(S)
  BY <1>2, FS_Subset DEF FiniteSubsetsOf
<1>5. Segments # {}
  BY <1>1
<1>6. PICK x \in Segments : \A y \in Segments : <<y, x>> \notin StrictSubsetOrdering(S)
  <2> HIDE DEF Segments, S
  <2> QED
    BY <1>3, <1>4, <1>5, WFMin
<1>7. PICK n \in T : n <= top /\ x = 0 .. n
  OBVIOUS
<1>8. ASSUME NEW m \in T, m < n PROVE FALSE
  <2>1. 0 .. m \in Segments
    BY <1>7, <1>8
  <2>2. 0 .. m \subseteq 0 .. n /\ 0 .. m # 0 .. n
    BY <1>7, <1>8
  <2>3. <<0 .. m, x>> \in StrictSubsetOrdering(S)
    BY <1>7, <1>8, <2>2 DEF StrictSubsetOrdering
  <2>4. QED
    BY <1>6, <2>1, <2>3
<1>9. QED
  BY <1>8

(* ... and, if it is bounded, a greatest one. *)
LEMMA GreatestNat ==
    ASSUME NEW b \in Nat, NEW T \in SUBSET (0 .. b), T # {}
    PROVE  \E n \in T : \A m \in T : m <= n
<1> DEFINE D == { b - m : m \in T }
<1>1. D \in SUBSET Nat /\ D # {}
  <2>1. \A m \in T : m \in Nat /\ m <= b
    OBVIOUS
  <2>2. PICK m \in T : TRUE
    OBVIOUS
  <2>3. QED
    BY <2>1, <2>2
<1>2. PICK d \in D : \A e \in D : d <= e
  <2> HIDE DEF D
  <2> QED
    BY <1>1, LeastNat
<1>3. PICK n \in T : d = b - n
  OBVIOUS
<1>4. ASSUME NEW m \in T PROVE m <= n
  <2>1. b - m \in D
    OBVIOUS
  <2>2. d <= b - m
    BY <1>2, <2>1
  <2>3. QED
    BY <1>3, <2>2
<1>5. QED
  BY <1>4

(* Induction: a set that holds of 0 and is closed under successor up to N.  *)
LEMMA IntervalInduction ==
    ASSUME NEW N \in Nat, NEW S, 0 \in S,
           \A n \in 0 .. N - 1 : n \in S => n + 1 \in S
    PROVE  0 .. N \subseteq S
<1> DEFINE T == { n \in 0 .. N : n \notin S }
<1>1. CASE T = {}
  BY <1>1
<1>2. CASE T # {}
  <2>1. PICK n \in T : \A m \in T : n <= m
    <3>1. T \in SUBSET Nat
      OBVIOUS
    <3> HIDE DEF T
    <3>2. QED
      BY <1>2, <3>1, LeastNat
  <2>2. n \in 0 .. N /\ n \notin S
    OBVIOUS
  <2>3. n # 0
    BY <2>2
  <2>4. n - 1 \in 0 .. N - 1 /\ n - 1 \in 0 .. N
    BY <2>2, <2>3
  <2>5. n - 1 \in S
    BY <2>1, <2>4
  <2>6. (n - 1) + 1 \in S
    BY <2>4, <2>5
  <2>7. QED
    BY <2>2, <2>6
<1>3. QED
  BY <1>1, <1>2

LEMMA NatInductionSet ==
    ASSUME NEW S, 0 \in S, \A n \in Nat : n \in S => n + 1 \in S
    PROVE  Nat \subseteq S
<1> SUFFICES ASSUME NEW n \in Nat PROVE n \in S
  OBVIOUS
<1>1. 0 .. n \subseteq S
  BY IntervalInduction
<1>2. QED
  BY <1>1

(* F has, for every k in 1 .. N, a function F[k] from A to A. *)
IsStep(N, A, F) == F \in [1 .. N -> [A -> A]]

(* f[k] follows from f[k - 1] by F[k]. *)
Follows(f, N, A, base, F) ==
    /\ f \in [0 .. N -> A]
    /\ f[0] = base
    /\ \A k \in 1 .. N : f[k] = F[k][f[k - 1]]

(* A function that is defined by recursion over 0 .. N exists: its value at *)
(* 0 is given, and each other one follows from the one before it.           *)
LEMMA RecursionExists ==
    ASSUME NEW N \in Nat, NEW A, NEW base \in A, NEW F, IsStep(N, A, F)
    PROVE  \E f : Follows(f, N, A, base, F)
<1> USE DEF IsStep
<1> DEFINE Upto(n, f) == f[0] = base /\ \A k \in 1 .. n : f[k] = F[k][f[k - 1]]
           S == { n \in 0 .. N : \E f \in [0 .. n -> A] : Upto(n, f) }
<1>1. 0 \in S
  <2>1. Upto(0, [k \in 0 .. 0 |-> base])
    OBVIOUS
  <2>2. [k \in 0 .. 0 |-> base] \in [0 .. 0 -> A]
    OBVIOUS
  <2> HIDE DEF Upto
  <2>3. QED
    BY <2>1, <2>2
<1>2. ASSUME NEW n \in 0 .. N - 1, n \in S PROVE n + 1 \in S
  <2>1. PICK f \in [0 .. n -> A] : Upto(n, f)
    BY <1>2
  <2> DEFINE g == [k \in 0 .. n + 1 |-> IF k = n + 1 THEN F[n + 1][f[n]] ELSE f[k]]
  <2>2. g \in [0 .. n + 1 -> A]
    <3>1. F[n + 1][f[n]] \in A
      OBVIOUS
    <3>2. \A k \in 0 .. n + 1 : k # n + 1 => f[k] \in A
      OBVIOUS
    <3>3. QED
      BY <3>1, <3>2
  <2>3. ASSUME NEW k \in 1 .. n + 1 PROVE g[k] = F[k][g[k - 1]]
    <3>1. CASE k = n + 1
      BY <3>1
    <3>2. CASE k # n + 1
      BY <2>1, <3>2
    <3>3. QED
      BY <3>1, <3>2
  <2>4. Upto(n + 1, g)
    <3>1. g[0] = base
      BY <2>1
    <3>2. QED
      BY <2>3, <3>1
  <2>5. n + 1 \in 0 .. N
    OBVIOUS
  <2> HIDE DEF Upto, g
  <2>6. QED
    BY <2>2, <2>4, <2>5
<1>3. 0 .. N \subseteq S
  <2> HIDE DEF S
  <2> QED
    BY <1>1, <1>2, IntervalInduction
<1>4. QED
  BY <1>3 DEF Follows

-----------------------------------------------------------------------------
(* Counting and remainders.                                                *)

(* Two sets that a one-to-one correspondence relates count the same.        *)
LEMMA SameCount ==
    ASSUME NEW S, NEW T, IsFiniteSet(S), NEW f \in [S -> T],
           \A x, y \in S : f[x] = f[y] => x = y,
           \A t \in T : \E x \in S : f[x] = t
    PROVE  IsFiniteSet(T) /\ Cardinality(T) = Cardinality(S)
<1>1. f \in Bijection(S, T)
  BY DEF Bijection, Injection, Surjection, IsInjective
<1>2. ExistsBijection(S, T)
  BY <1>1 DEF ExistsBijection
<1>3. QED
  BY <1>2, FS_Bijection

(* The remainder of a number below twice the divisor. *)
LEMMA ModBelowTwice ==
    ASSUME NEW n \in Nat \ {0}, NEW x \in 0 .. 2 * n - 1
    PROVE  x % n = IF x < n THEN x ELSE x - n
OBVIOUS

-----------------------------------------------------------------------------
(* Finite sets, element by element.                                        *)

(* Induction: what holds of a set if it holds of what is left of the set    *)
(* without any one of its elements holds of every finite set.               *)
LEMMA SubsetInduction ==
    ASSUME NEW S, IsFiniteSet(S), NEW P,
           \A T \in SUBSET S : (\A x \in T : T \ {x} \in P) => T \in P
    PROVE  SUBSET S \subseteq P
<1> DEFINE K == { k \in Nat : \A T \in SUBSET S : Cardinality(T) = k => T \in P }
<1>1. \A T \in SUBSET S : IsFiniteSet(T) /\ Cardinality(T) \in Nat
  BY FS_Subset, FS_CardinalityType
<1>2. 0 \in K
  <2>1. \A T \in SUBSET S : Cardinality(T) = 0 => T = {}
    BY <1>1, FS_EmptySet
  <2>2. QED
    BY <2>1
<1>3. ASSUME NEW k \in Nat, k \in K PROVE k + 1 \in K
  <2> SUFFICES ASSUME NEW T \in SUBSET S, Cardinality(T) = k + 1 PROVE T \in P
    OBVIOUS
  <2>1. ASSUME NEW x \in T PROVE T \ {x} \in P
    <3>1. Cardinality(T \ {x}) = Cardinality(T) - 1
      BY <1>1, FS_RemoveElement
    <3>2. Cardinality(T \ {x}) = k
      BY <3>1
    <3>3. QED
      BY <1>3, <3>2
  <2>2. QED
    BY <2>1
<1>4. Nat \subseteq K
  <2> HIDE DEF K
  <2> QED
    BY <1>2, <1>3, NatInductionSet
<1>5. QED
  BY <1>1, <1>4

(* pick takes an element from every subset of S that has one. *)
IsPick(pick, S) ==
    /\ pick \in [(SUBSET S) \ {{}} -> S]
    /\ \A T \in (SUBSET S) \ {{}} : pick[T] \in T

(* g[T] follows from g[T \ {x}], x being the element picked, by F[x]. *)
FoldsInto(g, S, A, base, pick, F) ==
    /\ g \in [SUBSET S -> A]
    /\ g[{}] = base
    /\ \A T \in (SUBSET S) \ {{}} : g[T] = F[pick[T]][g[T \ {pick[T]}]]

(* A function that is defined by recursion over the subsets of a finite set *)
(* exists: take any function and improve it as often as there are elements. *)
LEMMA SetRecursionExists ==
    ASSUME NEW S, IsFiniteSet(S), NEW A, NEW base \in A, NEW pick, IsPick(pick, S),
           NEW F \in [S -> [A -> A]]
    PROVE  \E g : FoldsInto(g, S, A, base, pick, F)
<1> DEFINE n == Cardinality(S)
           B == [SUBSET S -> A]
           better(h) == [T \in SUBSET S |->
                           IF T = {} THEN base ELSE F[pick[T]][h[T \ {pick[T]}]]]
           start == [T \in SUBSET S |-> base]
           G == [k \in 1 .. n + 2 |-> [h \in B |-> better(h)]]
<1>1. n \in Nat /\ \A T \in SUBSET S : IsFiniteSet(T) /\ Cardinality(T) \in 0 .. n
  BY FS_Subset, FS_CardinalityType
<1>2. \A T \in (SUBSET S) \ {{}} : pick[T] \in T /\ pick[T] \in S
  BY DEF IsPick
<1>3. ASSUME NEW h \in B PROVE better(h) \in B
  <2> SUFFICES ASSUME NEW T \in SUBSET S, T # {} PROVE F[pick[T]][h[T \ {pick[T]}]] \in A
    OBVIOUS
  <2>1. pick[T] \in S /\ h[T \ {pick[T]}] \in A
    BY <1>2
  <2>2. QED
    BY <2>1
<1>4. PICK f \in [0 .. n + 2 -> B] : f[0] = start /\ \A k \in 1 .. n + 2 : f[k] = better(f[k - 1])
  <2>1. IsStep(n + 2, B, G)
    <3> HIDE DEF B, better
    <3> QED
      BY <1>3 DEF IsStep
  <2>2. start \in B /\ n + 2 \in Nat
    BY <1>1
  <2>3. PICK f : Follows(f, n + 2, B, start, G)
    <3> HIDE DEF B, G, start, n
    <3> QED
      BY <2>1, <2>2, RecursionExists
  <2>4. \A k \in 1 .. n + 2 : f[k - 1] \in B
    <3> HIDE DEF B, n
    <3>1. \A k \in 1 .. n + 2 : k - 1 \in 0 .. n + 2
      BY <1>1
    <3> QED
      BY <2>3, <3>1 DEF Follows
  <2> HIDE DEF B, better
  <2>5. QED
    BY <2>3, <2>4 DEF Follows
<1> DEFINE K == { k \in 0 .. n + 1 : \A T \in SUBSET S : Cardinality(T) < k => f[k][T] = f[k + 1][T] }
<1>5. \A k \in 1 .. n + 2 : f[k] = better(f[k - 1])
  BY <1>4
<1>6. 0 \in K
  BY <1>1
<1>7. ASSUME NEW k \in 0 .. (n + 1) - 1, k \in K PROVE k + 1 \in K
  <2> SUFFICES ASSUME NEW T \in SUBSET S, Cardinality(T) < k + 1
               PROVE  f[k + 1][T] = f[k + 2][T]
    BY <1>1
  <2>1. f[k + 1] = better(f[k]) /\ f[k + 2] = better(f[k + 1])
    <3>1. k + 1 \in 1 .. n + 2 /\ k + 2 \in 1 .. n + 2 /\ (k + 1) - 1 = k /\ (k + 2) - 1 = k + 1
      BY <1>1
    <3> HIDE DEF better
    <3>2. QED
      BY <1>5, <3>1
  <2>2. CASE T = {}
    BY <2>1, <2>2
  <2>3. CASE T # {}
    <3>1. pick[T] \in T
      BY <1>2, <2>3
    <3>2. Cardinality(T \ {pick[T]}) = Cardinality(T) - 1
      BY <1>1, <3>1, FS_RemoveElement
    <3>3. Cardinality(T \ {pick[T]}) < k
      BY <1>1, <3>2
    <3>4. f[k][T \ {pick[T]}] = f[k + 1][T \ {pick[T]}]
      BY <1>7, <3>3
    <3>5. /\ f[k + 1][T] = F[pick[T]][f[k][T \ {pick[T]}]]
          /\ f[k + 2][T] = F[pick[T]][f[k + 1][T \ {pick[T]}]]
      BY <2>1, <2>3
    <3>6. QED
      BY <3>4, <3>5
  <2>4. QED
    BY <2>2, <2>3
<1>8. n + 1 \in K
  <2>1. 0 .. n + 1 \subseteq K
    <3>1. n + 1 \in Nat
      BY <1>1
    <3> HIDE DEF K, n
    <3>2. QED
      BY <1>6, <1>7, <3>1, IntervalInduction
  <2>2. QED
    BY <1>1, <2>1
<1>9. \A T \in SUBSET S : f[n + 1][T] = f[n + 2][T]
  BY <1>1, <1>8
<1>10. f[n + 1] = better(f[n]) /\ f[n + 2] = better(f[n + 1]) /\ f[n + 1] \in B
  <2>1. n + 1 \in 1 .. n + 2 /\ n + 2 \in 1 .. n + 2 /\ (n + 1) - 1 = n /\ (n + 2) - 1 = n + 1
        /\ n + 1 \in 0 .. n + 2
    <3> HIDE DEF n
    <3> QED
      BY <1>1
  <2> HIDE DEF better, B
  <2>2. QED
    BY <1>4, <1>5, <2>1
<1> DEFINE g == f[n + 1]
<1>11. FoldsInto(g, S, A, base, pick, F)
  <2>1. \A T \in SUBSET S : g[T] = better(g)[T]
    BY <1>9, <1>10
  <2>2. g \in B /\ {} \in SUBSET S
    BY <1>10
  <2> HIDE DEF g
  <2>3. g[{}] = base /\ \A T \in (SUBSET S) \ {{}} : g[T] = F[pick[T]][g[T \ {pick[T]}]]
    BY <2>1, <2>2
  <2>4. QED
    BY <2>2, <2>3 DEF FoldsInto
<1>12. QED
  BY <1>11

-----------------------------------------------------------------------------
(* Sums over finite sets, added up in the order of CHOOSE as the folds of   *)
(* the community modules do.                                                *)

SumsUp(g, S, f) ==
    g = [T \in SUBSET S |->
           IF T = {} THEN 0
           ELSE g[T \ {CHOOSE x \in T : TRUE}] + f[CHOOSE x \in T : TRUE]]

Total(f, S) ==
    LET g[T \in SUBSET S] ==
          IF T = {} THEN 0
          ELSE g[T \ {CHOOSE x \in T : TRUE}] + f[CHOOSE x \in T : TRUE]
    IN  g[S]

LEMMA SumsExist ==
    ASSUME NEW S, IsFiniteSet(S), NEW f, \A x \in S : f[x] \in Int
    PROVE  \E g : SumsUp(g, S, f)
<1> DEFINE pick == [T \in (SUBSET S) \ {{}} |-> CHOOSE x \in T : TRUE]
           F == [x \in S |-> [n \in Int |-> n + f[x]]]
<1>1. IsPick(pick, S)
  BY DEF IsPick
<1>2. F \in [S -> [Int -> Int]]
  OBVIOUS
<1>3. PICK g : FoldsInto(g, S, Int, 0, pick, F)
  <2>1. 0 \in Int
    OBVIOUS
  <2> HIDE DEF pick, F
  <2>2. QED
    BY <1>1, <1>2, <2>1, SetRecursionExists
<1>4. \A T \in SUBSET S : g[T] =
        IF T = {} THEN 0
        ELSE g[T \ {CHOOSE x \in T : TRUE}] + f[CHOOSE x \in T : TRUE]
  <2> SUFFICES ASSUME NEW T \in SUBSET S, T # {}
               PROVE  g[T] = g[T \ {CHOOSE x \in T : TRUE}] + f[CHOOSE x \in T : TRUE]
    BY <1>3 DEF FoldsInto
  <2>1. PICK x \in S : x = CHOOSE y \in T : TRUE
    OBVIOUS
  <2>2. pick[T] = x
    BY <2>1
  <2>3. g[T] = F[x][g[T \ {x}]] /\ g[T \ {x}] \in Int
    <3> HIDE DEF pick, F
    <3> QED
      BY <1>3, <2>2 DEF FoldsInto
  <2>4. QED
    BY <2>1, <2>3
<1>5. g = [T \in SUBSET S |-> g[T]]
  BY <1>3 DEF FoldsInto
<1>6. QED
  BY <1>4, <1>5 DEF SumsUp

(* Sums, and that the element last added may be any.                        *)
LEMMA SumsFacts ==
    ASSUME NEW S, IsFiniteSet(S), NEW f, \A x \in S : f[x] \in Int, NEW g, SumsUp(g, S, f)
    PROVE  /\ g[{}] = 0
           /\ \A T \in SUBSET S : g[T] \in Int
           /\ \A T \in SUBSET S : \A x \in T : g[T] = g[T \ {x}] + f[x]
<1> DEFINE first(T) == CHOOSE x \in T : TRUE
           Q == { T \in SUBSET S : g[T] \in Int }
           P == { T \in SUBSET S : \A x \in T : g[T] = g[T \ {x}] + f[x] }
<1>1. /\ g[{}] = 0
      /\ \A T \in SUBSET S : T # {} => g[T] = g[T \ {first(T)}] + f[first(T)]
  BY DEF SumsUp
<1>2. \A T \in SUBSET S : T # {} => first(T) \in T
  OBVIOUS
<1> HIDE DEF first
<1>3. ASSUME NEW T \in SUBSET S, \A x \in T : T \ {x} \in Q PROVE T \in Q
  <2>1. CASE T = {}
    BY <1>1, <2>1
  <2>2. CASE T # {}
    <3>1. PICK y \in T : y = first(T)
      BY <1>2, <2>2
    <3>2. g[T] = g[T \ {y}] + f[y] /\ f[y] \in Int
      BY <1>1, <2>2, <3>1
    <3>3. g[T \ {y}] \in Int
      BY <1>3
    <3>4. QED
      BY <3>2, <3>3
  <2>3. QED
    BY <2>1, <2>2
<1>4. SUBSET S \subseteq Q
  <2> HIDE DEF Q
  <2> QED
    BY <1>3, SubsetInduction
<1>5. ASSUME NEW T \in SUBSET S, \A x \in T : T \ {x} \in P PROVE T \in P
  <2>1. CASE T = {}
    BY <1>1, <2>1
  <2>2. CASE T # {}
    <3>1. PICK y \in T : y = first(T)
      BY <1>2, <2>2
    <3>2. g[T] = g[T \ {y}] + f[y] /\ f[y] \in Int /\ g[T \ {y}] \in Int
      BY <1>1, <1>4, <2>2, <3>1
    <3>3. ASSUME NEW x \in T, x # y PROVE g[T] = g[T \ {x}] + f[x]
      <4>1. g[T \ {y}] = g[(T \ {y}) \ {x}] + f[x]
        BY <1>5, <3>3
      <4>2. g[T \ {x}] = g[(T \ {x}) \ {y}] + f[y]
        BY <1>5, <3>3
      <4>3. g[(T \ {y}) \ {x}] = g[(T \ {x}) \ {y}]
        <5>1. (T \ {y}) \ {x} = (T \ {x}) \ {y}
          OBVIOUS
        <5>2. QED
          BY <5>1
      <4>4. g[(T \ {x}) \ {y}] \in Int
        <5>1. (T \ {x}) \ {y} \in SUBSET S
          OBVIOUS
        <5>2. QED
          BY <1>4, <5>1
      <4>5. f[x] \in Int
        OBVIOUS
      <4>6. QED
        BY <3>2, <4>1, <4>2, <4>3, <4>4, <4>5
    <3>4. QED
      BY <3>2, <3>3
  <2>3. QED
    BY <2>1, <2>2
<1>6. SUBSET S \subseteq P
  <2> HIDE DEF P
  <2> QED
    BY <1>5, SubsetInduction
<1>7. QED
  BY <1>1, <1>6, <1>4

(* The sum over a subset is the same whatever it is a subset of. *)
LEMMA SumsAgree ==
    ASSUME NEW S, IsFiniteSet(S), NEW T \in SUBSET S,
           NEW f, \A x \in S : f[x] \in Int, NEW g, SumsUp(g, S, f),
           NEW e, \A x \in T : e[x] = f[x], NEW h, SumsUp(h, T, e)
    PROVE  h[T] = g[T]
<1> DEFINE P == { U \in SUBSET T : h[U] = g[U] }
<1>1. IsFiniteSet(T) /\ \A x \in T : e[x] \in Int
  BY FS_Subset
<1>2. /\ g[{}] = 0 /\ h[{}] = 0
      /\ \A U \in SUBSET T : \A x \in U : g[U] = g[U \ {x}] + f[x] /\ h[U] = h[U \ {x}] + e[x]
  <2>1. /\ h[{}] = 0
        /\ \A U \in SUBSET T : \A x \in U : h[U] = h[U \ {x}] + e[x]
    BY <1>1, SumsFacts
  <2>2. /\ g[{}] = 0
        /\ \A U \in SUBSET S : \A x \in U : g[U] = g[U \ {x}] + f[x]
    BY SumsFacts
  <2>3. QED
    BY <2>1, <2>2
<1>3. ASSUME NEW U \in SUBSET T, \A x \in U : U \ {x} \in P PROVE U \in P
  <2>1. CASE U = {}
    BY <1>2, <2>1
  <2>2. CASE U # {}
    <3>1. PICK x \in U : TRUE
      BY <2>2
    <3>2. h[U \ {x}] = g[U \ {x}] /\ e[x] = f[x]
      BY <1>3
    <3>3. QED
      BY <1>2, <3>2
  <2>3. QED
    BY <2>1, <2>2
<1>4. SUBSET T \subseteq P
  <2> HIDE DEF P
  <2> QED
    BY <1>1, <1>3, SubsetInduction
<1>5. QED
  BY <1>4

LEMMA TotalIs ==
    ASSUME NEW S, IsFiniteSet(S), NEW f, \A x \in S : f[x] \in Int
    PROVE  \E g : SumsUp(g, S, f) /\ Total(f, S) = g[S]
<1>1. \E g : SumsUp(g, S, f)
  BY SumsExist
<1>2. QED
  BY <1>1 DEF Total, SumsUp

(* A sum, of nothing, with an element taken out. *)
LEMMA TotalFacts ==
    ASSUME NEW S, IsFiniteSet(S), NEW f, \A x \in S : f[x] \in Int
    PROVE  /\ Total(f, S) \in Int
           /\ S = {} => Total(f, S) = 0
           /\ \A x \in S : Total(f, S) = Total(f, S \ {x}) + f[x]
<1>1. PICK g : SumsUp(g, S, f) /\ Total(f, S) = g[S]
  BY TotalIs
<1>2. ASSUME NEW x \in S PROVE Total(f, S \ {x}) = g[S \ {x}]
  <2>1. IsFiniteSet(S \ {x}) /\ S \ {x} \in SUBSET S
    BY FS_RemoveElement
  <2>2. PICK h : SumsUp(h, S \ {x}, f) /\ Total(f, S \ {x}) = h[S \ {x}]
    BY <2>1, TotalIs
  <2>3. h[S \ {x}] = g[S \ {x}]
    BY <1>1, <2>1, <2>2, SumsAgree
  <2>4. QED
    BY <2>2, <2>3
<1>3. /\ g[{}] = 0 /\ g[S] \in Int
      /\ \A x \in S : g[S] = g[S \ {x}] + f[x]
  <2>1. /\ g[{}] = 0
        /\ \A T \in SUBSET S : g[T] \in Int
        /\ \A T \in SUBSET S : \A x \in T : g[T] = g[T \ {x}] + f[x]
    BY <1>1, SumsFacts
  <2>2. QED
    BY <2>1, S \in SUBSET S
<1>4. QED
  BY <1>1, <1>2, <1>3

(* The sum of the sums. *)
LEMMA TotalPlus ==
    ASSUME NEW S, IsFiniteSet(S), NEW f, NEW d, NEW e,
           \A x \in S : f[x] \in Int /\ d[x] \in Int /\ e[x] = f[x] + d[x]
    PROVE  Total(e, S) = Total(f, S) + Total(d, S)
<1> DEFINE P == { T \in SUBSET S : Total(e, T) = Total(f, T) + Total(d, T) }
<1>1. ASSUME NEW T \in SUBSET S, \A x \in T : T \ {x} \in P PROVE T \in P
  <2>1. IsFiniteSet(T) /\ \A x \in T : f[x] \in Int /\ d[x] \in Int /\ e[x] \in Int
    BY FS_Subset
  <2>2. CASE T = {}
    <3>1. Total(e, T) = 0 /\ Total(f, T) = 0 /\ Total(d, T) = 0
      BY <2>1, <2>2, TotalFacts
    <3>2. QED
      BY <3>1
  <2>3. CASE T # {}
    <3>1. PICK x \in T : TRUE
      BY <2>3
    <3>2. /\ Total(e, T) = Total(e, T \ {x}) + e[x]
          /\ Total(f, T) = Total(f, T \ {x}) + f[x]
          /\ Total(d, T) = Total(d, T \ {x}) + d[x]
      BY <2>1, TotalFacts
    <3>3. Total(f, T \ {x}) \in Int /\ Total(d, T \ {x}) \in Int
      <4>1. IsFiniteSet(T \ {x})
        BY <2>1, FS_RemoveElement
      <4>2. QED
        BY <2>1, <4>1, TotalFacts
    <3>4. Total(e, T \ {x}) = Total(f, T \ {x}) + Total(d, T \ {x})
      BY <1>1
    <3>5. f[x] \in Int /\ d[x] \in Int /\ e[x] = f[x] + d[x]
      OBVIOUS
    <3>6. QED
      BY <3>2, <3>3, <3>4, <3>5
  <2>4. QED
    BY <2>2, <2>3
<1>2. SUBSET S \subseteq P
  <2> HIDE DEF P
  <2> QED
    BY <1>1, SubsetInduction
<1>3. QED
  BY <1>2

(* The sum of the bits of a set is how many elements it has. *)
LEMMA TotalCounts ==
    ASSUME NEW S, IsFiniteSet(S), NEW U \in SUBSET S, NEW f,
           \A x \in S : f[x] = IF x \in U THEN 1 ELSE 0
    PROVE  Total(f, S) = Cardinality(U)
<1> DEFINE P == { T \in SUBSET S : Total(f, T) = Cardinality(U \cap T) }
<1>1. ASSUME NEW T \in SUBSET S, \A x \in T : T \ {x} \in P PROVE T \in P
  <2>1. IsFiniteSet(T) /\ IsFiniteSet(U \cap T) /\ \A x \in T : f[x] \in Int
    BY FS_Subset
  <2>2. CASE T = {}
    <3>1. Total(f, T) = 0 /\ U \cap T = {}
      BY <2>1, <2>2, TotalFacts
    <3>2. QED
      BY <3>1, FS_EmptySet
  <2>3. CASE T # {}
    <3>1. PICK x \in T : TRUE
      BY <2>3
    <3>2. Total(f, T) = Total(f, T \ {x}) + f[x]
      BY <2>1, TotalFacts
    <3>3. Total(f, T \ {x}) = Cardinality(U \cap (T \ {x}))
      BY <1>1
    <3>4. U \cap (T \ {x}) = (U \cap T) \ {x}
      OBVIOUS
    <3>5. Cardinality((U \cap T) \ {x}) =
            IF x \in U \cap T THEN Cardinality(U \cap T) - 1 ELSE Cardinality(U \cap T)
      BY <2>1, FS_RemoveElement
    <3>6. Cardinality(U \cap T) \in Nat
      BY <2>1, FS_CardinalityType
    <3>7. f[x] = IF x \in U \cap T THEN 1 ELSE 0
      OBVIOUS
    <3>8. Total(f, T) = Cardinality((U \cap T) \ {x}) + f[x]
      BY <3>2, <3>4, <3>3
    <3>9. Total(f, T) = Cardinality(U \cap T)
      BY <3>5, <3>6, <3>7, <3>8
    <3>10. QED
      BY <3>9
  <2>4. QED
    BY <2>2, <2>3
<1>2. SUBSET S \subseteq P
  <2> HIDE DEF P
  <2> QED
    BY <1>1, SubsetInduction
<1>3. U \cap S = U
  OBVIOUS
<1>4. QED
  BY <1>2, <1>3

(* Only the values on the set matter. *)
LEMMA TotalSame ==
    ASSUME NEW S, IsFiniteSet(S), NEW f, NEW e, \A x \in S : f[x] \in Int /\ e[x] = f[x]
    PROVE  Total(e, S) = Total(f, S)
<1>1. PICK g : SumsUp(g, S, f) /\ Total(f, S) = g[S]
  BY TotalIs
<1>2. PICK h : SumsUp(h, S, e) /\ Total(e, S) = h[S]
  BY TotalIs
<1>3. QED
  BY <1>1, <1>2, SumsAgree

(* If no term is negative, the sum is not, and is 0 only if all terms are.  *)
LEMMA TotalNat ==
    ASSUME NEW S, IsFiniteSet(S), NEW f, \A x \in S : f[x] \in Nat
    PROVE  Total(f, S) \in Nat /\ \A x \in S : f[x] <= Total(f, S)
<1> DEFINE P == { T \in SUBSET S : Total(f, T) \in Nat }
<1>1. ASSUME NEW T \in SUBSET S, \A x \in T : T \ {x} \in P PROVE T \in P
  <2>1. IsFiniteSet(T) /\ \A x \in T : f[x] \in Int
    BY FS_Subset
  <2>2. CASE T = {}
    BY <2>1, <2>2, TotalFacts
  <2>3. CASE T # {}
    <3>1. PICK x \in T : TRUE
      BY <2>3
    <3>2. Total(f, T) = Total(f, T \ {x}) + f[x]
      BY <2>1, TotalFacts
    <3>3. QED
      BY <1>1, <3>2
  <2>4. QED
    BY <2>2, <2>3
<1>2. SUBSET S \subseteq P
  <2> HIDE DEF P
  <2> QED
    BY <1>1, SubsetInduction
<1>3. ASSUME NEW x \in S PROVE f[x] <= Total(f, S)
  <2>1. Total(f, S) = Total(f, S \ {x}) + f[x]
    BY TotalFacts
  <2>2. Total(f, S \ {x}) \in Nat
    BY <1>2
  <2>3. QED
    BY <2>1, <2>2
<1>4. QED
  BY <1>2, <1>3

(* The sum of nothing but zeros, ... *)
LEMMA TotalZero ==
    ASSUME NEW S, IsFiniteSet(S), NEW f, \A x \in S : f[x] = 0
    PROVE  Total(f, S) = 0
<1>1. {} \in SUBSET S /\ \A x \in S : f[x] = IF x \in {} THEN 1 ELSE 0
  OBVIOUS
<1>2. Total(f, S) = Cardinality({})
  BY <1>1, TotalCounts
<1>3. QED
  BY <1>2, FS_EmptySet

(* ... and of zeros but for one. *)
LEMMA TotalOne ==
    ASSUME NEW S, IsFiniteSet(S), NEW f, NEW a \in S, f[a] \in Int,
           \A x \in S : x # a => f[x] = 0
    PROVE  Total(f, S) = f[a]
<1>1. Total(f, S) = Total(f, S \ {a}) + f[a]
  <2>1. \A x \in S : f[x] \in Int
    OBVIOUS
  <2>2. QED
    BY <2>1, TotalFacts
<1>2. Total(f, S \ {a}) = 0
  <2>1. IsFiniteSet(S \ {a}) /\ \A x \in S \ {a} : f[x] = 0
    BY FS_RemoveElement
  <2>2. QED
    BY <2>1, TotalZero
<1>3. QED
  BY <1>1, <1>2

(* h is the matrix f with rows and columns exchanged. *)
Exchanged(f, h, S, T) == \A x \in S, y \in T : f[x][y] \in Int /\ h[y][x] = f[x][y]

(* row has the sum of each row of f. *)
SumsOfRows(row, f, S, T) == \A x \in S : row[x] = Total(f[x], T)

(* The entries of a matrix add up to the same by rows and by columns.       *)
LEMMA TotalSwap ==
    ASSUME NEW S, IsFiniteSet(S), NEW T, IsFiniteSet(T),
           NEW f, NEW h, Exchanged(f, h, S, T),
           NEW row, SumsOfRows(row, f, S, T),
           NEW columns, SumsOfRows(columns, h, T, S)
    PROVE  Total(row, S) = Total(columns, T)
<1> USE DEF Exchanged, SumsOfRows
<1> DEFINE col(y) == h[y]
           cols(U) == [y \in T |-> Total(col(y), U)]
           P == { U \in SUBSET S : Total(row, U) = Total(cols(U), T) }
<1>1. \A x \in S : row[x] = Total(f[x], T) /\ row[x] \in Int
  BY TotalFacts
<1>2. \A y \in T : \A x \in S : col(y)[x] = f[x][y] /\ col(y)[x] \in Int
  OBVIOUS
<1>3. \A U : \A y \in T : cols(U)[y] = Total(col(y), U)
  OBVIOUS
<1>7. \A y \in T : columns[y] = Total(col(y), S)
  OBVIOUS
<1> HIDE DEF col, cols
<1>4. ASSUME NEW U \in SUBSET S, \A x \in U : U \ {x} \in P PROVE U \in P
  <2>1. IsFiniteSet(U) /\ \A x \in U : IsFiniteSet(U \ {x})
    BY FS_Subset, FS_RemoveElement
  <2>2. CASE U = {}
    <3>1. Total(row, U) = 0 /\ \A y \in T : cols(U)[y] = 0
      <4>1. Total(row, U) = 0
        BY <1>1, <2>1, <2>2, TotalFacts
      <4>2. ASSUME NEW y \in T PROVE cols(U)[y] = 0
        BY <1>2, <1>3, <2>1, <2>2, TotalFacts
      <4>3. QED
        BY <4>1, <4>2
    <3>2. Total(cols(U), T) = 0
      BY <3>1, TotalZero
    <3>3. QED
      BY <3>1, <3>2
  <2>3. CASE U # {}
    <3>1. PICK x \in U : TRUE
      BY <2>3
    <3>2. Total(row, U) = Total(row, U \ {x}) + row[x]
      BY <1>1, <2>1, TotalFacts
    <3>3. ASSUME NEW y \in T
          PROVE  /\ cols(U \ {x})[y] \in Int
                 /\ cols(U)[y] = cols(U \ {x})[y] + f[x][y]
      <4>1. \A z \in U : col(y)[z] \in Int
        BY <1>2
      <4>2. Total(col(y), U) = Total(col(y), U \ {x}) + col(y)[x]
        BY <2>1, <4>1, TotalFacts
      <4>3. Total(col(y), U \ {x}) \in Int
        BY <2>1, <4>1, TotalFacts
      <4>4. QED
        BY <1>2, <1>3, <4>2, <4>3
    <3>4. Total(cols(U), T) = Total(cols(U \ {x}), T) + Total(f[x], T)
      <4>1. \A y \in T : /\ cols(U \ {x})[y] \in Int /\ f[x][y] \in Int
                         /\ cols(U)[y] = cols(U \ {x})[y] + f[x][y]
        BY <3>3
      <4>2. PICK u, v, w : u = cols(U) /\ v = cols(U \ {x}) /\ w = f[x]
        OBVIOUS
      <4>3. \A y \in T : v[y] \in Int /\ w[y] \in Int /\ u[y] = v[y] + w[y]
        BY <4>1, <4>2
      <4>4. Total(u, T) = Total(v, T) + Total(w, T)
        BY <4>3, TotalPlus
      <4>5. QED
        BY <4>2, <4>4
    <3>5. Total(row, U \ {x}) = Total(cols(U \ {x}), T)
      BY <1>4
    <3>6. QED
      BY <1>1, <3>2, <3>4, <3>5
  <2>4. QED
    BY <2>2, <2>3
<1>5. S \in P
  <2>1. SUBSET S \subseteq P
    <3> HIDE DEF P
    <3> QED
      BY <1>4, SubsetInduction
  <2>2. QED
    BY <2>1
<1>6. Total(columns, T) = Total(cols(S), T)
  <2>1. \A y \in T : columns[y] \in Int /\ cols(S)[y] = columns[y]
    <3>1. \A y \in T : Total(col(y), S) \in Int
      BY <1>2, TotalFacts
    <3>2. QED
      BY <1>3, <1>7, <3>1
  <2>2. QED
    BY <2>1, TotalSame
<1>8. QED
  BY <1>5, <1>6

(* A sequence of numbers without its first. *)
LEMMA TotalShift ==
    ASSUME NEW N \in Nat, NEW f, \A k \in 1 .. N + 1 : f[k] \in Int,
           NEW g, \A k \in 1 .. N : g[k] = f[k + 1]
    PROVE  Total(f, 1 .. N + 1) = f[1] + Total(g, 1 .. N)
<1> DEFINE P == { m \in 0 .. N : Total(f, 1 .. m + 1) = f[1] + Total(g, 1 .. m) }
<1>1. ASSUME NEW m \in 0 .. N
      PROVE  /\ IsFiniteSet(1 .. m) /\ IsFiniteSet(1 .. m + 1)
             /\ \A k \in 1 .. m : g[k] \in Int /\ g[k] = f[k + 1]
             /\ \A k \in 1 .. m + 1 : f[k] \in Int
  <2>1. IsFiniteSet(1 .. m) /\ IsFiniteSet(1 .. m + 1)
    BY FS_Interval
  <2>2. QED
    BY <2>1
<1>2. 0 \in P
  <2>1. 1 .. 0 = {} /\ 1 .. 0 + 1 = {1} /\ {1} \ {1} = {}
    OBVIOUS
  <2>2. 0 \in 0 .. N /\ f[1] \in Int
    OBVIOUS
  <2>3. Total(g, 1 .. 0) = 0
    BY <1>1, <2>1, <2>2, TotalFacts
  <2>4. Total(f, 1 .. 0 + 1) = f[1]
    <3>1. IsFiniteSet({1}) /\ \A x \in {1} : x # 1 => f[x] = 0
      BY <1>1, <2>1, <2>2
    <3>2. Total(f, {1}) = f[1]
      BY <2>2, <3>1, TotalOne
    <3>3. QED
      BY <2>1, <3>2
  <2>5. QED
    BY <2>2, <2>3, <2>4
<1>3. ASSUME NEW m \in 0 .. N - 1, m \in P PROVE m + 1 \in P
  <2>1. m \in 0 .. N /\ m + 1 \in 0 .. N /\ m + 1 + 1 \in 1 .. m + 1 + 1 /\ m + 1 \in 1 .. m + 1
    OBVIOUS
  <2>2. (1 .. m + 1 + 1) \ {m + 1 + 1} = 1 .. m + 1 /\ (1 .. m + 1) \ {m + 1} = 1 .. m
    OBVIOUS
  <2>3. Total(f, 1 .. m + 1 + 1) = Total(f, 1 .. m + 1) + f[m + 1 + 1]
    <3>1. PICK A : A = 1 .. m + 1 + 1
      OBVIOUS
    <3>2. IsFiniteSet(A) /\ (\A k \in A : f[k] \in Int) /\ m + 1 + 1 \in A
      BY <1>1, <2>1, <3>1
    <3>3. Total(f, A) = Total(f, A \ {m + 1 + 1}) + f[m + 1 + 1]
      BY <3>2, TotalFacts
    <3>4. QED
      BY <2>2, <3>1, <3>3
  <2>4. Total(g, 1 .. m + 1) = Total(g, 1 .. m) + g[m + 1]
    <3>1. PICK A : A = 1 .. m + 1
      OBVIOUS
    <3>2. IsFiniteSet(A) /\ (\A k \in A : g[k] \in Int) /\ m + 1 \in A
      BY <1>1, <2>1, <3>1
    <3>3. Total(g, A) = Total(g, A \ {m + 1}) + g[m + 1]
      BY <3>2, TotalFacts
    <3>4. QED
      BY <2>2, <3>1, <3>3
  <2>5. Total(g, 1 .. m) \in Int /\ g[m + 1] = f[m + 1 + 1] /\ g[m + 1] \in Int /\ f[1] \in Int
    <3>1. Total(g, 1 .. m) \in Int
      BY <1>1, <2>1, TotalFacts
    <3>2. g[m + 1] = f[m + 1 + 1] /\ g[m + 1] \in Int /\ f[1] \in Int
      BY <1>1, <2>1
    <3>3. QED
      BY <3>1, <3>2
  <2>6. Total(f, 1 .. m + 1) = f[1] + Total(g, 1 .. m)
    BY <1>3
  <2>7. QED
    BY <2>1, <2>3, <2>4, <2>5, <2>6
<1>4. 0 .. N \subseteq P
  <2> HIDE DEF P
  <2> QED
    BY <1>2, <1>3, IntervalInduction
<1>5. QED
  BY <1>4

-----------------------------------------------------------------------------
(* Folds over a sequence from left to right, which the community modules    *)
(* define over the sets of its indices, the greatest one first.             *)

Greatest(T) == CHOOSE m \in T : \A k \in T : m >= k

LEMMA GreatestFacts ==
    ASSUME NEW N \in Nat
    PROVE  /\ \A T \in (SUBSET (1 .. N)) \ {{}} : Greatest(T) \in T
           /\ \A k \in 1 .. N : Greatest(1 .. k) = k /\ (1 .. k) \ {k} = 1 .. k - 1
<1>1. ASSUME NEW T \in SUBSET (1 .. N), T # {} PROVE Greatest(T) \in T
  <2>1. T \in SUBSET (0 .. N)
    OBVIOUS
  <2>2. PICK m \in T : \A k \in T : k <= m
    BY <1>1, <2>1, GreatestNat
  <2>3. \A k \in T : m >= k
    BY <2>2
  <2>4. QED
    BY <2>3 DEF Greatest
<1>2. ASSUME NEW k \in 1 .. N PROVE Greatest(1 .. k) = k
  <2>1. k \in 1 .. k /\ \A j \in 1 .. k : k >= j
    OBVIOUS
  <2>2. \A m \in 1 .. k : (\A j \in 1 .. k : m >= j) => m = k
    BY <2>1
  <2>3. QED
    BY <2>1, <2>2 DEF Greatest
<1>3. \A k \in 1 .. N : (1 .. k) \ {k} = 1 .. k - 1
  OBVIOUS
<1>4. QED
  BY <1>1, <1>2, <1>3

(* What there is to know of the left fold of a sequence: it is defined on   *)
(* the sets of indices, and on 1 .. k follows from that on 1 .. k - 1.      *)
LeftFolds(it, N, A, base, F) ==
    /\ it \in [SUBSET (1 .. N) -> A]
    /\ it[{}] = base
    /\ \A T \in (SUBSET (1 .. N)) \ {{}} :
         it[T] = F[Greatest(T)][it[T \ {Greatest(T)}]]
    /\ \A k \in 1 .. N : it[1 .. k] = F[k][it[1 .. k - 1]]

LEMMA LeftFoldFacts ==
    ASSUME NEW N \in Nat, NEW A, NEW base \in A, NEW F, IsStep(N, A, F)
    PROVE  \E it : LeftFolds(it, N, A, base, F)
<1> DEFINE S == 1 .. N
           pick == [T \in (SUBSET S) \ {{}} |-> Greatest(T)]
<1>1. IsFiniteSet(S)
  BY FS_Interval
<1>2. \A T \in (SUBSET S) \ {{}} : Greatest(T) \in T
  BY GreatestFacts
<1>3. IsPick(pick, S)
  <2> HIDE DEF S
  <2> QED
    BY <1>2 DEF IsPick
<1>4. F \in [S -> [A -> A]]
  BY DEF IsStep
<1>5. PICK it : FoldsInto(it, S, A, base, pick, F)
  <2> HIDE DEF pick, S
  <2> QED
    BY <1>1, <1>3, <1>4, SetRecursionExists
<1>6. \A T \in (SUBSET S) \ {{}} : it[T] = F[Greatest(T)][it[T \ {Greatest(T)}]]
  <2> HIDE DEF S
  <2> QED
    BY <1>5 DEF FoldsInto
<1>7. it[{}] = base /\ it \in [SUBSET S -> A]
  <2> HIDE DEF S, pick
  <2> QED
    BY <1>5 DEF FoldsInto
<1>8. ASSUME NEW k \in 1 .. N
      PROVE  it[1 .. k] = F[k][it[1 .. k - 1]]
  <2>1. 1 .. k \in (SUBSET (1 .. N)) \ {{}}
    OBVIOUS
  <2>2. Greatest(1 .. k) = k /\ (1 .. k) \ {k} = 1 .. k - 1
    BY GreatestFacts
  <2>3. QED
    BY <1>6, <2>1, <2>2
<1>9. QED
  BY <1>6, <1>7, <1>8 DEF LeftFolds

(* A left fold keeps what its base has and what each of its steps keeps:    *)
(* what it has may depend on the indices that it has come by.               *)
LEMMA FoldKeeps ==
    ASSUME NEW n \in Nat, NEW A, NEW it, it[{}] \in A[{}],
           \A T \in (SUBSET (1 .. n)) \ {{}} :
             it[T \ {Greatest(T)}] \in A[T \ {Greatest(T)}] => it[T] \in A[T]
    PROVE  it[1 .. n] \in A[1 .. n]
<1>1. PICK D, Q : D = 1 .. n /\ Q = { T \in SUBSET (1 .. n) : it[T] \in A[T] }
  OBVIOUS
<1>2. ASSUME NEW T \in SUBSET D, \A x \in T : T \ {x} \in Q PROVE T \in Q
  <2>1. CASE T = {}
    BY <1>1, <2>1
  <2>2. CASE T # {}
    <3>1. Greatest(T) \in T
      BY <1>1, <2>2, GreatestFacts
    <3>2. T \ {Greatest(T)} \in Q
      BY <1>2, <3>1
    <3>3. QED
      BY <1>1, <2>2, <3>2
  <2>3. QED
    BY <2>1, <2>2
<1>3. IsFiniteSet(D)
  BY <1>1, FS_Interval
<1>4. SUBSET D \subseteq Q
  BY <1>2, <1>3, SubsetInduction
<1>5. D \in Q
  BY <1>4
<1>6. QED
  BY <1>1, <1>5

LEMMA FoldStays ==
    ASSUME NEW n \in Nat, NEW A, NEW it, it[{}] \in A,
           \A T \in (SUBSET (1 .. n)) \ {{}} :
             it[T \ {Greatest(T)}] \in A => it[T] \in A
    PROVE  it[1 .. n] \in A
<1>1. PICK B : B = [T \in SUBSET (1 .. n) |-> A]
  OBVIOUS
<1>2. \A T \in SUBSET (1 .. n) : B[T] = A
  BY <1>1
<1>3. /\ it[{}] \in B[{}]
      /\ \A T \in (SUBSET (1 .. n)) \ {{}} :
           it[T \ {Greatest(T)}] \in B[T \ {Greatest(T)}] => it[T] \in B[T]
  BY <1>2
<1>4. it[1 .. n] \in B[1 .. n]
  BY <1>3, FoldKeeps
<1>5. QED
  BY <1>2, <1>4

(* The left fold of a step that stays within A exists, as the community     *)
(* modules define it.                                                       *)
LeftFoldIs(it, n, base, F) ==
    it = [T \in SUBSET (1 .. n) |->
            IF T = {} THEN base ELSE F[Greatest(T)][it[T \ {Greatest(T)}]]]

LEMMA LeftFoldExists ==
    ASSUME NEW n \in Nat, NEW A, NEW base \in A, NEW F, IsStep(n, A, F)
    PROVE  \E it : it \in [SUBSET (1 .. n) -> A] /\ LeftFoldIs(it, n, base, F)
<1>1. PICK it : LeftFolds(it, n, A, base, F)
  BY LeftFoldFacts
<1>2. QED
  BY <1>1 DEF LeftFolds, LeftFoldIs

-----------------------------------------------------------------------------
(* Recursion over anything that is ranked: G[x] tells from a function what  *)
(* its value at x should be, and looks at elements of lower rank only.      *)

RanksLower(rank, D, N, B, G) ==
    /\ rank \in [D -> 1 .. N]
    /\ G \in [D -> [[D -> B] -> B]]
    /\ \A x \in D, g \in [D -> B], h \in [D -> B] :
         (\A y \in D : rank[y] < rank[x] => g[y] = h[y]) => G[x][g] = G[x][h]

(* Such a function exists: take any and improve it as often as there are    *)
(* ranks.                                                                   *)
LEMMA RankedRecursionExists ==
    ASSUME NEW N \in Nat, NEW D, NEW B, NEW b \in B, NEW rank, NEW G,
           RanksLower(rank, D, N, B, G)
    PROVE  \E g \in [D -> B] : \A x \in D : g[x] = G[x][g]
<1> DEFINE A == [D -> B]
           better(h) == [x \in D |-> G[x][h]]
           start == [x \in D |-> b]
           F == [k \in 1 .. N + 1 |-> [h \in A |-> better(h)]]
<1>1. \A h \in A : better(h) \in A
  BY DEF RanksLower
<1>2. IsStep(N + 1, A, F) /\ start \in A
  BY <1>1 DEF IsStep
<1>3. PICK f : Follows(f, N + 1, A, start, F)
  <2> HIDE DEF A, start, F
  <2> QED
    BY <1>2, RecursionExists
<1>4. /\ f \in [0 .. N + 1 -> A]
      /\ \A k \in 0 .. N : f[k + 1] = better(f[k])
  <2>1. f \in [0 .. N + 1 -> A] /\ \A k \in 1 .. N + 1 : f[k] = F[k][f[k - 1]]
    BY <1>3 DEF Follows
  <2>2. ASSUME NEW k \in 0 .. N PROVE f[k + 1] = better(f[k])
    <3>1. k + 1 \in 1 .. N + 1 /\ k + 1 - 1 = k /\ k \in 0 .. N + 1
      OBVIOUS
    <3>2. f[k + 1] = F[k + 1][f[k]] /\ f[k] \in A
      <4> HIDE DEF F, A
      <4>1. f[k + 1] = F[k + 1][f[k + 1 - 1]]
        BY <2>1, <3>1
      <4>2. QED
        BY <2>1, <3>1, <4>1
    <3> HIDE DEF A, better
    <3>3. QED
      BY <3>1, <3>2
  <2>3. QED
    BY <2>1, <2>2
<1> HIDE DEF A, F, start
<1> DEFINE S == { k \in 0 .. N : \A x \in D : rank[x] <= k => f[k][x] = f[k + 1][x] }
<1>5. 0 \in S
  <2>1. \A x \in D : rank[x] \in 1 .. N
    BY DEF RanksLower
  <2>2. \A x \in D : ~ rank[x] <= 0
    BY <2>1
  <2>3. QED
    BY <2>2
<1>6. ASSUME NEW k \in 0 .. N - 1, k \in S PROVE k + 1 \in S
  <2>1. k \in 0 .. N /\ k + 1 \in 0 .. N /\ k \in 0 .. N + 1 /\ k + 1 \in 0 .. N + 1
    OBVIOUS
  <2>2. f[k] \in A /\ f[k + 1] \in A /\ f[k + 1] = better(f[k]) /\ f[k + 1 + 1] = better(f[k + 1])
    BY <1>4, <2>1
  <2>3. ASSUME NEW x \in D, rank[x] <= k + 1 PROVE f[k + 1][x] = f[k + 1 + 1][x]
    <3>1. \A y \in D : rank[y] < rank[x] => f[k][y] = f[k + 1][y]
      <4>1. \A y \in D : rank[y] \in Nat
        BY DEF RanksLower
      <4>2. \A y \in D : rank[y] < rank[x] => rank[y] <= k
        BY <2>3, <4>1
      <4>3. QED
        BY <1>6, <4>2
    <3>2. G[x][f[k]] = G[x][f[k + 1]]
      BY <2>2, <3>1 DEF RanksLower, A
    <3>3. f[k + 1][x] = G[x][f[k]] /\ f[k + 1 + 1][x] = G[x][f[k + 1]]
      BY <2>2
    <3>4. QED
      BY <3>2, <3>3
  <2>4. QED
    BY <2>1, <2>3
<1>7. N \in S
  <2>1. 0 .. N \subseteq S
    <3> HIDE DEF S
    <3> QED
      BY <1>5, <1>6, IntervalInduction
  <2>2. QED
    BY <2>1
<1>8. \A x \in D : f[N][x] = G[x][f[N]]
  <2>1. \A x \in D : f[N][x] = f[N + 1][x]
    BY <1>7 DEF RanksLower
  <2>2. f[N + 1] = better(f[N])
    BY <1>4
  <2>3. QED
    BY <2>1, <2>2
<1>9. f[N] \in [D -> B]
  BY <1>4 DEF A
<1>10. QED
  BY <1>8, <1>9

(* A sequence whose elements each follow from the one before exists.       *)
LEMMA NatRecursionExists ==
    ASSUME NEW A, NEW base \in A, NEW F \in [A -> A]
    PROVE  \E g \in [Nat -> A] : g[0] = base /\ \A k \in Nat : g[k + 1] = F[g[k]]
<1> DEFINE Fs(n) == [k \in 1 .. n |-> F]
           Upto(f, n) == Follows(f, n, A, base, Fs(n))
<1>1. ASSUME NEW n \in Nat PROVE \E f : Upto(f, n)
  <2>1. IsStep(n, A, Fs(n))
    BY DEF IsStep
  <2> HIDE DEF Fs
  <2>2. QED
    BY <2>1, RecursionExists
<1>2. ASSUME NEW n \in Nat, NEW f, Upto(f, n)
      PROVE  f \in [0 .. n -> A] /\ f[0] = base /\ \A k \in 0 .. n - 1 : f[k + 1] = F[f[k]]
  <2>1. f \in [0 .. n -> A] /\ f[0] = base /\ \A k \in 1 .. n : f[k] = Fs(n)[k][f[k - 1]]
    BY <1>2 DEF Follows
  <2>2. ASSUME NEW k \in 0 .. n - 1 PROVE f[k + 1] = F[f[k]]
    <3>1. k + 1 \in 1 .. n /\ k + 1 - 1 = k
      OBVIOUS
    <3>2. f[k + 1] = Fs(n)[k + 1][f[k + 1 - 1]]
      BY <2>1, <3>1
    <3>3. QED
      BY <3>1, <3>2
  <2>3. QED
    BY <2>1, <2>2
<1> DEFINE g == [n \in Nat |-> (CHOOSE f : Upto(f, n))[n]]
<1>3. ASSUME NEW n \in Nat, NEW f, Upto(f, n), NEW h, Upto(h, n + 1)
      PROVE  f[n] = h[n]
  <2>1. f \in [0 .. n -> A] /\ f[0] = base /\ \A k \in 0 .. n - 1 : f[k + 1] = F[f[k]]
    <3> HIDE DEF Upto
    <3> QED
      BY <1>2, <1>3
  <2>2. h[0] = base /\ \A k \in 0 .. n : h[k + 1] = F[h[k]]
    <3>1. n + 1 \in Nat /\ n + 1 - 1 = n
      OBVIOUS
    <3> HIDE DEF Upto
    <3> QED
      BY <1>2, <1>3, <3>1
  <2> DEFINE S == { k \in 0 .. n : f[k] = h[k] }
  <2>3. 0 \in S
    BY <2>1, <2>2
  <2>4. \A k \in 0 .. n - 1 : k \in S => k + 1 \in S
    BY <2>1, <2>2
  <2>5. 0 .. n \subseteq S
    <3> HIDE DEF S
    <3> QED
      BY <2>3, <2>4, IntervalInduction
  <2>6. QED
    BY <2>5
<1>4. ASSUME NEW n \in Nat PROVE \E f : Upto(f, n) /\ g[n] = f[n]
  <2>1. \E f : Upto(f, n)
    BY <1>1
  <2> HIDE DEF Upto
  <2>2. QED
    BY <2>1
<1>5. ASSUME NEW n \in Nat PROVE g[n] \in A /\ g[n + 1] = F[g[n]]
  <2>1. PICK f : Upto(f, n) /\ g[n] = f[n]
    <3> HIDE DEF g, Upto
    <3> QED
      BY <1>4
  <2>2. PICK h : Upto(h, n + 1) /\ g[n + 1] = h[n + 1]
    <3>1. n + 1 \in Nat
      OBVIOUS
    <3> HIDE DEF g, Upto
    <3> QED
      BY <1>4, <3>1
  <2>3. f[n] = h[n] /\ f[n] \in A
    <3>1. f \in [0 .. n -> A]
      <4> HIDE DEF Upto
      <4> QED
        BY <1>2, <2>1
    <3>2. f[n] = h[n]
      <4> HIDE DEF Upto
      <4> QED
        BY <1>3, <2>1, <2>2
    <3>3. QED
      BY <3>1, <3>2
  <2>4. h[n + 1] = F[h[n]]
    <3>1. n + 1 \in Nat /\ n \in 0 .. n + 1 - 1
      OBVIOUS
    <3> HIDE DEF Upto
    <3> QED
      BY <1>2, <2>2, <3>1
  <2> HIDE DEF g
  <2>5. QED
    BY <2>1, <2>2, <2>3, <2>4
<1>6. g[0] = base
  <2>1. PICK f : Upto(f, 0) /\ g[0] = f[0]
    <3> HIDE DEF g, Upto
    <3> QED
      BY <1>4
  <2>2. QED
    BY <2>1 DEF Follows
<1>7. g \in [Nat -> A]
  <2>1. \A n \in Nat : g[n] \in A
    <3> HIDE DEF g
    <3> QED
      BY <1>5
  <2>2. QED
    BY <2>1
<1>8. QED
  <2> HIDE DEF g
  <2> QED
    BY <1>5, <1>6, <1>7

-----------------------------------------------------------------------------
(* The trees of BST.                                                       *)

LEMMA LeavesEnough ==
    ASSUME NEW n \in Nat
    PROVE  /\ NearestPowerOfTwo(n) \in Nat
           /\ NearestPowerOfTwo(n) >= 1 /\ NearestPowerOfTwo(n) >= n
<1> DEFINE F == [v \in Nat |-> 2 * v]
<1>1. PICK g \in [Nat -> Nat] : g[0] = 1 /\ \A k \in Nat : g[k + 1] = F[g[k]]
  <2>1. F \in [Nat -> Nat]
    OBVIOUS
  <2>2. PICK A, one, f : A = Nat /\ one = 1 /\ f = F
    OBVIOUS
  <2>3. one \in A /\ f \in [A -> A]
    BY <2>1, <2>2
  <2>4. \E g \in [Nat -> A] : g[0] = one /\ \A k \in Nat : g[k + 1] = f[g[k]]
    BY <2>3, NatRecursionExists
  <2> HIDE DEF F
  <2>5. QED
    BY <2>2, <2>4
<1>2. \E it : it = [k \in Nat |-> IF k = 0 THEN 1 ELSE 2 * it[k - 1]]
  <2>1. ASSUME NEW k \in Nat PROVE g[k] = IF k = 0 THEN 1 ELSE 2 * g[k - 1]
    <3>1. CASE k = 0
      BY <1>1, <3>1
    <3>2. CASE k # 0
      <4>1. k - 1 \in Nat /\ (k - 1) + 1 = k
        BY <3>2
      <4>2. g[(k - 1) + 1] = F[g[k - 1]] /\ g[k - 1] \in Nat
        BY <1>1, <4>1
      <4>3. QED
        BY <3>2, <4>1, <4>2
    <3>3. QED
      BY <3>1, <3>2
  <2>2. g = [k \in Nat |-> IF k = 0 THEN 1 ELSE 2 * g[k - 1]]
    BY <2>1
  <2>3. QED
    BY <2>2
<1>3. PICK power :
        /\ power = [k \in Nat |-> IF k = 0 THEN 1 ELSE 2 * power[k - 1]]
        /\ NearestPowerOfTwo(n) =
             power[CHOOSE k \in 0 .. n : power[k] >= n /\ \A l \in 0 .. k - 1 : power[l] < n]
  BY <1>2 DEF NearestPowerOfTwo
<1> DEFINE S == { k \in Nat : power[k] \in Nat /\ power[k] >= k + 1 }
<1>4. Nat \subseteq S
  <2>1. 0 \in S
    BY <1>3
  <2>2. ASSUME NEW k \in Nat, k \in S PROVE k + 1 \in S
    <3>1. power[k] \in Nat /\ power[k] >= k + 1
      BY <2>2
    <3>2. power[k + 1] = 2 * power[k]
      <4>1. k + 1 \in Nat /\ k + 1 # 0 /\ k + 1 - 1 = k
        OBVIOUS
      <4>2. QED
        BY <1>3, <4>1
    <3>3. QED
      BY <3>1, <3>2
  <2> HIDE DEF S
  <2>3. QED
    BY <2>1, <2>2, NatInductionSet
<1>5. \A k \in Nat : power[k] \in Nat /\ power[k] >= k + 1
  BY <1>4
<1> DEFINE T == { k \in 0 .. n : power[k] >= n }
<1>6. PICK k \in T : \A l \in T : k <= l
  <2>1. T \in SUBSET Nat /\ n \in T
    BY <1>5
  <2> HIDE DEF T
  <2>2. QED
    BY <2>1, LeastNat
<1>7. k \in 0 .. n /\ power[k] >= n /\ \A l \in 0 .. k - 1 : power[l] < n
  <2>1. ASSUME NEW l \in 0 .. k - 1 PROVE power[l] < n
    <3>1. l \in Nat /\ l \in 0 .. n /\ ~ k <= l /\ power[l] \in Nat
      BY <1>5
    <3>2. l \notin T
      BY <1>6, <3>1
    <3>3. QED
      BY <3>1, <3>2
  <2>2. QED
    BY <2>1
<1>8. PICK c \in 0 .. n : power[c] >= n /\ NearestPowerOfTwo(n) = power[c]
  BY <1>3, <1>7
<1>9. QED
  BY <1>5, <1>8

(* Path: from a position the way goes on from its half. *)
LEMMA PathIs ==
    \A p \in Nat : Path(p) = IF p <= 1 THEN {p} ELSE {p} \cup Path(p \div 2)
<1> DEFINE Closed(S) == \A x \in S : x > 1 => x \div 2 \in S
           Up(p) == { q \in Nat : \A S \in SUBSET Nat : p \in S /\ Closed(S) => q \in S }
<1>1. \A p \in Nat : p > 1 => p \div 2 \in Nat
  OBVIOUS
<1>2. ASSUME NEW p \in Nat PROVE p \in Up(p) /\ Closed(Up(p)) /\ Up(p) \in SUBSET Nat
  <2>1. ASSUME NEW x \in Up(p), x > 1 PROVE x \div 2 \in Up(p)
    <3>1. x \in Nat /\ x \div 2 \in Nat
      BY <1>1, <2>1
    <3>2. QED
      BY <2>1, <3>1
  <2>2. QED
    BY <2>1
<1>3. ASSUME NEW p \in Nat, NEW S \in SUBSET Nat, p \in S, Closed(S) PROVE Up(p) \subseteq S
  BY <1>3
<1>4. ASSUME NEW p \in Nat PROVE Up(p) = IF p <= 1 THEN {p} ELSE {p} \cup Up(p \div 2)
  <2>1. CASE p <= 1
    <3>1. Closed({p}) /\ {p} \in SUBSET Nat
      BY <2>1
    <3>2. Up(p) \subseteq {p} /\ p \in Up(p)
      <4> HIDE DEF Up, Closed
      <4> QED
        BY <1>2, <1>3, <3>1
    <3> HIDE DEF Up, Closed
    <3>3. QED
      BY <2>1, <3>2
  <2>2. CASE p > 1
    <3>1. PICK h \in Nat : h = p \div 2
      BY <1>1, <2>2
    <3>2. h \in Up(p)
      BY <1>2, <2>2, <3>1
    <3>3. Up(h) \subseteq Up(p) /\ p \in Up(p)
      <4> HIDE DEF Up, Closed
      <4> QED
        BY <1>2, <1>3, <3>2
    <3>4. Closed({p} \cup Up(h)) /\ {p} \cup Up(h) \in SUBSET Nat
      <4>1. h \in Up(h) /\ Closed(Up(h)) /\ Up(h) \in SUBSET Nat
        BY <1>2
      <4> HIDE DEF Up
      <4>2. QED
        BY <3>1, <4>1
    <3>5. Up(p) \subseteq {p} \cup Up(h)
      <4> HIDE DEF Up, Closed
      <4> QED
        BY <1>3, <3>4
    <3> HIDE DEF Up, Closed
    <3>6. QED
      BY <2>2, <3>1, <3>3, <3>5
  <2>3. QED
    BY <2>1, <2>2
<1>5. \E it : it = [p \in Nat |-> IF p <= 1 THEN {p} ELSE {p} \cup it[p \div 2]]
  <2> DEFINE up == [p \in Nat |-> Up(p)]
  <2>1. ASSUME NEW p \in Nat
        PROVE  Up(p) = IF p <= 1 THEN {p} ELSE {p} \cup up[p \div 2]
    <3>1. p > 1 => up[p \div 2] = Up(p \div 2)
      BY <1>1
    <3> HIDE DEF up, Up
    <3>2. QED
      BY <1>4, <3>1
  <2>2. up = [p \in Nat |-> IF p <= 1 THEN {p} ELSE {p} \cup up[p \div 2]]
    <3> HIDE DEF Up
    <3> QED
      BY <2>1
  <2> HIDE DEF up
  <2>3. QED
    BY <2>2
<1>6. PICK path : /\ path = [p \in Nat |-> IF p <= 1 THEN {p} ELSE {p} \cup path[p \div 2]]
                  /\ \A p \in Nat : Path(p) = path[p]
  BY <1>5 DEF Path
<1>7. QED
  <2> SUFFICES ASSUME NEW p \in Nat
               PROVE  Path(p) = IF p <= 1 THEN {p} ELSE {p} \cup Path(p \div 2)
    OBVIOUS
  <2>1. path[p] = IF p <= 1 THEN {p} ELSE {p} \cup path[p \div 2]
    BY <1>6
  <2>2. QED
    BY <1>1, <1>6, <2>1

(* The way up from a position to the root passes through any other position *)
(* above it by way of exactly one of the two below that one.                *)
Through(pos) ==
    /\ Path(pos) \subseteq 1 .. pos /\ pos \in Path(pos) /\ 1 \in Path(pos)
    /\ \A p \in Nat \ {0} : p # pos =>
         /\ p \in Path(pos) <=> 2 * p \in Path(pos) \/ 2 * p + 1 \in Path(pos)
         /\ ~ (2 * p \in Path(pos) /\ 2 * p + 1 \in Path(pos))

LEMMA PathGoesThrough ==
    \A pos \in Nat \ {0} : Through(pos)
<1> DEFINE S == { n \in Nat : \A pos \in 1 .. n : Through(pos) }
<1>1. 0 \in S
  OBVIOUS
<1>2. ASSUME NEW n \in Nat, n \in S PROVE n + 1 \in S
  <2>1. CASE n = 0
    <3>1. Path(1) = {1}
      BY PathIs
    <3>2. Through(1)
      BY <3>1 DEF Through
    <3>3. \A pos \in 1 .. n + 1 : pos = 1
      BY <2>1
    <3>4. QED
      BY <3>2, <3>3
  <2>2. CASE n # 0
    <3>1. PICK pos \in Nat : pos = n + 1 /\ pos > 1
      BY <2>2
    <3>2. PICK h \in Nat : h = pos \div 2 /\ h \in 1 .. n /\ h < pos /\ (pos = 2 * h \/ pos = 2 * h + 1)
      BY <3>1
    <3>3. Path(pos) = {pos} \cup Path(h)
      BY <3>1, <3>2, PathIs
    <3>4. /\ Path(h) \subseteq 1 .. h /\ h \in Path(h) /\ 1 \in Path(h)
          /\ \A p \in Nat \ {0} : p # h =>
               /\ p \in Path(h) <=> 2 * p \in Path(h) \/ 2 * p + 1 \in Path(h)
               /\ ~ (2 * p \in Path(h) /\ 2 * p + 1 \in Path(h))
      BY <1>2, <3>2 DEF Through
    <3>5. ASSUME NEW p \in Nat \ {0}, p # pos
          PROVE  /\ p \in Path(pos) <=> 2 * p \in Path(pos) \/ 2 * p + 1 \in Path(pos)
                 /\ ~ (2 * p \in Path(pos) /\ 2 * p + 1 \in Path(pos))
      <4>1. CASE p = h
        <5>1. 2 * p \notin 1 .. h /\ 2 * p + 1 \notin 1 .. h /\ 2 * p # 2 * p + 1
          BY <4>1
        <5>2. 2 * p \notin Path(h) /\ 2 * p + 1 \notin Path(h)
          BY <3>4, <5>1
        <5>3. QED
          BY <3>2, <3>3, <3>4, <4>1, <5>1, <5>2
      <4>2. CASE p # h
        <5>1. 2 * p # pos /\ 2 * p + 1 # pos
          BY <3>2, <4>2
        <5>2. /\ p \in Path(pos) <=> p \in Path(h)
              /\ 2 * p \in Path(pos) <=> 2 * p \in Path(h)
              /\ 2 * p + 1 \in Path(pos) <=> 2 * p + 1 \in Path(h)
          BY <3>3, <3>5, <5>1
        <5>3. QED
          BY <3>4, <4>2, <5>2
      <4>3. QED
        BY <4>1, <4>2
    <3>6. Path(pos) \subseteq 1 .. pos /\ pos \in Path(pos) /\ 1 \in Path(pos)
      BY <3>1, <3>2, <3>3, <3>4
    <3>7. Through(n + 1)
      BY <3>1, <3>5, <3>6 DEF Through
    <3>8. \A k \in 1 .. n + 1 : k = n + 1 \/ k \in 1 .. n
      OBVIOUS
    <3>9. QED
      BY <1>2, <3>7, <3>8
  <2>3. QED
    BY <2>1, <2>2
<1>3. Nat \subseteq S
  <2> HIDE DEF S
  <2> QED
    BY <1>1, <1>2, NatInductionSet
<1>4. QED
  BY <1>3

(* A leaf is on the way up from itself only. *)
LEMMA LeavesApart ==
    ASSUME NEW n \in Nat, NEW pos \in n .. 2 * n - 1, NEW q \in n .. 2 * n - 1
    PROVE  q \in Path(pos) <=> q = pos
<1>1. pos \in Nat \ {0} /\ q \in Nat \ {0}
  OBVIOUS
<1>2. Path(pos) \subseteq 1 .. pos /\ pos \in Path(pos)
  BY <1>1, PathGoesThrough DEF Through
<1>3. ASSUME q # pos, q \in Path(pos) PROVE FALSE
  <2>1. 2 * q \in Path(pos) \/ 2 * q + 1 \in Path(pos)
    BY <1>1, <1>3, PathGoesThrough DEF Through
  <2>2. 2 * q > pos /\ 2 * q + 1 > pos
    OBVIOUS
  <2>3. QED
    BY <1>2, <2>1, <2>2
<1>4. QED
  BY <1>2, <1>3

-----------------------------------------------------------------------------
(* Searching a tree. *)

(* What search finds from a position on, for a bound.                       *)
IsSearch(s, tree) ==
    s = [p \in DOMAIN tree |->
           IF 2 * p \notin DOMAIN tree THEN [b \in Int |-> p]
           ELSE [b \in Int |-> IF b < tree[2 * p] THEN s[2 * p][b]
                              ELSE s[2 * p + 1][b - tree[2 * p]]]]

LEMMA SearchIs ==
    ASSUME NEW n \in Nat, n >= 1, NEW tree \in [1 .. 2 * n - 1 -> Int]
    PROVE  \E s : IsSearch(s, tree) /\ \A b \in Int : Search(tree, b) = s[1][b]
<1> DEFINE P == 1 .. 2 * n - 1
           B == [Int -> P]
           last == 2 * n - 1
           rank == [p \in P |-> last + 1 - p]
           find(g, p) == IF 2 * p \notin P THEN [b \in Int |-> p]
                         ELSE [b \in Int |-> IF b < tree[2 * p] THEN g[2 * p][b]
                                            ELSE g[2 * p + 1][b - tree[2 * p]]]
           G == [p \in P |-> [g \in [P -> B] |-> find(g, p)]]
<1>1. last \in Nat /\ P = 1 .. last /\ 1 \in P /\ DOMAIN tree = P /\ \A p \in P : tree[p] \in Int
  OBVIOUS
<1>2. ASSUME NEW p \in P, 2 * p \in P
      PROVE  2 * p + 1 \in P /\ p < 2 * p /\ p < 2 * p + 1
  BY <1>1, <1>2
<1>3. ASSUME NEW g \in [P -> B], NEW p \in P PROVE find(g, p) \in B
  <2>1. CASE 2 * p \notin P
    BY <2>1
  <2>2. CASE 2 * p \in P
    <3>1. 2 * p + 1 \in P /\ tree[2 * p] \in Int
      BY <1>1, <1>2, <2>2
    <3> HIDE DEF P
    <3>2. g[2 * p] \in [Int -> P] /\ g[2 * p + 1] \in [Int -> P]
      BY <2>2, <3>1
    <3>3. \A b \in Int : b - tree[2 * p] \in Int
      <4>1. PICK t \in Int : t = tree[2 * p]
        BY <3>1
      <4>2. QED
        BY <4>1
    <3>4. \A b \in Int : g[2 * p][b] \in P /\ g[2 * p + 1][b - tree[2 * p]] \in P
      BY <3>2, <3>3
    <3>5. QED
      BY <2>2, <3>4
  <2>3. QED
    BY <2>1, <2>2
<1>4. RanksLower(rank, P, last, B, G)
  <2>1. rank \in [P -> 1 .. last]
    BY <1>1
  <2>2. G \in [P -> [[P -> B] -> B]]
    <3> HIDE DEF P, B, find
    <3> QED
      BY <1>3
  <2>3. ASSUME NEW p \in P, NEW g \in [P -> B], NEW h \in [P -> B],
               \A q \in P : rank[q] < rank[p] => g[q] = h[q]
        PROVE  G[p][g] = G[p][h]
    <3>1. G[p][g] = find(g, p) /\ G[p][h] = find(h, p)
      OBVIOUS
    <3>2. 2 * p \in P => g[2 * p] = h[2 * p] /\ g[2 * p + 1] = h[2 * p + 1]
      <4>1. ASSUME 2 * p \in P PROVE rank[2 * p] < rank[p] /\ rank[2 * p + 1] < rank[p]
        <5>1. 2 * p + 1 \in P /\ p < 2 * p /\ p < 2 * p + 1
          BY <1>2, <4>1
        <5>2. /\ rank[p] = last + 1 - p /\ rank[2 * p] = last + 1 - 2 * p
              /\ rank[2 * p + 1] = last + 1 - (2 * p + 1)
          BY <4>1, <5>1
        <5> HIDE DEF rank, last
        <5>3. p \in Int /\ last \in Int
          BY <1>1
        <5>4. QED
          BY <5>1, <5>2, <5>3
      <4> HIDE DEF rank, P, B
      <4>2. QED
        BY <1>2, <2>3, <4>1
    <3>3. find(g, p) = find(h, p)
      <4> HIDE DEF P
      <4> QED
        BY <3>2
    <3>4. QED
      BY <3>1, <3>3
  <2> HIDE DEF rank, P, B, G, last
  <2>4. QED
    BY <2>1, <2>2, <2>3 DEF RanksLower
<1>5. PICK g \in [P -> B] : \A p \in P : g[p] = G[p][g]
  <2>1. PICK b : b \in B
    <3>1. [x \in Int |-> 1] \in B
      BY <1>1
    <3>2. QED
      BY <3>1
  <2> HIDE DEF rank, P, B, G, last, find
  <2>2. PICK pp, bb, rr, gg : pp = P /\ bb = B /\ rr = rank /\ gg = G
    OBVIOUS
  <2>3. \E g \in [pp -> bb] : \A p \in pp : g[p] = gg[p][g]
    <3>1. RanksLower(rr, pp, last, bb, gg) /\ last \in Nat /\ b \in bb
      BY <1>1, <1>4, <2>1, <2>2
    <3>2. QED
      BY <3>1, RankedRecursionExists
  <2>4. QED
    BY <2>2, <2>3
<1>6. IsSearch(g, tree)
  <2>1. \A p \in P : g[p] = find(g, p)
    BY <1>5
  <2> HIDE DEF P, B
  <2>2. g = [p \in P |-> find(g, p)]
    <3> HIDE DEF find
    <3> QED
      BY <1>5, <2>1
  <2>3. QED
    BY <1>1, <2>2 DEF IsSearch
<1>7. PICK s : IsSearch(s, tree) /\ \A b \in Int : Search(tree, b) = s[1][b]
  <2>1. \E s : s = [p \in DOMAIN tree |->
           IF 2 * p \notin DOMAIN tree THEN [b \in Int |-> p]
           ELSE [b \in Int |-> IF b < tree[2 * p] THEN s[2 * p][b]
                              ELSE s[2 * p + 1][b - tree[2 * p]]]]
    BY <1>6 DEF IsSearch
  <2>2. QED
    BY <2>1 DEF Search, IsSearch
<1>8. QED
  BY <1>7

(* A bound below the weight of a position leads to a leaf that has weight.  *)
LEMMA SearchFinds ==
    ASSUME NEW n \in Nat, n >= 1, NEW tree \in [1 .. 2 * n - 1 -> Nat],
           \A p \in 1 .. n - 1 : tree[p] <= tree[2 * p] + tree[2 * p + 1],
           NEW b \in 0 .. tree[1] - 1
    PROVE  /\ Search(tree, b) \in n .. 2 * n - 1
           /\ tree[Search(tree, b)] > 0
<1> DEFINE last == 2 * n - 1
<1>1. /\ last \in Nat /\ DOMAIN tree = 1 .. last
      /\ \A p \in 1 .. n - 1 : tree[p] <= tree[2 * p] + tree[2 * p + 1]
      /\ \A p \in 1 .. last : tree[p] \in Nat
  OBVIOUS
<1>2. PICK s : IsSearch(s, tree) /\ \A c \in Int : Search(tree, c) = s[1][c]
  <2>1. tree \in [1 .. 2 * n - 1 -> Int]
    OBVIOUS
  <2>2. QED
    BY <2>1, SearchIs
<1> HIDE DEF last
<1> DEFINE Found(p) == \A c \in 0 .. tree[p] - 1 : s[p][c] \in n .. last /\ tree[s[p][c]] > 0
           S == { k \in 0 .. last : \A p \in 1 .. last : p > last - k => Found(p) }
<1>3. 0 \in S
  <2>1. \A p \in 1 .. last : ~ p > last - 0
    BY <1>1
  <2>2. QED
    BY <1>1, <2>1
<1>4. ASSUME NEW p \in 1 .. last, p >= n PROVE Found(p)
  <2>1. 2 * p \notin 1 .. last /\ p \in n .. last
    BY <1>1, <1>4 DEF last
  <2>2. s[p] = [c \in Int |-> p]
    BY <1>1, <1>2, <2>1 DEF IsSearch
  <2>3. ASSUME NEW c \in 0 .. tree[p] - 1 PROVE s[p][c] = p /\ tree[p] > 0
    BY <1>1, <2>2
  <2>4. QED
    BY <2>1, <2>3
<1>5. ASSUME NEW p \in 1 .. n - 1, Found(2 * p), Found(2 * p + 1) PROVE Found(p)
  <2>1. p \in 1 .. last /\ 2 * p \in 1 .. last /\ 2 * p + 1 \in 1 .. last
    BY <1>1 DEF last
  <2>2. /\ tree[p] <= tree[2 * p] + tree[2 * p + 1]
        /\ tree[p] \in Nat /\ tree[2 * p] \in Nat /\ tree[2 * p + 1] \in Nat
    BY <1>1, <2>1
  <2>3. s[p] = [c \in Int |-> IF c < tree[2 * p] THEN s[2 * p][c]
                             ELSE s[2 * p + 1][c - tree[2 * p]]]
    BY <1>1, <1>2, <2>1 DEF IsSearch
  <2>4. ASSUME NEW c \in 0 .. tree[p] - 1 PROVE s[p][c] \in n .. last /\ tree[s[p][c]] > 0
    <3>1. CASE c < tree[2 * p]
      <4>1. c \in 0 .. tree[2 * p] - 1 /\ s[p][c] = s[2 * p][c]
        BY <2>2, <2>3, <3>1
      <4>2. QED
        BY <1>5, <4>1
    <3>2. CASE ~ c < tree[2 * p]
      <4>1. PICK x \in Nat, y \in Nat : x = tree[2 * p] /\ y = tree[2 * p + 1]
        BY <2>2
      <4>2. c \in Nat /\ c < x + y /\ ~ c < x
        BY <2>2, <3>2, <4>1
      <4>3. c - x \in 0 .. y - 1 /\ c \in Int
        BY <4>2
      <4>4. s[p][c] = s[2 * p + 1][c - x]
        BY <2>3, <3>2, <4>1, <4>3
      <4>5. QED
        BY <1>5, <4>1, <4>3, <4>4
    <3>3. QED
      BY <3>1, <3>2
  <2>5. QED
    BY <2>4
<1>6. ASSUME NEW k \in 0 .. last - 1, k \in S PROVE k + 1 \in S
  <2>1. k + 1 \in 0 .. last
    BY <1>1
  <2>2. ASSUME NEW p \in 1 .. last, p > last - (k + 1) PROVE Found(p)
    <3> HIDE DEF Found
    <3>1. CASE p > last - k
      BY <1>6, <3>1
    <3>2. CASE p >= n
      BY <1>4, <3>2
    <3>3. CASE ~ p > last - k /\ ~ p >= n
      <4>1. p \in 1 .. n - 1 /\ p = last - k
        BY <1>1, <2>2, <3>3
      <4>2. 2 * p \in 1 .. last /\ 2 * p + 1 \in 1 .. last /\ 2 * p > last - k /\ 2 * p + 1 > last - k
        BY <1>1, <4>1 DEF last
      <4>3. Found(2 * p) /\ Found(2 * p + 1)
        BY <1>6, <4>2
      <4>4. QED
        BY <1>5, <4>1, <4>3
    <3>4. QED
      BY <3>1, <3>2, <3>3
  <2> HIDE DEF Found
  <2>3. QED
    BY <2>1, <2>2
<1>7. 0 .. last \subseteq S
  <2> HIDE DEF S
  <2> QED
    BY <1>1, <1>3, <1>6, IntervalInduction
<1>8. Found(1)
  <2>1. 1 \in 1 .. last /\ 1 > last - last /\ last \in 0 .. last
    BY <1>1 DEF last
  <2> HIDE DEF Found
  <2>3. last \in S
    <3> HIDE DEF S
    <3> QED
      BY <1>7, <2>1
  <2>2. QED
    BY <2>1, <2>3
<1>9. b \in Int /\ Search(tree, b) = s[1][b]
  <2>1. b \in Int
    OBVIOUS
  <2>2. QED
    BY <1>2, <2>1
<1>10. QED
  BY <1>8, <1>9 DEF last

(* If every inner position weighs what the two below it do, a leaf is found *)
(* for exactly as many of the bounds as it weighs.                          *)
LEMMA SearchCounts ==
    ASSUME NEW n \in Nat, n >= 1, NEW tree \in [1 .. 2 * n - 1 -> Nat],
           \A p \in 1 .. n - 1 : tree[p] = tree[2 * p] + tree[2 * p + 1],
           NEW q \in n .. 2 * n - 1
    PROVE  Cardinality({ b \in 0 .. tree[1] - 1 : Search(tree, b) = q }) = tree[q]
<1> DEFINE last == 2 * n - 1
<1>1. /\ last \in Nat /\ DOMAIN tree = 1 .. last
      /\ \A p \in 1 .. n - 1 : tree[p] = tree[2 * p] + tree[2 * p + 1]
      /\ \A p \in 1 .. last : tree[p] \in Nat
      /\ q \in 1 .. last
  OBVIOUS
<1>2. PICK s : IsSearch(s, tree) /\ \A c \in Int : Search(tree, c) = s[1][c]
  <2>1. tree \in [1 .. 2 * n - 1 -> Int]
    OBVIOUS
  <2>2. QED
    BY <2>1, SearchIs
<1> HIDE DEF last
<1> DEFINE Bounds(p) == { c \in 0 .. tree[p] - 1 : s[p][c] = q }
           Counted(p) == Cardinality(Bounds(p)) = IF p \in Path(q) THEN tree[q] ELSE 0
           S == { k \in 0 .. last : \A p \in 1 .. last : p > last - k => Counted(p) }
<1>3. 0 \in S
  <2>1. \A p \in 1 .. last : ~ p > last - 0
    BY <1>1
  <2>2. QED
    BY <1>1, <2>1
<1>4. ASSUME NEW p \in 1 .. last, p >= n PROVE Counted(p)
  <2>1. 2 * p \notin 1 .. last /\ p \in n .. 2 * n - 1
    BY <1>1, <1>4 DEF last
  <2>2. s[p] = [c \in Int |-> p]
    BY <1>1, <1>2, <2>1 DEF IsSearch
  <2>3. p \in Path(q) <=> p = q
    BY <2>1, LeavesApart
  <2>4. CASE p = q
    <3>1. PICK w \in Nat : w = tree[q]
      BY <1>1
    <3>2. Bounds(p) = 0 .. w - 1
      BY <2>2, <2>4, <3>1
    <3>3. Cardinality(0 .. w - 1) = w
      <4>1. CASE w = 0
        BY <4>1, FS_Interval
      <4>2. CASE w # 0
        BY <4>2, FS_Interval
      <4>3. QED
        BY <4>1, <4>2
    <3>4. QED
      BY <2>3, <2>4, <3>1, <3>2, <3>3
  <2>5. CASE p # q
    <3>1. Bounds(p) = {}
      BY <2>2, <2>5
    <3>2. QED
      BY <2>3, <2>5, <3>1, FS_EmptySet
  <2>6. QED
    BY <2>4, <2>5
<1>5. ASSUME NEW p \in 1 .. n - 1, Counted(2 * p), Counted(2 * p + 1) PROVE Counted(p)
  <2>1. p \in 1 .. last /\ 2 * p \in 1 .. last /\ 2 * p + 1 \in 1 .. last /\ p # q
    BY <1>1 DEF last
  <2>2. PICK x \in Nat, y \in Nat : x = tree[2 * p] /\ y = tree[2 * p + 1]
    BY <1>1, <2>1
  <2>3. tree[p] = x + y
    BY <1>1, <2>2
  <2>4. s[p] = [c \in Int |-> IF c < x THEN s[2 * p][c] ELSE s[2 * p + 1][c - x]]
    BY <1>1, <1>2, <2>1, <2>2 DEF IsSearch
  <2> DEFINE A == Bounds(2 * p)
             B == Bounds(2 * p + 1)
             C == { c \in x .. x + y - 1 : s[2 * p + 1][c - x] = q }
             f == [c \in B |-> c + x]
  <2>5. A = { c \in 0 .. x - 1 : s[2 * p][c] = q } /\ B = { c \in 0 .. y - 1 : s[2 * p + 1][c] = q }
    BY <2>2
  <2>6. Bounds(p) = A \cup C /\ A \cap C = {}
    <3>1. Bounds(p) = { c \in 0 .. x + y - 1 : s[p][c] = q }
      BY <2>3
    <3>2. \A c \in 0 .. x - 1 : s[p][c] = s[2 * p][c]
      BY <2>4
    <3>3. \A c \in x .. x + y - 1 : s[p][c] = s[2 * p + 1][c - x]
      BY <2>4
    <3>4. 0 .. x + y - 1 = (0 .. x - 1) \cup (x .. x + y - 1) /\ (0 .. x - 1) \cap (x .. x + y - 1) = {}
      OBVIOUS
    <3> HIDE DEF Bounds
    <3>5. QED
      BY <2>5, <3>1, <3>2, <3>3, <3>4
  <2>7. IsFiniteSet(A) /\ IsFiniteSet(B)
    <3>1. IsFiniteSet(0 .. x - 1) /\ IsFiniteSet(0 .. y - 1)
      <4>1. 0 \in Int /\ x - 1 \in Int /\ y - 1 \in Int
        OBVIOUS
      <4>2. QED
        BY <4>1, FS_Interval
    <3>2. A \subseteq 0 .. x - 1 /\ B \subseteq 0 .. y - 1
      BY <2>5
    <3> HIDE DEF A, B
    <3>3. QED
      BY <3>1, <3>2, FS_Subset
  <2>8. f \in [B -> C]
    <3>1. \A c \in B : c + x \in C
      <4> SUFFICES ASSUME NEW c \in B PROVE c + x \in C
        OBVIOUS
      <4>1. c \in 0 .. y - 1 /\ s[2 * p + 1][c] = q
        BY <2>5
      <4>2. c + x \in x .. x + y - 1 /\ (c + x) - x = c
        BY <4>1
      <4>3. QED
        BY <4>1, <4>2
    <3> HIDE DEF B, C
    <3>2. QED
      BY <3>1
  <2>9. \A c, d \in B : f[c] = f[d] => c = d
    BY <2>5
  <2>10. \A c \in C : \E d \in B : f[d] = c
    <3> SUFFICES ASSUME NEW c \in C PROVE \E d \in B : f[d] = c
      OBVIOUS
    <3>1. c - x \in 0 .. y - 1 /\ (c - x) + x = c /\ s[2 * p + 1][c - x] = q
      <4>1. c \in x .. x + y - 1 /\ s[2 * p + 1][c - x] = q
        OBVIOUS
      <4> HIDE DEF A, B, C, f, Bounds
      <4>2. c - x \in 0 .. y - 1 /\ (c - x) + x = c
        BY <4>1
      <4>3. QED
        BY <4>1, <4>2
    <3>2. c - x \in B
      BY <2>5, <3>1
    <3> HIDE DEF B, C
    <3>3. f[c - x] = c
      BY <3>1, <3>2
    <3>4. QED
      BY <3>2, <3>3
  <2>11. IsFiniteSet(C) /\ Cardinality(C) = Cardinality(B)
    <3> HIDE DEF B, C, f
    <3> QED
      BY <2>7, <2>8, <2>9, <2>10, SameCount
  <2>12. Cardinality(Bounds(p)) = Cardinality(A) + Cardinality(B)
    <3>1. Cardinality(A \cap C) = 0
      BY <2>6, FS_EmptySet
    <3>2. Cardinality(A) \in Nat /\ Cardinality(B) \in Nat
      BY <2>7, FS_CardinalityType
    <3> HIDE DEF A, B, C, Bounds
    <3>3. Cardinality(A \cup C) = Cardinality(A) + Cardinality(C) - Cardinality(A \cap C)
      BY <2>7, <2>11, FS_Union
    <3>4. QED
      BY <2>6, <2>11, <3>1, <3>2, <3>3
  <2>13. PICK e \in Nat : e = tree[q]
    BY <1>1
  <2>14. /\ Cardinality(A) = IF 2 * p \in Path(q) THEN e ELSE 0
         /\ Cardinality(B) = IF 2 * p + 1 \in Path(q) THEN e ELSE 0
    BY <1>5, <2>13
  <2>15. /\ p \in Path(q) <=> 2 * p \in Path(q) \/ 2 * p + 1 \in Path(q)
         /\ ~ (2 * p \in Path(q) /\ 2 * p + 1 \in Path(q))
    <3>1. q \in Nat \ {0} /\ p \in Nat \ {0}
      BY <1>1, <2>1
    <3>2. QED
      BY <2>1, <3>1, PathGoesThrough DEF Through
  <2> HIDE DEF A, B, C, Bounds
  <2>16. CASE 2 * p \in Path(q)
    BY <2>12, <2>13, <2>14, <2>15, <2>16
  <2>17. CASE 2 * p \notin Path(q)
    BY <2>12, <2>13, <2>14, <2>15, <2>17
  <2>18. QED
    BY <2>16, <2>17
<1>6. ASSUME NEW k \in 0 .. last - 1, k \in S PROVE k + 1 \in S
  <2>1. k + 1 \in 0 .. last
    BY <1>1
  <2>2. ASSUME NEW p \in 1 .. last, p > last - (k + 1) PROVE Counted(p)
    <3> HIDE DEF Counted
    <3>1. CASE p > last - k
      BY <1>6, <3>1
    <3>2. CASE p >= n
      BY <1>4, <3>2
    <3>3. CASE ~ p > last - k /\ ~ p >= n
      <4>1. p \in 1 .. n - 1 /\ p = last - k
        BY <1>1, <2>2, <3>3
      <4>2. 2 * p \in 1 .. last /\ 2 * p + 1 \in 1 .. last /\ 2 * p > last - k /\ 2 * p + 1 > last - k
        BY <1>1, <4>1 DEF last
      <4>3. Counted(2 * p) /\ Counted(2 * p + 1)
        BY <1>6, <4>2
      <4>4. QED
        BY <1>5, <4>1, <4>3
    <3>4. QED
      BY <3>1, <3>2, <3>3
  <2> HIDE DEF Counted
  <2>3. QED
    BY <2>1, <2>2
<1>7. 0 .. last \subseteq S
  <2> HIDE DEF S
  <2> QED
    BY <1>1, <1>3, <1>6, IntervalInduction
<1>8. Counted(1)
  <2>1. 1 \in 1 .. last /\ 1 > last - last /\ last \in 0 .. last
    BY <1>1 DEF last
  <2> HIDE DEF Counted
  <2>2. last \in S
    <3> HIDE DEF S
    <3> QED
      BY <1>7, <2>1
  <2>3. QED
    BY <2>1, <2>2
<1>9. { b \in 0 .. tree[1] - 1 : Search(tree, b) = q } = Bounds(1)
  <2>1. \A b \in 0 .. tree[1] - 1 : Search(tree, b) = s[1][b]
    BY <1>2
  <2>2. QED
    BY <2>1
<1>10. 1 \in Path(q)
  BY <1>1, PathGoesThrough DEF Through
<1>11. QED
  BY <1>8, <1>9, <1>10

(* The sum over two sets that are apart. *)
LEMMA TotalUnion ==
    ASSUME NEW U, IsFiniteSet(U), NEW V, IsFiniteSet(V), U \cap V = {},
           NEW f, \A x \in U \cup V : f[x] \in Int
    PROVE  Total(f, U \cup V) = Total(f, U) + Total(f, V)
<1> DEFINE P == { T \in SUBSET U : Total(f, T \cup V) = Total(f, T) + Total(f, V) }
<1>1. Total(f, V) \in Int
  BY TotalFacts
<1>2. ASSUME NEW T \in SUBSET U, \A x \in T : T \ {x} \in P PROVE T \in P
  <2>1. IsFiniteSet(T) /\ IsFiniteSet(T \cup V) /\ \A x \in T \cup V : f[x] \in Int
    BY FS_Subset, FS_Union
  <2>2. CASE T = {}
    <3>1. Total(f, T) = 0 /\ T \cup V = V
      BY <2>1, <2>2, TotalFacts
    <3>2. PICK v \in Int : v = Total(f, V)
      BY <1>1
    <3>3. Total(f, T \cup V) = Total(f, T) + Total(f, V)
      <4>1. Total(f, T \cup V) = v
        BY <3>1, <3>2, Zenon
      <4>2. v = 0 + v
        OBVIOUS
      <4>3. QED
        BY <3>1, <3>2, <4>1, <4>2, Zenon
    <3>4. QED
      BY <3>3
  <2>3. CASE T # {}
    <3>1. PICK x \in T : TRUE
      BY <2>3
    <3>2. T \ {x} \in P /\ (T \cup V) \ {x} = (T \ {x}) \cup V
      BY <1>2, <3>1
    <3>3. /\ Total(f, T) = Total(f, T \ {x}) + f[x]
          /\ Total(f, T \cup V) = Total(f, (T \cup V) \ {x}) + f[x]
      BY <2>1, TotalFacts
    <3>4. Total(f, T \ {x}) \in Int /\ f[x] \in Int
      <4>1. IsFiniteSet(T \ {x}) /\ \A y \in T \ {x} : f[y] \in Int
        BY <2>1, FS_RemoveElement
      <4>2. QED
        BY <2>1, <4>1, TotalFacts
    <3>5. Total(f, (T \ {x}) \cup V) = Total(f, T \ {x}) + Total(f, V)
      BY <3>2
    <3>6. PICK k \in Int, v \in Int, r \in Int : k = Total(f, T \ {x}) /\ v = Total(f, V) /\ r = f[x]
      BY <1>1, <3>4
    <3>7. Total(f, T) = k + r /\ Total(f, T \cup V) = (k + v) + r
      BY <3>2, <3>3, <3>5, <3>6, Zenon
    <3>8. (k + v) + r = (k + r) + v
      OBVIOUS
    <3>9. Total(f, T \cup V) = Total(f, T) + Total(f, V)
      BY <3>6, <3>7, <3>8, Zenon
    <3>10. QED
      BY <3>9
  <2>4. QED
    BY <2>2, <2>3
<1>3. SUBSET U \subseteq P
  <2> HIDE DEF P
  <2> QED
    BY <1>2, SubsetInduction
<1>4. QED
  BY <1>3

(* The tree that build_tree makes of these weights. *)
IsBuilt(tree, n, weights, uniform) ==
    /\ tree \in [1 .. 2 * n - 1 -> Nat]
    /\ \A q \in n .. 2 * n - 1 :
         tree[q] = IF q - n \in DOMAIN weights THEN weights[q - n] ELSE 0
    /\ \A p \in 1 .. n - 1 : tree[p] <= tree[2 * p] + tree[2 * p + 1]
    /\ ~ uniform => \A p \in 1 .. n - 1 : tree[p] = tree[2 * p] + tree[2 * p + 1]

LEMMA BuiltTree ==
    ASSUME NEW N \in Nat, NEW weights \in [0 .. N - 1 -> Nat], NEW uniform \in BOOLEAN
    PROVE  IsBuilt(BuildTree(weights, uniform), NearestPowerOfTwo(N), weights, uniform)
<1> DEFINE D == 0 .. N - 1
           share == [o \in D |-> Share(weights[o], uniform)]
           tree == BuildTree(weights, uniform)
<1>1. IsFiniteSet(D) /\ Cardinality(D) = N /\ DOMAIN weights = D
  <2>1. 0 \in Int /\ N - 1 \in Int
    OBVIOUS
  <2>2. IsFiniteSet(D) /\ Cardinality(D) = IF 0 > N - 1 THEN 0 ELSE N - 1 - 0 + 1
    BY <2>1, FS_Interval
  <2>3. QED
    BY <2>2
<1>2. PICK n \in Nat : n = NearestPowerOfTwo(N) /\ n >= 1 /\ n >= N
  BY LeavesEnough
<1>3. \A o \in D : share[o] \in Nat /\ share[o] <= weights[o] /\ (~ uniform => share[o] = weights[o])
  BY DEF Share
<1> DEFINE Under(p) == { o \in D : p \in Path(n + o) }
           Value(p) == Total(share, Under(p))
<1>4. \A p \in 1 .. 2 * n - 1 : Under(p) \in SUBSET D /\ IsFiniteSet(Under(p)) /\ Value(p) \in Nat
  <2> SUFFICES ASSUME NEW p \in 1 .. 2 * n - 1
               PROVE  Under(p) \in SUBSET D /\ IsFiniteSet(Under(p)) /\ Value(p) \in Nat
    OBVIOUS
  <2>1. Under(p) \in SUBSET D
    OBVIOUS
  <2> HIDE DEF Under, share
  <2>2. IsFiniteSet(Under(p))
    BY <1>1, <2>1, FS_Subset
  <2>3. \A o \in Under(p) : share[o] \in Nat
    BY <1>3, <2>1
  <2>4. QED
    BY <2>1, <2>2, <2>3, TotalNat
<1>5. /\ DOMAIN tree = 1 .. 2 * n - 1 /\ tree = [p \in DOMAIN tree |-> tree[p]]
      /\ \A q \in n .. 2 * n - 1 : tree[q] = IF q - n \in D THEN weights[q - n] ELSE 0
      /\ \A p \in 1 .. n - 1 : tree[p] = Value(p)
  <2> DEFINE Sum(U) ==
               LET sum[S \in SUBSET U] ==
                     IF S = {} THEN 0
                     ELSE LET o == CHOOSE x \in S : TRUE
                          IN  sum[S \ {o}] + Share(weights[o], uniform)
               IN  sum[U]
  <2>1. tree = [p \in 1 .. 2 * n - 1 |->
                  IF p >= n THEN IF p - n \in D THEN weights[p - n] ELSE 0
                  ELSE Sum(Under(p))]
    <3> DEFINE leaves == NearestPowerOfTwo(Cardinality(DOMAIN weights))
               under(p) == { o \in DOMAIN weights : p \in Path(leaves + o) }
    <3>1. tree = [p \in 1 .. 2 * leaves - 1 |->
                    IF p >= leaves THEN IF p - leaves \in DOMAIN weights THEN weights[p - leaves] ELSE 0
                    ELSE Sum(under(p))]
      BY DEF BuildTree, Positions
    <3>2. leaves = n /\ DOMAIN weights = D /\ \A p : under(p) = Under(p)
      BY <1>1, <1>2
    <3> HIDE DEF tree, Sum, leaves, under, Under, D
    <3>3. QED
      BY <3>1, <3>2
  <2>2. ASSUME NEW U \in SUBSET D PROVE Sum(U) = Total(share, U)
    <3>1. IsFiniteSet(U) /\ \A o \in U : share[o] \in Int /\ share[o] = Share(weights[o], uniform)
      <4>1. IsFiniteSet(U)
        BY <1>1, FS_Subset
      <4>2. QED
        BY <1>3, <4>1
    <3>2. PICK g : SumsUp(g, U, share) /\ Total(share, U) = g[U]
      <4> HIDE DEF share
      <4> QED
        BY <3>1, TotalIs
    <3> DEFINE Same(h) == h = [S \in SUBSET U |->
                     IF S = {} THEN 0
                     ELSE h[S \ {CHOOSE x \in S : TRUE}]
                            + Share(weights[CHOOSE x \in S : TRUE], uniform)]
    <3>3. ASSUME NEW h PROVE Same(h) <=> SumsUp(h, U, share)
      <4>1. \A S \in SUBSET U : S # {} => (CHOOSE x \in S : TRUE) \in U
        OBVIOUS
      <4>2. \A S \in SUBSET U : S # {} =>
              share[CHOOSE x \in S : TRUE] = Share(weights[CHOOSE x \in S : TRUE], uniform)
        <5> HIDE DEF share
        <5> QED
          BY <3>1, <4>1
      <4> HIDE DEF share
      <4>3. [S \in SUBSET U |->
                     IF S = {} THEN 0
                     ELSE h[S \ {CHOOSE x \in S : TRUE}]
                            + Share(weights[CHOOSE x \in S : TRUE], uniform)]
            = [S \in SUBSET U |->
                     IF S = {} THEN 0
                     ELSE h[S \ {CHOOSE x \in S : TRUE}] + share[CHOOSE x \in S : TRUE]]
        BY <4>2
      <4>4. QED
        BY <4>3, Zenon DEF SumsUp
    <3>4. \E h : Same(h)
      <4> HIDE DEF Same, share
      <4> QED
        BY <3>2, <3>3
    <3>5. PICK h : Same(h) /\ Sum(U) = h[U]
      <4> HIDE DEF share, Under, tree
      <4> QED
        BY <3>4
    <3>6. SumsUp(h, U, share)
      <4> HIDE DEF Same, share
      <4> QED
        BY <3>3, <3>5
    <3>7. h[U] = g[U]
      <4> HIDE DEF Same, share, Sum, D, tree
      <4>1. PICK sh : sh = share
        OBVIOUS
      <4>2. /\ IsFiniteSet(U) /\ SumsUp(g, U, sh) /\ SumsUp(h, U, sh)
            /\ \A o \in U : sh[o] \in Int
        BY <3>1, <3>2, <3>6, <4>1
      <4>3. U \in SUBSET U /\ \A o \in U : sh[o] = sh[o]
        OBVIOUS
      <4>4. QED
        BY <4>2, <4>3, SumsAgree
    <3>8. QED
      BY <3>2, <3>5, <3>7
  <2> HIDE DEF tree, Under, Sum, share
  <2>3. \A p \in 1 .. n - 1 : p \in 1 .. 2 * n - 1 /\ ~ p >= n
    OBVIOUS
  <2>4. \A q \in n .. 2 * n - 1 : q \in 1 .. 2 * n - 1 /\ q >= n
    BY <1>2
  <2>5. ASSUME NEW p \in 1 .. n - 1 PROVE tree[p] = Value(p)
    <3>1. Under(p) \in SUBSET D
      BY <1>4, <2>3
    <3>2. tree[p] = Sum(Under(p))
      BY <2>1, <2>3
    <3>3. QED
      BY <2>2, <3>1, <3>2
  <2>6. QED
    BY <2>1, <2>4, <2>5
<1>6. ASSUME NEW q \in n .. 2 * n - 1
      PROVE  Value(q) <= tree[q] /\ (~ uniform => Value(q) = tree[q]) /\ tree[q] \in Nat
  <2>1. \A o \in D : q \in Path(n + o) <=> q = n + o
    <3> SUFFICES ASSUME NEW o \in D PROVE q \in Path(n + o) <=> q = n + o
      OBVIOUS
    <3>1. n + o \in n .. 2 * n - 1
      BY <1>2
    <3>2. QED
      BY <3>1, LeavesApart
  <2>2. CASE q - n \in D
    <3>1. Under(q) = {q - n}
      <4>1. \A o \in D : q = n + o <=> o = q - n
        OBVIOUS
      <4>2. QED
        BY <2>1, <2>2, <4>1
    <3>2. share[q - n] \in Int /\ share[q - n] \in Nat /\ IsFiniteSet(Under(q))
      <4>1. q \in 1 .. 2 * n - 1
        BY <1>2
      <4> HIDE DEF share, Under
      <4>2. QED
        BY <1>3, <1>4, <2>2, <4>1
    <3>3. Value(q) = share[q - n]
      <4> HIDE DEF share
      <4>1. PICK a : a = q - n
        OBVIOUS
      <4>2. Under(q) = {a} /\ a \in Under(q)
        BY <3>1, <4>1
      <4> HIDE DEF Under
      <4>3. \A x \in Under(q) : x # a => share[x] = 0
        BY <4>2
      <4>4. QED
        BY <3>2, <4>1, <4>2, <4>3, TotalOne
    <3>4. tree[q] = weights[q - n]
      BY <1>5, <2>2
    <3> HIDE DEF tree, share, Value
    <3>5. QED
      BY <1>3, <2>2, <3>2, <3>3, <3>4
  <2>3. CASE q - n \notin D
    <3>1. Under(q) = {}
      <4>1. \A o \in D : q = n + o => o = q - n
        OBVIOUS
      <4>2. QED
        BY <2>1, <2>3, <4>1
    <3>2. Value(q) = 0
      <4> HIDE DEF share, Under
      <4> QED
        BY <3>1, FS_EmptySet, TotalFacts
    <3>3. tree[q] = 0
      BY <1>5, <2>3
    <3>4. QED
      BY <3>2, <3>3
  <2>4. QED
    BY <2>2, <2>3
<1>7. ASSUME NEW p \in 1 .. n - 1 PROVE Value(p) = Value(2 * p) + Value(2 * p + 1)
  <2>1. p \in Nat \ {0} /\ 2 * p \in 1 .. 2 * n - 1 /\ 2 * p + 1 \in 1 .. 2 * n - 1
    OBVIOUS
  <2>2. \A o \in D : /\ p \in Path(n + o) <=> 2 * p \in Path(n + o) \/ 2 * p + 1 \in Path(n + o)
                     /\ ~ (2 * p \in Path(n + o) /\ 2 * p + 1 \in Path(n + o))
    <3> SUFFICES ASSUME NEW o \in D
                 PROVE  /\ p \in Path(n + o) <=> 2 * p \in Path(n + o) \/ 2 * p + 1 \in Path(n + o)
                        /\ ~ (2 * p \in Path(n + o) /\ 2 * p + 1 \in Path(n + o))
      OBVIOUS
    <3>1. n + o \in Nat \ {0} /\ p # n + o
      BY <1>2
    <3>2. QED
      BY <2>1, <3>1, PathGoesThrough DEF Through
  <2>3. Under(p) = Under(2 * p) \cup Under(2 * p + 1) /\ Under(2 * p) \cap Under(2 * p + 1) = {}
    BY <2>2
  <2>4. PICK U, V : U = Under(2 * p) /\ V = Under(2 * p + 1)
    OBVIOUS
  <2>5. IsFiniteSet(U) /\ IsFiniteSet(V) /\ U \cap V = {} /\ \A o \in U \cup V : share[o] \in Int
    <3> HIDE DEF Under, share
    <3>1. U \in SUBSET D /\ V \in SUBSET D /\ IsFiniteSet(U) /\ IsFiniteSet(V)
      BY <1>4, <2>1, <2>4
    <3>2. QED
      BY <1>3, <2>3, <2>4, <3>1
  <2> HIDE DEF Under, share
  <2>6. Total(share, U \cup V) = Total(share, U) + Total(share, V)
    BY <2>5, TotalUnion
  <2>7. QED
    BY <2>3, <2>4, <2>6
<1> HIDE DEF tree, Value, share
<1>8. ASSUME NEW p \in 1 .. 2 * n - 1
      PROVE  Value(p) <= tree[p] /\ (~ uniform => Value(p) = tree[p]) /\ tree[p] \in Nat
  <2>1. CASE p < n
    <3>1. p \in 1 .. n - 1
      BY <2>1
    <3>2. tree[p] = Value(p) /\ Value(p) \in Nat
      BY <1>4, <1>5, <3>1
    <3>3. QED
      BY <3>2
  <2>2. CASE ~ p < n
    <3>1. p \in n .. 2 * n - 1
      BY <2>2
    <3>2. QED
      BY <1>6, <3>1
  <2>3. QED
    BY <2>1, <2>2
<1>9. ASSUME NEW p \in 1 .. n - 1
      PROVE  /\ tree[p] <= tree[2 * p] + tree[2 * p + 1]
             /\ ~ uniform => tree[p] = tree[2 * p] + tree[2 * p + 1]
  <2>1. 2 * p \in 1 .. 2 * n - 1 /\ 2 * p + 1 \in 1 .. 2 * n - 1
    OBVIOUS
  <2>2. PICK v \in Nat, w \in Nat : v = Value(2 * p) /\ w = Value(2 * p + 1)
    BY <1>4, <2>1
  <2>3. PICK x \in Nat, y \in Nat : x = tree[2 * p] /\ y = tree[2 * p + 1]
    BY <1>8, <2>1
  <2>4. v <= x /\ w <= y /\ (~ uniform => v = x /\ w = y)
    BY <1>8, <2>1, <2>2, <2>3
  <2>5. tree[p] = v + w
    BY <1>5, <1>7, <2>2
  <2>6. QED
    BY <2>3, <2>4, <2>5
<1>10. tree \in [1 .. 2 * n - 1 -> Nat]
  BY <1>5, <1>8
<1>11. IsBuilt(tree, n, weights, uniform)
  BY <1>1, <1>5, <1>9, <1>10 DEF IsBuilt
<1>12. QED
  BY <1>2, <1>11 DEF tree

(* What is sampled, uniformly or not, has packets. *)
LEMMA SamplesHavePackets ==
    ASSUME NEW N \in Nat, NEW weights \in [0 .. N - 1 -> Nat], NEW uniform \in BOOLEAN,
           NEW o \in Samples(weights, uniform)
    PROVE  o \in 0 .. N - 1 /\ weights[o] > 0
<1>1. Cardinality(DOMAIN weights) = N
  <2>1. 0 \in Int /\ N - 1 \in Int
    OBVIOUS
  <2>2. Cardinality(0 .. N - 1) = IF 0 > N - 1 THEN 0 ELSE N - 1 - 0 + 1
    BY <2>1, FS_Interval
  <2>3. QED
    BY <2>2
<1>2. PICK n \in Nat : n = NearestPowerOfTwo(N) /\ n >= 1
  BY LeavesEnough
<1>3. PICK tree : tree = BuildTree(weights, uniform) /\ IsBuilt(tree, n, weights, uniform)
  BY <1>2, BuiltTree
<1>4. PICK b \in 0 .. tree[1] - 1 : o = Search(tree, b) - n
  BY <1>1, <1>2, <1>3 DEF Samples, SampleAt, Draws
<1>5. PICK q : q = Search(tree, b)
  OBVIOUS
<1>6. q \in n .. 2 * n - 1 /\ tree[q] > 0
  <2>1. tree \in [1 .. 2 * n - 1 -> Nat] /\ \A p \in 1 .. n - 1 : tree[p] <= tree[2 * p] + tree[2 * p + 1]
    BY <1>3 DEF IsBuilt
  <2>2. QED
    BY <1>2, <1>5, <2>1, SearchFinds
<1>7. tree[q] = IF q - n \in DOMAIN weights THEN weights[q - n] ELSE 0
  BY <1>3, <1>6 DEF IsBuilt
<1>8. q - n \in DOMAIN weights /\ tree[q] = weights[q - n]
  BY <1>6, <1>7
<1>9. QED
  BY <1>4, <1>5, <1>6, <1>8
=============================================================================
