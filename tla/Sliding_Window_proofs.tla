----------------------- MODULE Sliding_Window_proofs -----------------------
(***************************************************************************)
(* Proofs about Sliding_Window_QPS, SW_QPS_Best_Fit and Sliding_Window_RR, *)
(* for any ports, any size of the window, any MaxAccepts and both values   *)
(* of the flag "batching": the window is right, the queue of the sampler   *)
(* has an entry per packet, and every class implements the abstract batch  *)
(* scheduler.                                                              *)
(***************************************************************************)
EXTENDS MC_Sliding_Window, SW_QPS_Best_Fit, BatchScheduler_proofs, InductionLemmas

(* The slots in which a port is matched. *)
InputBusy(sched, i) == { f \in Slots : sched[f][i] # None }
OutputBusy(sched, o) == { f \in Slots : Matched(sched, f, o) # {} }

(* The window w is that of the schedules sched. *)
Agrees(w, sched) ==
    /\ \A i \in Inputs :
         /\ w.inputMatchBitmap[i] = InputBusy(sched, i)
         /\ w.inputAvailability[i] = BatchSize - Cardinality(InputBusy(sched, i))
    /\ \A o \in Outputs :
         /\ w.outputMatchBitmap[o] = OutputBusy(sched, o)
         /\ w.outputAvailability[o] = BatchSize - Cardinality(OutputBusy(sched, o))

(* The inductive invariant of the two classes that keep nothing else. That  *)
(* the slots are matchings is needed for the counters of the outputs: the   *)
(* code gives an output one slot back per input that it was matched to.     *)
SWInv == IInv /\ Agrees(window, schedules)

LEMMA AgreesIsWindowAgrees == Agrees(window, schedules) <=> WindowAgrees
BY DEF Agrees, WindowAgrees, InputBusy, OutputBusy

LEMMA BusyFinite ==
    ASSUME NEW sched, NEW p
    PROVE  /\ IsFiniteSet(InputBusy(sched, p)) /\ Cardinality(InputBusy(sched, p)) \in Nat
           /\ IsFiniteSet(OutputBusy(sched, p)) /\ Cardinality(OutputBusy(sched, p)) \in Nat
<1>1. IsFiniteSet(Slots)
  BY FS_Interval, BatchSizePos DEF Slots
<1>2. InputBusy(sched, p) \in SUBSET Slots /\ OutputBusy(sched, p) \in SUBSET Slots
  BY DEF InputBusy, OutputBusy
<1>3. QED
  BY <1>1, <1>2, FS_Subset, FS_CardinalityType

-----------------------------------------------------------------------------
(* What handing out and placing do to the window.                          *)

(* A window that agrees still does once a slot has been handed out. *)
LEMMA DispatchedAgrees ==
    ASSUME NEW sched \in Schedules, NEW t \in Slots, NEW w,
           IsMatching(sched[t]), Agrees(w, sched)
    PROVE  Agrees(Dispatched(w, sched, t), Cleared(sched, t))
<1> DEFINE d == Dispatched(w, sched, t)
           after == Cleared(sched, t)
<1>1. ASSUME NEW i \in Inputs
      PROVE  /\ d.inputMatchBitmap[i] = InputBusy(after, i)
             /\ d.inputAvailability[i] = BatchSize - Cardinality(InputBusy(after, i))
  <2>1. InputBusy(after, i) = InputBusy(sched, i) \ {t}
    BY NoneIsNoPort DEF InputBusy, Cleared, NoMatch, Schedules, Assignments
  <2>2. t \in InputBusy(sched, i) <=> sched[t][i] # None
    BY DEF InputBusy
  <2>3. Cardinality(InputBusy(sched, i) \ {t}) =
          IF t \in InputBusy(sched, i) THEN Cardinality(InputBusy(sched, i)) - 1
          ELSE Cardinality(InputBusy(sched, i))
    BY BusyFinite, FS_RemoveElement
  <2>4. /\ d.inputMatchBitmap[i] =
             w.inputMatchBitmap[i] \ (IF sched[t][i] # None THEN {t} ELSE {})
        /\ d.inputAvailability[i] =
             w.inputAvailability[i] + (IF sched[t][i] # None THEN 1 ELSE 0)
    BY DEF Dispatched
  <2>5. /\ w.inputMatchBitmap[i] = InputBusy(sched, i)
        /\ w.inputAvailability[i] = BatchSize - Cardinality(InputBusy(sched, i))
    BY DEF Agrees
  <2> HIDE DEF d, after
  <2>6. d.inputMatchBitmap[i] = InputBusy(after, i)
    BY <2>1, <2>2, <2>4, <2>5
  <2>7. d.inputAvailability[i] = BatchSize - Cardinality(InputBusy(after, i))
    BY <2>1, <2>2, <2>3, <2>4, <2>5, BusyFinite, BatchSizePos
  <2>8. QED
    BY <2>6, <2>7
<1>2. ASSUME NEW o \in Outputs
      PROVE  /\ d.outputMatchBitmap[o] = OutputBusy(after, o)
             /\ d.outputAvailability[o] = BatchSize - Cardinality(OutputBusy(after, o))
  <2>1. OutputBusy(after, o) = OutputBusy(sched, o) \ {t}
    BY NoneIsNoPort DEF OutputBusy, Matched, Cleared, NoMatch, Schedules, Assignments
  <2>2. t \in OutputBusy(sched, o) <=> Matched(sched, t, o) # {}
    BY DEF OutputBusy
  <2>3. Cardinality(OutputBusy(sched, o) \ {t}) =
          IF t \in OutputBusy(sched, o) THEN Cardinality(OutputBusy(sched, o)) - 1
          ELSE Cardinality(OutputBusy(sched, o))
    BY BusyFinite, FS_RemoveElement
  <2>4. Cardinality(Matched(sched, t, o)) = IF Matched(sched, t, o) # {} THEN 1 ELSE 0
    <3>1. CASE Matched(sched, t, o) = {}
      BY <3>1, FS_EmptySet
    <3>2. CASE Matched(sched, t, o) # {}
      <4>1. PICK i : Matched(sched, t, o) = {i}
        BY <3>2, NoneIsNoPort DEF Matched, IsMatching
      <4>2. QED
        BY <4>1, FS_Singleton
    <3>3. QED
      BY <3>1, <3>2
  <2>5. /\ d.outputMatchBitmap[o] =
             w.outputMatchBitmap[o] \ (IF Matched(sched, t, o) # {} THEN {t} ELSE {})
        /\ d.outputAvailability[o] =
             w.outputAvailability[o] + Cardinality(Matched(sched, t, o))
    BY DEF Dispatched
  <2>6. /\ w.outputMatchBitmap[o] = OutputBusy(sched, o)
        /\ w.outputAvailability[o] = BatchSize - Cardinality(OutputBusy(sched, o))
    BY DEF Agrees
  <2> HIDE DEF d, after
  <2>7. d.outputMatchBitmap[o] = OutputBusy(after, o)
    BY <2>1, <2>2, <2>5, <2>6
  <2>8. d.outputAvailability[o] = BatchSize - Cardinality(OutputBusy(after, o))
    BY <2>1, <2>2, <2>3, <2>4, <2>5, <2>6, BusyFinite, BatchSizePos
  <2>9. QED
    BY <2>7, <2>8
<1>3. QED
  BY <1>1, <1>2 DEF Agrees

(* ... and once fit proposals have been placed. *)
LEMMA ReservedAgrees ==
    ASSUME NEW sched \in Schedules, NEW prop \in Assignments, NEW at \in Placements,
           NEW voq, Fit(sched, voq, prop, at), NEW w, Agrees(w, sched)
    PROVE  Agrees(Reserved(w, prop, at), Place(sched, prop, at))
<1> DEFINE r == Reserved(w, prop, at)
           after == Place(sched, prop, at)
<1>1. \A f \in Slots, i \in Inputs : after[f][i] = IF at[i] = f THEN prop[i] ELSE sched[f][i]
  BY DEF Place
<1>2. \A i \in Inputs : at[i] \in Slots \cup {None}
  BY DEF Placements
<1>3. \A f \in Slots : f # None
  BY NoneIsNoPort DEF Slots
<1>4. ASSUME NEW i \in Inputs
      PROVE  /\ r.inputMatchBitmap[i] = InputBusy(after, i)
             /\ r.inputAvailability[i] = BatchSize - Cardinality(InputBusy(after, i))
  <2>1. /\ r.inputMatchBitmap[i] = w.inputMatchBitmap[i] \cup ({at[i]} \ {None})
        /\ r.inputAvailability[i] =
             w.inputAvailability[i] - (IF at[i] # None THEN 1 ELSE 0)
    BY DEF Reserved
  <2>2. /\ w.inputMatchBitmap[i] = InputBusy(sched, i)
        /\ w.inputAvailability[i] = BatchSize - Cardinality(InputBusy(sched, i))
    BY DEF Agrees
  <2> HIDE DEF r, after
  <2>3. InputBusy(after, i) = InputBusy(sched, i) \cup ({at[i]} \ {None})
    BY <1>1, <1>2, <1>3 DEF InputBusy, Fit
  <2>4. CASE at[i] = None
    <3>1. InputBusy(after, i) = InputBusy(sched, i)
      BY <2>3, <2>4
    <3>2. QED
      BY <2>1, <2>2, <2>4, <3>1, BusyFinite, BatchSizePos
  <2>5. CASE at[i] # None
    <3>1. InputBusy(after, i) = InputBusy(sched, i) \cup {at[i]} /\ at[i] \notin InputBusy(sched, i)
      BY <2>3, <2>5 DEF InputBusy, Fit
    <3>2. Cardinality(InputBusy(after, i)) = Cardinality(InputBusy(sched, i)) + 1
      BY <3>1, BusyFinite, FS_AddElement
    <3>3. QED
      BY <2>1, <2>2, <2>5, <3>1, <3>2, BusyFinite, BatchSizePos
  <2>6. QED
    BY <2>4, <2>5
<1>5. ASSUME NEW o \in Outputs
      PROVE  /\ r.outputMatchBitmap[o] = OutputBusy(after, o)
             /\ r.outputAvailability[o] = BatchSize - Cardinality(OutputBusy(after, o))
  <2> DEFINE placed == { i \in Proposers(prop, o) : at[i] # None }
             new == { at[i] : i \in placed }
             slotOf == [i \in placed |-> at[i]]
  <2>1. /\ r.outputMatchBitmap[o] = w.outputMatchBitmap[o] \cup new
        /\ r.outputAvailability[o] = w.outputAvailability[o] - Cardinality(placed)
    BY DEF Reserved
  <2>2. /\ w.outputMatchBitmap[o] = OutputBusy(sched, o)
        /\ w.outputAvailability[o] = BatchSize - Cardinality(OutputBusy(sched, o))
    BY DEF Agrees
  <2>3. OutputBusy(after, o) = OutputBusy(sched, o) \cup new
    <3> HIDE DEF after, r
    <3>1. \A f \in Slots : f \in new <=> \E i \in Inputs : at[i] = f /\ prop[i] = o
      BY <1>3 DEF Proposers
    <3>2. new \subseteq Slots
      BY <1>2 DEF Proposers
    <3>3. \A f \in Slots, i \in Inputs : at[i] = f => sched[f][i] = None
      BY <1>3 DEF Fit
    <3>4. o # None
      BY NoneIsNoPort
    <3> HIDE DEF new
    <3>5. \A f \in Slots : Matched(after, f, o) # {} <=> Matched(sched, f, o) # {} \/ f \in new
      BY <1>1, <3>1, <3>3, <3>4 DEF Matched
    <3>6. QED
      BY <3>2, <3>5 DEF OutputBusy
  <2>4. new \cap OutputBusy(sched, o) = {}
    BY DEF Fit, OutputBusy, Matched, Proposers
  <2>5. IsFiniteSet(new) /\ Cardinality(new) = Cardinality(placed) /\ Cardinality(new) \in Nat
    <3>1. IsFiniteSet(Slots)
      BY FS_Interval, BatchSizePos DEF Slots
    <3>2. slotOf \in [placed -> new]
      OBVIOUS
    <3>3. \A i, j \in placed : slotOf[i] = slotOf[j] => i = j
      BY DEF Fit, Proposers
    <3>4. \A f \in new : \E i \in placed : slotOf[i] = f
      OBVIOUS
    <3>5. new \in SUBSET Slots
      BY <1>2 DEF Proposers
    <3>6. IsFiniteSet(new)
      BY <3>1, <3>5, FS_Subset
    <3> HIDE DEF new, placed, slotOf
    <3>7. slotOf \in Injection(placed, new)
      BY <3>2, <3>3 DEF Injection, IsInjective
    <3>8. IsFiniteSet(placed)
      BY <3>6, <3>7, FS_Injection
    <3>9. QED
      BY <3>2, <3>3, <3>4, <3>8, SameCount, FS_CardinalityType
  <2>6. Cardinality(OutputBusy(after, o)) =
          Cardinality(OutputBusy(sched, o)) + Cardinality(placed)
    <3>1. OutputBusy(sched, o) \cap new = {}
      BY <2>4
    <3> HIDE DEF new, placed, after
    <3>2. Cardinality(OutputBusy(after, o)) =
            Cardinality(OutputBusy(sched, o)) + Cardinality(new) - 0
      BY <2>3, <2>5, <3>1, BusyFinite, FS_Union, FS_EmptySet
    <3>3. QED
      BY <2>5, <3>2, BusyFinite
  <2> HIDE DEF new, placed, after, r
  <2>7. QED
    BY <2>1, <2>2, <2>3, <2>5, <2>6, BusyFinite, BatchSizePos
<1>6. QED
  BY <1>4, <1>5 DEF Agrees

-----------------------------------------------------------------------------
(* First fit.                                                              *)

(* First fit finds a slot if one is free and the counters allow it ...      *)
LEMMA FirstFitFinds ==
    ASSUME NEW w, NEW i, NEW o, NEW taken, slot \in Slots,
           w.outputAvailability[o] # Cardinality(taken), w.inputAvailability[i] # 0,
           NEW f \in Reach,
           f \notin w.inputMatchBitmap[i] \cup w.outputMatchBitmap[o] \cup taken
    PROVE  /\ FirstFit(w, i, o, taken) \in Slots
           /\ FirstFit(w, i, o, taken)
                \notin w.inputMatchBitmap[i] \cup w.outputMatchBitmap[o] \cup taken
<1> DEFINE free == { g \in Reach : g \notin
                       w.inputMatchBitmap[i] \cup w.outputMatchBitmap[o] \cup taken }
           offsets == { Offset(g) : g \in free }
<1>1. free \subseteq Slots /\ free # {}
  BY BatchSizePos DEF Reach, Slots
<1>2. \A g \in free : Offset(g) \in Nat
  <2> SUFFICES ASSUME NEW g \in free PROVE Offset(g) \in Nat
    OBVIOUS
  <2>1. g \in 0 .. BatchSize - 1 /\ slot \in 0 .. BatchSize - 1 /\ BatchSize \in Nat \ {0}
    BY <1>1, BatchSizePos DEF Slots
  <2>2. g + BatchSize - slot \in 0 .. 2 * BatchSize - 1
    BY <2>1
  <2> HIDE DEF free
  <2>3. QED
    BY <2>1, <2>2, ModBelowTwice DEF Offset
<1>3. offsets \in SUBSET Nat /\ offsets # {}
  BY <1>1, <1>2
<1>4. PICK least \in offsets : \A d \in offsets : least <= d
  <2> HIDE DEF offsets
  <2> QED
    BY <1>3, LeastNat
<1>5. \E g \in free : \A h \in free : Offset(g) <= Offset(h)
  BY <1>4
<1>6. QED
  BY <1>1, <1>5 DEF FirstFit

(* ... and otherwise none: what it returns is free on both sides and not    *)
(* one of those just taken.                                                 *)
LEMMA FirstFitFree ==
    ASSUME NEW w, NEW i, NEW o, NEW taken, slot \in Slots
    PROVE  \/ FirstFit(w, i, o, taken) = None
           \/ /\ FirstFit(w, i, o, taken) \in Slots
              /\ FirstFit(w, i, o, taken)
                   \notin w.inputMatchBitmap[i] \cup w.outputMatchBitmap[o] \cup taken
<1>1. \/ FirstFit(w, i, o, taken) = None
      \/ /\ w.outputAvailability[o] # Cardinality(taken) /\ w.inputAvailability[i] # 0
         /\ \E f \in Reach :
              f \notin w.inputMatchBitmap[i] \cup w.outputMatchBitmap[o] \cup taken
  BY DEF FirstFit
<1>2. QED
  BY <1>1, FirstFitFinds

(* Whatever order the proposers of an output take their slots in, if no two *)
(* have the same turn, and whichever of them are accepted, first fit is fit. *)
LEMMA FirstFitIsFit ==
    ASSUME slot \in Slots, NEW sched, NEW voq, NEW w, Agrees(w, sched),
           NEW prop \in Assignments, NEW acc, NEW rank, NEW at \in Placements,
           \A i \in acc : i \in Inputs /\ prop[i] # None /\ voq[i][prop[i]] > 0,
           \A i, j \in acc : prop[i] = prop[j] /\ i # j =>
              rank[i] \in Int /\ rank[i] # rank[j],
           IsFirstFit(w, prop, acc, rank, at)
    PROVE  Fit(sched, voq, prop, at)
<1> SUFFICES ASSUME NEW i \in Inputs, at[i] # None
             PROVE  /\ prop[i] # None /\ voq[i][prop[i]] > 0
                    /\ sched[at[i]][i] = None
                    /\ \A j \in Inputs :
                         /\ sched[at[i]][j] # prop[i]
                         /\ at[j] = at[i] /\ prop[j] = prop[i] => i = j
  BY DEF Fit
<1>1. \A j \in Inputs : at[j] # None =>
        /\ j \in acc /\ at[j] \in Slots
        /\ at[j] \notin w.inputMatchBitmap[j] \cup w.outputMatchBitmap[prop[j]]
                          \cup Taken(prop, acc, rank, at, j)
  <2> SUFFICES ASSUME NEW j \in Inputs, at[j] # None
               PROVE  /\ j \in acc /\ at[j] \in Slots
                      /\ at[j] \notin w.inputMatchBitmap[j] \cup w.outputMatchBitmap[prop[j]]
                                        \cup Taken(prop, acc, rank, at, j)
    OBVIOUS
  <2>1. j \in acc /\ at[j] = FirstFit(w, j, prop[j], Taken(prop, acc, rank, at, j))
    BY DEF IsFirstFit
  <2>2. QED
    BY <2>1, FirstFitFree
<1>2. prop[i] \in Outputs
  BY <1>1 DEF Assignments
<1>3. sched[at[i]][i] = None
  BY <1>1 DEF Agrees, InputBusy
<1>4. \A j \in Inputs : sched[at[i]][j] # prop[i]
  <2>1. at[i] \in Slots /\ at[i] \notin OutputBusy(sched, prop[i])
    BY <1>1, <1>2 DEF Agrees
  <2>2. QED
    BY <2>1 DEF OutputBusy, Matched
<1>5. ASSUME NEW j \in Inputs, at[j] = at[i], prop[j] = prop[i], i # j PROVE FALSE
  <2>1. i \in acc /\ j \in acc
    BY <1>1, <1>5
  <2>2. rank[i] < rank[j] \/ rank[j] < rank[i]
    BY <1>5, <2>1
  <2>3. at[i] \in Taken(prop, acc, rank, at, j) \/ at[j] \in Taken(prop, acc, rank, at, i)
    BY <1>5, <2>1, <2>2 DEF Taken
  <2>4. QED
    BY <1>1, <1>5, <2>3
<1>6. QED
  BY <1>1, <1>3, <1>4, <1>5

-----------------------------------------------------------------------------
(* The steps of all the classes.                                           *)

LEMMA SWInit == Init => SWInv /\ BatchInit
<1> SUFFICES ASSUME Init PROVE SWInv /\ BatchInit
  OBVIOUS
<1>1. BatchInit /\ IInv
  BY InvInit DEF Init
<1>2. \A f \in Slots, i \in Inputs : schedules[f][i] = None
  BY <1>1 DEF BatchInit, NoMatch
<1>3. \A i \in Inputs : InputBusy(schedules, i) = {}
  BY <1>2 DEF InputBusy
<1>4. \A o \in Outputs : OutputBusy(schedules, o) = {}
  BY <1>2, NoneIsNoPort DEF OutputBusy, Matched
<1>5. Agrees(window, schedules)
  BY <1>3, <1>4, FS_EmptySet, BatchSizePos DEF Init, FreeWindow, Agrees
<1>6. QED
  BY <1>1, <1>5 DEF SWInv

LEMMA SWOthers ==
    ASSUME SWInv, WindowStep \/ Reset \/ UNCHANGED swVars
    PROVE  SWInv' /\ [BatchNext]_vars
<1>1. CASE WindowStep
  <2>1. schedules' = schedules /\ window' = window /\ BatchNext
    BY <1>1 DEF WindowStep, SwitchStep, batchVars, BatchNext
  <2>2. QED
    BY <2>1, InvStep DEF SWInv, Agrees, InputBusy, OutputBusy, Matched
<1>2. CASE Reset
  <2>1. BatchReset /\ window' = FreeWindow
    BY <1>2 DEF Reset
  <2>2. \A f \in Slots, i \in Inputs : schedules'[f][i] = None
    BY <2>1 DEF BatchReset, NoMatch
  <2>3. \A i \in Inputs : InputBusy(schedules', i) = {}
    BY <2>2 DEF InputBusy
  <2>4. \A o \in Outputs : OutputBusy(schedules', o) = {}
    BY <2>2, NoneIsNoPort DEF OutputBusy, Matched
  <2>5. Agrees(window', schedules')
    BY <2>1, <2>3, <2>4, FS_EmptySet, BatchSizePos DEF FreeWindow, Agrees
  <2>6. Agrees(window, schedules)'
    BY <2>5 DEF Agrees, InputBusy, OutputBusy, Matched
  <2>7. QED
    BY <2>1, <2>6, InvStep DEF SWInv, BatchNext
<1>3. CASE UNCHANGED swVars
  BY <1>3, InvStep DEF swVars, vars, batchVars, SWInv, Agrees, InputBusy, OutputBusy, Matched
<1>4. QED
  BY <1>1, <1>2, <1>3

(* The schedules that packets are placed in, and their window. *)
LEMMA OpenFacts ==
    ASSUME SWInv
    PROVE  /\ slot \in Slots /\ schedules \in Schedules /\ Open \in Schedules
           /\ Arrived \in QueueLengths
           /\ \A f \in Slots : IsMatching(Open[f])
           /\ Agrees(OpenWindow, Open)
<1>1. /\ slot \in Slots /\ schedules \in Schedules /\ Agrees(window, schedules)
      /\ \A f \in Slots : IsMatching(schedules[f])
  BY DEF SWInv, IInv, BatchTypeOK, SlotsAreMatchings, Schedules
<1>2. Arrived \in QueueLengths
  BY EnqueueType DEF SWInv, IInv, BatchTypeOK, SwitchTypeOK, Arrived
<1>3. Agrees(Dispatched(window, schedules, slot), Cleared(schedules, slot))
  BY <1>1, DispatchedAgrees
<1>4. QED
  BY <1>1, <1>2, <1>3, ClearedType, ClearedMatching DEF Open, OpenWindow

(* A call of schedule() that places fit proposals and keeps the window.     *)
LEMMA SWPlacing ==
    ASSUME SWInv, NEW prop \in Assignments, NEW at \in Placements,
           Fit(Open, Arrived, prop, at), SchedulePlacing(prop, at),
           window' = NextWindow(prop, at)
    PROVE  SWInv' /\ BatchSchedule
<1> DEFINE placed == Place(Open, prop, at)
<1>1. BatchSchedule
  BY PlacingSchedules DEF SWInv, IInv
<1>2. IInv'
  BY <1>1, InvStep DEF SWInv, BatchNext
<1>3. /\ slot \in Slots /\ Open \in Schedules /\ Agrees(OpenWindow, Open)
      /\ \A f \in Slots : IsMatching(Open[f])
  BY OpenFacts
<1>4. placed \in Schedules
  BY <1>3, PlaceType
<1>5. \A f \in Slots : IsMatching(placed[f])
  <2>1. Placed = placed /\ Legal(Open, Placed)
    BY <1>1, PlacingPlaced DEF SWInv, IInv, BatchSchedule
  <2>2. QED
    BY <1>3, <2>1, LegalMatching
<1>6. Agrees(Reserved(OpenWindow, prop, at), placed)
  BY <1>3, ReservedAgrees
<1>7. schedules' = Kept(placed)
  BY DEF SchedulePlacing, ScheduleBatch
<1>8. Agrees(window', schedules')
  <2> HIDE DEF placed
  <2>1. CASE DispatchFirst
    BY <1>6, <1>7, <2>1 DEF NextWindow, Kept
  <2>2. CASE ~DispatchFirst
    <3>1. Agrees(Dispatched(Reserved(OpenWindow, prop, at), placed, slot), Cleared(placed, slot))
      BY <1>3, <1>4, <1>5, <1>6, DispatchedAgrees
    <3>2. QED
      BY <1>7, <2>2, <3>1 DEF NextWindow, Kept, placed
  <2>3. QED
    BY <2>1, <2>2
<1>9. Agrees(window, schedules)'
  BY <1>8 DEF Agrees, InputBusy, OutputBusy, Matched
<1>10. QED
  BY <1>1, <1>2, <1>9 DEF SWInv

-----------------------------------------------------------------------------
(* Sliding_Window_QPS.                                                     *)

LEMMA QPSSchedule == SWInv /\ Schedule => SWInv' /\ BatchSchedule
<1> SUFFICES ASSUME SWInv, Schedule PROVE SWInv' /\ BatchSchedule
  OBVIOUS
<1>1. PICK prop \in Proposals(Arrived) :
        \E acc \in Accepts(prop), rank \in Orders(prop, Arrived), at \in Placements :
          /\ IsFirstFit(OpenWindow, prop, acc, rank, at)
          /\ SchedulePlacing(prop, at)
          /\ window' = NextWindow(prop, at)
  BY DEF Schedule
<1>2. PICK acc \in Accepts(prop), rank \in Orders(prop, Arrived), at \in Placements :
          /\ IsFirstFit(OpenWindow, prop, acc, rank, at)
          /\ SchedulePlacing(prop, at)
          /\ window' = NextWindow(prop, at)
  BY <1>1
<1>3. prop \in Assignments /\ slot \in Slots /\ Agrees(OpenWindow, Open)
  BY OpenFacts DEF Proposals
<1>4. \A i \in acc : i \in Inputs /\ prop[i] # None /\ Arrived[i][prop[i]] > 0
  BY DEF Accepts, Proposals
<1>5. \A i, j \in acc : prop[i] = prop[j] /\ i # j => rank[i] \in Int /\ rank[i] # rank[j]
  BY <1>4 DEF Orders
<1>6. Fit(Open, Arrived, prop, at)
  BY <1>2, <1>3, <1>4, <1>5, FirstFitIsFit
<1>7. QED
  BY <1>2, <1>3, <1>6, SWPlacing

LEMMA QPSNext == SWInv /\ [Next]_swVars => SWInv' /\ [BatchNext]_vars
BY SWOthers, QPSSchedule DEF Next, BatchNext

(* Bitmaps and counters agree with the schedules in every state: no port is *)
(* refused for ever, and none is given a slot that it has no more.          *)
THEOREM QPSWindowAgrees == Spec => []WindowAgrees
<1>1. SWInv => WindowAgrees
  BY AgreesIsWindowAgrees DEF SWInv
<1>2. QED
  BY <1>1, SWInit, QPSNext, PTL DEF Spec

(* Sliding_Window_QPS is a batch scheduler. *)
THEOREM QPSImplementsBatch == Spec => BatchSpec
BY SWInit, QPSNext, PTL DEF Spec, BatchSpec

-----------------------------------------------------------------------------
(* SW_QPS_Best_Fit.                                                        *)

LEMMA BestFitIsSchedule ==
    ASSUME ~DispatchFirst, SWInv, BestFitSchedule PROVE SWInv' /\ BatchSchedule
<1>1. PICK prop \in Proposals(Arrived), at \in Placements :
        /\ \A i \in Inputs : prop[i] = None => at[i] = None
        /\ \A o \in Outputs : [i \in Proposers(prop, o) |-> at[i]] \in Matchings(prop, o)
        /\ SchedulePlacing(prop, at)
        /\ window' = NextWindow(prop, at)
  BY DEF BestFitSchedule, MaxMatching
<1>2. prop \in Assignments /\ slot \in Slots /\ Agrees(window, schedules) /\ Open = schedules
  BY OpenFacts DEF Proposals, Open, SWInv
<1>3. Fit(Open, Arrived, prop, at)
  <2> SUFFICES ASSUME NEW i \in Inputs, at[i] # None
               PROVE  /\ prop[i] # None /\ Arrived[i][prop[i]] > 0
                      /\ schedules[at[i]][i] = None
                      /\ \A j \in Inputs :
                           /\ schedules[at[i]][j] # prop[i]
                           /\ at[j] = at[i] /\ prop[j] = prop[i] => i = j
    BY <1>2 DEF Fit
  <2>1. prop[i] \in Outputs /\ prop[i] # None
    BY <1>1, <1>2 DEF Assignments
  <2>2. Arrived[i][prop[i]] > 0
    BY <2>1 DEF Proposals
  <2> DEFINE m == [j \in Proposers(prop, prop[i]) |-> at[j]]
  <2>3. m \in Matchings(prop, prop[i]) /\ i \in Proposers(prop, prop[i])
    BY <1>1, <2>1 DEF Proposers
  <2>4. at[i] \in Fits(i, prop[i])
    BY <2>3 DEF Matchings
  <2>5. \A j \in Proposers(prop, prop[i]) : at[i] = at[j] => i = j
    BY <2>3 DEF Matchings
  <2>6. schedules[at[i]][i] = None
    BY <1>2, <2>4 DEF Fits, Agrees, InputBusy
  <2>7. \A j \in Inputs : schedules[at[i]][j] # prop[i]
    BY <1>2, <2>1, <2>4 DEF Fits, Agrees, OutputBusy, Matched
  <2>8. QED
    BY <2>1, <2>2, <2>5, <2>6, <2>7 DEF Proposers
<1>4. QED
  BY <1>1, <1>2, <1>3, SWPlacing

LEMMA BestFitNextStep ==
    ~DispatchFirst => (SWInv /\ [BestFitNext]_swVars => SWInv' /\ [BatchNext]_vars)
BY SWOthers, BestFitIsSchedule DEF BestFitNext, BatchNext

(* The same of SW_QPS_Best_Fit, which never runs with "batching".           *)
THEOREM BestFitWindowAgrees == ~DispatchFirst /\ BestFitSpec => []WindowAgrees
<1>1. SWInv => WindowAgrees
  BY AgreesIsWindowAgrees DEF SWInv
<1>2. CASE ~DispatchFirst
  BY <1>1, <1>2, SWInit, BestFitNextStep, PTL DEF BestFitSpec
<1>3. QED
  BY <1>2

(* SW_QPS_Best_Fit is a batch scheduler. *)
THEOREM BestFitImplementsBatch == ~DispatchFirst /\ BestFitSpec => BatchSpec
<1>1. CASE ~DispatchFirst
  BY <1>1, SWInit, BestFitNextStep, PTL DEF BestFitSpec, BatchSpec
<1>2. QED
  BY <1>1

-----------------------------------------------------------------------------
(* No room is wasted.  An output that has no more inputs to choose from     *)
(* than there are slots free for it and one of them cannot run out of these *)
(* slots before it comes to this one.                                       *)

Asking(o) == { j \in Inputs : Arrived[j][o] > 0 }
Room(i, o) == { f \in IF DispatchFirst THEN 0 .. slot ELSE Slots :
                  Open[f][i] = None /\ Matched(Open, f, o) = {} }

(* The case that RoomUsed is about, when the input has made its proposal.   *)
HasRoom(prop, i, o) ==
    /\ \A j \in Inputs : prop[j] # None => Arrived[j][prop[j]] > 0
    /\ prop[i] = o
    /\ Cardinality(Asking(o)) <= MaxAccepts
    /\ Cardinality(Asking(o)) <= Cardinality(Room(i, o))

LEMMA InputsFinite ==
    IsFiniteSet(Inputs)
BY InputsAreNumbered

(* The slots that some inputs have are no more than these inputs.           *)
LEMMA ImageSmaller ==
    ASSUME NEW S, IsFiniteSet(S), NEW f, NEW T, \A t \in T : \E s \in S : t = f[s]
    PROVE  IsFiniteSet(T) /\ Cardinality(T) \in Nat /\ Cardinality(T) <= Cardinality(S)
<1> DEFINE image == { f[s] : s \in S }
           g == [s \in S |-> f[s]]
<1>1. g \in Surjection(S, image)
  BY DEF Surjection
<1>2. T \in SUBSET image
  OBVIOUS
<1> HIDE DEF g, image
<1>3. IsFiniteSet(image) /\ Cardinality(image) <= Cardinality(S)
  BY <1>1, FS_Surjection
<1>4. IsFiniteSet(T) /\ Cardinality(T) <= Cardinality(image)
  BY <1>2, <1>3, FS_Subset
<1>5. /\ Cardinality(image) \in Nat /\ Cardinality(T) \in Nat /\ Cardinality(S) \in Nat
  BY <1>3, <1>4, FS_CardinalityType
<1>6. QED
  BY <1>3, <1>4, <1>5

LEMMA MoreAreLeft ==
    ASSUME NEW R, IsFiniteSet(R), NEW T, IsFiniteSet(T), Cardinality(T) < Cardinality(R)
    PROVE  R \ T # {}
<1> SUFFICES ASSUME R \subseteq T PROVE FALSE
  OBVIOUS
<1>1. Cardinality(R) <= Cardinality(T)
  BY FS_Subset
<1>2. Cardinality(R) \in Nat /\ Cardinality(T) \in Nat
  BY FS_CardinalityType
<1>3. QED
  BY <1>1, <1>2

(* An input has fewer rivals than slots that it has room in. *)
LEMMA RivalsAreFewer ==
    ASSUME slot \in Slots, NEW prop, NEW i \in Inputs, NEW o \in Outputs, HasRoom(prop, i, o),
           NEW rivals \in SUBSET (Proposers(prop, o) \ {i})
    PROVE  /\ IsFiniteSet(Room(i, o)) /\ Cardinality(Room(i, o)) \in Nat
           /\ IsFiniteSet(rivals) /\ Cardinality(rivals) \in Nat
           /\ Cardinality(rivals) < Cardinality(Room(i, o))
<1>1. IsFiniteSet(Slots) /\ Room(i, o) \in SUBSET Slots
  <2>1. IsFiniteSet(Slots)
    BY FS_Interval, BatchSizePos DEF Slots
  <2>2. 0 .. slot \subseteq Slots
    BY BatchSizePos DEF Slots
  <2>3. QED
    BY <2>1, <2>2 DEF Room
<1>2. IsFiniteSet(Room(i, o)) /\ Cardinality(Room(i, o)) \in Nat
  BY <1>1, FS_Subset, FS_CardinalityType
<1>3. /\ Proposers(prop, o) \in SUBSET Asking(o) /\ IsFiniteSet(Asking(o))
      /\ i \in Proposers(prop, o)
  <2>1. Asking(o) \in SUBSET Inputs
    BY DEF Asking
  <2>2. IsFiniteSet(Asking(o))
    BY <2>1, InputsFinite, FS_Subset
  <2>3. o # None
    BY NoneIsNoPort
  <2>4. QED
    BY <2>2, <2>3 DEF HasRoom, Proposers, Asking
<1>4. /\ IsFiniteSet(rivals) /\ Cardinality(rivals) \in Nat
      /\ Cardinality(rivals) < Cardinality(Asking(o))
  <2>1. rivals \in SUBSET (Asking(o) \ {i}) /\ i \in Asking(o)
    BY <1>3
  <2>2. IsFiniteSet(Asking(o) \ {i}) /\ Cardinality(Asking(o) \ {i}) = Cardinality(Asking(o)) - 1
    BY <1>3, <2>1, FS_RemoveElement
  <2>3. IsFiniteSet(rivals) /\ Cardinality(rivals) <= Cardinality(Asking(o) \ {i})
    BY <2>1, <2>2, FS_Subset
  <2>4. Cardinality(Asking(o)) \in Nat /\ Cardinality(rivals) \in Nat
    BY <1>3, <2>3, FS_CardinalityType
  <2>5. QED
    BY <2>2, <2>3, <2>4
<1>5. Cardinality(Asking(o)) \in Nat /\ Cardinality(Asking(o)) <= Cardinality(Room(i, o))
  BY <1>3, FS_CardinalityType DEF HasRoom
<1>6. QED
  BY <1>2, <1>4, <1>5

(* First fit gives a slot to an input that has room: the counters of both   *)
(* ports allow it, because they agree with the schedules.                   *)
LEMMA FirstFitUsesRoom ==
    ASSUME SWInv, NEW prop \in Assignments, NEW acc \in Accepts(prop), NEW rank,
           NEW at \in Placements, IsFirstFit(OpenWindow, prop, acc, rank, at),
           NEW i \in Inputs, NEW o \in Outputs, HasRoom(prop, i, o), rank[i] \in Int
    PROVE  at[i] # None
<1>1. slot \in Slots /\ Agrees(OpenWindow, Open)
  BY OpenFacts
<1>2. i \in acc
  <2> DEFINE S == Proposers(prop, o)
  <2>1. S \in SUBSET Inputs /\ S \in SUBSET Asking(o) /\ acc \cap S \in SUBSET S /\ i \in S
    BY NoneIsNoPort DEF Proposers, HasRoom, Asking
  <2>2. IsFiniteSet(S) /\ IsFiniteSet(Asking(o))
    BY <2>1, InputsFinite, FS_Subset DEF Asking
  <2>3. /\ Cardinality(S) \in Nat /\ Cardinality(Asking(o)) \in Nat
        /\ Cardinality(S) <= Cardinality(Asking(o))
    BY <2>1, <2>2, FS_Subset, FS_CardinalityType
  <2>4. Cardinality(S) <= MaxAccepts /\ MaxAccepts \in Nat
    BY <2>3, MaxAcceptsPos DEF HasRoom
  <2>5. Cardinality(acc \cap S) = Cardinality(S)
    BY <2>3, <2>4 DEF Accepts
  <2> HIDE DEF S
  <2>6. acc \cap S = S
    BY <2>1, <2>2, <2>5, FS_Subset
  <2>7. QED
    BY <2>1, <2>6
<1> DEFINE taken == Taken(prop, acc, rank, at, i)
           rivals == { k \in acc : prop[k] = prop[i] /\ rank[k] < rank[i] }
<1>3. /\ IsFiniteSet(Room(i, o)) /\ Cardinality(Room(i, o)) \in Nat
      /\ Cardinality(taken) \in Nat /\ Cardinality(taken) < Cardinality(Room(i, o))
      /\ Room(i, o) \ taken # {}
  <2>1. rivals \in SUBSET (Proposers(prop, o) \ {i})
    BY DEF Accepts, Proposers, HasRoom
  <2>2. \A t \in taken : \E j \in rivals : t = at[j]
    BY DEF Taken
  <2> HIDE DEF taken, rivals
  <2>3. /\ IsFiniteSet(Room(i, o)) /\ Cardinality(Room(i, o)) \in Nat
        /\ IsFiniteSet(rivals) /\ Cardinality(rivals) \in Nat
        /\ Cardinality(rivals) < Cardinality(Room(i, o))
    BY <1>1, <2>1, RivalsAreFewer
  <2>4. /\ IsFiniteSet(taken) /\ Cardinality(taken) \in Nat
        /\ Cardinality(taken) <= Cardinality(rivals)
    BY <2>2, <2>3, ImageSmaller
  <2>5. Cardinality(taken) < Cardinality(Room(i, o))
    BY <2>3, <2>4
  <2>6. Room(i, o) \ taken # {}
    BY <2>3, <2>4, <2>5, MoreAreLeft
  <2>7. QED
    BY <2>3, <2>4, <2>5, <2>6
<1> HIDE DEF taken
<1>4. PICK f \in Room(i, o) : f \notin taken
  BY <1>3
<1>5. /\ f \in Slots /\ f \in Reach /\ f \notin InputBusy(Open, i)
      /\ Room(i, o) \in SUBSET (Slots \ OutputBusy(Open, o))
  <2>1. 0 .. slot \subseteq Slots
    BY <1>1, BatchSizePos DEF Slots
  <2>2. QED
    BY <1>4, <2>1 DEF Room, Reach, InputBusy, OutputBusy
<1>6. f \notin OpenWindow.inputMatchBitmap[i] \cup OpenWindow.outputMatchBitmap[o] \cup taken
  BY <1>1, <1>4, <1>5 DEF Agrees
<1>7. IsFiniteSet(Slots) /\ Cardinality(Slots) = BatchSize
  BY FS_Interval, BatchSizePos DEF Slots
<1>8. OpenWindow.outputAvailability[o] # Cardinality(taken)
  <2> DEFINE B == OutputBusy(Open, o)
  <2>1. Slots \cap B = B
    BY DEF OutputBusy
  <2>2. IsFiniteSet(Slots \ B) /\ Cardinality(Slots \ B) = BatchSize - Cardinality(B)
    <3> HIDE DEF B
    <3> QED
      BY <1>7, <2>1, FS_Difference
  <2>3. Cardinality(Room(i, o)) <= Cardinality(Slots \ B)
    <3> HIDE DEF B
    <3>1. Room(i, o) \in SUBSET (Slots \ B)
      BY <1>5 DEF B
    <3> QED
      BY <2>2, <3>1, FS_Subset
  <2>4. OpenWindow.outputAvailability[o] = Cardinality(Slots \ B) /\ Cardinality(Slots \ B) \in Nat
    BY <1>1, <2>2, FS_CardinalityType DEF Agrees
  <2> HIDE DEF B
  <2>5. QED
    BY <1>3, <2>3, <2>4
<1>9. OpenWindow.inputAvailability[i] # 0
  <2> DEFINE B == InputBusy(Open, i)
  <2>1. B \in SUBSET Slots /\ B # Slots /\ Cardinality(B) \in Nat
    BY <1>5, BusyFinite DEF InputBusy
  <2>2. OpenWindow.inputAvailability[i] = BatchSize - Cardinality(B)
    BY <1>1 DEF Agrees
  <2> HIDE DEF B
  <2>3. Cardinality(B) # BatchSize
    BY <1>7, <2>1, FS_Subset
  <2>4. QED
    BY <2>1, <2>2, <2>3, BatchSizePos
<1>10. at[i] = FirstFit(OpenWindow, i, o, taken)
  BY <1>2 DEF IsFirstFit, taken, HasRoom
<1>11. QED
  <2>1. FirstFit(OpenWindow, i, o, taken) \in Slots
    BY <1>1, <1>5, <1>6, <1>8, <1>9, FirstFitFinds
  <2>2. None \notin Slots
    BY NoneIsNoPort DEF Slots
  <2>3. QED
    BY <1>10, <2>1, <2>2

(* A proposal that is placed leaves the VOQ's length. *)
LEMMA PlacedLeaves ==
    ASSUME SWInv, NEW prop, NEW at, SchedulePlacing(prop, at),
           NEW i \in Inputs, NEW o \in Outputs, prop[i] = o, at[i] # None
    PROVE  VOQLength'[i][o] < Arrived[i][o]
<1>1. Arrived[i][o] \in Nat
  BY OpenFacts DEF QueueLengths
<1>2. VOQLength'[i][o] = Arrived[i][o] - 1
  BY DEF SchedulePlacing, ScheduleBatch, VirtuallyDepart
<1>3. QED
  BY <1>1, <1>2

(* So RoomUsed holds of a call if every input that has room is placed.      *)
LEMMA RoomIsEnough ==
    ASSUME SWInv, NEW prop \in Assignments, NEW at, SchedulePlacing(prop, at),
           \A j \in Inputs : prop[j] # None => Arrived[j][prop[j]] > 0,
           \A j \in Inputs : prop[j] = None => \A p \in Outputs : ~ Arrived[j][p] > 0,
           \A i \in Inputs, o \in Outputs : HasRoom(prop, i, o) => at[i] # None
    PROVE  RoomUsed
<1> SUFFICES ASSUME NEW i \in Inputs, NEW o \in Outputs,
                    \A p \in Outputs : Arrived[i][p] > 0 <=> p = o,
                    Cardinality(Asking(o)) <= MaxAccepts,
                    Cardinality(Asking(o)) <= Cardinality(Room(i, o))
             PROVE  VOQLength'[i][o] < Arrived[i][o]
  BY DEF RoomUsed, Asking, Room
<1>1. prop[i] = o
  BY DEF Assignments
<1>2. HasRoom(prop, i, o)
  BY <1>1 DEF HasRoom
<1>3. QED
  BY <1>1, <1>2, PlacedLeaves

(* The other steps are no calls of schedule(). *)
LEMMA RoomOthers ==
    ASSUME WindowStep \/ Reset \/ UNCHANGED vars
    PROVE  [RoomUsed]_vars
<1>1. ~ (phase = "schedule" /\ phase' = "write_outputs")
  BY DEF WindowStep, SwitchStep, ReadInputs, WriteOutputs, Reset, BatchReset, SwitchReset,
    vars, switchVars
<1>2. QED
  BY <1>1 DEF RoomUsed

LEMMA QPSUsesRoom == SWInv /\ Schedule => RoomUsed
<1> SUFFICES ASSUME SWInv, Schedule PROVE RoomUsed
  OBVIOUS
<1>1. PICK prop \in Proposals(Arrived) :
        \E acc \in Accepts(prop), rank \in Orders(prop, Arrived), at \in Placements :
          IsFirstFit(OpenWindow, prop, acc, rank, at) /\ SchedulePlacing(prop, at)
  BY DEF Schedule
<1>2. PICK acc \in Accepts(prop), rank \in Orders(prop, Arrived), at \in Placements :
          IsFirstFit(OpenWindow, prop, acc, rank, at) /\ SchedulePlacing(prop, at)
  BY <1>1
<1>3. /\ prop \in Assignments
      /\ \A j \in Inputs : prop[j] # None => Arrived[j][prop[j]] > 0
      /\ \A j \in Inputs : prop[j] = None => \A p \in Outputs : ~ Arrived[j][p] > 0
  BY DEF Proposals, HasPackets
<1>4. \A i \in Inputs : rank[i] \in Int
  BY DEF Orders
<1>5. \A i \in Inputs, o \in Outputs : HasRoom(prop, i, o) => at[i] # None
  BY <1>2, <1>3, <1>4, FirstFitUsesRoom
<1>6. QED
  BY <1>2, <1>3, <1>5, RoomIsEnough

(* Sliding_Window_QPS leaves no slot empty that an input could have: in     *)
(* every call, an input with packets for one output only is given a slot    *)
(* if its output accepts all that ask it and has as many slots free.        *)
THEOREM QPSUsesAllRoom == Spec => RoomIsUsed
<1>1. SWInv /\ [Next]_swVars => [RoomUsed]_vars
  BY QPSUsesRoom, RoomOthers DEF Next, swVars
<1>2. QED
  BY <1>1, SWInit, QPSNext, PTL DEF Spec, RoomIsUsed

(* A largest matching serves an input that has room: a slot is left for it  *)
(* whatever the others have, and with it the matching would be larger.      *)
LEMMA LargestUsesRoom ==
    ASSUME ~DispatchFirst, SWInv, NEW prop \in Assignments, NEW at \in Placements,
           NEW i \in Inputs, NEW o \in Outputs, HasRoom(prop, i, o),
           [j \in Proposers(prop, o) |-> at[j]] \in MaxMatching(prop, o)
    PROVE  at[i] # None
<1> SUFFICES ASSUME at[i] = None PROVE FALSE
  OBVIOUS
<1> DEFINE S == Proposers(prop, o)
           m == [j \in S |-> at[j]]
           taken == { at[j] : j \in S \ {i} } \ {None}
<1>1. slot \in Slots /\ Agrees(window, schedules) /\ Open = schedules
  BY OpenFacts DEF Open, SWInv
<1>2. i \in S /\ IsFiniteSet(S)
  <2>1. S \in SUBSET Inputs
    BY DEF Proposers
  <2>2. IsFiniteSet(S)
    BY <2>1, InputsFinite, FS_Subset
  <2>3. QED
    BY <2>2 DEF Proposers, HasRoom
<1>3. PICK f \in Room(i, o) : f \notin taken
  <2> DEFINE rivals == S \ {i}
  <2>1. rivals \in SUBSET (Proposers(prop, o) \ {i})
    OBVIOUS
  <2>2. \A t \in taken : \E j \in rivals : t = at[j]
    OBVIOUS
  <2> HIDE DEF rivals, S, taken
  <2>3. /\ IsFiniteSet(Room(i, o)) /\ Cardinality(Room(i, o)) \in Nat
        /\ IsFiniteSet(rivals) /\ Cardinality(rivals) \in Nat
        /\ Cardinality(rivals) < Cardinality(Room(i, o))
    BY <1>1, <2>1, RivalsAreFewer
  <2>4. /\ IsFiniteSet(taken) /\ Cardinality(taken) \in Nat
        /\ Cardinality(taken) <= Cardinality(rivals)
    BY <2>2, <2>3, ImageSmaller
  <2>5. Cardinality(taken) < Cardinality(Room(i, o))
    BY <2>3, <2>4
  <2>6. Room(i, o) \ taken # {}
    BY <2>3, <2>4, <2>5, MoreAreLeft
  <2>7. QED
    BY <2>6
<1>4. f \in Slots /\ f \in Fits(i, o) /\ f # None
  <2>1. f \in Slots /\ f \notin InputBusy(schedules, i) /\ f \notin OutputBusy(schedules, o)
    BY <1>1, <1>3 DEF Room, InputBusy, OutputBusy
  <2>2. QED
    BY <1>1, <2>1, NoneIsNoPort DEF Fits, Agrees, Slots
<1>5. m \in Matchings(prop, o) /\ \A other \in Matchings(prop, o) : Size(other) <= Size(m)
  BY DEF MaxMatching
<1> DEFINE larger == [m EXCEPT ![i] = f]
<1>6. larger \in Matchings(prop, o)
  <2>1. larger \in [S -> Slots \cup {None}]
    BY <1>4, <1>5 DEF Matchings
  <2>2. \A j \in S : larger[j] # None => larger[j] \in Fits(j, o)
    BY <1>2, <1>4, <1>5 DEF Matchings
  <2>3. \A j, k \in S : larger[j] = larger[k] /\ larger[j] # None => j = k
    <3>1. \A j \in S \ {i} : larger[j] = at[j] /\ larger[j] # f
      BY <1>3, <1>4
    <3>2. larger[i] = f
      BY <1>2
    <3>3. \A j, k \in S : at[j] = at[k] /\ at[j] # None => j = k
      BY <1>5 DEF Matchings
    <3>4. QED
      BY <3>1, <3>2, <3>3
  <2>4. QED
    BY <2>1, <2>2, <2>3 DEF Matchings
<1>7. Size(larger) = Size(m) + 1 /\ Size(m) \in Nat
  <2> DEFINE before == { j \in DOMAIN m : m[j] # None }
             after == { j \in DOMAIN larger : larger[j] # None }
  <2>1. after = before \cup {i} /\ i \notin before
    BY <1>2, <1>4
  <2>2. before \in SUBSET S
    OBVIOUS
  <2>3. Size(larger) = Cardinality(after) /\ Size(m) = Cardinality(before)
    BY DEF Size
  <2> HIDE DEF before, after, larger, m
  <2>4. IsFiniteSet(before)
    BY <1>2, <2>2, FS_Subset
  <2>5. QED
    BY <2>1, <2>3, <2>4, FS_AddElement, FS_CardinalityType
<1> HIDE DEF larger, m
<1>8. Size(larger) <= Size(m)
  BY <1>5, <1>6
<1>9. QED
  BY <1>7, <1>8

LEMMA BestFitUsesRoom ==
    ASSUME ~DispatchFirst, SWInv, BestFitSchedule PROVE RoomUsed
<1>1. PICK prop \in Proposals(Arrived), at \in Placements :
        /\ \A o \in Outputs : [i \in Proposers(prop, o) |-> at[i]] \in MaxMatching(prop, o)
        /\ SchedulePlacing(prop, at)
  BY DEF BestFitSchedule
<1>2. /\ prop \in Assignments
      /\ \A j \in Inputs : prop[j] # None => Arrived[j][prop[j]] > 0
      /\ \A j \in Inputs : prop[j] = None => \A p \in Outputs : ~ Arrived[j][p] > 0
  BY DEF Proposals, HasPackets
<1>3. \A i \in Inputs, o \in Outputs : HasRoom(prop, i, o) => at[i] # None
  BY <1>1, <1>2, LargestUsesRoom
<1>4. QED
  BY <1>1, <1>2, <1>3, RoomIsEnough

(* The same of SW_QPS_Best_Fit, whichever largest matching is computed.     *)
THEOREM BestFitUsesAllRoom == ~DispatchFirst /\ BestFitSpec => RoomIsUsed
<1>1. ~DispatchFirst => (SWInv /\ [BestFitNext]_swVars => [RoomUsed]_vars)
  BY BestFitUsesRoom, RoomOthers DEF BestFitNext, swVars
<1>2. CASE ~DispatchFirst
  BY <1>1, <1>2, SWInit, BestFitNextStep, PTL DEF BestFitSpec, RoomIsUsed
<1>3. QED
  BY <1>2

-----------------------------------------------------------------------------
(* Sliding_Window_RR: the queues of its sampler.                           *)

Entries(q, o) == { k \in DOMAIN q : q[k] = o }

(* The invariant of this class.  Its proposals are entries of the queues,   *)
(* so that the VOQs it proposes have packets because the entries agree.     *)
RRInv ==
    /\ SWInv
    /\ rrqueue \in [Inputs -> Seq(Outputs)]
    /\ previousLargestInput \in [Outputs -> Inputs]
    /\ EntriesAgree

LEMMA EntriesFinite ==
    ASSUME NEW q \in Seq(Outputs), NEW o
    PROVE  IsFiniteSet(Entries(q, o)) /\ Cardinality(Entries(q, o)) \in Nat
<1>1. IsFiniteSet(1 .. Len(q))
  BY FS_Interval
<1>2. Entries(q, o) \in SUBSET (1 .. Len(q))
  BY DEF Entries
<1>3. QED
  BY <1>1, <1>2, FS_Subset, FS_CardinalityType

LEMMA AppendCount ==
    ASSUME NEW q \in Seq(Outputs), NEW x \in Outputs, NEW o
    PROVE  Cardinality(Entries(Append(q, x), o)) =
             Cardinality(Entries(q, o)) + (IF x = o THEN 1 ELSE 0)
<1>1. /\ DOMAIN Append(q, x) = 1 .. Len(q) + 1 /\ DOMAIN q = 1 .. Len(q) /\ Len(q) \in Nat
      /\ \A k \in 1 .. Len(q) : Append(q, x)[k] = q[k]
      /\ Append(q, x)[Len(q) + 1] = x
  OBVIOUS
<1>2. CASE x = o
  <2>1. Entries(Append(q, x), o) = Entries(q, o) \cup {Len(q) + 1}
    BY <1>1, <1>2 DEF Entries
  <2>2. Len(q) + 1 \notin Entries(q, o)
    BY <1>1 DEF Entries
  <2>3. QED
    BY <1>2, <2>1, <2>2, EntriesFinite, FS_AddElement
<1>3. CASE x # o
  <2>1. Entries(Append(q, x), o) = Entries(q, o)
    BY <1>1, <1>3 DEF Entries
  <2>2. QED
    BY <1>3, <2>1, EntriesFinite
<1>4. QED
  BY <1>2, <1>3

LEMMA TailCount ==
    ASSUME NEW q \in Seq(Outputs), q # <<>>, NEW o
    PROVE  Cardinality(Entries(Tail(q), o)) =
             Cardinality(Entries(q, o)) - (IF Head(q) = o THEN 1 ELSE 0)
<1>1. /\ Tail(q) \in Seq(Outputs) /\ Len(q) \in Nat \ {0} /\ Head(q) = q[1]
      /\ DOMAIN Tail(q) = 1 .. Len(q) - 1 /\ DOMAIN q = 1 .. Len(q)
      /\ \A k \in 1 .. Len(q) - 1 : Tail(q)[k] = q[k + 1]
  OBVIOUS
<1> DEFINE later == Entries(q, o) \ {1}
           shift == [k \in Entries(Tail(q), o) |-> k + 1]
<1>2. IsFiniteSet(Entries(Tail(q), o)) /\ IsFiniteSet(Entries(q, o))
      /\ Cardinality(Entries(q, o)) \in Nat
  BY <1>1, EntriesFinite
<1>3. Cardinality(later) = Cardinality(Entries(Tail(q), o))
  <2>1. shift \in [Entries(Tail(q), o) -> later]
    BY <1>1 DEF Entries
  <2>2. \A j, k \in Entries(Tail(q), o) : shift[j] = shift[k] => j = k
    BY <1>1 DEF Entries
  <2>3. \A l \in later : \E k \in Entries(Tail(q), o) : shift[k] = l
    <3> SUFFICES ASSUME NEW l \in later PROVE \E k \in Entries(Tail(q), o) : shift[k] = l
      OBVIOUS
    <3>1. l - 1 \in Entries(Tail(q), o) /\ (l - 1) + 1 = l
      BY <1>1 DEF Entries
    <3>2. QED
      BY <3>1
  <2> HIDE DEF later, shift
  <2>4. QED
    BY <1>2, <2>1, <2>2, <2>3, SameCount
<1>4. 1 \in Entries(q, o) <=> Head(q) = o
  BY <1>1 DEF Entries
<1>5. Cardinality(later) = IF 1 \in Entries(q, o) THEN Cardinality(Entries(q, o)) - 1
                            ELSE Cardinality(Entries(q, o))
  BY <1>2, FS_RemoveElement
<1> HIDE DEF later
<1>6. QED
  BY <1>2, <1>3, <1>4, <1>5

LEMMA RotatedFacts ==
    ASSUME NEW q \in Seq(Outputs), q # <<>>
    PROVE  /\ Head(q) \in Outputs
           /\ Rotated(q) \in Seq(Outputs) /\ Removed(Rotated(q)) \in Seq(Outputs)
           /\ \A o : Cardinality(Entries(Rotated(q), o)) = Cardinality(Entries(q, o))
           /\ \A o : Cardinality(Entries(Removed(Rotated(q)), o)) =
                       Cardinality(Entries(q, o)) - (IF Head(q) = o THEN 1 ELSE 0)
<1>1. Head(q) \in Outputs /\ Tail(q) \in Seq(Outputs)
  OBVIOUS
<1>2. Rotated(q) = Append(Tail(q), Head(q)) /\ Rotated(q) \in Seq(Outputs)
  BY <1>1 DEF Rotated
<1>3. Removed(Rotated(q)) = Tail(q)
  <2>1. /\ Len(Append(Tail(q), Head(q))) = Len(Tail(q)) + 1
        /\ Len(Tail(q)) \in Nat
        /\ \A k \in 1 .. Len(Tail(q)) : Append(Tail(q), Head(q))[k] = Tail(q)[k]
    BY <1>1
  <2>2. Removed(Rotated(q)) = SubSeq(Append(Tail(q), Head(q)), 1, Len(Tail(q)))
    BY <1>2, <2>1 DEF Removed, Front
  <2>3. QED
    BY <1>1, <2>1, <2>2
<1>4. \A o : Cardinality(Entries(Rotated(q), o)) = Cardinality(Entries(q, o))
  <2> TAKE o
  <2>1. Cardinality(Entries(Tail(q), o)) =
          Cardinality(Entries(q, o)) - (IF Head(q) = o THEN 1 ELSE 0)
    BY TailCount
  <2>2. Cardinality(Entries(Append(Tail(q), Head(q)), o)) =
          Cardinality(Entries(Tail(q), o)) + (IF Head(q) = o THEN 1 ELSE 0)
    BY <1>1, AppendCount
  <2>3. Cardinality(Entries(q, o)) \in Nat
    BY EntriesFinite
  <2>4. QED
    BY <1>2, <2>1, <2>2, <2>3
<1>5. QED
  BY <1>1, <1>2, <1>3, <1>4, TailCount

-----------------------------------------------------------------------------
(* Sliding_Window_RR: its steps.                                           *)

LEMMA TurnFacts ==
    ASSUME previousLargestInput \in [Outputs -> Inputs], NEW o \in Outputs
    PROVE  /\ \A i \in Inputs : Turn(o, i) \in Nat
           /\ \A i, j \in Inputs : Turn(o, i) = Turn(o, j) => i = j
<1>1. previousLargestInput[o] \in 0 .. NumInputs - 1 /\ Inputs = 0 .. NumInputs - 1
  BY InputsAreNumbered DEF NumInputs
<1>2. NumInputs \in Nat
  BY InputsAreNumbered, FS_CardinalityType DEF NumInputs
<1>3. NumInputs \in Nat \ {0}
  BY <1>1, <1>2
<1> DEFINE p == previousLargestInput[o]
           sum(i) == NumInputs - p + i
<1>4. p \in Nat /\ p < NumInputs /\ \A i \in Inputs : i \in Nat /\ i < NumInputs
  BY <1>1, <1>2
<1> HIDE DEF p
<1>5. ASSUME NEW i \in Inputs
      PROVE  /\ sum(i) < NumInputs => Turn(o, i) = sum(i)
             /\ ~ (sum(i) < NumInputs) => Turn(o, i) = sum(i) - NumInputs
  <2>1. sum(i) \in 0 .. 2 * NumInputs - 1
    BY <1>3, <1>4
  <2>2. Turn(o, i) = sum(i) % NumInputs
    BY DEF Turn, p
  <2> HIDE DEF sum
  <2>3. QED
    BY <1>3, <2>1, <2>2, ModBelowTwice
<1>6. \A i \in Inputs : Turn(o, i) \in Nat
  BY <1>3, <1>4, <1>5
<1>7. \A i, j \in Inputs : Turn(o, i) = Turn(o, j) => i = j
  <2> SUFFICES ASSUME NEW i \in Inputs, NEW j \in Inputs, Turn(o, i) = Turn(o, j)
               PROVE  i = j
    OBVIOUS
  <2>1. sum(i) = sum(j) \/ sum(i) = sum(j) - NumInputs \/ sum(j) = sum(i) - NumInputs
    <3>1. sum(i) \in Int /\ sum(j) \in Int
      BY <1>3, <1>4
    <3> HIDE DEF sum
    <3>2. QED
      BY <1>3, <1>5, <3>1
  <2>2. i \in Nat /\ i < NumInputs /\ j \in Nat /\ j < NumInputs
    BY <1>4
  <2>3. QED
    BY <1>3, <1>4, <2>1, <2>2
<1>8. QED
  BY <1>6, <1>7

(* Whichever proposers an output accepts, the first in turn is one of them. *)
LEMMA FirstInTurnType ==
    ASSUME previousLargestInput \in [Outputs -> Inputs], NEW o \in Outputs,
           NEW S \in SUBSET Inputs, S # {}
    PROVE  FirstInTurn(o, S) \in Inputs
<1> DEFINE turns == { Turn(o, i) : i \in S }
<1>1. turns \in SUBSET Nat /\ turns # {}
  BY TurnFacts
<1>2. PICK least \in turns : \A t \in turns : least <= t
  <2> HIDE DEF turns
  <2> QED
    BY <1>1, LeastNat
<1>3. \E i \in S : \A j \in S : Turn(o, i) <= Turn(o, j)
  BY <1>2
<1>4. QED
  BY <1>3 DEF FirstInTurn

LEMMA RRInitInv == RRInit => RRInv /\ BatchInit
<1> SUFFICES ASSUME RRInit PROVE RRInv /\ BatchInit
  OBVIOUS
<1>1. SWInv /\ BatchInit
  BY SWInit DEF RRInit
<1>2. previousLargestInput \in [Outputs -> Inputs]
  <2> SUFFICES ASSUME NEW o \in Outputs PROVE 0 \in Inputs
    BY DEF RRInit
  <2>1. o \in 0 .. NumInputs - 1 /\ Inputs = 0 .. NumInputs - 1
    BY InputsAreNumbered, NoMoreOutputs DEF NumInputs
  <2>2. NumInputs \in Nat
    BY InputsAreNumbered, FS_CardinalityType DEF NumInputs
  <2>3. QED
    BY <2>1, <2>2
<1>3. EntriesAgree
  <2> SUFFICES ASSUME NEW i \in Inputs, NEW o \in Outputs
               PROVE  VOQLength[i][o] = Cardinality({ k \in DOMAIN rrqueue[i] : rrqueue[i][k] = o })
    BY DEF EntriesAgree
  <2>1. VOQLength[i][o] = 0
    BY <1>1 DEF BatchInit, EmptyQueues
  <2>2. { k \in DOMAIN rrqueue[i] : rrqueue[i][k] = o } = {}
    BY DEF RRInit
  <2>3. QED
    BY <2>1, <2>2, FS_EmptySet
<1>4. QED
  BY <1>1, <1>2, <1>3 DEF RRInit, RRInv

(* Arrivals join both accounts. *)
LEMMA AddedAgree ==
    ASSUME arrivals \in Assignments, rrqueue \in [Inputs -> Seq(Outputs)], EntriesAgree
    PROVE  /\ Added \in [Inputs -> Seq(Outputs)]
           /\ \A i \in Inputs, o \in Outputs : Arrived[i][o] = Cardinality(Entries(Added[i], o))
<1>1. /\ arrivals \in Assignments
      /\ rrqueue \in [Inputs -> Seq(Outputs)] /\ EntriesAgree
  OBVIOUS
<1>2. ASSUME NEW i \in Inputs PROVE Added[i] \in Seq(Outputs)
  BY <1>1 DEF Added, Assignments
<1>3. ASSUME NEW i \in Inputs, NEW o \in Outputs
      PROVE  Arrived[i][o] = Cardinality(Entries(Added[i], o))
  <2>1. VOQLength[i][o] = Cardinality(Entries(rrqueue[i], o))
    BY <1>1 DEF EntriesAgree, Entries
  <2>2. Arrived[i][o] = VOQLength[i][o] + IF arrivals[i] = o THEN 1 ELSE 0
    BY DEF Arrived, Enqueue
  <2>3. Cardinality(Entries(rrqueue[i], o)) \in Nat /\ rrqueue[i] \in Seq(Outputs)
    BY <1>1, EntriesFinite
  <2>4. CASE arrivals[i] = None
    BY <2>1, <2>2, <2>3, <2>4, NoneIsNoPort DEF Added
  <2>5. CASE arrivals[i] # None
    <3>1. arrivals[i] \in Outputs /\ Added[i] = Append(rrqueue[i], arrivals[i])
      BY <1>1, <2>5 DEF Added, Assignments
    <3>2. Cardinality(Entries(Append(rrqueue[i], arrivals[i]), o)) =
            Cardinality(Entries(rrqueue[i], o)) + (IF arrivals[i] = o THEN 1 ELSE 0)
      BY <2>3, <3>1, AppendCount
    <3>3. QED
      BY <2>1, <2>2, <3>1, <3>2
  <2>6. QED
    BY <2>4, <2>5
<1>4. Added \in [Inputs -> Seq(Outputs)]
  BY <1>2 DEF Added
<1>5. QED
  BY <1>3, <1>4

(* The queues and the lengths agree again after a call, whichever of the    *)
(* proposals it places: what it places leaves both accounts.                *)
LEMMA EntriesKeep ==
    ASSUME arrivals \in Assignments, rrqueue \in [Inputs -> Seq(Outputs)], EntriesAgree,
           NEW at, \A i \in Inputs : at[i] # None => Sampled(Added)[i] # None,
           rrqueue' = NextQueues(Added, at),
           VOQLength' = VirtuallyDepart(Arrived, Sampled(Added), at)
    PROVE  rrqueue' \in [Inputs -> Seq(Outputs)] /\ EntriesAgree'
<1> DEFINE rr == Added
           prop == Sampled(rr)
<1>1. /\ rr \in [Inputs -> Seq(Outputs)]
      /\ \A i \in Inputs, o \in Outputs : Arrived[i][o] = Cardinality(Entries(rr[i], o))
  BY AddedAgree
<1>2. /\ rrqueue' = NextQueues(rr, at) /\ VOQLength' = VirtuallyDepart(Arrived, prop, at)
      /\ \A i \in Inputs : at[i] # None => prop[i] # None
      /\ \A i \in Inputs : prop[i] = IF rr[i] = <<>> THEN None ELSE Head(rr[i])
  BY DEF Sampled
<1> HIDE DEF rr, prop
<1>3. rrqueue' \in [Inputs -> Seq(Outputs)]
  <2> SUFFICES ASSUME NEW i \in Inputs PROVE NextQueues(rr, at)[i] \in Seq(Outputs)
    BY <1>2 DEF NextQueues
  <2>1. CASE rr[i] = <<>>
    BY <1>1, <1>2, <2>1 DEF NextQueues, Rotated
  <2>2. CASE rr[i] # <<>>
    BY <1>1, <2>2, RotatedFacts DEF NextQueues
  <2>3. QED
    BY <2>1, <2>2
<1>4. EntriesAgree'
  <2> SUFFICES ASSUME NEW i \in Inputs, NEW o \in Outputs
               PROVE  VOQLength'[i][o] = Cardinality(Entries(rrqueue'[i], o))
    BY DEF EntriesAgree, Entries
  <2>1. VOQLength'[i][o] = Arrived[i][o] - IF at[i] # None /\ prop[i] = o THEN 1 ELSE 0
    BY <1>2 DEF VirtuallyDepart
  <2>2. Arrived[i][o] = Cardinality(Entries(rr[i], o)) /\ Arrived[i][o] \in Nat
    BY <1>1, EntriesFinite
  <2>3. rrqueue'[i] = IF at[i] = None THEN Rotated(rr[i]) ELSE Removed(Rotated(rr[i]))
    BY <1>2 DEF NextQueues
  <2>4. CASE rr[i] = <<>>
    <3>1. at[i] = None /\ rrqueue'[i] = rr[i]
      BY <1>2, <2>3, <2>4 DEF Rotated
    <3>2. QED
      BY <2>1, <2>2, <3>1
  <2>5. CASE rr[i] # <<>>
    <3>1. prop[i] = Head(rr[i])
      BY <1>2, <2>5
    <3>2. /\ Cardinality(Entries(Rotated(rr[i]), o)) = Cardinality(Entries(rr[i], o))
          /\ Cardinality(Entries(Removed(Rotated(rr[i])), o)) =
               Cardinality(Entries(rr[i], o)) - (IF Head(rr[i]) = o THEN 1 ELSE 0)
      BY <1>1, <2>5, RotatedFacts
    <3>3. QED
      BY <2>1, <2>2, <2>3, <3>1, <3>2
  <2>6. QED
    BY <2>4, <2>5
<1>5. QED
  BY <1>3, <1>4

(* An input proposes an output that it has packets for, if it has any.      *)
LEMMA SampledProposes ==
    ASSUME RRInv
    PROVE  /\ Sampled(Added) \in Assignments
           /\ \A i \in Inputs : Sampled(Added)[i] # None => Arrived[i][Sampled(Added)[i]] > 0
           /\ \A i \in Inputs : Sampled(Added)[i] = None =>
                \A p \in Outputs : ~ Arrived[i][p] > 0
<1> DEFINE rr == Added
           prop == Sampled(rr)
<1>1. /\ rr \in [Inputs -> Seq(Outputs)]
      /\ \A i \in Inputs, o \in Outputs : Arrived[i][o] = Cardinality(Entries(rr[i], o))
  BY AddedAgree DEF RRInv, SWInv, IInv, BatchTypeOK, SwitchTypeOK
<1> HIDE DEF rr
<1>2. ASSUME NEW i \in Inputs
      PROVE  \/ prop[i] = None /\ \A p \in Outputs : ~ Arrived[i][p] > 0
             \/ prop[i] \in Outputs /\ prop[i] # None /\ Arrived[i][prop[i]] > 0
  <2>1. CASE rr[i] = <<>>
    <3>1. prop[i] = None
      BY <2>1 DEF Sampled
    <3>2. ASSUME NEW p \in Outputs PROVE ~ Arrived[i][p] > 0
      <4>1. Entries(rr[i], p) = {}
        BY <2>1 DEF Entries
      <4>2. Arrived[i][p] = Cardinality({})
        BY <1>1, <4>1
      <4>3. QED
        BY <4>2, FS_EmptySet
    <3>3. QED
      BY <3>1, <3>2
  <2>2. CASE rr[i] # <<>>
    <3>1. prop[i] = Head(rr[i]) /\ prop[i] \in Outputs /\ prop[i] # None
      BY <1>1, <2>2, RotatedFacts, NoneIsNoPort DEF Sampled
    <3>2. 1 \in Entries(rr[i], prop[i])
      BY <1>1, <2>2, <3>1 DEF Entries
    <3>3. Cardinality(Entries(rr[i], prop[i])) > 0
      BY <1>1, <3>2, EntriesFinite, FS_EmptySet
    <3>4. QED
      BY <1>1, <3>1, <3>3
  <2>3. QED
    BY <2>1, <2>2
<1>3. prop \in Assignments
  <2>1. prop = [i \in Inputs |-> prop[i]]
    BY DEF Sampled
  <2> HIDE DEF prop
  <2>2. QED
    BY <1>2, <2>1 DEF Assignments
<1>4. QED
  BY <1>2, <1>3 DEF rr

LEMMA RRScheduleInv == RRInv /\ RRSchedule => RRInv' /\ BatchSchedule
<1> SUFFICES ASSUME RRInv, RRSchedule PROVE RRInv' /\ BatchSchedule
  OBVIOUS
<1> DEFINE rr == Added
           prop == Sampled(rr)
<1>1. PICK acc \in Accepts(prop), at \in Placements :
        /\ IsFirstFit(OpenWindow, prop, acc, Turns(prop), at)
        /\ SchedulePlacing(prop, at)
        /\ window' = NextWindow(prop, at)
        /\ rrqueue' = NextQueues(rr, at)
        /\ previousLargestInput' = [o \in Outputs |->
             LET S == acc \cap Proposers(prop, o)
             IN  IF S = {} THEN previousLargestInput[o] ELSE FirstInTurn(o, S)]
  BY DEF RRSchedule
<1>2. /\ SWInv /\ slot \in Slots /\ Agrees(OpenWindow, Open)
      /\ previousLargestInput \in [Outputs -> Inputs]
  BY OpenFacts DEF RRInv
<1>3. prop \in Assignments /\ \A i \in Inputs : prop[i] # None => Arrived[i][prop[i]] > 0
  BY SampledProposes
<1> HIDE DEF rr
<1>4. acc \subseteq Inputs /\ \A i \in acc : prop[i] # None /\ Arrived[i][prop[i]] > 0
  <2> HIDE DEF prop
  <2>1. QED
    BY <1>3 DEF Accepts
<1>5. \A i, j \in acc : prop[i] = prop[j] /\ i # j =>
        Turns(prop)[i] \in Int /\ Turns(prop)[i] # Turns(prop)[j]
  <2> HIDE DEF prop
  <2>1. \A i \in acc : Turns(prop)[i] = Turn(prop[i], i) /\ prop[i] \in Outputs
    BY <1>3, <1>4 DEF Turns, Assignments
  <2>2. QED
    BY <1>2, <1>4, <2>1, TurnFacts
<1>6. Fit(Open, Arrived, prop, at)
  <2> HIDE DEF prop
  <2>1. QED
    BY <1>1, <1>2, <1>3, <1>4, <1>5, FirstFitIsFit
<1>7. SWInv' /\ BatchSchedule
  <2> HIDE DEF prop
  <2>1. QED
    BY <1>1, <1>2, <1>3, <1>6, SWPlacing
<1>8. \A i \in Inputs : at[i] # None => prop[i] # None
  BY <1>6 DEF Fit
<1>9. rrqueue' \in [Inputs -> Seq(Outputs)] /\ EntriesAgree'
  <2>1. /\ arrivals \in Assignments /\ rrqueue \in [Inputs -> Seq(Outputs)] /\ EntriesAgree
        /\ VOQLength' = VirtuallyDepart(Arrived, prop, at)
    BY <1>1 DEF RRInv, SWInv, IInv, BatchTypeOK, SwitchTypeOK, SchedulePlacing, ScheduleBatch
  <2>2. QED
    BY <1>1, <1>8, <2>1, EntriesKeep DEF rr
<1>10. previousLargestInput' \in [Outputs -> Inputs]
  <2> SUFFICES ASSUME NEW o \in Outputs, acc \cap Proposers(prop, o) # {}
               PROVE  FirstInTurn(o, acc \cap Proposers(prop, o)) \in Inputs
    BY <1>1, <1>2
  <2>1. acc \cap Proposers(prop, o) \in SUBSET Inputs
    BY <1>4
  <2>2. QED
    BY <1>2, <2>1, FirstInTurnType
<1>11. QED
  BY <1>7, <1>9, <1>10 DEF RRInv

LEMMA RRNextStep == RRInv /\ [RRNext]_rrVars => RRInv' /\ [BatchNext]_vars
<1> SUFFICES ASSUME RRInv, [RRNext]_rrVars PROVE RRInv' /\ [BatchNext]_vars
  OBVIOUS
<1>1. CASE RRSchedule
  BY <1>1, RRScheduleInv DEF BatchNext
<1>2. CASE RRStep \/ UNCHANGED rrVars
  <2>1. /\ WindowStep \/ UNCHANGED swVars
        /\ UNCHANGED <<rrqueue, previousLargestInput, VOQLength>>
    BY <1>2 DEF RRStep, WindowStep, SwitchStep, batchVars, rrVars, swVars, vars
  <2>2. QED
    BY <2>1, SWOthers DEF RRInv, EntriesAgree
<1>3. CASE RRReset
  <2>1. Reset /\ UNCHANGED previousLargestInput /\ rrqueue' = [i \in Inputs |-> <<>>]
        /\ VOQLength' = EmptyQueues
    BY <1>3 DEF RRReset, Reset, BatchReset
  <2>2. SWInv' /\ [BatchNext]_vars
    BY <2>1, SWOthers DEF RRInv
  <2>3. EntriesAgree'
    <3> SUFFICES ASSUME NEW i \in Inputs, NEW o \in Outputs
                 PROVE  VOQLength'[i][o] =
                          Cardinality({ k \in DOMAIN rrqueue'[i] : rrqueue'[i][k] = o })
      BY DEF EntriesAgree
    <3>1. { k \in DOMAIN rrqueue'[i] : rrqueue'[i][k] = o } = {}
      BY <2>1
    <3>2. QED
      BY <2>1, <3>1, FS_EmptySet DEF EmptyQueues
  <2>4. QED
    BY <2>1, <2>2, <2>3 DEF RRInv
<1>4. QED
  BY <1>1, <1>2, <1>3 DEF RRNext

(* The queue of the sampler has one entry per packet not yet placed, so     *)
(* that an input always proposes to an output it has packets for, and       *)
(* remove_item takes away the entry it is meant to.                         *)
THEOREM RREntriesAgree == RRSpec => []EntriesAgree
<1>1. RRInv => EntriesAgree
  BY DEF RRInv
<1>2. QED
  BY <1>1, RRInitInv, RRNextStep, PTL DEF RRSpec

(* Sliding_Window_RR keeps the window as the other two do. *)
THEOREM RRWindowAgrees == RRSpec => []WindowAgrees
<1>1. RRInv => WindowAgrees
  BY AgreesIsWindowAgrees DEF RRInv, SWInv
<1>2. QED
  BY <1>1, RRInitInv, RRNextStep, PTL DEF RRSpec

(* Sliding_Window_RR is a batch scheduler. *)
THEOREM RRImplementsBatch == RRSpec => BatchSpec
BY RRInitInv, RRNextStep, PTL DEF RRSpec, BatchSpec

(* ... and uses all room, for its proposals are entries of the queues.      *)
LEMMA RRUsesRoom == RRInv /\ RRSchedule => RoomUsed
<1> SUFFICES ASSUME RRInv, RRSchedule PROVE RoomUsed
  OBVIOUS
<1> DEFINE prop == Sampled(Added)
<1>1. PICK acc \in Accepts(prop), at \in Placements :
        IsFirstFit(OpenWindow, prop, acc, Turns(prop), at) /\ SchedulePlacing(prop, at)
  BY DEF RRSchedule
<1>2. /\ prop \in Assignments
      /\ \A j \in Inputs : prop[j] # None => Arrived[j][prop[j]] > 0
      /\ \A j \in Inputs : prop[j] = None => \A p \in Outputs : ~ Arrived[j][p] > 0
  BY SampledProposes
<1> HIDE DEF prop
<1>3. \A i \in Inputs : prop[i] # None => Turns(prop)[i] \in Int
  <2>1. \A i \in Inputs : prop[i] # None => Turns(prop)[i] = Turn(prop[i], i) /\ prop[i] \in Outputs
    BY <1>2 DEF Turns, Assignments
  <2>2. QED
    BY <2>1, TurnFacts DEF RRInv
<1>4. \A i \in Inputs, o \in Outputs : HasRoom(prop, i, o) => at[i] # None
  <2>1. ASSUME NEW i \in Inputs, NEW o \in Outputs, HasRoom(prop, i, o) PROVE at[i] # None
    <3>1. prop[i] # None
      BY <2>1, NoneIsNoPort DEF HasRoom
    <3>2. QED
      BY <1>1, <1>2, <1>3, <2>1, <3>1, FirstFitUsesRoom DEF RRInv
  <2>2. QED
    BY <2>1
<1>5. QED
  BY <1>1, <1>2, <1>4, RoomIsEnough DEF RRInv

(* The same of Sliding_Window_RR.                                           *)
THEOREM RRUsesAllRoom == RRSpec => RoomIsUsed
<1>1. RRInv /\ [RRNext]_rrVars => [RoomUsed]_vars
  BY RRUsesRoom, RoomOthers DEF RRNext, RRStep, RRReset, rrVars, swVars
<1>2. QED
  BY <1>1, RRInitInv, RRNextStep, PTL DEF RRSpec, RoomIsUsed

-----------------------------------------------------------------------------
(* The three classes side by side, as the run has them: the queues of the  *)
(* sampler are right whichever mode was chosen at construction.            *)

MCEntriesInv ==
    class = "RR" =>
      /\ arrivals \in Assignments
      /\ rrqueue \in [Inputs -> Seq(Outputs)]
      /\ EntriesAgree

(* Both modes take from the queues what they take from the lengths. *)
LEMMA BothModes ==
    ASSUME RRSchedule \/ Batching!RRSchedule
    PROVE  /\ arrivals' = NoMatch
           /\ \E at \in Placements :
                /\ \A i \in Inputs : at[i] # None => Sampled(Added)[i] # None
                /\ rrqueue' = NextQueues(Added, at)
                /\ VOQLength' = VirtuallyDepart(Arrived, Sampled(Added), at)
<1>1. CASE RRSchedule
  <2>1. PICK acc \in Accepts(Sampled(Added)), at \in Placements :
          /\ IsFirstFit(OpenWindow, Sampled(Added), acc, Turns(Sampled(Added)), at)
          /\ SchedulePlacing(Sampled(Added), at)
          /\ rrqueue' = NextQueues(Added, at)
    BY <1>1 DEF RRSchedule
  <2>2. \A i \in Inputs : at[i] # None => Sampled(Added)[i] # None
    BY <2>1 DEF IsFirstFit, Accepts
  <2>3. arrivals' = NoMatch /\ VOQLength' = VirtuallyDepart(Arrived, Sampled(Added), at)
    BY <2>1 DEF SchedulePlacing, ScheduleBatch, ScheduleWith
  <2>4. QED
    BY <2>1, <2>2, <2>3
<1>2. CASE Batching!RRSchedule
  <2> DEFINE prop == Batching!Sampled(Batching!Added)
  <2>1. PICK acc \in Batching!Accepts(prop), at \in Batching!Placements :
          /\ Batching!IsFirstFit(Batching!OpenWindow, prop, acc, Batching!Turns(prop), at)
          /\ Batching!SchedulePlacing(prop, at)
          /\ rrqueue' = Batching!NextQueues(Batching!Added, at)
    BY <1>2 DEF Batching!RRSchedule
  <2>2. Batching!Added = Added
    BY DEF Batching!Added, Added
  <2>3. prop = Sampled(Added)
    BY <2>2 DEF Batching!Sampled, Sampled
  <2>4. Batching!NextQueues(Added, at) = NextQueues(Added, at)
    BY DEF Batching!NextQueues, NextQueues, Batching!Rotated, Rotated,
      Batching!Removed, Removed, Batching!Front, Front
  <2>5. Batching!Arrived = Arrived
    BY DEF Batching!Arrived, Arrived, Batching!Enqueue, Enqueue
  <2>6. at \in Placements
    BY <2>1 DEF Batching!Placements, Placements, Batching!Slots, Slots
  <2>7. \A i \in Inputs : at[i] # None => prop[i] # None
    <3> HIDE DEF prop
    <3> QED
      BY <2>1 DEF Batching!IsFirstFit, Batching!Accepts
  <2>8. arrivals' = NoMatch /\ VOQLength' = VirtuallyDepart(Arrived, prop, at)
    <3> HIDE DEF prop
    <3> QED
      BY <2>1, <2>5 DEF Batching!SchedulePlacing, Batching!ScheduleBatch, Batching!ScheduleWith,
        Batching!NoMatch, NoMatch, Batching!VirtuallyDepart, VirtuallyDepart
  <2> HIDE DEF prop
  <2>9. QED
    BY <2>1, <2>2, <2>3, <2>4, <2>6, <2>7, <2>8
<1>3. QED
  BY <1>1, <1>2

LEMMA MCEntriesStep == MCEntriesInv /\ [MCNext]_MCVars => MCEntriesInv'
<1> SUFFICES ASSUME MCEntriesInv, [MCNext]_MCVars, class' = "RR" PROVE MCEntriesInv'
  BY DEF MCEntriesInv
<1>1. class' = class
  BY DEF MCNext, MCVars, const, MCStep, MCQPS, MCBestFit, MCRR, MCReset
<1>2. /\ class = "RR" /\ arrivals \in Assignments
      /\ rrqueue \in [Inputs -> Seq(Outputs)] /\ EntriesAgree
  BY <1>1 DEF MCEntriesInv
<1>3. CASE UNCHANGED MCVars
  <2>1. UNCHANGED <<arrivals, rrqueue, VOQLength>>
    BY <1>3 DEF MCVars, rrVars, swVars, vars, switchVars, batchVars
  <2>2. QED
    BY <1>2, <2>1 DEF MCEntriesInv, EntriesAgree
<1>4. CASE MCStep
  <2>1. UNCHANGED <<rrqueue, VOQLength>> /\ (ReadInputs \/ WriteOutputs)
    BY <1>4 DEF MCStep, RRStep, WindowStep, SwitchStep, batchVars
  <2>2. arrivals' \in Assignments
    BY <1>2, <2>1 DEF ReadInputs, WriteOutputs
  <2>3. QED
    BY <1>2, <2>1, <2>2 DEF MCEntriesInv, EntriesAgree
<1>5. CASE MCReset
  <2>1. /\ rrqueue' = [i \in Inputs |-> <<>>] /\ VOQLength' = EmptyQueues
        /\ arrivals' = NoMatch
    BY <1>5 DEF MCReset, RRReset, Reset, BatchReset, SwitchReset
  <2>2. arrivals' \in Assignments /\ rrqueue' \in [Inputs -> Seq(Outputs)]
    BY <2>1 DEF NoMatch, Assignments
  <2>3. EntriesAgree'
    <3> SUFFICES ASSUME NEW i \in Inputs, NEW o \in Outputs
                 PROVE  VOQLength'[i][o] =
                          Cardinality({ k \in DOMAIN rrqueue'[i] : rrqueue'[i][k] = o })
      BY DEF EntriesAgree
    <3>1. { k \in DOMAIN rrqueue'[i] : rrqueue'[i][k] = o } = {}
      BY <2>1
    <3>2. QED
      BY <2>1, <3>1, FS_EmptySet DEF EmptyQueues
  <2>4. QED
    BY <2>2, <2>3 DEF MCEntriesInv
<1>6. CASE MCQPS \/ MCBestFit
  BY <1>2, <1>6 DEF MCQPS, MCBestFit
<1>7. CASE MCRR
  <2>1. RRSchedule \/ Batching!RRSchedule
    BY <1>7 DEF MCRR
  <2>2. arrivals' \in Assignments
    BY <2>1, BothModes DEF NoMatch, Assignments
  <2>3. PICK at \in Placements :
          /\ \A i \in Inputs : at[i] # None => Sampled(Added)[i] # None
          /\ rrqueue' = NextQueues(Added, at)
          /\ VOQLength' = VirtuallyDepart(Arrived, Sampled(Added), at)
    BY <2>1, BothModes
  <2>4. rrqueue' \in [Inputs -> Seq(Outputs)] /\ EntriesAgree'
    BY <1>2, <2>3, EntriesKeep
  <2>5. QED
    BY <2>2, <2>4 DEF MCEntriesInv
<1>8. QED
  BY <1>3, <1>4, <1>5, <1>6, <1>7 DEF MCNext

(* With all classes in one model and either mode, the queue of the          *)
(* sampler has one entry per packet not yet placed.                         *)
THEOREM QueuesOfEntriesAgree == MCSpec => []QueueOfEntriesAgrees
<1>1. MCInit => MCEntriesInv
  <2> SUFFICES ASSUME MCInit PROVE MCEntriesInv
    OBVIOUS
  <2>1. RRInv
    BY RRInitInv DEF MCInit
  <2>2. QED
    BY <2>1 DEF RRInv, SWInv, IInv, BatchTypeOK, SwitchTypeOK, MCEntriesInv
<1>2. MCEntriesInv => QueueOfEntriesAgrees
  BY DEF MCEntriesInv, QueueOfEntriesAgrees
<1>3. QED
  BY <1>1, <1>2, MCEntriesStep, PTL DEF MCSpec
=============================================================================
