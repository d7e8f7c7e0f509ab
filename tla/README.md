# A TLA+ verification of the SABER switching simulator

SABER simulates the scheduling of input-queued packet switches.  It is a
single-threaded C++ program that runs in time slots: in every slot each input
port receives at most one packet, a scheduler chooses a matching of input ports
to output ports, and every matched, non-empty virtual output queue (VOQ) sends
its head packet.  This directory holds TLA+ modules for its core (the switch,
all of its working schedulers and the simulator's loop), TLC configurations that
check them on small switches, and TLAPS proofs, for switches, batches and windows
of every size, that its accounts agree and its matchings are what they promise.

## 1. Inventory

Paths are relative to the repository root.

| Component | State | Operations | Interacts with |
|---|---|---|---|
| Simulator (`src/simulator`) | slot counter `n`, `num_stall_packets`, instruments, `_reset` flag | `simulate_on` loop, `arriving`, `departing`, `reset`, stopping rules | fills the input channels, calls `IQSwitch::switching`, drains the output channels |
| Switch (`src/switch`) | `sIQSwitch`: matrix of VOQ lengths; `gIQSwitch`: VOQs of packets, timer; both: `_arrivals`, `_departures` lists closed by a -1 sentinel | `switching` = `read_inputs`, `Scheduler::schedule`, `write_outputs`; `reset`, `replace_scheduler` | hands `_arrivals` and the queue lengths to the scheduler, asks it `match_with` |
| Scheduler contract (`src/scheduler/scheduler.*`) | `_in_match`, `_out_match` | `schedule`, `init`, `reset`, `match_with` | called by the switch |
| Slot-by-slot schedulers (`maximal_scheduler`, `qps`, `max_weight_scheduler`) | an own account of the VOQs: edge list and index, `_queue_status` and pointers, `_bst`, `_weight` | `schedule` = `handleArrivals`, matching, `handleDepartures` | read the switch's queue lengths |
| Small-batch schedulers (`batch_scheduler/sb_qps.*`) | `schedules` per slot of a batch, bitmaps of matched slots, availability counters, conditional approvals, `VOQLength` and a sampling tree | `schedule` = copy out, arrivals, `qps`, `resetBitmap` | never look at the switch's queues, only at `_arrivals` |
| Sliding-window schedulers (`sliding_window_qps`, `sliding_window_rr`, `sw_qps_best_fit` in the first) | as above, and a sampler per input | `schedule` = `dispatchSchedule` and `qps` in either order | as above |
| Frame scheduler (`edge_coloring_batch_scheduler`) | a multigraph of the packets arrived, the schedules its colouring gave | `schedule` | as above |
| Samplers and containers (`qp_sampler`, `rr_sampler`, `priority_queue`, `circular_generator.h`, `BST` in `utils.hpp`) | weight trees, a queue of outputs | `sample`, `add_item`, `remove_item`, `insert` | used by the schedulers |
| Statistics, channels, timer (`include/saber`) | running moments, a deque, a counter | `add_sample`, `send`, `receive`, `reset` | used by the simulator and the switch |
| Traffic (`src/traffic_generator`) | injection rates, on/off state | `inject`, `destination` | used by `arriving` |
| Factories, configuration (`*_factory.*`, `config_json`) | none | build the objects from JSON | - |

What is hard in this code is not concurrency, for there is none, but the
*redundant accounts of the same thing*.  A scheduler never shares the switch's
queues: it rebuilds them from the arrivals it is told of and from its own
decisions.  A batch scheduler decides a grant up to a whole batch before it is
played, keeps its packets "virtually departed" meanwhile, and in addition keeps
bitmaps, availability counters and a sampling structure that all describe the
same schedules.  Hardly anything in the code compares these accounts, and where
one drifts from another the simulator carries on and reports numbers that are
silently wrong (a grant wasted, a packet that never leaves, an output that
sends two packets), after a sequence of slots no unit test would write down.

### What makes each component correct, and what is hard about it

* **Simulator.** Packets are conserved: `num_stall_packets` equals the packets
  in channels and queues at every point, so that the stop for lack of memory and
  the queue statistics are right.  The two instruments agree with each other
  (Little's law), slot by slot.  Hard: an experiment ends whenever its
  statistics say so, with packets in queues and schedules; all of it must be
  forgotten by `reset()`, the samples too.
* **Switch.** What a scheduler is told has arrived is what has joined the
  queues; a queue is first come first served; an output sends at most one packet
  per slot.  Hard: `_arrivals` is never shortened, only marked.
* **Batch schedulers.** Every slot is a matching; a grant decided up to a batch
  ago still finds a packet; every packet is counted by exactly one account;
  nothing that has been placed is overwritten; when arrivals stop everything
  leaves.  Hard: four redundant accounts (lengths, schedules, bitmaps,
  availability counters), the slot where one batch ends and the next begins,
  slots filled out of order, and the classes that run their matching several
  times in a slot.
* **Slot-by-slot schedulers.** Their idea of the VOQs follows the switch's; the
  matching is maximal as far as the algorithm promises it; the accept policy is
  obeyed; no VOQ starves.  Hard: the account is corrected *before* the packet
  departs, from the switch's length *after* the arrivals; QPS without
  replacement takes VOQs out of its trees and must put back exactly what it
  took; iSLIP's fairness rests on when its pointers move.
* **Frame scheduler.** Each frame's colouring gives every port one packet per
  slot, and no packet is forgotten.
* **Samplers.** The weights in a tree sum up to those of its leaves, and sampling
  is in proportion to them; the round-robin queue has one entry per unplaced
  packet.  Hard: `remove_item` removes the last entry unseen.

`PROJECT.json` lists each hazard at its line with the properties that would
show it.

## 2. Modules

```
sIQSwitch                        switch by queue lengths = contract of a scheduler (SwitchSpec)
 |- BatchScheduler               abstract batch scheduler (BatchSpec), implements SwitchSpec
 |   |                              (BatchScheduler_proofs)
 |   |- SmallBatch               bitmaps of the current batch
 |   |   |- SB_QPS_Basic, SB_QPS_HalfHalf_Oblivious
 |   |   |- SB_QPS_Availability  six classes that count availability
 |   |   `- SB_QPS_Conditional   with Linear_Priority_Queue and Queue_Sampler
 |   |                              (SB_QPS_proofs for all of them)
 |   `- Sliding_Window_QPS       window and counters, both modes
 |       |- Sliding_Window_RR    round-robin sampler    (Sliding_Window_proofs
 |       `- SW_QPS_Best_Fit      largest matchings       for all three)
 |- QPS                          with BST
 |- RandomizedMaximal               (SlotBySlot_proofs for
 |- MaxWeight                        these three)
 |- iSLIP                           (iSLIP_proofs)
 `- RandomizedEdgeColoring          (RandomizedEdgeColoring_proofs)
gIQSwitch                        switch of packets, channels, timer, _arrivals vector
 `- Simulator                    the loop and reset; implements SwitchSpec of sIQSwitch
                                    (Simulator_proofs)
BST <- Queue_Sampler             sampling trees;   Linear_Priority_Queue
InductionLemmas                  induction, recursion, sums, folds and search trees
                                    in a form that can be proved with
```

A line is EXTENDS; `BST`, `Queue_Sampler` and `Linear_Priority_Queue` have no
variables.  The modules `MC*` instantiate the others for TLC.  `MC_SB_QPS`,
`MC_Sliding_Window` and `MCSlotBySlot` put several classes side by side (and
`MCiSLIP` two numbers of iterations), with a variable that says which one the
factory has constructed and that never changes, so that one run covers all of
them with the same properties.

**`sIQSwitch`.**  The calls of `IQSwitch::switching` are the actions
`ReadInputs`, the scheduler's `schedule`, and `WriteOutputs`; `phase` is the one
due next.  `queue_len`, `arrivals`, `in_match` are `_queue_len_mat`,
`_arrivals`, `Scheduler::_in_match`.  `_arrivals` is seen as an assignment (at
most one packet per input and slot), and forgotten with `in_match` as soon as
nothing reads them any more, which keeps the state space small.  `SwitchSpec`
lets `schedule()` choose any matching: it is the contract that every scheduler
is shown to meet.  `Enqueue` and `Dequeue` are used again by the schedulers for
their own accounts, which are updated by the same arithmetic in code of their
own.

**`BatchScheduler`.**  `schedules`, `VOQLength` and `slot` are the members of
the same names and `_cf_rel_time % batchSize`.  `ScheduleBatch(sched, voq)` is
one whole call of `schedule()` once it is known what has become of the schedules
and of the lengths: hand out and clear the slot, and advance.  `Open` is the
schedule a call starts to fill.  `DispatchFirst` is the order of handing out and
placing.  `BatchSpec` allows every *legal* placement: any number of packets of a
VOQ in any slots, as long as nothing is overwritten, slots stay matchings, and
no VOQ gives more packets than it has.  The concrete classes restrict what is
placed where, and have `BatchSpec` as a property.

**`SmallBatch`, `SB_QPS_*`.**  Sampling is any output the input has a packet
for; a shuffle of the inputs followed by a sort by length is any choice among
the longest.  `SB_QPS_Basic` gives the current slot; `Oblivious` also gives the
latest free earlier slot to the second longest proposer, in the second half of a
batch.  `SB_QPS_Availability` is one model of `AvailabilityAware`, `Adaptive`,
`MI`, `ThreeThird`, `MA` and `MA_MI`, which are copies of one another: `class`
selects the number of accepts, of runs of `qps`, and whether a proposer is given
one slot or all that are free.  It follows the code in what it takes from the
unsorted list and what from the sorted one, in when counters are charged, and
with the assertions on the lengths, whose failure is the variable `aborted`.
`SB_QPS_Conditional` carries the data that a call changes many times in a record
`work`: proposals in a `Linear_Priority_Queue` of two, approvals, and at the end
of a batch `endOfBatchOptimization` and further rounds for every slot, with
uniform sampling as `Queue_Sampler` does it.

**`Sliding_Window_QPS`.**  The record `window` holds the bitmaps and counters.
`Dispatched` is `dispatchSchedule`, `FirstFit` the loop over
`Circular_Generator`, in the order in which it yields the slots.  An output
considers `MaxAccepts` of the shuffled proposals, longest first (`Orders`).
`Sliding_Window_RR` adds the queue of each `Round_Robin_Sampler`, whose
`sample()` moves the front entry to the back and whose `remove_item` drops the
last entry; ports are numbers because their circular order matters.
`SW_QPS_Best_Fit` fills an output's slots by LEMON's `MaxMatching`: any largest
matching of the proposers with the free slots.  The code also gives LEMON the
first fit to start from, but `run()` starts over without it (section 5), so the
model has no trace of it.

**`QPS`.**  Iterations of propose and accept under the five accept policies. The
trees `bst` are arrays of sums (`BST`), `Requests` samples them number by number
with the code's own search, `removed` lists what was taken out without
replacement, and `Restored` is `restoreVOQ`.  Whether sampling is with or without
replacement and the policy are chosen in `Init` and never change.

**`RandomizedMaximal`.**  The edge array with its index, `Insert` and `Erase`
with the swap; a shuffle followed by greedy matching is any maximal matching of
the graph (each maximal matching is the greedy result of an order that puts its
edges first).  **`MaxWeight`** keeps the weights; the answer of LEMON's
`MaxWeightedMatching` is any matching of the greatest weight.

**`iSLIP`.**  Grant, accept, pointers, iterations and status bits in full.

**`RandomizedEdgeColoring`.**  The graph as it grows, the edges in the order in
which the code colours them, and the colour as the code takes it: the *place*
drawn in the list of free colours (section 5).  An edge that finds no free
colour ends the program in the assertion after the search of an extra one.

**`gIQSwitch`, `Simulator`.**  The switch by packets: queues of arrival times,
the `_arrivals` vector with mark and stale entries, channels, timer.  The
simulator's loop adds `arriving`, `departing` with the samples taken, the early
stop for instability, and the end of an experiment.  Whether an experiment ends
between its least and most effort depends on floating-point statistics and is
left open.  The refinement mapping `Lengths` reads the vector as schedulers do
(`Told`), so that `LengthsSpec` says that the two models of the switch agree;
everything proved or checked on `sIQSwitch` then holds for the packet-level
switch.

## 3. Runs

All runs use the constants in their `.cfg`.  `None` is the code's -1.

| Run | Size | Shows |
|---|---|---|
| `batch` | 2x2 ports, queues <= 2, batch of 2 | the abstract batch scheduler: types, accounts, matchings, grants, no lost placement |
| `sb_qps` | 2x2, queues <= 2, batch of 3, two rounds | Basic, Oblivious and Conditional implement `BatchSpec`; bitmaps; approvals are never for what has been served; longest proposer; drains |
| `sb_conditional_second` | 2x2, queues <= 2, batch of 2 | *violation*, see section 5 |
| `sb_availability` | 2x2, queues <= 2, batch of 3 | the six availability classes: counters, bitmaps and accounts, each as far as its class keeps them; the classes that do not overwrite implement `BatchSpec` |
| `sb_availability_abort` | 3x2, queues <= 2, batch of 3 | *violation*, see section 5 |
| `sb_multi_iteration` | 2x2, queues <= 2, batch of 3 | *violation*, see section 5 |
| `sliding_window` | 2x2, queues <= 2, window of 3, two accepts | QPS and RR in both modes and Best_Fit implement `BatchSpec`; bitmaps and counters are exact; one entry per packet; no room is wasted; drains |
| `edge_coloring` | 2x2, queues <= 2, frame of 2, three packets per input | no packet that is left out is forgotten; a colour is missing only when ports are crowded; inputs with one output drain |
| `edge_coloring_matching` | the same | *violation*, see section 5 |
| `slot_by_slot` | 2 inputs x 3 outputs, queues <= 2, three iterations, five policies | QPS, RandomizedMaximal, MaxWeight: exact accounts, sampling in proportion, maximal matchings, the policy obeyed, `SwitchSpec`, drains |
| `islip` | 2x2, queues <= 3, one and two iterations | status and queues agree; a pair per iteration or maximal; no starvation; pointers desynchronise |
| `simulator` | 2x2, queues <= 2, experiments of at most 3 or 4 slots | packets conserved, order, Little's law, the switch is that of `sIQSwitch` |

The availability classes do not all promise the same, and the properties of
`sb_availability` say what is left of the accounts in each: the counters are
exact in the classes that run `qps` once and accept one slot per proposal, never
too low in `MI` and `ThreeThird`, never too high in `MA`, and `MA_MI` keeps
neither bound.  `MI` and `ThreeThird` lose packets they overwrite
(`NeverCountedTwice` is an inequality); still no packet is scheduled twice, and
no placement of an *earlier* call is lost.

**Bounds.**  `MaxQueueLen` bounds arrivals only (`ReadInputs`, `Arriving`): a
packet that would lengthen a VOQ beyond it does not come.  The code's decisions
tell apart a queue length of 0, of 1, and of more, and compare two lengths; two
packets give all of it, and three, in `islip`, let a queue stay backlogged over
several grants.  Two inputs compete for an output and two outputs for an input's
proposal; the third input of the abort run keeps one of them from its slot;
three outputs give the trees of `QPS` a leaf without an output and two levels.
A batch of three has a slot in the first half, one in the second half that is
not the last, and the last one with its reset, and a first slot that follows a
last one.  Three iterations are as many as there are outputs, after which QPS
without replacement must be maximal.  `MaxEdges` bounds the packets an input
receives between two resets of the edge-coloring scheduler, whose graph grows
for ever otherwise; three are more than its frame of two has slots, so that the
port is crowded.  `LeastEffort` and `MostEffort` bound the slots of an
experiment, and `DelayThreshold` is low enough for the early stop to come first
in some; `Reset` then starts another one, with no bound on their number, and the
timer starts again.

**Symmetry** of ports is used in `batch` and in the runs of
`SB_QPS_Availability`, where ports are model values compared for equality only
and no liveness is checked.

**Deadlock** is checked in every run but those of `SB_QPS_Availability` and
`RandomizedEdgeColoring`, where a failed assertion ends the program.

**Fairness.**  `simulate_on` calls `switching()` in a loop, and `switching()`
makes its calls unconditionally one after another: `SwitchFairness` is weak
fairness of the step from one call to the next, whichever step it is.  The
edge-coloring scheduler's is `FairUntilAborted`: the same until a failed
assertion ends the program, so that the behaviours that end there are among those
checked.  Nothing is assumed of arrivals, of `Reset`, or of random choices: `Drains`,
`DrainsIfOneOutput` and `NoStarvation` hold for every outcome of sampling and
shuffling.  `Reset` may come at any slot boundary, more often than an experiment
ends in the code; no liveness property depends on how often.

`RoomIsUsed` is about each call of `schedule()`, without fairness: an input with
packets for one output only is given a slot if its output accepts all that ask
it and the two have at least as many slots free in common as it has askers.
That bound is sharp for any order of the proposals: every rival may take one of
these slots, and one must be left.  A counter that has drifted, a search that
ends a slot early, or a matching that is not a largest one breaks it, none of
which the refinement of `BatchSpec` notices, as a batch scheduler may place as
little as it likes.

`Drains` says that when no more packets arrive the queues run empty, again and
again; `Desynchronises` is iSLIP's known property that under saturation every
slot is used in full from some slot on, from every pointer position it reaches.
The edge-coloring scheduler has only the weaker `DrainsIfOneOutput`: an input
with packets for several outputs may lose the same packet to overwriting in
every frame, for an unlucky sequence of draws.

**Types.**  Every module states a type invariant.  `BatchTypeOK` is in a run and
proved; the others (`SwitchTypeOK`, `SmallBatchTypeOK`, `AvailabilityTypeOK`,
`WindowTypeOK`, `RRTypeOK`, `QPSTypeOK`, `EdgesTypeOK`, `SlipTypeOK`,
`FrameTypeOK`, ...) document the variables and are implied, where they matter,
by the accounts that the runs check.

## 4. Proofs

Every theorem below holds for all values of the constants that meet the named
assumptions, which are those of the modules themselves: `NoneIsNoPort` (-1 is no
port and no number), positive batch sizes and numbers of iterations, and, where
the code counts ports or goes through them in order, finite sets of ports
numbered from 0 (`PortsNumbered`, `PortsAreNumbered`, `InputsAreNumbered`,
`OutputsNumbered`, `InputsInOrder`), or at least finite sets (`PortsAreFinite`).
`SmallBatchDispatchesFirst` and `KnownClasses` say which of the code's classes is
meant.  `NoMoreOutputs` and `OutputsHaveColors` are the limits of
section 6.

### What is proved

| Module | Theorem | Statement |
|---|---|---|
| `BatchScheduler_proofs` | `BatchTypeCorrect` | every variable keeps its type; no length becomes negative |
| | `QueuesAlwaysAccountedFor` | each packet of the switch is in exactly one of the scheduler's accounts |
| | `SlotsAlwaysMatchings` | every slot and every answer is a matching |
| | `GrantsAlwaysHavePackets` | no grant is wasted |
| | `PlacementsNeverLost` | a placed packet stays until its slot is handed out |
| | `BatchImplementsSwitch` | `BatchSpec => SwitchSpec` |
| `SB_QPS_proofs` | `BasicBitmapsAgree`, `ObliviousBitmapsAgree` | a bit is set exactly if the slot of the current batch is taken, for both kinds of port |
| | `BasicImplementsBatch`, `ObliviousImplementsBatch` | `Spec => BatchSpec` |
| | `BasicGivesLargest`, `ObliviousGivesLargest` | the current slot of an output goes to the longest of its proposers |
| | `AvTypeCorrect` | every variable of the six availability classes keeps its type; no length becomes negative before an assertion fails |
| | `AvBitsAlwaysCover`, `AvCountersAlwaysAgree` | bitmaps and counters are what each class keeps them to: exact, never too low, or never too high |
| | `AvNeverCountsTwice`, `AvGrantsHavePackets` | no packet is counted or scheduled twice and no grant is wasted, in all six |
| | `AvSlotsAreMatchings`, `AvImplementsBatch` | the classes that do not overwrite hand out matchings and implement `BatchSpec` until an assertion fails |
| | `AvNoPlacementLost` | what an earlier call placed stays, in all six |
| | `CondBitmapsAgree`, `CondApprovedAfterMatch` | bitmaps of Conditional are exact; no approval is for a proposal served already |
| | `CondImplementsBatch` | `CondSpec => BatchSpec` |
| `Sliding_Window_proofs` | `QPSWindowAgrees`, `BestFitWindowAgrees`, `RRWindowAgrees` | bitmaps and counters of the window are exact, in both modes where the class has both |
| | `QPSImplementsBatch`, `BestFitImplementsBatch`, `RRImplementsBatch` | each implements `BatchSpec` |
| | `QPSUsesAllRoom`, `BestFitUsesAllRoom`, `RRUsesAllRoom` | `RoomIsUsed`: no input that has room is left without a slot, in any call |
| | `RREntriesAgree`, `QueuesOfEntriesAgree` | the sampler's queue has one entry per packet not placed; also where one model has all classes and both modes |
| `iSLIP_proofs` | `SlipStatusAgrees`, `MCStatusAgrees` | a status bit is set exactly if there is a packet the scheduler has been told of and that does not depart |
| | `SlipMaximalOrProgress`, `MCPairPerIteration` | a slot has as many pairs as iterations, or a maximal matching |
| | `SlipGrantsHavePackets` | no grant is wasted |
| | `SlipImplementsSwitch`, `MCImplementsSwitch` | iSLIP hands out matchings |
| `SlotBySlot_proofs` | `AccountsAgree` | the trees of QPS, the edges of RandomizedMaximal, the weights of MaxWeight agree with the queues |
| | `IndexFindsEdges` | the index of RandomizedMaximal finds every edge where it is |
| | `NothingLeftIdle` | the matchings are maximal, those of QPS without replacement after as many iterations as there are outputs |
| | `PolicyIsObeyed` | the accept policy of QPS decides among inputs with one choice |
| | `SlotImplementsSwitch` | the three hand out matchings |
| | `SamplingInProportion` | a VOQ is sampled for as many numbers as it has packets, in the trees of QPS and in those `Queue_Sampler` builds; uniform sampling finds no empty VOQ |
| `RandomizedEdgeColoring_proofs` | `ColoringKeepsWaiting` | a packet no frame has a slot for keeps an edge, whatever colours are drawn |
| | `ColoringAbortsOnlyIfCrowded` | the program ends only if an edge has as many others at its two ports as there are colours |
| `Simulator_proofs` | `StallsAreCounted` | the count of waiting packets is right at every point of every slot |
| | `PacketsServedInOrder` | one packet per output and slot, and it came before all its queue still has |
| | `LittlesLaw` | queue-length samples and delays add up to the same |
| | `PacketsImplementLengths` | the switch of packets implements `SwitchSpec` of the switch by queue lengths |

Refinements compose: with `ObliviousImplementsBatch`, for example, the six
theorems about `BatchSpec` hold of `SB_QPS_HalfHalf_Oblivious` for every size,
and so they do of Basic, Conditional and the three sliding-window classes (Best_Fit
without `DispatchFirst`, the only mode it has), and of AvailabilityAware,
Adaptive, MA and MA_MI as long as no assertion fails.  `MI` and `ThreeThird`
overwrite and implement no batch scheduler; what they keep is proved directly.

### Along which argument

**Batches.**  The inductive invariant `IInv` is type correctness,
`HandOversCleared` (outside the calls that use them, `arrivals` and `in_match`
are empty), `QueuesAccountedFor` and `SlotsAreMatchings`.  It is needed because
`GrantsHavePackets` is not inductive: that a packet is there when its slot comes
follows from the count that gives every placed packet a packet of the switch of
its own, and this count is kept only if no placement overwrites another and no
VOQ gives more than it has.  `ScheduleInv` follows a packet from `_arrivals` to
`VOQLength`, to a slot, to `_in_match`.

**Small batches.**  `SBInv` adds to the types that the bitmaps agree.  The
classes look at the bitmaps only, never at the schedules, so agreement is what
makes a placement legal: it is proved together with the step to `BatchSpec`, one
lemma per way in which a class places packets.  Oblivious places a second packet
of an output in an earlier slot; that the two are never in one slot and that
both inputs are free follows from `FreeEarlierSlots` being read off agreeing
bitmaps.

**Availability.**  `AvInv` joins `BitsCover`, `AvailabilityAgrees` and
`NeverCountedTwice` to the types and, where the class does not overwrite, to the
invariant of the abstract batch scheduler.  None of them is inductive alone: the
counters are an account of the bits, and the bits of the schedules, and a
placement is decided by looking at the first two only.
A call is a sequence of runs of `qps`, as many as the class has, so the step
needs an invariant of its own, `RunInv(r, k)`, about the record `r` that `k` runs
have made: its bits (`RunBits`), what it keeps of the schedules before the call
(`RunKeeps`), its counters (`RunCounts`) and what it has charged to the VOQ
lengths (`RunCharged`).  It holds before the first run, each run keeps it,
whatever slots it gives a proposer, and after the last one it is `AvInv'`.  With
an input accepted twice lengths may become negative within a call; `Fails` is
then true and the call ends the program, so the step is proved for both.

**Conditional.**  A call changes its record `work` many times: `qps`, in the last
slot of a batch `endOfBatchOptimization`, and `qps` for every slot with another
`endOfBatchOptimization` in every further round.  `GoodWorks` is the set of
records that a legal placement explains: the schedules add legally to those the
call found, the lengths are what these placements leave, and the bitmaps show
the slots in use.  `MatchKeeps`, the only lemma about a change of the schedules,
says that matches which take free slots and have packets (`Legit`) keep a record
good.  `qps` and each output filled at the end make such matches; that the
proposals have packets is the sampler's promise (`BuiltTree`), which is where
`CondInv` needs the bound on queue lengths: the model tabulates what uniform
sampling finds for lengths up to it.
The loops over outputs, slots and rounds are folds over sets of outcomes, and
`FoldStays` takes what every step keeps through them.  `ApprovedAfterMatch` is
kept because a slot with an approval has its output taken, so that no later match
of any round is for that slot and output.

**Sliding windows.**  `SWInv` is `IInv` with `Agrees`.  The counters need the
slots to be *matchings*: `dispatchSchedule` gives an output a slot back for each
input that is matched to it, which is right only if there is one.  The same
lemma serves both modes, because `OpenWindow` and `NextWindow` differ only in
whether the slot is cleared before or after the placements.  `RRInv` adds that
the round-robin queues have one entry per packet; what `remove_item` drops is
the entry `sample()` has just moved to the back.  `EntriesKeep` asks of the
placements only that what is placed has been proposed, which is why it serves
both modes of the model that has all classes.  For Best_Fit the step to
`BatchSpec` asks of LEMON's answer only that it is a matching of proposers with
free slots.

`RoomIsUsed` follows from the agreement of the counters, by counting.  `Room(i,
o)` are the slots free for both ports, and the rivals of an input are the other
proposers of its output, fewer than those that ask for it (`RivalsAreFewer`); each
takes one slot at most (`ImageSmaller`), so that one of the room is left
(`MoreAreLeft`).  In first fit (`FirstFitUsesRoom`) the rivals are those served
before; since the counters are exact, neither is zero while a slot is left, and
the search reaches it.  For Best_Fit (`LargestUsesRoom`) a matching that leaves the
input out could be made larger by the slot that is left: here it is needed that
LEMON's answer is a *largest* one.

**iSLIP.**  `SlipInv` keeps status bits and queues together.  `PairsOrNoIdle` is
proved by induction over the iterations: each one adds a pair as long as some
unmatched input has a packet for an unmatched output, because the output grants
someone and an input that gets grants accepts one.

**Slot by slot.**  `SlotInv` is a conjunction of one invariant per scheduler with
the switch's `SwitchInv`.  RandomizedMaximal's swap in `erase` moves the last
edge and its index entry: `Indexed` is shown to survive insertion and deletion
in any order, also when the edge deleted *is* the last.  For MaxWeight, a
matching that leaves an edge of positive weight idle is lighter than the one that
adds it.  For QPS, `TreesInv` says that the trees are those of `Told`, the queues
less what is in transit; `WorkInv` follows the iterations of one slot and says
that a VOQ is taken out at most once, with what it held (`RemovedOnce`), and only
after its output is matched.  With it goes the assertion that what `removeVOQ`
returns is the switch's queue length (`qps.cc:197`), and `Restored` puts back
exactly what was taken.  After as many
iterations as outputs, an input that is still unmatched has been rejected by
every output it has packets for, each matched: nothing is left idle.  Sampling
in proportion is a fact about trees of any height whose inner nodes are the sums
of their children (`SearchCounts`): going down by comparing with the left sum
splits the numbers below a node into as many as the left child has and as many
as the right one.  It is proved for all nodes at once, from the last position of
the array to the root; `BuiltTree` says that what `build_tree` makes, update by update, is such a
tree.

**Edge colouring.**  `ColoringInv` says that the multigraph has an edge for every
packet that waits.  It never loses one, as its edges outlive the frames.
`Colored(adj, D)` is what colouring the edges of `D` may lead to: unless an edge
was left without a colour, where the graph is crowded, any input and output have
together used no more colours than edges of `D` touch one of them.  Every edge
coloured keeps this, whatever place is drawn, because it adds one colour at most
to any pair that it touches and none to any other; an edge that finds no colour
free has ports that have used them all.  The induction goes over the two loops
of the code, ranks in any order and inputs in theirs; that the edges of one rank
are all new is what lets `D` grow by exactly one.

**Simulator.**  `SimInv` says where packets can be at each point of a slot
(`InTurn`), that the arrival times in a queue increase and lie before the timer
(`Stamped`), that what is in an output channel is from the input the output was
given to and older than its queue (`Sent`), and has Little's law at *every* point
of the slot (`Little`), with the delays that are sent and not recorded yet.  The
sums change in five ways, each a lemma: a packet joins the end of a queue with no
time spent, the head leaves with its time, everyone spends one slot more, what is
sent is recorded, all is forgotten.  `ToldOfArrivals` is the step on which the
refinement rests: overwriting the front of an older list and marking its end
tells a scheduler the new arrivals and none of the old.

**`InductionLemmas`.**  The provers cannot instantiate theorems with an operator
parameter, so the library's induction and its sums cannot be cited.  This module
has what is needed with sets and functions in the place of operators: induction
over intervals and subsets, the existence of functions defined by recursion over
numbers, finite sets and ranked arguments, sums (`Total`) with the lemmas about
adding, counting, exchanging and shifting, and what a left fold keeps.  All of
it is derived from the strict subset order of a finite set being well founded.
The folds of the community modules are expanded down to the recursive function
inside them and shown to be such sums or left folds; so are `Path` and `Search`
of `BST`.  On them rest the facts about sampling trees that two of the proof
modules need.

### Only model-checked, and why

* Every liveness property: `Drains`, `DrainsIfOneOutput`, `NoStarvation`,
  `Desynchronises`.  Liveness under fairness, and with it `ENABLED`, is beyond
  the prover used.
* That `MC_SB_QPS` and `MC_Sliding_Window`, which put classes side by side, keep
  the other properties of their runs: the theorems are about each class.  With
  `batching` as a variable, `BatchSpecOfMode` and `RoomIsUsedInMode` would need the lemmas of
  `Sliding_Window_proofs` for both values of the constant `DispatchFirst` in one
  module; they are proved for any one value.

## 5. Disagreements between code and documentation

1. **A proposal accepted twice** (`sb_availability_abort`).
   `SB_QPS_HalfHalf_AvailabilityAware::qps` gives the current slot to the first
   proposer of the *unsorted* list (`sb_qps.cc:503`), then sorts the list and
   looks for earlier slots from its second entry on (517), where that proposer
   may now be.  If its VOQ has one packet, `assert(VOQLength[s][d] > 0)` (586)
   fails.  The same code is in `SB_QPS_Adaptive` (742-757), `MI` and
   `ThreeThird`.  `NeverAborts` grants ties as an excuse, so the counterexample
   needs none.
2. **A slot filled twice** (`sb_multi_iteration`).  `SB_QPS_HalfHalf_MI` and
   `ThreeThird_MI` run `qps` several times in one slot, and every run writes
   `schedules[timeSlot][in]` (`sb_qps.cc:995`) whatever the run before wrote: two
   inputs hold one output, or an input loses the output it had together with the
   packet.  `iq_switch.cc:218-222` asserts that a matching is handed out.
3. **The second proposal is not saved** (`sb_conditional_second`).  "save second
   proposal to conditional acceptance" (`sb_qps.cc:1942`):
   `Linear_Priority_Queue::insert` overwrites the displaced entry unless the
   place behind it is in use already (`priority_queue.cpp:24`), so that of two
   proposals the shorter one is lost if it came first.
4. **A place in a list taken for a colour** (`edge_coloring_matching`).  The
   number drawn, `dis(0, free_colors.size() - 1)`, indexes `free_colors`
   (`edge_coloring_batch_scheduler.cc:98`) but is used as the colour (99-102): an
   edge may get a colour that its ports have used, and what is handed out is not
   a matching or has lost an entry.

Met while modelling, without a run of their own because a look at the line
shows them, or because 1 shows the same code:

* in the second half of a batch the current slot does not go to the longest VOQ
  in `AvailabilityAware`, as the comment at `sb_qps.cc:502` has it (the same code
  as 1);
* Best_Fit does not improve the first fit, as `batch_scheduler/README.md:97` and
  `sliding_window_qps.h:160-161` have it ("using the QPS matching as initial
  matching"): `matchingInit` (`sliding_window_qps.cpp:383`) is followed by `run()`
  (384), which begins with `greedyInit()` or `init()` (`lemon/matching.h:531-539`)
  and forgets it.  Augmenting the first fit would keep every proposer it served,
  the longest VOQ first; in the code the longest may go without a slot while a
  shorter takes it.  (`startSparse()` or `startDense()` in the place of `run()`
  would start from it.)  As vendored, `matchingInit` indexes the map by node
  (`:472`) and takes no map of edges; the build uses the LEMON that is installed;
* `sliding_window_rr.cpp:155` describes another rotation than the sort key gives;
* uniform sampling finds some non-empty VOQs never (`qp_sampler.cpp:58`); the
  model of `SB_QPS_Conditional` samples as the code does;
* a sampling tree for one output never returns from `build_tree`
  (`qp_sampler.cpp:60`);
* the graph of the edge-coloring scheduler keeps the packets of all earlier
  frames (`:32`), its search of an extra colour ends in a failed assertion
  always (`:84`), `_in_match` survives `reset()` (`:14`), and `free_colors_out`
  has an entry per input (`:62`);
* bitmaps are of 128 bits, and a larger batch ends in `out_of_range`
  (`sb_qps.h:50`);
* `previousLargestInput` has an entry per input and is indexed by output
  (`sliding_window_rr.cpp:25`); the outputs shuffled in `SB_QPS_Conditional` are
  filled by a loop over the inputs (`sb_qps.cc:1971`);
* an experiment stopped early is reported as having reached its steady stage
  (`simulator.cc:471`); a simulator without a delay instrument dereferences a
  null pointer (465); a least effort below four divides by zero (430).

`PROJECT.json` lists under `hazards` those of them, and the others, that a
sequence of legal steps meets.

## 6. Not modelled, and why

Nearly all lines under `src/` are vendored: LEMON, nlohmann's json, Catch2 and
HdrHistogram, with the program itself in a few thousand lines beside them.  Of
LEMON's two matching algorithms, what `run()` answers is modelled; how they find
it is not.  Of the program:

* Probabilities: sampling and shuffling are their possible outcomes.  Throughput
  and delay *distributions* are what the simulator measures, not what it must do.
* Traffic generators: any input may receive a packet for any output in any slot,
  which covers them all.
* The moments and histograms of Statistics, JSON, factories, logging, the
  results recorded: floating point, I/O, construction.
* `SB_QPS_Fixed`: its first call indexes the empty `schedules_pre`.
* `init()` of the schedulers and `replace_scheduler` of the switch: no path of
  the simulator calls them with packets queued.
* Switches with more outputs than inputs under `Sliding_Window_RR` and
  `RandomizedEdgeColoring`, which write beyond the end of a vector.
* `OLD/`, `matching/`, `miscellaneous.cc`, `qps_real.cc`: not built.

## 7. State of the plan

The code that has behaviour worth a model is modelled, and every safety property
the runs check is proved for all sizes, for the classes one by one.  What could
follow:

1. The liveness properties, with a prover that has `ENABLED` and fairness.
2. The variances that end an experiment, if the floating-point statistics are to
   be part of the model.
3. `replace_scheduler` and `init()` with packets queued, should the simulator
   come to call them.
