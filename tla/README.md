# A verification project for the Zephyr benchmark application

The repository is a Zephyr RTOS application that measures kernel operations on one board
(`frdm_mcxn947`). One image holds one test. The tests are small concurrent programs: a handful of
threads hand the CPU to each other through semaphores, events, suspend/resume, yields, message
objects or an interrupt, and a start and a stop marker around one of these hand-offs give one sample.
A test has no assertion. If a thread other than the intended one runs between the markers, if a wait
queue holds something else than in the last iteration, or if a marker is one of the last window, the
result is a plausible number. These modules state what has to be true of every interleaving for the
numbers to mean what the documentation says, and check it.

Paths below are relative to the repository (`src/` is its source directory).

## 1. Inventory

### The environment all programs share

`prj.conf`, the READMEs and `bmth_port.c` fix it: one CPU, no time slicing, the system tick disabled,
all threads preemptible. A smaller number is a more urgent priority; the most urgent ready thread
runs. `main()` initialises the series, runs the compensation probes, creates `I_Task` at priority 15
and returns. `I_Task` creates the threads of scenario A, paces or awaits them, aborts them, does the
same for scenario B, and signals the end for ever.

### Components

| Component | State | Operations | Interaction | Hard behaviours | What makes it correct |
|---|---|---|---|---|---|
| `task_switching/sem_preempt` | `test_sem`, `test_event`, 5 threads and up to 8 dummies | give and take of a semaphore with and without a switch; pacing by YIELD and resume | `I_Task` resumes the thread that opens windows | lost resume; a count or waiters carried from A to B; order in the wait queue | window isolation, no lost resume, same conditions in each window, semaphore balance, implements `Measurement` |
| `task_switching/event_preempt` | one event object with four bits | post and wait; one post wakes all waiters of a bit | as above | the dummies are woken by the same post; merged posts | as above |
| `task_switching/sem_block` | `test_sem`, events | blocking take; failing take with `K_NO_WAIT` | give by the thread that takes the stop marker | first iterate without window; count left for B | isolation, same conditions, no lost resume, end |
| `task_switching/event_block` | events | blocking wait; failing wait | as above, dummies pend on the measured bit | surplus YIELD; dummies woken with the measured thread | isolation, same conditions, no lost resume, end |
| `task_switching/task_preempt` | thread states only | suspend and resume of another thread | none with `I_Task`: only priorities keep it out | `I_Task` running too early; a resume without effect | isolation, same conditions, control waits, implements `Measurement` |
| `task_switching/task_change` | the order in the ready queue | `k_yield()` among equal priorities | none with `I_Task` | the order in which one post wakes the threads; a dummy closes windows and ends the scenario | `H_Task_SA` directly behind `L_Task_SA`, isolation, control waits, end |
| `itc`, asynchronous (`fifo`, `lifo`, `stack`, `msgq`, `pipe_async`, `mailbox_async`) | object, two gates, message size, descriptors | put and get to self, up, down | a releaser below both threads gates them and feeds the series | size changed under a thread that holds the old one; markers read before they are settled; a give at the limit | markers settled, same step at sender, receiver and series, end |
| `itc`, synchronous (`mailbox_sync`, `pipe_sync`) | as above, two series per window | rendezvous | as above | order of the two stop markers; a write that blocks on the wrong queue | one pass is one transaction, end |
| `irt` | IRQ line (enabled, pending), one object per kind of release | self-triggered interrupt | the ISR releases `A_Task_SA` or takes the stop marker | stop marker written by another context; two threads count; interrupt after the abort | fresh markers, no lost release, end |
| `zephyr_api_simulation` and the `zephyr_sim.c` probes | static kernel, thread object, semaphore, event, ready queue cache, two markers, BASEPRI | replays of kernel paths, run by `main()` before any thread exists | share all of that state | a marker captured inside a callee on one arm only; counts, waiters, return values and masks left by an earlier probe | each probe takes its arm, both markers belong to the window, the read overhead fits the place of the stop marker, nothing stays masked |
| `mem` | arenas of five allocators, `test_live` | adapters called by an external harness | harness calls create, alloc, alloc_n, free, usage | one arena shared by eight pools; a create while pieces are live; a batch that does not fit | pieces disjoint, usage exact, the whole arena is given out |
| `bmth_port.c`, `bmth_config.h` | hardware registers | LEDs, counters | macros | none | not modelled: no state of its own |
| BMTH, Zephyr kernel | external | | | | modelled from their use |
| build, board, templates | | | | | not modelled: configuration |

## 2. Modules

| Module | Models | Extends or instantiates |
|---|---|---|
| `Kernel` | threads, semaphores and events as the programs call them (external code) | |
| `TestProgram` | what the two-scenario programs share: steps from label to label, windows, `I_Task`'s calls | extends `Kernel` |
| `Measurement` | abstract specification: A is measured `MEASUREMENT_COUNT` times, then B, one sample per window, and the run ends | |
| `SemPreempt` | `sem_preempt/time_task_switch_sem.c` | `TestProgram`, `Measurement` |
| `SemPreemptProofs` | theorems about it | `SemPreempt`, `TLAPS` |
| `EventPreempt` | `event_preempt/time_task_switch_event.c` | `TestProgram`, `Measurement` |
| `EventPreemptProofs` | theorems about it | `EventPreempt`, `TLAPS` |
| `Block` | `sem_block/time_task_switch_sem.c` and `event_block/time_task_switch_event.c`, one program for two primitives | `TestProgram` |
| `BlockProofs` | theorems about it | `Block`, `TLAPS` |
| `TaskPreempt` | `task_preempt/time_task_switch.c` | `TestProgram`, `Measurement` |
| `TaskPreemptProofs` | theorems about it | `TaskPreempt`, `TLAPS` |
| `TaskChange` | `task_change/time_task_switch.c`, with its own ready queue | |
| `Transaction` | abstract specification of a message passing test: the series in their order, and one message of the right size, handed over in full, for each sample |  |
| `ItcAsync` | the six asynchronous `itc` programs | `Kernel`, `Transaction` |
| `ItcAsyncProofs` | theorems about it | `ItcAsync`, `SequenceTheorems`, `TLAPS` |
| `ItcSync` | the two synchronous `itc` programs | `Kernel`, `Transaction` (one instance for each of the two series) |
| `ItcSyncProofs` | theorems about it | `ItcSync`, `SequenceTheorems`, `TLAPS` |
| `Irt` | `irt/time_interrupt_response.c` | `TestProgram` |
| `IrtProofs` | theorems about it | `Irt`, `TLAPS` |
| `Sim` | `zephyr_api_simulation` and the five `zephyr_sim.c` | |
| `MemAdapter` | the five adapters in `mem` | |
| `StandaloneProofs` | theorems about `TaskChange`, `Sim` and `MemAdapter`, the models that do not use `Kernel` | these three, `SequenceTheorems`, `FiniteSetTheorems`, `TLAPS` |
| `MC...` | values of the constants for TLC | the module of that name |

### How state and actions correspond to the code

* **One action is the local code of a thread up to and including one kernel call.** On one CPU
  without time slicing a kernel call is the only place where another thread can get the CPU, so this
  is the finest interleaving the system has. Markers, `BMTH_mwindow_open()`, `BMTH_mseries_iterate()`
  and `BMTH_mwindow_close()` belong to the action of the call that they precede or follow. In `Irt` the
  interrupt can also come after the trigger, which is therefore the end of an action too.
* `pc[t]` is the point after the call at which thread `t` continues. A call that blocks sets it when
  it is entered; `thread[t]` is then the name of the object the thread pends on.
* `Runs(t)` (ready, and nothing ready is more urgent) is a conjunct of every thread action.
* `i` is the counter of `I_Task`'s current loop. The loops over `dummy_count` create or abort one
  thread a step; the models take the dummies in any order and let the load be any subset of the
  pool, which includes the prefixes the code uses.
* `window` and `samples` are the open window and the calls of `BMTH_mseries_iterate()` made so far.
  BMTH is not in the repository: where its behaviour matters (`Irt`: does it count a call outside a
  window?) the model checks both.
* Options fixed when an image is built (`hasWaiter`, `load`, `primitive`, `kind`, `release`, `gated`,
  `build`, `adapter`) are variables that `Init` chooses and no step changes, so one run covers all builds.
* `Init` is the state after `main()` has returned. The endless loop that signals the end is a step
  that changes nothing; deadlock checking is on in every run but `sim`, and means that some thread
  can always run. `Sim` models `main()`, which returns, and is checked without it.
* `TaskChange` needs the order of the ready queue because its threads have equal priorities, and so
  keeps a sequence instead of `Kernel`'s priorities.
* In the `itc` programs a mailbox, queue or pipe with at most one stored message and a queue of
  receivers is a semaphore of `Kernel`; the synchronous ones store nothing and have three ways to
  wait. `I_Task` there is a straight line of kernel calls, which is data (`Control`) that `I_Call`
  interprets. `T_ArmUp` and `T_ArmDown` share one `struct k_thread` in the code, and only one of them
  lives at a time.
* `Sim` has one action for each replay, with a disjunct for each arm the replayed code can take; the
  two halves of an arm and `has_waiter` are arguments of one function in the code and calls of their
  own in the model. `start` and `stop` record in which window and at which place of the code a marker
  was taken. `plan` is the list of calls `main()` makes. The model lets it be any three calls the
  test exports, which covers every order and repetition an edit of `main()` could produce.
* `MemAdapter` keeps, for each adapter, the state that the adapter and the readers look at: a heap as
  a row of chunks, the slab's free list and counter, the bitmap of each pool. `live` is what the
  harness (not in the repository) holds: it takes and returns pieces one at a time or in batches and
  may create the arena anew at another granularity while pieces are live, which it then forgets. Where
  a heap or a pool puts a piece is left open. `k_malloc`'s system heap is taken to have the size of
  the arena, as its README sets it up.

## 3. What the runs check

All states are enumerated in each run. Counts are of distinct states.

| Run | States | Question |
|---|---|---|
| `sem_preempt` | 3282 | does each window hold the switch alone, are resumes answered, are conditions equal, is the semaphore balanced between the scenarios, is `Measurement` implemented? |
| `event_preempt` | 14382 | the same for the event object and its shared wake-up |
| `block` | 1321 | the blocking take and wait, with the surplus YIELD, the dummies on the measured bit, and the empty semaphore of B |
| `block_windows` | | violated: an iteration is inside an open window (finding 1) |
| `task_preempt` | 1268 | suspend and resume, with `I_Task` held back by priority alone |
| `task_change` | 2174 | the round robin of `k_yield()` |
| `itc_async` | 1146 | one pass of the releaser is one transaction at one size; `Transaction` is implemented |
| `itc_sync` | 332 | the same with three markers and two series |
| `itc_sync_receiver` | | violated: the receiver is in `k_mbox_get()` when the releaser runs (finding 2) |
| `irt` | 384 | the interrupt and the four kinds of release |
| `sim` | 16153 | does each probe measure the arm it is named for, whatever ran before it? |
| `mem_adapter` | 2308 | are pieces disjoint, is the accounting exact, is the arena used up, across changes of the granularity? |

Two refinements are checked as properties. `Measures` (in `SemPreempt`, `EventPreempt`, `TaskPreempt`)
is `Measurement!Spec` with the program's `window` and `samples`. `Block` and `TaskChange` do not
implement it, because there an iterate belongs to no window, a window is opened twice, or a dummy
closes it; they state `Finishes` and their window properties instead. `Transacts` (in `ItcAsync` and
`ItcSync`) is `Transaction!Spec`, where the message handed over is what the receiver holds once all
markers of the window are taken; `ItcSync` implements it twice, once for each series. Both abstract
specifications have a fairness part, so both refinements include that the test ends with every series
complete.

`EventPreempt`, `TaskPreempt` and `ItcSync` state no type invariant of their own: theirs would repeat
that of a sister module, and the bounds on counters that it contains follow from the refinement. Their
types are a part (`InType`) of the inductive invariants of section 4.

### Bounds, and why they are enough

* `MEASUREMENT_COUNT` is 50000 in the code and 3 to 12 in the runs. The programs are periodic: after
  the first iteration every iteration begins in the same state but for the counters, so a first, a
  middle and a last iteration are what can differ. `Irt` uses an odd number because its count may
  advance by two. The proofs hold for every number.
* The pools have three (`sem_preempt`) or four dummies (`DUMMY_POOL_SIZE` is 4) and every subset is a
  load. In `sem_preempt` the fourth priority between `H_Task_SA` and `L_Task_SA` adds no case to three.
  The proofs hold for every pool.
* `MESSAGE_SIZE_STEPS` is 9 in the code and 3 in the runs: a step with a predecessor and a successor.
  The proofs hold for every number of steps.
* `K_SEM_MAX_LIMIT` is 1000 where the code says `K_SEM_MAX_LIMIT`, above every count a run reaches; it
  is 1 for the gates of `itc` and for `irt`'s semaphore, as in the code. In `sim` it is 3, less than
  the four windows of a series, so that the replayed give reaches it.
* `sim` makes three calls, as every `main()` does: the last one has two predecessors, and everything
  an earlier probe can leave behind is a single value, overwritten or not by the next.
* `mem_adapter` has three granularities (2, 4, 8) over an arena of eight units: a smallest, a middle and
  a largest piece, up to eight pieces, heaps that fragment, and requests and batches that no longer
  fit. The code has 2^3 to 2^10 over 8192 bytes. The proofs hold for every arena and every sweep.
* The priorities are those of `benchmark_testcases.h`. `PrioAssumption` in each module names the order
  that the results depend on.

No symmetry is used: the dummies differ in priority.

### Fairness

`WF_vars(Next)` and nothing more: the CPU does not idle while a thread is ready. That is what the
kernel's scheduler does; which thread runs is decided by `Runs` and not by fairness. `Sim` and
`MemAdapter` assume none: nothing obliges the external harness to make a call, and their properties are
safety properties.

### Mutants

Every property has a mutated definition (marked `Mutant:` in the modules, used by no specification)
that changes one action as a plausible edit of the code would, and that breaks the property under the
same run: a window not closed, a bound off by one, a resume in the other branch, an abort skipped, an
interrupt left enabled, `==` for `>=`, a static that keeps its value, a table in the opposite order.

## 4. What is proved

There are theorems about every program. For each one an inductive invariant (`IInv`; `ChangeInv` for
`TaskChange`, `MemInv` for `MemAdapter`) is proved for every value of the constants that satisfies the
named assumptions, and from it every safety property that a passing run checks. Three models
share one module of theorems, because they have nothing in common with the others.

| Module | `Spec => []...` | Implements |
|---|---|---|
| `SemPreemptProofs` | `IInv` (`Invariance`), `TypeOK` (`TypeCorrect`), `WindowIsolation` (`Isolation`), `NoLostResume` (`Resumes`), `SameConditions` (`Conditions`), `SemBalance` (`Balance`) | `Measurement` (`Refinement`) |
| `EventPreemptProofs` | `IInv` (`Invariance`), `WindowIsolation` (`Isolation`), `NoLostResume` (`Resumes`), `SameConditions` (`Conditions`) | `Measurement` (`Refinement`) |
| `BlockProofs` | `IInv` (`Invariance`), `TypeOK` (`Types`), `WindowIsolation` (`Isolation`), `SameConditions` (`Conditions`), `NoLostResume` (`Resumes`) | |
| `TaskPreemptProofs` | `IInv` (`Invariance`), `WindowIsolation` (`Isolation`), `SameConditions` (`Conditions`), `ControlWaits` (`Control`) | `Measurement` (`Refinement`) |
| `ItcAsyncProofs` | `IInv` (`Invariance`), `TypeOK` (`Types`), `MarkersSettled` (`Settled`), `SameStep` (`Sizes`) | `Transaction` (`Refinement`) |
| `ItcSyncProofs` | `IInv` (`Invariance`), `OneTransaction` (`One`) | `Transaction`, once for each series (`Refinement`) |
| `IrtProofs` | `IInv` (`Invariance`), `TypeOK` (`Types`), `FreshMarkers` (`Fresh`), `NoLostRelease` (`Released`) | |
| `StandaloneProofs`, `TaskChange` | `ChangeInv` (`ChangeInvariance`), `TypeOK` (`ChangeTypeOK`), `DirectlyBehind` (`ChangeDirectlyBehind`), `WindowIsolation` (`ChangeWindowIsolation`), `ControlWaits` (`ChangeControlWaits`) | |
| `StandaloneProofs`, `Sim` | `IInv` (`Invariance`), `ReplaysItsArm` (`Arms`), `ReadOverhead` (`Overheads`), `UnmaskedAtTheEnd` (`Unmasked`) | |
| `StandaloneProofs`, `MemAdapter` | `MemInv` (`MemInvariance`), `PiecesDisjoint` (`PiecesNeverOverlap`), `UsageExact` (`UsageIsExact`), and the action property `FillsTheArena` (`ArenaFills`) | |

A `Refinement` theorem says that the initial states of the program are initial states of the abstract
specification and each of its steps is an abstract step or leaves the abstract variables alone
(`Spec => M!Init /\ [][M!Next]_(M!mvars)`).

### Assumptions

* `CountAssumption`: at least one iteration; in `itc` at least one message size; where there is a
  semaphore, a positive limit. `SemPreempt` also needs a limit that is no smaller than the number of
  iterations, so that no give of the build without waiters is dropped.
* `TaskAssumption`: the names of the threads are distinct.
* `LoopAssumption` (`Sim`): at least one window for each probe and a positive limit of the semaphore.
* `SizeAssumption` (`MemAdapter`): every granularity of the sweep divides the arena. In the code both are
  powers of two: `mem_blocks.c` asserts it of the arena, and the sweep is made of shifts. The header of a
  heap takes at least one unit and leaves one.
* `PrioAssumption`: priorities are distinct, `I_Task` has the least urgent one, and the threads of a
  scenario have the order that the comments in `benchmark_testcases.h` ask for; in `TaskChange` the threads
  of scenario A have equal ones. The theorems hold for
  every assignment with this order and every load, not only for the numbers in that file.
* `ItcAsync`, `ItcSync` and `Irt` contain the code's priorities. `ItcAsyncProofs` uses two facts about
  them: `I_Task` is least urgent, and in each direction the releaser is less urgent than the sender
  and the receiver. `ItcSyncProofs` uses the order of sender and receiver as well.
* The pools of dummies may have any size that the order of the priorities leaves room for.

### The argument

No property is inductive. A property of a test is about the moment in which a marker is taken, and what
it rests on is where every other thread stands at that moment. `IInv` therefore says that the program is
in one of a few phases, and a phase gives the state and the label of each thread, the posted bits, the
counts, and the number of samples as a function of the loop counters. In `SemPreempt` a loop is the cycle

    A_Armed -> A_Given -> A_Recorded -> A_Parked -> A_Armed
    B_Start -> B_Parked -> B_Armed -> B_Given -> B_Counted -> B_Recorded -> B_Parking -> B_Parked

and the other programs have cycles of the same kind. The proof has three parts.

1. Effect lemmas say of each kernel operation what becomes of each thread and each object, and a
   lemma (`ControlPhase`, or one for each position in `Control`) which phases `I_Task`'s label
   leaves possible.
2. One lemma per action: the guard and the phase invariant leave one phase it can start from, the
   effect lemmas give the next state, and that is the next phase of the cycle.
3. Each property follows from `IInv` alone.

What the phases have to say differs, and is what a reader of the code should know:

* `EventPreempt`: one post wakes the dummies together with the measured thread, so dummies are ready
  while a window is open. Isolation rests on their priority alone. They are all back in their wait
  before `I_Task` runs, because the last thread of an iteration is less urgent than they are.
* `SemPreempt`: the windows of a scenario are equal but for the count of the semaphore in scenario B without
  waiter and without load, where nobody takes what is given. `SameConditions` says that the count is then
  the number of samples and below the limit, so that every give increments it. In `EventPreempt`
  the same build leaves the bit of scenario B posted from the first window on.
* `Block`: `L_Task_SA` begins its loop with the stop marker and so is one sample ahead of `I_Task`
  throughout; the window that follows START stays open while `I_Task` runs. One `YIELD` is left over
  when scenario A ends and is still posted when scenario B starts. No call ever finds the semaphore given.
* `TaskPreempt`: no event tells `I_Task` that a scenario is over. The invariant is that from the post of
  START, and from the creation of `Task_SB`, some thread of the scenario is ready until the series is
  complete and all of them are suspended.
* `ItcAsync`, `ItcSync`: the position of `I_Task` in `Control` names the direction; within one, the
  loop counters give the samples and the position of the releaser the state of both partners
  (`Rest`, `Released`, `Opened`, `Sent`). The two gates are never given at their limit. In `ItcSync`
  nobody ever pends in a send: the receiver is always in the object's queue first.
* `Irt`: a window is triggered, raised, released and counted, and only in the second stage can the
  interrupt be taken.
* `Sim`: the properties speak of what a window has captured, and which arm it takes depends on what the
  entry of its probe and all earlier probes have left. `IInv` says what the entry establishes and no
  window of that probe destroys (`Entered`), what the calls of one test never change (`Untouched`),
  and which call has masked the interrupts (`Masks`). `Outcome(c)` is what a window of call `c` does
  under `IInv`: one lemma for each replay shows it, and `WindowKeeps` carries `IInv` over any step
  with that outcome.
* `TaskChange`: from the post of START until the last sample, the ready queue is a ring of peers in front
  of `I_Task`, in which `H_Task_SA` follows `L_Task_SA` (`A_Run`). A yield rotates the ring, so nothing has
  to be said of the order of the dummies, and any number of them may stand anywhere else in the ring.
  When `L_Task_SA` is last in the ring and `H_Task_SA` first, the window is open; the dummies run in the
  rest of the round only, when `H_Task_SA` has counted the sample. The queue operations insert and remove with
  `SelectSeq`; lemmas such as `RotationKeeps` and `SuspendIs` restate what they do by positions (`Place`),
  so that no induction over the queue is needed.
* `MemAdapter`: `MemInv` says of each adapter what the pieces that the harness holds are in the state of
  the allocator: the blocks missing from the slab's free list, the bits that are set, one used chunk each
  of a heap. The chunks of a heap are a row without gaps from its header to the end of the arena. Each piece
  lies in a used chunk, which is all that `PiecesDisjoint` needs; for `UsageExact` each used chunk but the
  header also has to hold a piece (`AllHeld`). `UsageExact` compares a sum over a
  set with a walk from chunk to chunk, both recursive functions. The provers have no induction, but the
  library's `WFMin` gives a smallest element of any set of counterexamples (`SetMinimum` for finite
  sets, `NatMinimum` for numbers). With it, the functions exist and are unique, the sum does not depend
  on the order in which it is taken (`SpaceOfAny`), and the walk from a chunk on is the space of the
  pieces from that chunk on (`WalkIs`).

Each of these invariants was checked by TLC as an invariant of its run's configuration before it was
proved. Two of them had no counterexample there and were not inductive all the same:

* `ItcAsync`: the size of a message is stored at the head of the loop over the sizes only, so
  `SameStep` in a later iteration depends on the first one. `Rest` and `Sent` have to say that
  `active` is `step` once `i` is not 0.
* `Block`: when `L_Task_SA` has been aborted, `H_Task_SA` must still be said to pend (`A_End`), or the
  abort of a ready thread cannot be excluded.

### What is only model-checked

* Liveness: `Finishes` in `Block`, `TaskChange` and `Irt`, and the fairness parts of `Measures` and
  `Transacts`. These are out of the prover's reach, and so is the absence of deadlock (`ENABLED`).
* The properties of the two runs that expect a violation (section 5).

## 5. Where code and documents disagree

Shown by a run:

1. `event_block` and `sem_block` call `BMTH_mseries_iterate()` for scenario A once before a window is
   open, `MEASUREMENT_COUNT + 1` times in all; `README.md:199` defines a measurement iteration as "One
   measurement inside an open window" (run `block_windows`).
2. `mailbox_sync.c:196` says that the releaser is only scheduled when the receiver is blocked in
   `k_mbox_get()`. It is blocked on `test_recv_sem` then (run `itc_sync_receiver`). The comment at line
   321, and the one in `mailbox_async.c`, give the same wrong reason for arming the descriptors early.

Met while reading, not checked by a run:

* `sem_block/benchmark_testcases.h:56` defines `ADD_DUMMY_TASKS` as 4 in the branch with a load.
  `task_switching/README.md:56` says 1; with 4, `dummy_count` is 0 in both test cases.
* `task_preempt/README.md:19` says that `H_Task_SA` "never runs" in scenario B. It runs when `Task_SB` has
  suspended itself after the last iteration; the window is closed by then (`TaskPreempt`).
* `event_preempt/time_task_switch_event.c:36` says of `SCENARIO_B_EVENT_MASK` "never posted", and line
  175 "No matching Waiter". `H_Task_SB` posts it, and with a waiter or a load somebody waits.
* `irt`: where the ISR releases `A_Task_SA`, both that thread and `L_Task_SA` iterate scenario A for one
  trigger, the second after the window has been closed.
* `event_preempt/zephyr_sim.c:161` says that the read overhead has to be picked per arm, not per function.
  The tail of `z_swap` in `sem_preempt`, `sem_block` and `event_block` is initialised with the
  cross-function kind although its stop marker is taken in the probe, and `event_block`'s prologue of the
  wait the other way round. No `main()` calls these arms (`ReadOverhead` says so).
* `sim_measure.h` lets the wait's prologue begin at the entry of the call. Its start marker is taken
  behind the checks.
* The comments in `zephyr_sim.c` say that the write to `SCB->ICSR` has no counterpart in the replay;
  `sim_kswap.h` writes `SCB->ICSR |= 0` there.
* `sem_preempt`'s replay of the blocking take leaves BASEPRI masked until a later probe replays the swap's
  prologue; `main()` does so last (`UnmaskedAtTheEnd`).
* `itc/msgq/README.md:23` gives each object `MESSAGE_SIZE_MAX` bytes; the code cuts slices of the size
  of the step.

## 6. What is not modelled

* The harness of `mem` (BMTH package) beyond the calls it makes, and the allocators' own algorithms: which
  chunk, piece or block is handed out is left open. `mem_zephyr_main.c` has no state of its own: one
  thread calls the harness and signals its result. That a batch is taken in full or not at all is the
  promise of `sys_mem_blocks_alloc()`, not of the adapter, so that part of `FillsTheArena` rests on
  `AllocN` as it is written.
* In `mem_blocks.c`, the error return of the count of used bytes: the region is the whole bitmap, which is
  always valid. The fixed cost of a pool is one constant (`OBJECT`), where the code's depends on the size
  of the bitmap; `UsageExact` compares two values that both contain it.
* In the probes, the read validity check, the jitter signal and the branches for other cores or with
  `RUNTIME_STATS`, which this build does not compile.
* The hardware: cycle counts, caches, barriers. In particular `Irt` takes the interrupt before the
  thread that raised it goes on; the code has no barrier after `NVIC_SetPendingIRQ()`, and how many
  instructions can slip through is not something the repository says.
* The contents of messages, the ring offset of `pipe_async`, the outlier counts and the LEDs.
* `bmth_port.c`, build files, board files, templates.

## 7. Plan

Done, in this order: `Kernel`, `TestProgram`, `Measurement`; `SemPreempt` and its proofs; `EventPreempt`,
`Block`, `TaskPreempt`, `TaskChange`; `ItcAsync`, `ItcSync`, `Transaction`; `Irt`; `Sim` and its proofs;
`MemAdapter`; the proofs of `TaskPreempt`, `ItcAsync`, `Irt`, `ItcSync`, `EventPreempt`, `Block`,
`TaskChange` and `MemAdapter`.

No safety property of a passing run is left without a theorem. What could be added is outside the
repository or the prover: a model of BMTH's series once its source is at hand, which would settle
what an iterate outside a window does, and the liveness of section 4 with a prover that has `ENABLED`.
