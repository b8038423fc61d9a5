# FastRacer and its companions: a TLA+ development

The repository holds FastRacer, a dynamic data race detector for task-parallel
programs written with Threading Building Blocks (TBB), the detectors it is
compared with, the compiler pass that instruments the programs, and tests and
benchmarks.  This directory models the detectors and checks what they promise:
a report if and only if the execution has a data race on annotated data.

Paths below are relative to `src/fastracer/`.

## 1. The system

A program derives its tasks from `t_debug_task`, whose `spawn`,
`spawn_root_and_wait`, `spawn_and_wait_for_all` and `wait_for_all` call a hook
of the detector before or after the TBB call of the same name.  The modified TBB
calls `__exec_begin__`/`__exec_end__` around the body of a task and the compiler
pass puts a call of `RecordMem`/`RecordAccess` before every access to annotated
data.  Detector and program are linked together: hooks run on the worker
threads, in parallel, and share the state below.  At exit `Fini` writes
`violations.out`, which `test_suite/run_tests.py` reads.

| part | state | operations | status |
|---|---|---|---|
| FastRacer, task bookkeeping (`fastracer/src/exec_calls.cpp`, `fastracer/include/t_debug_task.h`, `exec_calls.h`) | table `tstate_nodes` (depth, path `m_vc`, clocks of ancestors `cached_tid/cached_clock/my_vc/root_vc`, own clock, lockset, `child_list`, `tlock`), `joinset`, `task_id_ctr`, `num_dead_tasks`, `dead_clock_value`, stack of running tasks per thread | spawn (child, sibling, root), begin, end, wait | modelled but for the thread table |
| FastRacer, race detection (`fastracer/src/Dr_Detector.cpp`) | two-level shadow space, a `VarState` per address (3 entries by lockset, 2 reads and 2 writes each, `cursize`, racy flag), `lock_map`, `all_violations` | RecordMem, lock acquire and release, report | modelled but for lock numbering and the overrun of the entries |
| FastTrack for tasks (`fasttrack/`) | vector clock per task in a concurrent hash map, write epoch and read epoch or read map per address, clocks of locks | spawn, wait, begin, end, lock hooks, RecordMem | modelled but for the tables of threads and tasks |
| FastTrack-opt (`fasttrack-opt/`) | as FastTrack with ancestor clocks as in FastRacer, a reader-writer lock per task | the same hooks | not modelled |
| PTracer (`tdebug-lib/`) | dynamic program structure tree under one lock, cache of least common ancestors, two reads and two writes per lockset | create node, LCA, parallel, the same hooks | tree, queries and RecordMem modelled |
| PTracer, unmodified (`tdebug-lib-unmodified/`) | as PTracer | as PTracer | not modelled: kept in the repository for comparison |
| SPD3 (`spd3-lib/`) | the tree of PTracer, a shadow word without locksets | the same hooks | modelled with PTracer |
| C-RACER (`cracer/`) | two order-maintenance lists (English, Hebrew), two reads and a write per address in a concurrent hash map | spawn, wait, insert, relabel, precedes, RecordMem | modelled but for the table of threads |
| Combined detector (`combined/`) | copies of several of the above | the same hooks | not modelled: runs earlier versions side by side |
| No-tool library (`notool/`) | none | empty hooks | not modelled |
| Task library (`tbb-lib/`) | TBB | spawn, wait, run | vendored; what the detectors depend on is in `FastRacerTasks` and `TaskProgram` |
| Compiler pass (`tdebug-llvm/`) | none at run time | inserts calls | not modelled: its output appears as the accesses of the models |
| Tests, benchmarks (`test_suite/`, `../benchmarks/`) | - | - | not modelled; the rule of `run_tests.py` (lines 221-262) is the specification |

What is hard in it.  (1) A verdict "this recorded access happened before the
running task" must agree with the happens-before order for every interleaving of
spawns, waits and accesses, and each detector computes it from something else:
FastRacer from three fragments of a vector clock (own clock, clocks of ancestors
copied at spawn, a union-find-like `joinset`), FastTrack from full vector clocks,
PTracer and SPD3 from positions in a tree, C-RACER from two total orders.
(2) The shadow word keeps a fixed number of accesses however many there were, and
forgets some on purpose.  (3) Hooks of several threads work on the parent's
record, on the shadow space, on the maps of addresses and on the
order-maintenance lists at the same time, under several kinds of locks, with some
reads outside of them.  (4) Tables and labels have fixed sizes.  `PROJECT.json`
lists these hazards one by one, with the property that covers each or the reason
why none does.

## 2. The modules

### What a detector promises

`HappensBefore` is the ground truth and takes nothing from a detector.  The life
of a task is cut into segments at its spawns and waits; `before[t]` is the set of
segments that happened before the current one of `t`; `history` and `raced` say
which accesses were made to the one address under consideration and whether two
of them were a data race (concurrent, one a write, no common lock).

`RaceOracle` is the abstract specification of a detector: it says "race" at the
very access that completes the first race, and never otherwise.

### FastRacer

`FastRacerTasks` is the bookkeeping.  One action per hook, with the TBB call it
belongs to:

| action | code |
|---|---|
| `Spawn`, `SpawnAndWaitForAll`, `SpawnSibling` | `t_debug_task::spawn`, `spawn_and_wait_for_all`; the sibling test at `t_debug_task.h:76` |
| `SpawnRootAndWait`, `RootWaitReturn` | the two halves of `spawn_root_and_wait` |
| `WaitForAll`, `WaitForAllReturn` | the two halves of `wait_for_all`; the second runs `Capturewait_for_all` |
| `ExecBegin`, `ExecEnd`, `MainReturns` | `__exec_begin__`, `__exec_end__`, the end of `main` |
| `LockAcquire`, `LockRelease` | `CaptureLockAcquire`, `CaptureLockRelease` |

`CaptureSpawn`, `Capturewait_for_all`, `parent_clock`, `find_root`, `check_dead` keep
their names.  `m_vc[t]` is a sequence, so its length is `depth`; the ancestor clocks
(two cached ones, the map `my_vc`, and `root_vc` once that map is large) are one
function `ancClock[t]`, as the lookups make no difference between the three but in one
place: the `JOINSET` branch of `parent_clock` (`Dr_Detector.cpp:139-142`) does not look at
`root_vc`, which matters for tasks deeper than any run reaches.  The
recursion of `Capturewait_for_all_task` over the children of children is the
least set closed under `child_list` (`LeftBehind`).  `held` is the set of locks a task
really holds, next to the `lockset` the detector believes it holds; the two differ
for a task spawned under a lock.

The constants choose the idioms of the program: `RootCallers` (who calls
`spawn_root_and_wait`), `SiblingParents` (in which state the parent of a task that
spawns a sibling may be; `{"rootwait"}` is what `parallel_for` does),
`LeaveChildren` (may a task return without waiting).  "Strict fork-join" below
means main as the only root caller, no siblings, no children left behind.

`FastRacer` adds the shadow word of one address and the action `Access`, that is
`RecordMem`: the racy test, the first access of a variable or of a phase, the scan
over the entries with a disjoint lockset, the same-epoch test, the report, the
replacement rule for the two slots (`UpdateSlots`, `LeavesHigher`), and a new entry.
One address is enough since the words of different addresses share nothing but
what `ShadowSpace` models.  `MCFastRacer` has the constraints of its runs;
`MCIdioms` runs it on four kinds of programs and collects, as a history, the clock
each task had in each segment.

### The steps inside the hooks of FastRacer

In the two modules above a hook is one step.  Two modules take it apart.

`SpawnSteps` is the locked section of `CaptureSpawn` as several threads run it on
the same parent, one load or store per step: the test-and-test-and-set spin lock
`my_getlock`, the recorded clock, `clock++` as load and store, the path entry, the
allocation of `child_list` and the `push_back`.  It implements `SpawnBooking`, in which
a spawn is one step as in `FastRacerTasks`.

`ShadowSpace` is `RecordMem` as several threads run it: lock of the first-level entry,
test and mapping of the second-level table, unlock, the pointer read *again* after
the unlock, the mutex of the word, racy test, scan, write back, `setRacy`, and the
insertion in `all_violations` under its own lock.  Which accesses conflict is an
input, fixed for a behaviour: `VerdictsAreStable` of `MCIdioms` says that a
verdict does not change under a running call.  It implements `ShadowMemory`, in
which a call takes effect at once.

### The other detectors

`TaskProgram` is a TBB program with the same events (spawn, root, sibling of a task
under a root, begin, end, wait, lock, access) and no detector in it.  A program is
*strict* as long as nobody has spawned a sibling.  `LockOrder` chooses between the
two readings of a lock: FastTrack orders a release before the next acquisition,
the others compare the sets of locks held.  A wait with no child outstanding is a step of its
own, `WaitForNothing`: FastRacer and C-RACER find an empty list of children and change
nothing, so that only `Detectors` makes a step of it, for the sake of the tree of PTracer
and SPD3.

`FastTrack` adds vector clocks and the word of one address.  `BookSpawn`,
`Capturewait_for_all`, `CaptureLockAcquire`, `CaptureLockRelease` are the hooks,
`ReadWord` is `ftread` and `WrittenWord`, `ReadsRace` are `ftwrite`.  An epoch is a
record of task and clock.  A read map is reached through a pointer kept in the
place of the read epoch; when a write empties the map, the pointer stays, and the
next call takes it for an epoch (`Pointer`, `StaleRead`).  `stamps` notes the clock
of every segment.

`CRacer` gives what the hooks of C-RACER do: `CRacerSpawn` inserts the strands of
child, continuation and (for the first spawn of a group) of what follows the wait
in the two orders; `CRacerWait` goes on in the latter and deletes the states of the
children; `CRacerRecordMem` keeps a writer, a leftmost and a rightmost reader.  Its
orders are the abstract ones of `OrderList`.  `CRacerCalls` cuts `RecordMem` where
`find` has failed and `insert` follows, two calls on the concurrent hash map.

`ProgramTree` is the tree of PTracer and SPD3: `TreeSpawn`, `TreeSpawnRoot`, `TreeReturn`
and `TreeWait` push and pop the stack of a thread (`frames`) as `AFTaskGraph.cpp` does, with
a node a path of labels, and `Parallel` is `areParallel`.  `PTracer` and `SPD3` are
their shadow words.  `Detectors` runs C-RACER, PTracer and SPD3 side by side on one
program.

`wait_for_all` calls `CaptureWaitOnly` whether or not there is a child to wait for
(`tdebug-lib/include/t_debug_task.h:106`), and `CaptureWaitOnly` takes off whatever node
is on top.  So in `IdleWait` of `Detectors` a task that has nothing outstanding takes off
its FINISH node if it has one left (from a sibling it spawned), and otherwise its own
node.  The history `due` is the number of nodes a task should have.  What a program does
after its own node was taken off is not followed (`WaitsMatched`, section 6); a program is
`Recordable` if it is strict and no task has waited without having spawned.

`OrderTree` and `OrderMaintenance` are one order-maintenance list of C-RACER as it is
implemented (`cracer/src/om.cpp`, `blist.cpp`, `omrd.cpp`): `OrderTree` the labels, the
sublists, their splitting and the tree above them, `OrderMaintenance` the threads that
insert, compare and relabel under their spin locks, a step between any two of them.
`OrderMaintenance` implements `OrderList`, so that what `CRacer` assumes of its two
orders is what the code provides; the run checks it and `LabelsImplementTheList`
proves it.

## 3. What the runs check

| run | module, bounds | what it shows |
|---|---|---|
| `fork_join_races` | `MCFastRacer`, 5 tasks (main included), 4 accesses by any of them | `NoFalseReport`, `NoMissedRace`, `ImplementsOracle`: for strict fork-join without locks FastRacer is exact, and reports at the access that completes the first race, whichever access the replacement rule drops |
| `idioms` | `MCIdioms`, four kinds of programs (below) | the ordering test is exact and what is called dead is past (`OrderingIsExact`, `DeadIsPast`), verdicts change only by steps of the task itself (`VerdictsAreStable`), the pattern of `parallel_for` is caught (`SiblingRacesFound`), a report names a concurrent access (`ReportIsConcurrent`), and the bookkeeping keeps its shape (`UniquePaths`, `RecordedClocksArePast`, `JoinsetAcyclic`) |
| `fasttrack` | `MCFastTrack`, 4 tasks, 3 accesses, one lock, siblings | vector clocks are happens-before (`ClocksExact`), a race after a write is reported by its second access at the latest (`WriteRacesFound`), a report is a race unless the pointer of a read map is taken for an epoch (`ReportsAreGenuine`) |
| `detectors` | `MCDetectors`, 4 tasks, 4 accesses (3 if one is by main or under the lock, or with siblings), siblings | the two orders and the tree agree with happens-before (`StrandsExact`, `StepsExact`); `CRacerExact`, `PTracerExact`, `SPD3FindsWrites` say what each detector reports; a wait takes off one node, the task's own if it has not spawned (`StackBalanced`); `StatesDeletedOnce` |
| `order_maintenance` | `MCOrderMaintenance`, 2 threads with 3 calls each or one with 10, labels of 3 bits, sublists of 2 | `RelabelExclusive`, `ImplementsOrderList`, `EveryInsertReturns` |
| `spawn_steps` | 4 threads | mutual exclusion, distinct paths, no lost child, `ImplementsBooking`, `EverySpawnReturns` |
| `shadow_space` | 4 calls, 3 addresses on 2 pages | one table per page, one thread per word, no lost conflict or report, `ImplementsMemory`, `EveryCallReturns` |
| `locks_false`, `locks_missed`, `nested_roots_missed`, `left_children_missed`, `first_access_lost` | 4 tasks, 2 or 3 accesses | violations, see section 5 |

The programs of `idioms`: `fork_join` is strict, 7 tasks, no accesses but every clock
any task ever had; `idioms` has 5 tasks with every spawn idiom and a lock; `reports`
has 4 tasks and 3 accesses under one lock, any root caller, children left behind
and no spawn under the lock; `siblings` has 4 tasks and 4 accesses with siblings of
a root whose parent waits.  `ReportIsConcurrent` says nothing about locks.

Completeness only is checked where there are siblings: FastRacer books such a task
as a child of the caller's parent, FastTrack and C-RACER give it the clock or the
strand of that parent, so what the caller did *before* it spawned the sibling is
not ordered before it.  For `parallel_for` this is the intended reading, since the
siblings are iterations that are logically parallel.

`StepsExact` and `SPD3FindsWrites` speak of `Recordable` programs, and `PTracerExact` of
what is reported up to the first wait of a task that has not spawned, where a behaviour of
`Detectors` ends.  `ReportIsConcurrent` is about reports only and says nothing of races
that are missed; the hazards of that kind name other properties.

`SPD3FindsWrites` leaves out races whose first access is a read.  The second reader
SPD3 keeps need not be parallel to the first (`Readers`), so that a third one finds
no place; with 5 tasks and 4 accesses a race is missed in this way, one task more
than `detectors` has.  `WriteRacesFound` and `ReportsAreGenuine` leave out the same
kind of race and the states `StaleRead` for FastTrack: an emptied read map leaves
its address where an epoch is expected.

**Bounds.**  `MaxTasks` and `MaxAccesses` bound the tasks and accesses of a
behaviour.  Clocks are bounded by the numbers of spawns and waits, but where a lock
can be taken over and over: `MaxSegments` says in which segment a task takes no lock
any more.  Three concurrent tasks and a common ancestor are what the
replacement rules compare, a fourth access is what finds out which of them was
dropped: 5 tasks (with main) and 4 accesses.  A joinset path of length two (a task
joined in a task that was joined in a third), seen from a task spawned after the
joins, needs 6 tasks with main and its root.  In `detectors` a wait with no child
outstanding is made before the first access only and, where siblings were spawned, after
the last spawn (`EarlyIdle`): it changes nothing that was recorded.  With siblings the run has
only 3 accesses; there the one claim about reports is that C-RACER misses no race, which
`CRacerMissesNothing` proves for any number.  A behaviour is not continued once
its verdict is settled: after the first report the flags stay TRUE
(`LateReportEnds`, `Undecided`, `Allowed`), and after the last access no property can
change.  The state in which this happens is itself checked.

In `shadow_space` two races on two words meet at the lock of the map, which needs 4
calls; three calls meet on one word; calls are interchangeable, so `MCShadowSpace`
enumerates inputs up to renaming.  In `spawn_steps` three threads are enough to have
one inside, one spinning and one that finds the lock released and loses the race
for it; it runs four.  In `order_maintenance` three insertions per thread use up the
3-bit labels after a node, so that both threads come to relabel and one finds a
relabelling under way; ten insertions by one thread split sublists until the tree
is rebuilt from an inner node and from its root.

**Deadlock** is checked except where a lock of the program is in play (`idioms`,
`fasttrack`, `detectors`, `locks_*`): there a program may wait for a task that waits
for a lock held by the waiting task.

**Fairness** is assumed in `SpawnSteps`, `ShadowSpace` and `OrderMaintenance` only, and
only weak fairness of each thread: the operating system runs every thread that can
run.  For the mutexes of `ShadowSpace` each call passes a lock once, so weak fairness
is enough there; for the spin locks of the other two no strong fairness is needed,
as a thread makes finitely many calls and so loses a lock to the others only
finitely often.  No liveness is claimed of whole programs, which may run for ever.

Every property of a passing run has a mutant in `PROJECT.json`: an operator marked
*Faulty* in the modules that changes one definition as a plausible bug would, with
which TLC finds the property violated.

## 4. What is proved

`FastTrack_proofs`, for any number of tasks and locks, from `MaxTasksAssumption` and
`PointerAssumption`:

- `FastTrackTypeCorrect`, with siblings and without;
- `ClocksAreExact`: in a strict program an epoch is covered by the clock of a task if
  and only if the segment it was recorded in happened before the task;
- `ReportsAreRaces`: in a strict program a report is a race, `StaleRead` aside;
- `WritesAreCaught`: in a strict program no race after a write is missed.

`ClocksExact` is not inductive.  The invariant is `ClockInv`, and the point of it is
`ClocksBounded` with `PastsBounded`: no task but a finished one is known to any other
task or lock with its *present* clock or in its *present* segment.  So when a task
moves on to a new segment and ticks its clock, the new stamp is covered by nobody
and in nobody's past, and the equivalence `TasksCover`, `LocksCover` holds for it
trivially; a spawn, a join and a lock pass on clock and past together
(`SpawnKeeps`, `JoinKeeps`, `AcquireKeeps`, `ReleaseKeeps`).  A join takes the maximum
over a finite set of clocks; that it exists is `GreatestExists`, from the least
number principle.  `Children` says that in a strict program the children a hook joins
are those the wait has waited for.  `EpochsMade` says that what the word holds was
recorded by a real access under a stamped clock; with `ClocksExact` a comparison that
fails then is a race.  `Known` is the converse for writes: while nothing is
reported, whoever covers the last write has every write in its past, since the
last writer covered the one before (`AccessKeepsKnown`), and clocks and pasts travel
together.  `NobodyKnowsRunning` again makes a new write unknown to all others.

`OrderMaintenance_proofs`, for any number of threads and nodes, labels of any width and
sublists of any size, from `ThreadAssumption` and `LabelAssumption` (the labels a split
gives to a sublist fit in the width of a label):

- `LabelsImplementTheList`: the list of C-RACER implements `OrderList`
  (`ImplementsOrderList`), through every split and every rebuilding of its tree and
  however the threads take turns; and `TypesHold`.
- What its users rely on follows: `OrderIsTotal`, `AnswersAreStable` (no insertion and no
  relabelling changes an earlier comparison) and `NothingInBetween`.
- `NodesHaveRoom`: the way down of `rebalance` meets no node with more leaves than
  labels, which is the assertion at `om.cpp:251`, except that `capacity` counts one label
  less for the root (line 110): with exactly as many sublists as labels, which line 318
  lets pass, the assertion would fail there.
- `RelabellingExcludes` and `CollectorIsAlone`, from `LockInv`, which says at which
  control points a thread owns its lock, all locks and the global one.
- `NewLabelBetween` and `NewLastLabelFits`: the half computed in the width of a label lies
  strictly between the two labels, or is the signal that there is no room.

The abstract order is compared with `PlaceOrder`, the order of the sublists and of the
places in them, which no label enters.  `LabelInv` says that the labels give it
(`PrecedesIsLeft`), and the invariant is `StructureInv`:

1. `ShapeInv`: the leaves above the sublists are nodes of the tree, and two different ones
   span disjoint ranges of labels in the order of the sublists (`Ascending`).  A leaf at
   depth d carries at most 2^(height - d) sublists that a split has not yet spread
   (`WithinHeight`), which is why a tree is never deeper than `height` once it is rebuilt.
2. `Within`: labels ascend in a sublist.  `PlacedOnce`: a node has one place.  `OneEach`:
   but for a relabelling under way, no two sublists share a leaf.
3. `CallInv`: a thread has a base of its own, so the label it computed is still
   the one to give when it links the node (`OtherLabelStays`), though other threads
   insert in the same sublist in between: the next node of a base changes with the base's
   own insertion only.
4. `QueueInv`: a sublist that is marked is alone at its leaf, only such leaves are queued,
   and none twice, also when a thread is about to queue one: so a split finds the sublist
   it is meant for.

`LinkKeeps` is the step of the abstract list; every other step is `Quiet` for it. Where
rebuilding stops is the heart of the tree: the way down enters a child only if the
child is not too heavy, and then it has more labels than leaves, so the node below
which the tree is built anew has room, or is the root (`RoomOnWay`). The root has no
room if there are more sublists than labels; then the program ends (`om.cpp:318`), and
`Rebalance` is disabled. `Pow2` and `Leaves`, the tree of `rebuild_recursive`, are
recursive functions; that their equations have a solution, and what it is, is proved
from the least number principle (`LeastExists`, `DoublesExists`, `GrowsExists`,
`LeavesBuilt`).

`FastRacer_proofs` starts with the bookkeeping, `FastRacerTasks`, for any number of
tasks, any locks and every spawn idiom, from `MaxTasksAssumption` and `ModeAssumption`:

- `TasksTypeCorrect`: the types of all variables of the bookkeeping.
- `PathsAreUnique`: no two tasks have the same `m_vc`.  The replacement rule
  identifies a position in the tree with a path, and clocks and depths repeat.
- `ClocksArePast`: the clock recorded of an ancestor is below the ancestor's clock,
  so nothing done after a spawn is ever ordered before the child.
- `FindRootTerminates`: joinset links go to tasks with smaller numbers.

None of these is inductive alone.  The invariant is `TreeInv`: tasks that have no
number yet have no clock, no state and appear in no list (`Unused`); children are
in the tree and older tasks are the parents (`Genealogy`); the path of a task is the
path of its parent followed by one of the parent's past clocks, and two children
of a parent have different last entries (`Paths`); with the three properties
themselves.  A spawn adds a leaf whose last entry is larger than any the parent
gave before (`SpawnKeepsTree`), a wait changes links and lists only within the tree
(`WaitReturnKeepsTree`, with `LeftBehindBorn` for the recursive part), and every other
step changes a state only (`StatusStepKeepsTree`).

`SpawnSteps_proofs`, for any number of threads: types, mutual exclusion of the spin
lock, distinct path entries, no lost child, and `SpawnIsAtomic`, the refinement of
`SpawnBooking`.  The invariant says what each local copy is worth at each control
point: the loaded clock is the current one as long as its owner is inside.

`FastRacer_proofs` goes on with the detector, for any number of tasks and accesses, any
locks and every idiom: `BookkeepingHolds` carries the invariants above over to it, since
an access changes neither the bookkeeping nor the order; `DetectorTypeCorrect` has the
types of the shadow word (`RecordMemType` follows the branches of `RecordMem`,
`EntriesInRange` keeps the scan inside the array); `ReportsAreGenuine` says that a report names two
different tasks that both made the reported access, one of them a write.  Its
invariant is `SlotsAreAccesses`: a slot in use, also one a replacement or a new phase
left behind, names a task that made an access of that kind at a clock that is not in
its future.  `ClockGrows` and `GoodGrows` carry it over the steps of the bookkeeping,
`RecordMemGood` over an access.

`ForkJoin_proofs`, for any number of tasks and accesses: FastRacer is exact on strict
fork-join programs.  The assumption `StrictForkJoin` is the setting of the run
`fork_join_races` (`RootCallers` = {0}, no siblings, no children left behind, no
locks); the two theorems about `MCIdioms` do not need it, since their properties speak of
the program `fork_join` only.

- `OrderingExact`: whatever a task did in a segment under a clock, a running task takes
  it to be ordered before itself if and only if it happened before
  (`OrderingIsExact`); `DeadIsForgotten`: what `check_dead` discards is past
  (`DeadIsPast`).
- `NoFalseReports` and `NoMissedRaces`: a report if and only if there is a race.
- `FastRacerIsTheOracle`: the refinement of `RaceOracle`.  A spawn is its `Fork`
  (`SpawnIsFork`), a return from a wait its `Join` (`ReturnIsJoin`), an access its
  `Access` (`AccessIsAccess`), and every other step changes nothing there.

The argument has four layers.  TLC found the invariants of layers 2 to 4 to hold with 5
tasks and 4 accesses before they were proved.

1. `FindRootFacts`: `find_root` satisfies its recursive equation.  Links lead to smaller
   tasks, so that a function that follows them exists on the tasks below any n, by the
   least number principle; no induction theorem is needed.
2. `ForkInv`, next to `TreeInv`: tasks nobody has joined and that are not declared dead
   (`Live`) form a tree.  Each is on the child list of its parent, which is live; an
   ancestor's recorded clock leads down to the task through child lists (`Ancestry`); and no
   task but a finished one is known to another in its present segment (`Pasts`).
   `FourSteps` reduces the actions to a fork, a join, the end of a phase, and steps that
   change nothing of this.
3. `Good(u, n, k)`: whatever live task is asked, it judges clock k of u as if it were
   segment n of u (`Judged`); the pair of present segment and clock of a task is good,
   and every step keeps good pairs good (`GoodStep`).  That a pair is *judged* alike by
   all live tasks, running or not, makes it inductive.  Since each slot of the shadow word
   comes from an access with a good pair (`WordInv`), the verdict of `RecordMem` is
   happens-before, and `NoFalseReports` follows.
4. `CoverageInv`: while nothing is reported, the two slots kept for reads, and the two
   for writes, cover all accesses of that kind that ever were: a task that knows the
   slots knows them all (`Covers`).  That is not inductive, since a join passes on what
   different tasks know: a task must also have every segment known somewhere below it
   (`Dominates`) as soon as those of the slots are (`Covered`).  What was forgotten is
   not lost because knowledge is confined to places in the tree: what is known of a
   segment stays under the tasks its own task is under, and under any other task
   it is known to all or to none (`Local`).  So the pair with the highest common
   ancestor covers the third access (`CoverHigher`, `CoverKept`), which is what
   `LeavesHigher` finds out from the paths (`HigherSplit`, `LowerSplit`).  A task whose access is in a slot already need not
   record it again (`Fulfilled`).  `ConflictsKnown` then says that an access that is not
   reported knows everything it conflicts with.

The same module ends with `ReportsAreConcurrent`, about the programs called `reports` in
the run: locks, roots that any task waits for, and children left behind, but no sibling,
no spawn under a lock and no access by main.  What FastRacer reports is a conflicting
pair of which the earlier access did not happen before the later (`ReportIsConcurrent`).
The ordering test is not exact there, and the tree of live tasks that the invariants
above rest on is gone, so only one direction is proved, from weaker facts:

1. `KinInv`: the clocks a task was given at its spawn lead up its ancestors (`Lineage`),
   `find_root` leads from a task to itself or an ancestor (`RootsAbove`), a task that is
   awaited is on the child list of its parent or was joined by an earlier wait
   (`Bookings`), and nobody else knows the present segment of a task (`Unseen`).
   `FourKinds` sorts the steps as `FourSteps` did.
2. `Heeded(u, n, k)`: whoever knows segment n of u takes clock k of u to be ordered.  A
   return can only move `find_root` towards the root, so positive verdicts stay
   (`CollectKeepsVerdict`); what the return of t adds to the past of t lies under a child
   of t, which now has the `find_root` of t.
3. `HeedInv`: every slot of the shadow word stands for an access that is heeded, or the
   whole word is dead.  Only a wait of main can break the former, and it brings about the
   latter.  A slot that is not ordered was therefore not known.

`VerdictsStay`, last in the module, covers the programs `fork_join` and `siblings`: the
verdict of a running task changes only by a step of its own (`VerdictsAreStable`).  A
step of another task can change it only through `find_root`.  `ChildLists` says that the
child list of a task other than main holds the tasks it waits for, and that a finished
task has left none behind; hence a return moves only the `find_root` of tasks that have
finished, to the task that waited (`GatherRoots`).  `Awaiting` says that above a task that
goes on are tasks that go on, each with a child on the way down that it has yet to wait
for.  So no other running task lies below one of these or below the task that returns
(`NobodyBelow`), and the verdict was and stays negative.

`Detectors_proofs`, for any number of tasks, accesses and locks, with siblings and
without, about the detectors that run side by side in `Detectors`:

- `DetectorsTypeCorrect`: the types of the program, of C-RACER, PTracer and SPD3.  A
  task that was spawned has a strand (`InStrand`), and children, parents and states fit together
  (`FamilyInv`), which makes the types inductive.
- `DeletionIsSafe`: C-RACER deletes the state of a task once, and not before the task has
  ended and nobody spawns under it (`StatesDeletedOnce`).  `DeletionInv`: the list
  `child` is the set of tasks the wait waits for, and none of them is deleted.
- `StackIsBalanced`: as long as each wait comes after a spawn, `CaptureReturn` takes off
  the node `CaptureSpawn` pushed and nothing is left; a task that waits without having spawned
  loses its own node, and no other task does (`StackBalanced`).  `StackInv` has two cases.
  Before such a wait every task has its own node and, while it has children, one FINISH node
  above it (`FullStacks`), as many as `due` says (`NodesDue`).  After it `StackBalanced`
  itself holds, since nothing more is done.
- `StrandsAreExact`: in a strict program both lists of C-RACER put a strand before that of
  a running task if and only if it happened before (`StrandsExact`).
- `CRacerMissesNothing`: with a race there is a report.  This holds for siblings too, and
  also if a release orders the next acquisition.
- `CRacerIsExact`: in a strict program, a report if and only if there is a race.

`StrandsAreExact` and `CRacerIsExact` assume `~ LockOrder`, as the run does: C-RACER has
no hook for the locks, so what only a release orders is unordered to it, and is
reported.  The argument:

1. `StrandInv`.  Both lists are strict total orders on the strands inserted so far
   (`OrdersInv`); tasks and waits have strands of their own (`NamesInv`); what is before the
   strand after a wait in *both* lists is before the waiting task or before one of those it
   waits for (`SyncInv`), so that a join adds exactly what it should; and nothing is behind
   a strand nobody has been in, or behind that of a task that goes on (`FrontierInv`).
   `OneInserted` says what an insertion does to one list; a spawn inserts two or three
   strands at the same place, in one list in another order than in the other.
2. `PairInv`, soundness of the order: whoever was in a strand that is before mine in both
   lists is in my past (`OrderedInv`).  A sibling is inserted behind the strand of a
   main task that waits and has taken no step in it (`SiblingInv`).
3. `ExactInv`, the converse, for strict programs.
4. `RaceInv`.  What the address keeps was accessed (`RecordedInv`).  While nothing is
   reported there is no race, the writer is behind all writes in both lists, and the two
   readers are the last of all reads, one in each list (`CoveredInv`): a write after them
   in both lists is after all reads, which is why two readers do.  With `ExactInv` a
   comparison that fails is a race (`SoundInv`).

`ProgramTree_proofs` goes on with the tree of PTracer and SPD3, for any number of tasks,
spawns and waits: `StepsAreExact`, in a strict program the query calls the step of a
running task parallel to the step of another task if and only if what was run in that
step did not happen before (`StepsExact`), as long as no task has waited without having
spawned (`Recordable`; `RecordableFrom`: it held before a step if it holds after it).
`~ LockOrder` is assumed again, since the tree
has no node for a lock, and main is left aside, as `StepsExact` does.  A path is compared
from the root down, and the answer is in the first pair of labels that differ
(`PartingIs`).  The invariant is `TreeInv`, about *items*: segments of tasks with the
step each was run in, the present ones of live tasks included.

1. `ShapeInv`: a live task has its own node and, while it has children, one FINISH node
   below it; its step is the youngest child of the node on top.
2. `FreshInv`: the number of the next child is above those of all items below a node, so
   that what a spawn adds parts from everything else (`ApartInv`).  No two tasks share a
   node (`NodesDistinct`), so another task has above the new nodes what it had above the
   step of the spawner (`SameAbove`).
3. `VerdictInv`, the property itself, over items: a task knows an item if and only if the
   query calls it its own step or not parallel.  A new step of a task is parallel to what
   the task did not know (`YoungerFollows`).
4. For the end of a wait, when the answer changes for all that lies below the FINISH node
   and for nothing else: what was run below the node of a task is known to the task or to
   a child it waits for, or lies below such a child (`CompleteInv`), and what a child
   knows and its parent does not lies below the FINISH node (`LocalInv`).  Live tasks
   below a node are below a child that is waited for (`DescentInv`), which is why
   nothing live is below the node when all children have ended.

Main records nothing when its wait ends; its roots are FINISH nodes, and a live root is
alone (`MainAlone`), so all that was run under an earlier root is known to a later one
(`RootKeepsTree`).

On this rest the theorems about what the two detectors report, both for strict programs
and with `~ LockOrder`, up to the first wait of a task that has not spawned:

- `SPD3WriterIsEnough`: SPD3 reports only if two accesses conflict, and every access that
  races with an earlier write is reported (`SPD3FindsWrites`).  Its two readers are not
  enough (section 3), so nothing is said of races that begin with a read.
- `PTracerIsExact`: PTracer has reported if and only if there was a race between accesses
  with no lock in common (`PTracerExact`), if every release gives back the lock taken last
  (`LastOut`).  That hypothesis is about the program, and is needed: `LockReleased` takes
  the last lock off the stack, whichever is released
  (`tdebug-lib/src/Lockset_data.cpp:27`).  `LocksetInv` says that under it the stack holds
  the locks that are held.  `PTracerIsExactWithOneLock` has one lock, as the run does,
  and needs no such hypothesis (`OneLockLastOut`).

The argument has three invariants besides `TreeInv`:

1. `OlderInv`: what a task knows was run in its own step or in an *older* one, whose path
   has the smaller child number where the two part first.  With `VerdictInv` this says of two
   steps that are not parallel which came first, which the query alone does not.
2. `CoveredBy`.  The two accesses that are kept span the part of the tree below their
   lowest common ancestor.  An access is covered if some segment was run in a step of
   that span, and whoever knows that segment knows the access.  A task to which neither slot is
   parallel knows both and is younger than both, and then it knows every step of
   the span (`BetweenKnown`, `CoveredIsKnown`), hence the access.  The detour over a segment of the span is
   what makes this inductive: the access itself may lie far from both slots.
3. `SlotsCover`: what PTracer puts in the two slots covers all they covered and the new
   access, in each of its four cases: the new access knows everything (`ReplaceBoth`), the
   span gets wider (`Higher`), the access lies in the span (`NotHigher`, `MixedBetween`), or
   the second slot is free.  What is covered stays covered when tasks learn
   (`CoveredKept`, from `KnowledgeFrom`: what a step makes known was known to a task before).

Both detectors skip main.  Main runs only when no other task is alive, so it knows all
that was covered (`MainKnows`), and what it does is known to all tasks that come after
(`MainInv`): an access of main races with nothing.

`ShadowSpace_proofs`, for any number of calls, addresses, pages and words, from
`ShadowAssumption`.  The invariant is built in three layers, each proved on the last:

- `PageInv`: whoever is between the lock and the unlock of a first-level entry holds
  its mutex, and a table is mapped only where there is none.  It gives
  `TablesAreUnique`: the pointer read after the unlock is the only one there will be.
- `WordLocked`: whoever is inside a word holds its mutex.  It gives
  `WordsAreExclusive`.
- `MemInv`: what a call has read of its word and of the map of violations is still
  true when it acts on it (`SeenIsCurrent`, `ViolIsCurrent`), the accesses in a word do
  not conflict (`Compatible`), a racy word has its report (`RacyReported`), and a call
  that is about to report is the first on its word (`FirstReport`).

`RecordMemIsAtomic` is the refinement of `ShadowMemory`: `RecordAccess` is its `Record`,
`Insert` its `Report`, a `TestRacy` that finds the word racy its `Ignore`, and every
other step, the scan included, changes nothing there (`QuietKeeps`, `ApproachKeeps`,
`InWordKeeps`).  `NoConflictIsLost` follows: both calls of a conflicting pair cannot be
done on a word without a report.

Only model-checked: that the races of siblings are found (`SiblingRacesFound`), where
what FastRacer takes for the order is coarser than happens-before, so that `CoverageInv`
does not apply; and liveness, which the prover does not treat.

## 5. Where the code does not do what the tests expect

Each is a run with a counterexample, listed under `findings`.

- `locks_false`: a variable first accessed by a write does not store the lockset
  (`fastracer/src/Dr_Detector.cpp:869`; a first read does, line 341).  The entry looks
  unprotected and a later access under the same lock is reported.
- `locks_missed`: the first access uses `v[0]` but leaves `cursize` at 0, so the first
  access under another lockset overwrites it (line 822).
- `nested_roots_missed`: after a `spawn_root_and_wait` inside a task,
  `Capturewait_for_all` joins all children of the task, also those still running.
- `left_children_missed`: children left behind by a finished child are joined
  although they may still run (`exec_calls.cpp:285`; the test
  `test_suite/tbb-recursive-nowait.cpp:120` uses this idiom).
- `first_access_lost`: in C-RACER two first accesses of an address at the same time both
  find no entry; the `insert` of the second finds that of the first and line 111 of
  `cracer/src/Dr_Detector.cpp` stores a fresh word over it.

## 6. What is not modelled

- FastTrack-opt.  It is FastTrack with the ancestor clocks of FastRacer; new in it are
  a reader-writer lock and a shadow pointer read before the lock (hazards in
  `PROJECT.json`).
- PTracer, unmodified, and the combined detector: older versions of code that is
  modelled.
- The thread tables (`get_cur_tid`, the stacks `cur[]`) of all detectors: a task is
  identified with the frame it runs in.  FastRacer reads the map after its lock is
  released (`exec_calls.cpp:237`), listed as a hazard.  Task stealing: any ready task
  may run at any time, and the stack of PTracer's tree is kept with the task, since
  a task that runs on top of a waiting one leaves that stack as it found it
  (`StackBalanced`), if it does not wait without having spawned.
- What PTracer and SPD3 do after a task has waited without having spawned and its own node
  was taken off.  PTracer asserts that a node is left (`tdebug-lib/src/AFTaskGraph.cpp:428`)
  and SPD3 reads the top of a stack that may be empty
  (`spd3-lib/src/AFTaskGraph.cpp:293`).  If the task runs on top of another one, the node
  of that one is found there, and the next step of the task hangs under it.  The theorems
  and properties about the tree cover programs up to that wait.
- The cache of least common ancestors of PTracer and SPD3, which returns what
  `LCA` computes unless its unlocked reads and writes collide.
- SPD3's map of violations, written without a lock and for one address only in the
  model.
- The numbering of locks by bits of a word; the model has sets of locks.  The lock
  stack of PTracer has one lock in the run.
- What lies behind the arrays: paths deeper than 30 (`MAX_TASK_DEPTH`), a fourth
  lockset (`NUM_FIXED_VAR_ENTRIES`; the entry PTracer builds in an uninitialised
  struct, `tdebug-lib/src/DR_Detector.cpp:1047`), more than 4194304 tasks.
  `Access` is disabled when `cursize` has reached the bound.
- The width of the capacity of a list in C-RACER: `capacity` is a power of two, where
  `cracer/src/om.cpp:110` shifts an `int` by `MAX_LEVEL - level`.  With the 64-bit labels of
  the code that is out of the range of an `int` from the levels near the root on; with the
  3-bit labels of the run it is exact.
- The early returns of `RecordMem` one by one: in `ShadowSpace` they share one unlock
  (`UnlockWord`), so that a release missing on one of them would not be seen.
- Addresses that agree in their low 32 bits share a shadow word; the runs take
  addresses below the modulus.
- `Fini`, line numbers, timing code, trace files and task graph output.

The compiler pass, TBB and the benchmarks are vendored third-party trees (LLVM,
Clang and TBB among them, some 2.3 million lines); the detectors are the
repository's own logic, and they are what the modules model.

## 7. Plan

1. (done) Ground truth, FastRacer bookkeeping and detection, the steps inside its
   hooks, with their theorems.
2. (done) `FastTrack` with locks and read maps; types, clocks, soundness and
   completeness after a write proved.
3. (done) `ProgramTree`, `PTracer`, `SPD3`, `CRacer`, and the order-maintenance list with
   its relabelling.
4. `FastTrackOpt`: the shadow pointer read before the lock (lines 224 and 327), the
   reader-writer lock of lines 1109-1166 load by load, with an abstract
   reader-writer lock to implement.
5. PTracer's direct-mapped cache of ancestors, filled without a lock
   (`tdebug-lib/src/lca_hash.cpp:40`).
6. FastRacer's lock table and thread table.
7. (done) The exactness of FastRacer on strict fork-join programs, of C-RACER, and of the
   tree of PTracer and SPD3.
8. (done) What PTracer and SPD3 report, from `StepsAreExact`.
9. (done) `ReportIsConcurrent` and `VerdictsAreStable`, beyond strict fork-join.
10. (done) That the order-maintenance list implements the abstract one.
11. Proofs: `SiblingRacesFound`; mutual exclusion of the reader-writer lock.
