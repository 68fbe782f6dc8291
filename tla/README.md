# A TLA+ verification project for cuCascade

cuCascade keeps the data of a query engine in three memory tiers (GPU, pinned
host memory, disk), moves it between them, and makes its users reserve memory
before they use it.  This directory holds TLA+ models of the library, the TLC
runs that check them on small instances, and TLAPS proofs of the properties that
matter most for all instances.  `PROJECT.json` lists the runs, the source lines
every definition stands for, the mutants that show that each property can fail,
the hazards, the findings and the theorems.

    tlc -config MemorySpace.cfg MCMemorySpace       # a run
    tlapm DataBatchProofs.tla                       # a proof

## 1. Inventory

| Component | State | Operations | Interacts with |
|---|---|---|---|
| `data_batch`, `data_batch_processing_handle` (`data/data_batch`) | `_state`, `_task_created_count`, `_processing_count`, `_data`, `_batch_id`, pointer to a condition variable; one mutex | create, cancel, lock for processing, lock and release in transit, replace or convert data, release and move of handles, move of batches | notifies its repository's condition variable after it has unlocked |
| `idata_repository` (`data/data_repository`) | partitions of batches, `_mutex`, `_cv` | add, pop, pop by id (with or without target), get by id, `notify_state_change` | takes batch mutexes while it holds its own, waits on `_cv` |
| `data_repository_manager` | map of repositories, `_mutex`, id counter | register, add a batch to several repositories, find | holds its mutex while it takes the repositories' |
| `reservation_aware_resource_adaptor` (`memory/`) | lock-free totals, one tracker per stream or thread: arena, limit policy, out of memory policy | reserve, reserve up to, grow, shrink, attach, reset, allocate, deallocate | upstream RMM resource, policies |
| `memory_reservation` and limit policies | an arena and its notifier; ignore, fail, increase | grow, shrink, release, `handle_over_reservation` | called by the adaptor in the middle of an allocation |
| `fixed_size_host_memory_resource` | block pool, `_allocated_bytes`, active reservations; one mutex | reserve, grow, shrink, release, allocate many blocks, return them | upstream pinned allocator, called under the mutex |
| `disk_access_limiter` | total, count and peak of reservations, all atomic | reserve, reserve up to, release | disk tier of a space |
| `atomic_bounded_counter`, `atomic_peak_tracker` | one atomic | add, sub, `try_add`, `add_bounded`, `update_peak` | every resource |
| `notification_channel` | flag, running, count of notifiers; mutex and condition variable | get notifier, post, release, wait, shutdown | reservations post when they die, memory spaces wait |
| `memory_space` | a tier, its resource, thresholds, a channel | make reservation (wait, null, up to), thresholds, shutdown | resource, channel |
| `memory_reservation_manager` | the spaces, lookup tables, a condition variable | request by strategy, with a wait; lookups | spaces |
| `reservation_manager_configurator` | builder fields | setters; `build` computes tiers, ids, limits, capacities | topology, manager |
| `topology_discovery` | the topology it found | `discover` | NVML, sysfs |
| `representation_converter` | registry of converters; block-wise copies | register, unregister, clear, convert | `data_batch::convert_to`, host resource, CUDA device |
| data representations | a space, a size, blocks | – | converters |
| `exclusive_stream_pool` | idle streams, mutex, condition variable | acquire, release | nothing in the library |
| thin allocators, errors, hashing | none | – | – |

What is hard here:

* **Interleavings.** A repository scans batches under its own mutex, while
  their state changes under theirs; the manager adds to several repositories, one
  after the other; state is read, a lock is dropped, and the value is used (the
  limit a policy compares with, the decision to wait, the value of a counter
  before the exchange).
* **Lost wakeups.** Three condition variables; the repository's one is notified
  without its mutex, the reservation manager's one never.
* **Accounting.** An allocation is charged partly to a reservation and partly to
  a total.  It is freed in another order, on another stream, after the
  reservation grew, shrank or died; every step of it may fail.  Counters are
  `size_t` and wrap.
* **Lifetimes.** Handles release in destructors, where an exception terminates
  the program; arenas are found by address.
* **Machines.** What is configured follows from a machine with missing NUMA
  files, hidden GPUs, several GPUs per node, and from the order of the setters.
* **Boundaries.** Copies between memories with different block sizes.

What makes each component correct:

* batch: handles are counted, pin the data, exclude the mover; releasing never
  throws; every change of state is notified;
* repository and manager: nobody gets a batch that somebody else got, nobody
  sleeps next to a batch just added or is left out when one becomes ready, mutexes
  are released;
* adaptor and host resource: counters equal what is really reserved and
  allocated, capacity and reservations are respected, no block is given twice;
* counters, disk limiter, spaces: a reservation is granted or refused as if the
  decision were one step, peak and count are exact, calls end;
* channel: no post is lost or taken twice, shutdown reaches the waiters;
* setup: the spaces fit the machine and have distinct ids, the total is shared
  out, strategies list the right spaces in the right order;
* converters: bytes survive every conversion, the caller's device comes back.

## 2. Modules

| Module | What it is |
|---|---|
| `PinLock` | abstract specification: pins held by handles, an exclusive mover |
| `DataBatch` | the batch and its handles; implements `PinLock` |
| `DataBatchMoves` | the same with moves of batch objects |
| `DataBatchProofs` | theorems on both |
| `DataRepository` | repositories, composed with the batches (`EXTENDS DataBatch`) |
| `RepositoryManager` | the manager, composed with both (`EXTENDS DataRepository`) |
| `DataRepositoryProofs` | theorems on repositories, alone and under a manager |
| `ReservationAdaptor` | GPU adaptor, reservations, limit policies |
| `AdaptorDrift` | the same with what the total has to cover, and a history of the events that make it drift |
| `ReservationAdaptorProofs` | theorems on both |
| `HostResource` | pinned host resource |
| `HostResourceProofs` | its theorems |
| `NotificationChannel` | channel, notifiers, waiters |
| `NotificationChannelProofs` | its theorems |
| `Ledger` | abstract specification: claims on spaces, granted or refused in one step |
| `Strategies` | the manager's tables and the candidates of each strategy (operators) |
| `MemorySpace` | spaces, requests and the lock-free counters; implements `Ledger` |
| `MemorySpaceProofs` | theorems on the counters, and the refinement |
| `Topology` | what discovery makes of a machine (operators) |
| `Configurator` | setters and `build` (operators) |
| `Startup` | from a machine to a running manager |
| `Conversion` | registry and converters, on the spaces that `Startup` made |
| `SetupProofs` | theorems on `Topology`, `Configurator`, `Strategies`, `Startup`, `Conversion` |
| `Sums` | a sum over a finite set, shared by the accounting properties |
| `SumTheorems` | lemmas on such sums |
| `Orders` | sets of numbers in order, shared by `Topology` and `Strategies` |
| `MC*` | values of constants and symmetry sets of the TLC instances |

### DataBatch, DataBatchMoves

All operations of a batch run under its mutex, hence one action each; the
`notify_all` after the unlock is an action of its own (`NotifyAll`), owed by the
calling thread in `notifying`, so that other threads run in between.  A call
that returns false or throws without effect is no step.  A representation is
the memory space it lives in: that is all the state machine and the handles
look at.  `grant` and `movers` are history variables: the space a handle was
granted for, and the threads that were told they hold the in-transit lock.

`Discipline` says which target states clients pass to
`try_to_release_in_transit`: any, only the default (`idle`), or `task_created`
exactly when tasks are pending.  `StateMatchesCounts` needs the last one: with
the default target a batch with a pending task becomes idle with a task count
above 0.  `SleeperHears` of the repository needs it too: a batch that is released
to `task_created` without a task becomes ready for processing when a task is created
later, which changes no state, so that nobody is notified.  All other properties
hold for every discipline.

Batches live behind smart pointers and nothing in the library moves one, but the
move operations are public.  `Spec` leaves them out; `MovesSpec` has them, and
remembers in `moved` the batches that took part in one.  The data of a batch is
pinned by its handles as long as the batch is not moved (`PinnedUntilMoved`).  The
exception is needed: the move constructor takes `_data` in its initializer list,
before it finds out that it must throw because a handle is live, and the data
dies with the half-built object (`data_batch.cpp:43`); the move assignment
replaces the data of its target without a look at the target's handles.

No property says that the states change as documented, because they do not.  The
list at `data_batch.hpp:48-52`, the comments at `:69-70` and `:378` and
`docs/data_batch_state_transitions.md:20` return a batch to idle when its last handle
goes; the code returns it to task_created when tasks are pending
(`data_batch.cpp:269`).  `StateMatchesCounts` shows why the code is right and the
text is not: an idle batch would have a pending task.  The list also omits
task_created to in_transit and in_transit to task_created, which the code makes.

### DataRepository, RepositoryManager

A repository is identified with its `_cv`, which is what batches point at.  A
search is one step per batch examined (`ScanHit`, `ScanMiss`), with the
repository's mutex held and the batches free to change in between; deciding to
wait and going to sleep (`Wait`) are separate from the scan for the same reason.
`seen` is history: the batches a pass has looked at.  Spurious wakeups are
modelled.

`SleeperHears` says that whatever makes a batch ready for a sleeping call is
followed by a notification of that call's condition variable, which some thread owes
until it is made.  Two cases are exempt, and both are needed.  `late` (history) is
the set of batches that got ready between the last look and the sleep, the window
that the run `repo_lost_wakeup` shows.  And a batch has one pointer to a condition
variable, which an add to a second repository redirects: sleepers of the first are
not told any more.  Batch operations are those of `DataBatch`, unchanged.

The manager identifies a repository with the key it is registered under.  `mlock`
is its mutex, `fan` the batch a thread is adding and the keys it still has to
do.  Each turn of `add_data_batch_impl` is a step, in which the repository's mutex
must be free.  In this composition batches reach repositories only through the
manager.  Three things are left to the clients, as in the code: a key is looked up
only after it was registered (`get_repository` reads the map without the mutex),
`add_data_batch` names registered keys only (another key would be a null pointer),
and a batch is not added to a repository that has it.

### ReservationAdaptor, AdaptorDrift

Counters are lock-free, so allocation and deallocation are one step per atomic
operation: charge the arena, ask the policy, charge the arena again, charge the
total, allocate upstream, undo; discharge the arena, discharge the total.
Reading the size of an arena and the attempt to charge it are one step.
Reservation operations belong to a client that owns the reservation alone and
are one step.  One thing is left to the clients, as in the code: a stream is reset
only when no call uses its arena.  `_total_reserved_bytes` is not lowered by
`shrink_to_fit`; no decision depends on it, so that nothing is claimed of it.  Both
tracking scopes (per stream, per thread) are the same model.

Any memory is freed on any stream, as `do_deallocate` allows and
`test_memory_reservation_manager.cpp:210-254` does: the free is charged to whatever
arena the stream has now, whose counter may go below zero.  `owner` (history) is the
arena an allocation was charged to, `strayed` the arenas whose memory was freed
elsewhere or that were credited with a free of memory that was not theirs.  The
counter of every other arena is exact (`ArenaExact`).  For the total it makes no
difference where memory is freed: the arena gains the room, "as extra reservation"
(line 243 of that test).  So what the total owes (`Owed` in `AdaptorDrift`) is the room
that the arenas have left, plus what is allocated, plus what calls under way have
still to charge or to give back.  Five kinds of events break this law, and `events`
(history) collects them:

| Event | What happens | The total is then |
|---|---|---|
| `straddle` | a free takes an arena from above its size to below it; the wrong part is given back | possibly too low |
| `undo` | an allocation fails upstream after others have moved its arena across the end of the reservation | possibly too low |
| `stale` | the arena grew between the look at its size and the charge | too high |
| `grow` | an overrun reservation grows; the overrun is charged twice | too high |
| `lost` | an arena dies with the extra room that stray frees gave it | too high |

`CoversUntilTorn` says that the total is never too low before one of the first two,
`CapacityUntilTorn` that it stays within the capacity as long, `TotalExactUntilDrift`
that it is exact before any of the five.  A run of frees on other streams is none of
them.  `WithinReservation` holds always.  Under `ignore` and `increase` an allocation
beyond a reservation is covered as well, until it is freed across the reservation's
end, which is what `adaptor_ignore_leak` shows.

### HostResource

Everything runs under one mutex except the charge of a new reservation, which
comes before its registration (`pending`).  An allocation is several steps,
because the upstream resource is called in the middle and may throw
(`ExpandPoolThrows`).  Arenas are addresses and may be used again by later arenas;
`reservedMemory` is the address an allocation remembers, `owner` (history) the
arena it was really charged to.  `drifted` (history) records the three events
after which the code's counters are no longer exact: the upstream resource
throws in the middle, an overrun reservation grows (the overrun is then charged
twice), and an address is used again while an allocation remembers it.  After them
the total is too high, never too low (`NeverUndercounted`).

### NotificationChannel

`wait` looks at the predicate under the mutex and goes to sleep in one step;
wakeups, spurious ones included, are steps.  `_n_active_notifiers` is kept as
the code has it: it is never incremented, so that the first release makes it wrap.
`SizeMod` stands for 2^64.  `shutdown` calls `notify_one`, so that with two
sleepers one may be left; `ShutdownWakes` says what holds, that not everybody
stays asleep.

### MemorySpace, Strategies, Ledger

Threads ask a manager for reservations through a strategy, or a space for a
reservation up to some size, and release what they hold.  The resource of a space
counts as `disk_access_limiter` does; the GPU and host resources make the same
calls.  Every load, exchange, `fetch_add` and `fetch_sub` is a step: the loops of
`try_add` and `add_bounded`, of `update_peak`, the count of reservations.  `current`
is the value a loop has loaded, so that it may be stale at the exchange.  An
exchange that fails spuriously changes nothing but the time it takes.

`make_reservation_or_null` wraps a null arena in a reservation object, so that no
caller ever sees null: `make_reservation` never enters its wait, and the manager
takes the answer of the first candidate, whatever it is (`SelectMemorySpace`).  A
request waits only when its strategy has no candidate at all, as the strategies to
downgrade and to upgrade always do, and then for ever: nothing notifies `_wait_cv`.

`Ledger` says what reserving promises: a claim is granted, or refused, in one
step, on the strength of all claims there are at that moment, and they never add
up to more than the limit.  A claim up to n bytes gets something unless the space
is full.  A thread's claim starts at its successful exchange and becomes the
reservation's when the call returns.

`top` (history) is the highest total; `PeakExact` compares the peak with it.

### Topology, Configurator, Startup

A machine is what NVML and sysfs answer: whether the library is there and works,
GPUs with NUMA node, bus number and memory (some hidden), NICs and drives, NUMA
nodes.  A `numa_node` file may be missing or hold garbage, which the three places that
read it treat differently: the GPU's own node becomes unknown, the scan of NICs
ends, the mapping of NICs to GPUs lets the exception out of `discover`.  Bus
numbers are numbers, as the code's distance uses them.

The builder is a record of settings, a `double` an exact fraction; the truncation
to `size_t` is kept.  The asserts of the setters are promises of the client
(`BuildSound`).  `build` looks for devices 0, 1, ... and throws when the topology
does not have them.  A GPU reservation given in bytes becomes a fraction of what the
hardware has and is applied to the configured capacity
(`reservation_manager_configurator.cpp:209`), so that the limit is lower than
asked for when the capacity is; nothing is claimed of that.  The comment on
`set_total_host_capacity` (`reservation_manager_configurator.hpp:110-112`), "Memory
capacity per NUMA node", is that of its neighbour; its name, its assert and `build`
treat the number as a total, and so does `TotalHostCapacityKept`.

`Startup` runs setters in any order, discovery, `build`, and the constructor of the
manager; a client may change block sizes in the configurations before it passes them
on, which is how hosts come to have different ones.  Clients give every disk tier a
uuid of their choice, and the code takes two equal ones without complaint.
`Startup` gives the disks the numbers 0, 1, ... : that the ids of disk spaces are
distinct (`SpacesFitMachine`, `CandidatesRight`) is this client's doing, not the
code's.  The builder and the topology are forgotten when the manager runs.

The scan of NICs that ends at a garbled file returns the NICs found so far and logs a
warning, where the comment (`topology_discovery.cpp:335-336`) promises an empty
vector; `MappedNicsAreLocal` is about the NICs that were found.

### Conversion

A table of n bytes is the bytes 1..n, in one buffer on a GPU or in blocks of the
host's block size.  The converters copy turn by turn, with the offsets in source
and target of the code's loops.  Allocations may throw at each place where the code
makes one; the conversion then ends, and the caller's device is not restored.
After a copy between GPUs the device of the source is current, whatever the caller's
was, where the comment (`representation_converter.cpp:157`) speaks of the previous
device; `DeviceRestored` says that such a copy leaves exactly the source's device, and
every other conversion the caller's.  Others change the registry during a
conversion, which goes on with the converter it has copied.

## 3. Runs

| Run | Instance | Checks |
|---|---|---|
| `batch` | 2 batches, handles, threads and spaces, `MaxTasks` 2, with moves | `TypeOK` `HandlesCounted` `PinnedUntilMoved` `StateMatchesCounts` `ReleaseNeverThrows` `TransitExclusive` `StateChangeNotifies` `ImplementsPinLock` |
| `repo_safety` | 2 threads, 2 batches, 1 repository of up to 2 partitions | `RepoTypeOK` `PopsDisjoint` `TransitPopIsExclusive` `AddNeverMissed` `SleeperHears` |
| `manager` | 2 threads, 1 batch, a manager with 2 repositories, fair | `TransitPopIsExclusive` `SleeperHears` `MutexReleased` `AddReturnsUnlessStarved` |
| `repo_lost_wakeup` | 2 threads, 1 batch, fair; **violation** | `PopByIdUnblocks` |
| `adaptor` | 2 threads, streams, arenas, pointers; all policies, frees on any stream, up to the calls under way when an event happens | `TypeOK` `ArenaExact` `CoversUntilTorn` `TotalExactUntilDrift` `CapacityUntilTorn` `WithinReservation` |
| `adaptor_ignore_leak` | ignore policy; **violation** | `AllFreedIsZero` |
| `host` | 2 arenas, 2 allocations, up to 3 pools of 2 blocks | `BlocksDisjoint` `NeverUndercounted` `ExactUntilDrift` |
| `host_block_leak` | same; **violation** | `BlocksConserved` |
| `channel` | 2 waiters, 2 notifiers, 3 posts, fair | `PostIsSeen` `PostTakenOnce` `ShutdownWakes` `PostIsTaken` |
| `space` | 2 threads, 2 reservations, a GPU and a disk, fair | `PeakExact` `CountExact` `ImplementsLedger` `EndsUnlessContended` |
| `space_first_only` | 1 thread, 2 GPUs; **violation** | `RefusedOnlyWhenNoneFits` |
| `setup` | machines with up to 2 GPUs and 2 NICs, 2 setters, tables of 0 and 5 bytes, blocks of 2 and 3 | `MappedNicsAreLocal` `SpacesFitMachine` `TotalHostCapacityKept` `CandidatesRight` `TableUnchanged` `DeviceRestored` |

**Bounds.**  `MaxTasks`, `MaxPartitions`, `MaxPosts`, `MaxPools`, `MaxCharge`,
`MaxEvents`, `MaxCalls` and `HasSlot` cap what the code leaves open; each guard that uses one is
a limit of the instance, and the proofs hold for every value.  Two tasks are enough
for "the last one is cancelled" and "another one is left"; two handles for "the
last handle goes" and for moving one over another; two threads for every race of a
pair of operations.  Sizes are chosen around alignment, block size, limit and
capacity: a request that fits, one that straddles the end of a reservation, one
that does not fit.  `MaxCharge` and `MaxEvents` limit the states of `adaptor` in which
calls begin: an arena's counter within -3..3, where it is overrun, full, empty or
credited with a stray free, and no event so far; calls under way go on past both.
The limit of `host` (5) is no multiple of the block size (2), so
that `reserve_upto` makes arenas of an odd size.  In `space` requests of 1 and 3
bytes meet limits of 4 and 2: two requests of 3 race for the GPU, 3 never fits the
disk, and the GPU's limit is below its capacity.  In `setup` 5 bytes in blocks of 2
and 3 end inside a block on either side and cross boundaries at different
places; two setters are enough for one that undoes another.  `SizeMod` is above every
legal value of the counters, so that a counter that goes below 0 becomes visibly
large; in `adaptor` it is small, so that the wrap-around in the increase policy
(`extra_space_needed`) meets the limits.

**Deadlock** is checked in all runs but two: in `space` both threads may wait for
a reservation that never comes, and in `setup` a discovery or a build may throw.

**Fairness.**  `FairRepoSpec`, `ManagerSpec`, and `Spec` of `MemorySpace`: weak
fairness of the steps a call takes by itself once it is under way, per thread: an
unblocked thread goes on running.  Calls of clients, and spurious wakeups, are not
fair.  `FairSpec` of the channel: a woken thread sooner or later gets the mutex.
Weak fairness is what a scheduler that does not starve threads provides.  Nothing
stronger is assumed where the code offers nothing stronger; the premise is part of
the property instead.  No mutex is fair, so that `AddReturnsUnlessStarved` supposes
that searches do not take the repositories' mutexes for ever.  No exchange loop is
wait-free, so that `EndsUnlessContended` supposes that the totals stop changing.

**What the violations show** (details under `findings`):

* `repo_lost_wakeup`: a batch becomes eligible between the failed attempt and
  `_cv.wait`.  Neither the change nor the notification takes the repository's
  mutex, so that the pop goes to sleep after the notification and stays there.
* `adaptor_ignore_leak`: freeing an allocation that straddles the end of a
  reservation gives back the part inside it instead of the part outside it.
* `host_block_leak`: returned chunks never reach the free list; the pool grows
  although everything was freed.
* `space_first_only`: a request for a tier is refused by the first space of the
  tier although it fits on the second one.

Two more findings are disagreements between a text and code that is right or that
nothing else contradicts; passing runs show what the code does: `batch` that a
released batch with pending tasks is not idle, `setup` that a copy between GPUs leaves
the source's device.

## 4. Proofs

Every invariant, action property and refinement that a passing run checks is
also a theorem, for all values of the constants, about the specification of
that run or the same one without fairness or history variables.

The constants are assumed to satisfy the `ASSUME` of the module, which TLC
evaluates on every run: distinct "none" values, finite sets where cardinalities
are taken, positive sizes, limit <= capacity < `SizeMod`.  Three need a word.
`SpaceAssumption` has fewer threads and reservations than `SizeMod`, so that the
count of reservations does not wrap, and strategies whose candidates are spaces
of the configuration.  `StartupAssumption` has what the setters assert (fractions
between 0 and 1), a builder without disks at the start, block sizes above 0.
`ConversionAssumption` has table sizes that are natural numbers.

Two devices make these proofs possible.  A sum of natural numbers is the number of
its units (`Sums`), so that facts about sums (`SumTheorems`) follow from facts about
cardinalities, without induction over finite sets.  A selection from a sequence is
made by the ascending positions it selects (`Orders`), so that facts about lists of
devices and spaces follow from facts about sets of positions.

**DataBatchProofs.**  `BatchCore` is `TypeOK`, `HandlesCounted`, and: a positive
processing count means the state processing; handles point at live batches; a
thread that holds the in-transit lock is the only one and the state is in_transit.
`BatchInv` adds `DataPinned`, `MovesInv` adds `PinnedUntilMoved` instead.  Neither
`ReleaseNeverThrows` nor `TransitExclusive` is inductive alone: that a release
finds a positive count follows from the number of handles, which is why the proof
counts handles (lemmas `OnAdd`, `OnRemove`, `OnMove`, `OnMoveOver`).  For `Spec`:
`TypeCorrect`, `HandlesAreCounted`, `ReleaseIsSafe`, `HandlesPinData`,
`TransitIsExclusive`; `StatesMeanWhatTheySay` for the discipline "pending";
`ChangesAreNotified` (an action property, from a lemma that every step changes
the state of one batch at most, by a thread that owes nothing yet);
`BatchImplementsPinLock`, with the handles as pins.  For `MovesSpec`
the same holds with moves among the steps, except that the data is pinned only
until the batch takes part in a move: `MovesKeepLocks`, `MovesKeepStates`,
`MovesNotify`, `MovesSpareOthers`, `MovesImplementPinLock`.

**DataRepositoryProofs.**  None of the repository's properties is inductive.  A
search may trust what it has seen of its partition only because it holds the mutex,
and batches change under it meanwhile.  `RepoInv` is `BatchCore`, the mutex is held
exactly by the thread that scans, decides to wait or returns, no batch is twice in
a repository, and `ThreadOK`: what every thread knows at the point where it is.
Before it sleeps a pop has seen its whole partition, and while it sleeps it still
has, or a notification is on the way; what it takes is not stored any more; if it
takes it in transit, it is the only mover.  Each step has two halves: the thread
that takes it, and what it does to the others.  From it: `RepoTypeCorrect`, `PopsAreDisjoint`,
`TransitPopsAreExclusive`, `AddsAreNeverMissed`.

`SleeperHears` rests on more: a batch gets ready only by a change of its state or by an
add (`Announces`: each of them leaves its thread owing a notification of the batch's
condition variable), and a stored batch has one (`StoredHaveCv`).  That a change of
the counts alone makes nothing ready is `StateMatchesCounts`, hence the discipline
"pending" in `SleepersHear`.  `ManagerImplementsRepositories`
shows that behind the manager every repository behaves as `RepoSpec` says, since
each turn of an add is an add, so that these hold there as well
(`ManagedTransitIsExclusive`, `ManagedSleepersHear`).

**ReservationAdaptorProofs.**  `AdaptorInv` is `TypeOK` and: trackers point at
different live arenas, an arena without a stream is not charged, calls are in
arenas that exist, a call that is beyond a reservation is so under a policy that
allows it, and `WithinReservation`.  The last but one is what makes it
inductive: under fail a call never reaches the step that charges beyond
the limit, and a policy does not change under a call.  From it: `TypeCorrect` and
`FailPolicyHolds`, for any mixture of policies, threads and sizes.  With the sums:
`ArenasAreExact`, the counter of an arena is the sum of what allocations and calls
under way have charged to it, under every policy, unless a free strayed.  `DriftInv`
adds that a call charges to the total a part of what it allocates, that the limit a
call has read is at most the size of its arena (attached arenas do not shrink), and
that the total covers `Owed`, is within the capacity and, before any event, equals
`Owed`; it has to say all of it at once, since a subtraction from the total does not
wrap only because the total covers what is subtracted.  From it: `TotalCovers`,
`TotalIsExact`, `CapacityIsKept`, with frees on any stream.

**HostResourceProofs.**  `BlockInv` is `BlocksDisjoint` together with
`Circulating` (free and allocated blocks, and those being taken, come from the
pools made so far, so that a new pool is disjoint from all of them) and `Taker`
(an allocation that is being made has no blocks yet).  It gives `NoBlockTwice`
for every number of arenas, allocations and pools, upstream failures included.
`HostInv` adds `Covered` (what is owed is at most the counter, and the counter at
most the capacity) and, until an event of `drifted`, `Exact` (both are equal, and the
address an allocation remembers is that of its owner): `TotalCovers`,
`TotalIsExact`.

**NotificationChannelProofs.**  The three properties and the types are inductive
together (`ChannelInv`): `PostsAreSeen`, `PostsAreTakenOnce`,
`ShutdownsWake`.

**MemorySpaceProofs.**  A thread between two atomic operations carries values it has
loaded; `SpaceInv` says which of them it may still rely on (`CallsOK`: what it adds to
the value it loaded fits below the limit, so that an exchange that succeeds is right
even though the value may be stale), that the total is the sum of the claims
(`TotalIsClaims`), and that a highest total that is not in the peak yet is in the
hands of a thread about to raise it (`PeakComing`).  From it: `PeakIsExact`,
`CountIsExact`, and `CountersImplementLedger`: a claim
is granted by the exchange that succeeds and refused by the load, or the failed
exchange, that finds no room; the steps of the peak, the count and the retries
stutter.

**SetupProofs.**  `StartInv`: the settings are sound, the topology is what discovery
makes of the machine, and the configurations that `build` made fit the machine and
share out the total; it is proved setter by setter and tier by tier
(`NicsAreLocal`, `SpacesFit`, `TotalIsShared`).  `CandidatesAreRight` is about the step
that starts the manager: the lookup tables are selections by ascending positions,
hence a preference is a permutation and two tiers come one after the other.
`ConvInv`: the client's table is complete and has the block structure of its space;
a copy under way has taken over a prefix of the bytes, and both cursors stand behind
it, each in its own block size.  A turn of the loop copies the smallest of
three remainders, so that it never leaves a block on either side; from it
`TablesSurvive` (the bytes survive every sequence of conversions, failing ones
included) and `DevicesComeBack`.

**Only model-checked.**  Liveness: `MutexReleased`, `PostIsTaken`,
`AddReturnsUnlessStarved`, `EndsUnlessContended`; they rest on fairness, hence on
ENABLED, which the prover does not handle.  That something is violated (the four runs
above) is shown by TLC's counterexample.

## 5. Not modelled

* `exclusive_stream_pool`: nothing in the library uses it.
* `throw_on_oom_policy` is part of the allocation; policies that clients supply
  are not modelled.
* The notifiers of a space's reservations, and shutdown of spaces and manager: the
  channel has a module of its own, and since nobody ever waits on it inside a space
  (see `MemorySpace`) a composition would show nothing more.
* Sums over the spaces of a tier, total reserved bytes, streams: getters.
* The thresholds of a space (`should_downgrade_memory` and its two companions): getters
  that nothing in the library calls.  `_memory_limit` minus the available memory
  (`memory_space.cpp:191`) wraps around when more is available than the limit, the
  ordinary state of a lightly used space whose limit is below its capacity; no text
  says what they should return there, so that nothing is claimed of them.
* `get_next_data_batch_id`, one atomic increment, and
  `get_data_batches_for_downgrade`, a placeholder that returns nothing.
* Of the configurator: pool sizes, the per-stream flag, what is inside a factory.
  Of the topology: names, UUIDs, the spelling of PCI addresses, the host name.
* CUDA calls that fail other than allocations, and the asynchrony of streams inside
  a converter, which synchronizes the streams it uses.
* Several adaptors at once: with tracking per thread they share one `thread_local`
  reservation (`reservation_aware_resource_adaptor.cpp:94`).
* Undefined behaviour that clients have to exclude: resetting a stream while a call
  uses its tracker, destroying a repository while batches point at its condition
  variable, naming a key that is not registered.
* Thin allocators, error names, hashing: wrappers or values without state.

## 6. Plan

Done: all components of section 1 except the last two, their runs, two
refinements, and a proof of everything the passing runs check but liveness.

Left: that the candidates of a list of more than two tiers are spaces of the
configuration (now part of `SpaceAssumption`; `CandidatesAreRight` is about lists of
two); which of the drift events of `HostResource` each conjunct of `Exact` needs;
shorter proofs where lemmas of `DataBatchProofs` and `DataRepositoryProofs` overlap.
