# TLA+ verification of the embedded parameter manager

The program (`src/core`, `src/port`, `src/modules`) is a C framework for embedded
devices. An application declares tables of parameters, registers them in modules,
reads and writes them through ids, flushes dirty ones to hardware or to an algorithm,
and loads and saves the persistent ones. This directory models it in TLA+, checks the
model with TLC on small instances, and proves its main invariants with TLAPS for every
value of the constants.

Paths below are relative to the repository's `src/`, but for `README.md` and `examples/`,
which are at its root, and the `.tla` files.

## 1. The system

| Component | State it keeps | Operations |
|---|---|---|
| **Core**: life cycle, registry (`core/param_manager.c`) | `g_pm`: initialized, storage driver, hash table, module list sorted by `MODULE_INIT_ORDER`, statistics | init, deinit, set_storage, module registration |
| **Core**: reading, writing, commands | none of its own | write, write_raw, write_immediate, exec, reads |
| **Core**: flush, integrity check, statistics | `dirty_count`, `flush_error_count`, `flush_order_miss_count` | flush, check_flush_integrity, clear_stats |
| **Core**: reset, range, validation | per entry: range | reset_one, reset_all, set_range, validate_all |
| **Core**: persistence | the storage driver in use; what the back end holds | save_one/all, load_one/all, in slot order of the hash |
| **App subsystem** (`core/app_param_manager.c`) | per entry: cache, dirty byte, range; per module: one dirty bit | write with clamp or enum check and `apply`, flush, init, reset, load |
| **IP subsystem** (`core/ip_param_manager.c`) | per entry: cache, dirty byte; per instance: dirty bit and `dirty_map` (64 bits) | write, flush through `write_cb`, immediate write, `ip_control`, registration |
| **Hash table** (in the core) | open-addressed slots, 8-bit slot index | insert, find |
| **Lock and porting layer** (`port/`) | the mutex; a pool | LOCK/UNLOCK, allocation |
| **FlashDB back end** (`port/param_storage_flashdb.c`) | the database | load, save, erase |
| **Dump** (`core/param_dump.c`) | none | prints |
| **Sensor IP module**, **auto exposure module** (`modules/`) | register image; `g_ae_instance` | callbacks of the two subsystems |
| **Basic example** (`examples/basic`) | the frame's settings on the handler's stack | boot sequence, frame handler |

How they interact. A public call takes `LOCK`, finds the entry by its id, and goes
through two vtables: the entry's (`app_vtable` or `ip_vtable`: value, dirty byte,
count) and then the module's (`app_module_vtable` or `ip_module_vtable`: dirty bit,
dirty map). Both ends call back into user code under the lock: `apply`, `write_cb`,
`flush`, the storage driver. `param_exec` calls its callback after giving the lock
back. `param_load_all` gives it back before it walks the module list to run the init
callbacks. Nodes and entries are static objects: they outlive `param_deinit` with the
flags they have.

What is hard here:

- one fact is kept in four places (entry byte, bit of `dirty_map`, module bit, global
  count), set and cleared in different functions of three files, with early returns and
  failing callbacks between them;
- a flush may fail in the middle of a table, with other modules still to come;
- `param_load_all` runs callbacks, and reads `next` pointers, without the lock;
- registration may stop half way in a full hash, and may happen before `param_init`;
- ranges change at run time, while cached values exist that were not clamped to them;
- a build for bare metal has an empty LOCK; a build for FreeRTOS has a mutex that a
  callback must not take again; and some accesses are made outside it in every build:
  the test of `initialized`, `param_set_storage`, `param_init`, the counter of the
  integrity check, the init callbacks;
- a save or load of everything is a walk over slots that may meet a bank switch, an
  entry that fails or a power failure between any two of them, and ids that collide
  or occur twice decide where an entry is;
- the frame handler reads settings, computes and writes them back in separate calls,
  while a host may change the same parameters in between.

What makes each part correct: no dirty value is ever out of reach of `param_flush`; the
cache is a write-back cache of the driver's registers; the algorithm and the cache hold
the same value; the list is in order; lookups, counts and list agree; a failed flush is
tried again; the count does not run away. The hash is a directory of ids. A save
that returns `PARAM_OK` has stored every entry, one that stops has stored a prefix of
the slots, a load likewise. Tasks that call at once lose no value, wait for nobody for
ever, and what is owed to the driver gets there. From the boot on the sensor and the
algorithm work with what the caches hold, and the exposure comes to fit the frame rate.

## 2. Modules

| Module | Models | |
|---|---|---|
| `ParamState` | constants, variables, and the helpers every part shares | hash as a set with `HashSize` places, `param_module_node_insert`, `mark_dirty_if_needed`, `param_entry_clear_dirty`, `clamp_value_to_range`, init callbacks |
| `AppParam` | `app_param_manager.c` | operations of the two App vtables |
| `IpParam` | `ip_param_manager.c` | operations of the two IP vtables, `ip_control`'s driver access |
| `ParamManager` | `param_manager.c` | one action per public call; composes the two subsystems as the core does through the vtables |
| `ParamProperties` | nothing | what is claimed of `ParamManager` |
| `WriteBack` | nothing: an abstract specification | a write-back cache in front of registers: put, deliver, reset, through, command |
| `ParamHash` | the hash table of `param_manager.c` | slots, `hash_index`, `hash_insert`, `hash_find`, and the two registrations entry by entry |
| `IdDirectory` | nothing: an abstract specification | a directory from ids to entries: add under a free id, clear |
| `ParamPersist` (extends `ParamHash`) | persistence, storage drivers | `param_save_all` and `param_load_all` slot by slot, banks, power failure; BLOB and STRING entries |
| `ParamLock` | the mutex, and the calls on one IP instance access by access | tasks at once; implements `WriteBack` |
| `FrameLoop` | `examples/basic`, the sensor and auto exposure modules | boot, frame handler, `ae_instance_run`, a host |
| `ParamManagerProofs` | nothing | types, count, reach of the bits, order of the list, action properties |
| `RegistryProofs` | nothing | the registry when the hash has room for every entry |
| `WriteBackProofs` | nothing | the refinement of `WriteBack` |
| `DirtyProofs` | nothing | bytes, bits, module flags and count agree |
| `HashProofs` | nothing | the hash finds what it holds and what was registered, is a directory, and, within reach of its index, gives up only when full |
| `PersistProofs` | nothing | saves and loads keep the slot order and leave cache and flash equal when they succeed; `ParamPersist` implements `ParamHash` |
| `LockProofs` | nothing | what LOCK keeps together and who holds it; the refinement of `WriteBack` by tasks at once; the integrity check |
| `FrameProofs` | nothing | caches, sensor and algorithm in step, the gain's bound, exposure by hand, the exposure's limit |
| `MCIp`, `MCApp`, `MCRegistry`, `MCPersist`, `MCLock`, `MCFrame` | shapes of tables, values, jobs | the instances TLC checks |

State. `dirty` is the set of entries whose dirty byte is 1, `mod_dirty` that of modules
whose bit is 1, `dirty_map[m]` the set of bits, `hashed` the entries in the hash, `list`
the module list followed through `next`, `hw[m][l]` what the driver or algorithm last
received for a local id, `loader` the node a `param_load_all` in its INIT phase holds.
`call` is a record of the last call and its result, so that properties can speak of
them. No action reads it, and the runs leave it out of TLC's state (`VIEW state`): the
action properties look at `call'` only, which the step itself sets, and TLC checks
them on every step it generates.

Actions of `ParamManager`. A call is one step, because it holds the lock from its first
read of shared state to its last write. `ParamLock` is where this is looked at: there
each access is a step, and `LockedIsWriteBack` says that the calls of several tasks
still add up to the steps of the same abstract write-back cache. Each action has a
disjunct per early return, in the code's order, and one for the success. The outcome
of a callback is a free choice; one that fails has changed nothing. A flush takes a
function `stop` that says, for each dirty module, how many slots were done before a
callback failed. `param_load_all` is a step for the LOAD phase and one step per module
for the INIT phase, between which any other call may run.

The other modules cut calls finer and look at less of the state each:

- `ParamHash`: `slot` is the array, `reg` the registration that holds LOCK with its
  place in the table. An id's hash is a constant, since only collisions matter; the
  probe sequence, the wrap and the truncation of the index to `uint8_t` are the code's.
  `param_module_register` tests `initialized` before LOCK, which is a step of its own
  (`register_ask`, with the modules that wait in `asked`), and `ip_driver_register` does
  not test it. `param_init` takes no LOCK and may come across a registration; `reg.calm`
  records that none has.
- `ParamPersist`: `walk` is the save or load in progress: `checked` between the tests of
  `initialized` and `storage` and LOCK, then `walking` at a slot. `flash[bank]` survives
  `power_failure`, everything else starts again. The fields `ok`, `home` and `before`
  record what the properties compare with; no guard reads them.
- `ParamLock`: `task[t]` is a program counter with the call's locals. LOCK, UNLOCK, each
  access to the cache, to the module flag, to `dirty_map`, to the driver and to the miss
  counter is a step of its own, in the code's order (the calls are write, immediate write,
  reset, flush, check, `param_clear_stats`, load, `ip_control`, deinit, registration and
  init), and so are the test of `initialized` before LOCK, the counter accesses of `param_check_flush_integrity` around it, and the
  init callback after UNLOCK. What is *owed* to the driver is the bits, and the
  parameters whose cache is written and whose bit is about to be.
- `FrameLoop`: `at` is the place in the boot or in `app_frame_handler`; each call on the
  framework is a step, between any two of which the host may make its own. A correction
  of the algorithm is any step up to `MaxStep` in the direction of the error; the
  conversions of negative floats and of a division by zero give any value of `Undefined`.
  `manual`, `quiet` and `stray` are history variables, for the properties; no guard reads
  them. `stray` holds the entries whose cached value a reset or the clamp of
  `param_validate_all` has changed without telling the sensor or the algorithm.

Some definitions have a second form that starts with the comment "Fault:". These are
plausible mistakes in the same code; a property is worth its place if TLC refutes it
with the fault put in, and nothing in the specification uses them.

## 3. Runs

| Run | Instance | Checks |
|---|---|---|
| `ip` (13 312 states) | one instance with an ordinary, an EXEC and a read-only parameter, values 0..1 | `TypeOK`, `DirtyCountBounded`, `PendingBitsReachable`, `WriteBackSpec`, `FailedFlushRetries`, `FlushOkDelivers` |
| `app` (18 270) | one module with a ranged number, an enumeration and a command, values 0..2, ranges changed at run time | `AppDirtyFlagged`, `NumericClamped`, `AppliedValueCached`, `FlushOkLeavesClean` |
| `registry` (3 538) | five modules, tables with empty slots, one table longer than a dirty map, a hash with four places for seven entries | `DirtyCountExact`, `DirtyBytePending`, `ListOrdered`, `RegistryConsistent`, `InitFollowsOrder`, `FailedFlushRetries` |
| `storage` (187 432) | an App module and an IP instance, three colliding ids and one id twice, a hash of four slots for five entries, two entries that persist, two banks, one BLOB | `StoredIsFound`, `HashIsDirectory`, `NoMemoryOnlyWhenFull`, `RegisteredIsFound`, `SaveInSlotOrder`, `LoadInSlotOrder`, `OkMeansInSync` |
| `lock` (82 616) | a frame task that writes, checks and flushes; a host task that makes every other call, `param_clear_stats` and `ip_control` included; two parameters, one of which the init callback pushes | `CheckTellsTruth`, `HolderNeverWaits`, `LockedIsWriteBack`, `EveryCallReturns`, `OwedIsDelivered` |
| `frame` (1 159 707) | exposures 0..5, frame rates 0..2, a gain raised up to 1, a black, a darker and a brighter scene, a stored target out of range | `InStep`, `GainBounded`, `ManualExposureKept`, `QuietFrameFits`, `ExposureSettles` |
| `hash_size` | the instance of `storage` with eight slots and an index that names four | one statement of the documentation (section 5) |
| `lock_init` | the instance of `lock` | one statement of the documentation (section 5) |
| `ip_command`, `ip_partial_flush`, `ip_readonly`, `app_load_all` | the same instances with fewer calls | one statement of the documentation each, which the code does not keep (section 5) |

`Calls` says which calls the application makes in a run. Where a property holds only
for an application that leaves some calls out, its comment says so and the run shows
the scope: `DirtyCountExact` needs one that never clears statistics nor deinitializes,
`DirtyBytePending` one that never deinitializes, `AppDirtyFlagged` and
`FlushOkLeavesClean` one that never calls `param_load_all` (the run `app_load_all` is the
latter with it). The theorems carry the same conditions as hypotheses.

Bounds, and why they are enough:

- *Values* 0..1 or 0..2: the code compares values only with a range, an enumeration and
  the default; two values tell "written" from "default" and three put one on each side
  of a bound, and include an inverted range.
- *Three parameters per module*: a flush can fail before, between and after others; a
  module flag can be held by another entry. Each has a different kind of flags.
- *`DirtyMapBits` = 3* for 64, with tables that use the last bit, and a table of four
  slots that registration must refuse.
- *`HashSize` = 4 or 8* for `PARAM_HASH_SIZE`: at 4 the table fills up exactly with some
  orders of registration and overflows in others.
- *`ErrorWrap`* 1 or 2 for the 2^16 of `flush_error_count`: nothing reads the counter but
  its owner, and a smaller modulus keeps the state space finite.
- *One* `param_load_all` in progress at a time in `ip`, `app` and `registry`; one walk in
  `storage`. `lock` has as many as there are tasks.
- *`storage`*: three ids start at the last slot, so that probing goes on, wraps and
  fails. `IndexRange` stands for 2^8, the range of the slot index, and is not below the
  size of the table (`IndexFits`), as with `PARAM_HASH_SIZE` 256; in `hash_size` it is.
  One of the entries that persist takes two values, the other only its default, so that a
  walk has an entry to fail at before, at and behind the one whose value tells old from new.
  Two banks are the least with a switch; they are interchangeable, which the run uses as its
  symmetry.
- *`lock`*: two tasks and two parameters: the values of each are as few as tell a stale
  one from a new one. The module is missing from `MODULE_INIT_ORDER`, so that the
  integrity check has something to count.
- *`frame`*: `Budget` 3 stands for 990000, `LumaSpan` 4 for 256, `MaxStep` 1 bounds a
  correction, and `GainFloor` bounds a gain that the code lets fall without limit.
  `Undefined` is 0, 2 and 5, which is nothing, a limit that does cut, and more than any
  limit; the theorems take any set of numbers.
- The state spaces are finite without state constraints, and TLC exhausts them.

In all instances a table's slot i holds the entry with local id i - 1, or nothing, as
the sensor's and the auto exposure's tables do; the code does not check it.

*Fairness.* `ParamManager` and `ParamPersist` assume none: their calls are the
application's, and what a flush must leave behind for the next try is the action property
`FailedFlushRetries`. `ParamLock` assumes, for `EveryCallReturns` and `OwedIsDelivered`:

- each task's step strongly: the scheduler runs it, and a task that waits in
  `xSemaphoreTake(..., portMAX_DELAY)` gets a mutex that is free again and again
  (`port/param_manager_port.h`); no task is made to start a call by this;
- that the frame task goes on flushing: `app_frame_handler` ends every frame with
  `param_flush`;
- that a driver asked again and again by the frame task for one parameter does not refuse
  it for ever. A driver that always fails keeps the value owed, which is what the code
  does; any single flush may fail anywhere.

`FrameLoop` assumes that the boot runs to its end and that frames keep coming (weakly).
The host owes nothing; `ExposureSettles` speaks of the runs in which it falls silent.

## 4. What is proved

Every safety property a passing run checks is also a theorem, for any modules, tables,
values, tasks and, but for the hypotheses named, any set of calls:

| Theorem (module) | States | Hypotheses |
|---|---|---|
| `TypeCorrect` (`ParamManagerProofs`) | `TypeOK` | |
| `CountBounded` | `DirtyCountBounded`: the count never exceeds the number of dirty entries | |
| `BitsReachable` | `PendingBitsReachable`: a set bit is within reach of `param_flush` | |
| `OrderKept` | `ListOrdered`: the list is sorted and has no repetitions | |
| `FlushRetries` | `FailedFlushRetries`: a failed flush leaves a module flagged | |
| `AppliedCached` | `AppliedValueCached`: algorithm and cache agree after a write | |
| `ClampKept` | `NumericClamped`: a changed number is in its range | |
| `InitInOrder` (`RegistryProofs`) | `InitFollowsOrder` | |
| `Consistent` | `RegistryConsistent`: hash, tables, list and counts agree | `TablesFit` |
| `IpIsWriteBack` (`WriteBackProofs`) | `WriteBackSpec`: the IP subsystem is a write-back cache | `Aligned`, `TablesFit` |
| `FlushDelivers` | `FlushOkDelivers`: a flush that succeeds has sent all that was owed | `Aligned` |
| `DirtyAlwaysFound` (`DirtyProofs`) | a dirty entry is in the hash | no deinit |
| `CountExact` | `DirtyCountExact` | no deinit, no clear_stats |
| `BytesPending` | `DirtyBytePending`: a dirty byte has its bit | `Aligned`, `TablesFit`, `CommandsNotStored`, no deinit |
| `AppFlagged` | `AppDirtyFlagged`: a dirty App entry has its module flagged | `TablesFit`, no load_all |
| `FlushLeavesClean` | `FlushOkLeavesClean`: after a flush that succeeds nothing is dirty | `Aligned`, `TablesFit`, `CommandsNotStored`, no load_all; no deinit, or no IP entry |
| `CommandsNeverFlushed` | `CommandNotFlushed`: a flush sends no command | `CommandsNotStored`, no write_raw |
| `EntriesAreFound` (`HashProofs`) | `StoredIsFound`: what is in a slot is found by its id | |
| `TableIsDirectory` | `HashIsDirectory`: the hash implements `IdDirectory` | |
| `FullWhenNoMemory` | `NoMemoryOnlyWhenFull`: `PARAM_ERR_NO_MEMORY` means every slot is taken | `IndexFits` |
| `RegisteredAreFound` | `RegisteredIsFound`: after `PARAM_OK` every id of the module's table is found | |
| `SaveKeepsOrder` (`PersistProofs`) | `SaveInSlotOrder`: a save that stops has stored the slots it passed | |
| `LoadKeepsOrder` | `LoadInSlotOrder`: a load likewise, but for entries that failed | |
| `OkIsInSync` | `OkMeansInSync`: a save or load that returns `PARAM_OK` in one bank leaves cache and flash equal | |
| `PersistEntriesFound`, `PersistTableIsDirectory`, `PersistFullWhenNoMemory`, `PersistRegisteredFound` | the hash properties, under saves, loads, bank switches and power failures | `IndexFits` for the third |
| `LockImplementsWriteBack` (`LockProofs`) | `LockedIsWriteBack`: interleaved calls implement the write-back cache | |
| `HolderOnItsWay` | `HolderNeverWaits`: whoever holds the mutex has a step it can take | |
| `IntegrityCheckTellsTruth` | `CheckTellsTruth`: a check that no check, clear_stats, init, deinit or registration came across compares the missing modules | |
| `KeepsInStep` (`FrameProofs`) | `InStep`: what is cached is in the register or waits for a flush, and is what the algorithm works with, strays excepted | |
| `GainStaysBounded` | `GainBounded`: the gain stays below `GainTop + MaxStep` | `GainsInRange` |
| `ManualKept` | `ManualExposureKept`: an exposure by hand is in the sensor after the next frame | |
| `QuietFramesFit` | `QuietFrameFits`: a frame the host leaves alone brings the exposure under its limit | |

*Assumptions.* `ModulesAssumption`, `ParamsAssumption`, `TablesAssumption` and
`BoundsAssumption` of `ParamState`, and those of `ParamHash`, `ParamPersist`, `ParamLock`
and `FrameLoop`: finite sets, the ranges of the constant functions,
ids unique, a table is not empty, holds no entry twice and only entries of its own
module. TLC evaluates them in every run. The hypotheses of single theorems say what
the code relies on and does not check: `Aligned` (an IP entry sits in its table where
its local id says, within the map, and its instance has a `write_cb`), `TablesFit` (the
hash has a place for every entry), `CommandsNotStored` (no IP entry is both EXEC and
PERSIST: a command sent with `param_write_immediate` clears its bit and leaves the byte a
load has set), `IndexFits` (the slot index can name every slot, true of the default size). `GainsInRange` says that neither the defaults nor
the back end nor the host bring in a gain above the bound, which the sensor's table does
not check; `MCFrame` is such an instance. `MCIp` states `Aligned` and `TablesFit` of its instance as an assumption
of its own, which TLC evaluates. The runs `app` and `registry` check under the same
restrictions of `Calls`; `registry` checks `RegistryConsistent` and `DirtyBytePending`
with a hash that is too small as well, which is more than the theorems say.
`CommandsNeverFlushed` is the other half of the run `ip_command` (section 5): without the
call that the run blames, what the documentation says is true. Likewise `FullWhenNoMemory`
and the run `hash_size`.

*Argument.* `TypeOK` is inductive by itself, with a lemma per group of actions. The
other invariants are inductive together with it:

- `DirtyCountBounded`: `MarkEntries` and `ClearEntries` say what the two primitives do to
  the set and to the count; `CountMoves` shows that every step of the system is one of
  them, clears the count (`Emptied`), or touches neither. For `DirtyCountExact` the third
  must meet an empty set, which is what `DirtyFound` is for: without deinit, a closed
  framework has nothing dirty.
- `PendingBitsReachable`: stated as it is it must mention the framework, the list, the
  module flag and the hash, because each of the four is what another call would break:
  without `m \in mod_dirty` a flush does not preserve it, without the list a deinit does
  not. `FewerBits` and `MoreBits` are the two ways a step may change a map.
- `ListOrdered`: `NodeInsert` describes the result of an insertion by positions,
  `InsertOrdered` shows that it keeps the order, `ListMoves` that no other step changes
  the list except to empty it.
- `RegistryConsistent` needs `FoundListed` (what is in the hash has its module in the
  list). `PrefixCount` and `WholeTable` show that a table that fits gets in whole,
  `RegistryMoves` that only three calls change the registry.
- `WriteBackSpec`: the invariants `PendingBitsReachable` and `FoundListed`, then per call
  one lemma that names the abstract step: a write or load is `Put`, a flush or an init
  callback `Deliver`, a reset `Reset`, an immediate write `Through`, an exec `Command`,
  `ip_control` `Around`, init and deinit `Open` and `Close`, App calls stutter. The crux
  is `ClearedSent`: a flush that clears a bit has sent the entry the bit stands for.
- `DirtyBytePending` and `AppDirtyFlagged` are not inductive as they stand, since a module
  may leave the list and come back: `BytesHaveBits` and `FlaggedInTable` say the same
  without the list, and the latter adds that the entry is in the table through which
  `app_module_clear_dirty` looks for others.
- `FlushOkDelivers` and `FlushOkLeavesClean`: a flush that returns `PARAM_OK` has come to
  the end of every flagged module, so that `ClearedSent` speaks of every bit that was set,
  and a bit without flag or list does not exist (`PendingBitsReachable`). For the dirty
  bytes it takes in addition that each has its bit or its module's flag, which is what
  `BytesHaveBits` and `FlaggedInTable` say.
- The action properties are proved from the invariants in the first state; `CallRecord`
  ties the name in `call'` to the disjunct of `Next` that was taken.

- The hash theorems are stated for `HashSpec`, any size of the table, any hash and any
  ids. The inductive invariant is `HashInv`: types, `RegNotListed`, and `Reached`: every
  entry lies on the probe sequence of its id with nothing empty before it. That is what
  insertion gives and what no other step takes away, since slots are emptied only all at
  once. `ProbeOnto` shows that a probe sequence meets every slot the index can name, which
  is why a failed insertion has seen them all (`FullWhenNoMemory`, with the least free probe);
  `InsertIsAdd` that an insertion changes the answer for its own id alone.
  `RegisteredIsFound` needs one more invariant, `PassedFound`: whatever the cursor of a
  calm registration has passed can be looked up. Without `calm` it is false: `param_init`
  empties the table behind the cursor.

- Save and load: `PersistInv` is `HashInv`, the types, `HomeInstalled` and `StartsAtZero`
  together with the two properties themselves. A walk that holds LOCK in its bank is the
  only thing that changes caches, that bank or its place; and the properties speak of slots
  whose key no other slot has (`Kept`), so that a key once passed is not met again. The hash
  theorems carry over because every step of `ParamPersist` is a step of `HashSpec` or leaves
  the table alone. At its end a walk has passed every slot (`EndPassesAll`), and the two
  properties become `OkMeansInSync`.
- Tasks at once: `LockInv` says of each task what it has found out (`Sound`): it holds the
  mutex exactly from its LOCK to its UNLOCK (`Inside`), which also gives `HolderNeverWaits`;
  past the n-th parameter of a flush the first n have been delivered. `Polite` says what a step may do to
  what others rely on, and `OthersStaySound` that this is little enough; `StepOf` is then
  proved for each step. In the refinement a value is owed from the write of the cache on,
  by its bit or by the task that is about to set it (`OwedInside`); the crux is
  `EmptyMapDelivers`, where a flush that finds no further bit drops the whole map.
- The integrity check needs none of this: `CheckInv` follows the check's own steps, and
  every step of another call that touches the count or the list ends its being quiet.
  `param_clear_stats` is one of them, though it holds LOCK: the count is tested after it.
- The frame loop: each of the four theorems has its inductive invariant next to it
  (`StepInv`, `GainInv`, `ManualInv`, `QuietInv`). `StepInv` follows the boot: no stray and
  registers equal to caches after the sensor's init callback, the algorithm equal modulo
  `LumaSpan` after its own, and in step but for a stray target once `param_validate_all` has
  clamped the cache; `InStep` alone says nothing of the boot and would not be inductive.
  The last two say through which of
  cache, frame and dirty mark an exposure goes on its way through a frame. `QuietFramesFit`
  is the step of which the liveness property `ExposureSettles` is made: once the host is
  silent every frame is a quiet one.

*Only model-checked*: the liveness properties `EveryCallReturns`, `OwedIsDelivered` and
`ExposureSettles`, which like `ENABLED` and induction over data are out of the prover's
reach; the refutations of section 5; and the properties in instances outside the
hypotheses above.

## 5. What the code does not keep

Each has a run that TLC ends with a counterexample:

- `ip_command`: a command sent with `param_write_raw` marks the module dirty like a value,
  and the next flush writes the cached value to the command register;
  `ip_param_manager.h:182` says that only `param_exec` triggers it.
- `ip_partial_flush`: when `write_cb` fails, the entries sent before it lose their byte
  and keep their bit; the comment at `ip_param_manager.c:259` says both are cleared. The
  effect is that they are sent twice, which `WriteBackSpec` allows.
- `ip_readonly`: the IP write path does not test `PARAM_FLAG_READONLY`.
- `hash_size`: `hash_insert` counts its probes in a `uint16_t` and keeps the slot in the
  `uint8_t` of `hash_index` (`param_manager.c:99`). With `PARAM_HASH_SIZE` above 256, which
  `README.md:500` allows, a registration returns `PARAM_ERR_NO_MEMORY` with slots free;
  `param_manager.h:87` says that the code means a full table.
- `app_load_all`: `app_module_init` drops the module flag alone; a write before
  `param_load_all` is then never flushed, and `param_flush` returns `PARAM_OK`.

- `lock_init`: the sensor's init callback reads a parameter and writes it to its register
  after `param_load_all` has given the lock back (`param_manager.c:653`). If another task
  writes and flushes the parameter in between, the register gets the old value, with no
  bit left to put it right. `README.md:19` promises thread safety by the lock.

Seen while reading and not given a run:

- `param_init` takes no LOCK, `ip_driver_register` does not test `initialized`, and
  `param_module_register` tests it before LOCK (`param_manager.c:309`): a registration that
  `param_init` comes across returns `PARAM_OK` for a module of which the ids inserted before
  it are gone; one that `param_deinit` comes before fills a closed framework.
  `RegisteredIsFound` speaks of registrations that no `param_init` came across.
- The comment above `app_module_flush` says dirty flags go even if the callback fails, the
  code returns first; `param_deinit` is said to go in reverse order and goes forward;
  `README.md:207` routes an App EXEC entry of `param_write_immediate` to the exec callback,
  the code returns `PARAM_ERR_READONLY`.
- `param_dump.c` reads `has_range` of IP entries, which have no such field.
- `flashdb_erase_all` calls `flashdb_init()` without its argument
  (`param_storage_flashdb.c:96`); the stubs without FlashDB fail every load and save.
- `example_usage.c:91` sets a range on the sensor's exposure, an IP entry: the call is
  refused, though the example prints that the value was clamped. The limit its boot sets
  is refused likewise.
- With two integrity checks at once, or a `param_clear_stats` between a check's UNLOCK and
  its test of the count, the check may return `PARAM_OK` with a module missing;
  `CheckTellsTruth` therefore speaks of a check that none of these came across.
- `param_clear_stats` zeroes `dirty_count` too, while entries are dirty. Its own comment
  says so (`param_manager.c:736`); `param_manager.h:426` calls the count that of the dirty
  parameters, which it is only without the call (`DirtyCountExact`).
- With `PARAM_MANAGER_NO_OS` the lock is empty (`port/param_manager_port.h`), where
  `README.md:19` promises disabled interrupts.
- In a bright scene the gain falls, below zero in the end, and the exposure stays: the
  algorithm corrects gain whenever it is below its top.
- A stored `target_luma` above 255 reaches the algorithm modulo 256, while
  `param_validate_all` clamps the cached value only; and `param_reset_one` changes a cache
  without telling sensor or algorithm. `InStep` excepts these entries until they are next
  written.
- The frame handler ignores return codes, and its read-modify-write undoes an exposure
  that the host sets in the middle of a frame; `ManualExposureKept` says what is kept.

## 6. Plan

1. *Done*: the core with both subsystems, the abstract write-back cache, the theorems about
   both; `ParamHash` with `IdDirectory`; `ParamPersist`; `ParamLock`; `FrameLoop`; and the
   theorems about these.
2. Instances with tables out of line with local ids, with ids of 64 and more, with IP modules
   without `write_cb`, and with a command that is stored: what the code keeps there, and
   with it weaker hypotheses for `BytesPending` and `IpIsWriteBack`.
3. The PWM example's driver (section 7).

## 7. What is not modelled

- *Interleaving inside a call* of `ParamManager`, but for `param_load_all`: `ParamLock` has
  it for the calls on an IP instance, `ParamPersist` for the walks. Not looked at is it for
  App modules, whose `apply` runs under the lock, and for `param_exec`'s callback after it.
- *An empty LOCK* is a fault of `ParamLock` (`take_lock_never`), not a build of its own.
- *`next` pointers as such*: the list is a sequence. A list left behind by `param_init`
  (drivers registered before it), and the tail read through a node whose `next` was
  overwritten, are therefore cut short: `NextNode` of a node out of the list is `None`.
- *Callbacks that call the framework*: those that run under LOCK (`apply`, flush, exec through
  an immediate write, the storage driver) would wait for the mutex they hold. None of the
  repository's does; the init callbacks, which do, run after UNLOCK and are modelled.
- *Callbacks' own effects* other than what they hand over or write: an exec callback
  changes its own register, the sensor's also initializes its shadow registers.
- *Contents of buffers*: a BLOB or STRING is one value, stored whole; NULL arguments, buffer
  lengths and type checks of reads change no state. A `flashdb_load` that finds fewer bytes
  than asked for leaves the rest of the value as it was on the stack.
- *`uint16_t` wrap* of counters other than `flush_error_count`.
- *`param_dump`*: formats text and changes nothing. It runs its callback under the lock.
- *FlashDB itself* is not in the repository; `flashdb_erase_all` and the pool allocator are
  called by nobody, `ip_flush_one` is in a vtable and called from nowhere.
- *The tests*: scripts of calls on the framework. Of the basic example, resolution and
  `roi_x` go the way of the frame rate, and speed only bounds a correction.
- *The PWM example*: a script of calls too, but its driver is worth a model of its own. Duty
  cycle in clocks and in percent share a register, so that a flush leaves the one later in
  the table, whichever was written last; a duty above the period is refused, and with it
  every parameter behind it until a write changes one of the two; and the period's default
  is never sent, since the instance has no init callback and a default is not dirty. In
  `ParamManager` and `ParamLock` such a driver is one of those that may refuse anything.
