# A TLA+ development for AIFM

AIFM (`src/aifm`) gives an application objects that live in *far memory*: on
another machine, reached over TCP, with a local cache of fixed size. Programs
hold far-memory pointers; dereferencing one brings its object into the cache,
and a concurrent collector (the *evacuator*) moves objects back when the cache
fills up. Mutators then read and write objects through raw pointers, without
locks. This directory models the part of AIFM that makes this safe (pointers,
dereference scopes, the evacuator, the regions and locks underneath), the way to
the server and back, and the largest data structure on top, a concurrent hash
table. It checks them with TLC, and proves all of their safety properties but one with TLAPS,
for any number of threads, pointers, keys, regions and cores.

Paths below are relative to `src/aifm`. The code is modelled in its default
configuration (concurrent collector, `STW_GC` undefined).

## 1. Inventory

| Component | State it keeps | Operations | Why it is hard |
|---|---|---|---|
| Far-memory pointers (`pointer.*`) | 8-byte metadata: present, dirty, hot, evacuation, address or object id | init, `_deref`, swap-in, migrate, free, flush, move | metadata read, changed byte-wise and swapped by mutators and collector without a common lock |
| Evacuator (`manager.cpp`: `gc_cache`, `swap_out`, marker, write-backer) | regions of the round, phase | pick, mark, wait, write back, free | runs concurrently with mutators that hold raw pointers |
| Dereference scopes (`deref_scope.ipp`) | `expected_status`, a status per thread, counters per core | enter, exit, sum of the counters | two-step entry; counters read one after the other while threads migrate |
| GC master (`gc_check`, `launch_gc_master`, `mutator_wait_for_gc_cache`) | `almost_empty`, `gc_master_active`, `gc_master_spawned_` | spawn a collector, sleep, wake up | flags and list length are read and written without a lock |
| Parallelizer and ring buffers (`parallel.ipp`, `cb.ipp`) | one task ring per slave | deal out, steal, take, exit | unlocked sizes decide when a slave exits |
| Region manager (`RegionManager`, `region.*`) | free list, two used lists, a region per core and kind, reference counts | allocate, refill, pick, return | handles are moved, the picker retries |
| Object locks (`obj_locker.cpp`) | maps of locked ids | lock, unlock | ids share condition variables |
| Shared pointers | a ring of pointers per object | copy, move, free, traverse | ring changed without the object lock |
| RCU / reader-writer lock (`rcu_lock.*`, `reader_writer_lock.*`) | versioned counters per core, two barriers, a mutex | reader and writer side | counters read one after the other; only compiler barriers between store and load |
| Devices and TCP server (`device.cpp`, `tcp_device_server.cpp`, `server.cpp`) | connections, `has_shutdown`, registry of data structures | read, write, remove, construct, destruct, shutdown | threads that start and stop around a shutdown |
| Shared pool (`shared_pool.ipp`), identifiers (`allocate_ds_id`) | items per core and a global pool; a queue of free identifiers | push, pop; allocate, free | whole batches only; a queue without a lock |
| Concurrent hopscotch hash table (`concurrent_hopscotch.*`) | buckets, entries, the collector's stash | get, put, remove, evacuation notifier | lock-free lookups, displacement, a collector that removes entries, allocation failure half-way |
| Other data structures (array, list, queue, stack, dataframe vector) | their own, on top of pointers | push, pop, ... | pointers dereferenced across allocations |
| Prefetcher | trace ring, task buffers | record, detect pattern, prefetch | threads that sleep and wake on a ring |
| Slab, RPC serialiser, statistics | small | allocate, free, encode | bounds |

Interaction: a mutator enters a scope (which may make it wait for the GC
master), dereferences pointers (which allocates from regions, locks objects and
reads the device), and leaves the scope. An allocation that refilled a region
calls `gc_check`, which may spawn a GC master. The master runs rounds: it picks
used regions, lets the parallel marker set evacuation bits, flips the expected
scope status and waits for the scopes of the old status, lets the parallel
write-backer copy or write back what is still marked, and returns the regions.
Every read, write, construction and destruction goes through the device: a caller
takes one of its pooled connections, writes a request and reads the reply, and a
thread of the server carries the request out on the data structure that the
identifier in it names. The hash table holds its values in pointers of its own and
is called by the collector when one of them is evicted.

What makes the parts correct, in one line each: raw pointers stay valid for the
length of their scope; no write is lost; a region is reused only when dead; a
wait for scopes ends, and only when no old scope is left; there is one master,
and whoever sleeps for memory is woken up; each GC task is carried out once;
each region has one handle; each lock one holder; readers and writers exclude one
another; a request reaches its own data structure and its caller the reply to it; a
key of the hash table changes only by an operation on that key.

## 2. Modules

| Module | Models | Checked by |
|---|---|---|
| `ScopeSpec` | what scopes promise the collector (abstract) | refined by the next two |
| `DerefScope` | the counters that keep that promise | `DerefScope.cfg` |
| `DerefScopeProofs` | that they do, for any number of threads and cores | TLAPS |
| `CoreSums` | sums of per-core counters | through `RWLock`; used by two proof modules |
| `Evacuator`, `MCEvacuator` | unique pointers and the five phases of a round | `MCEvacuator_*.cfg` |
| `EvacuatorProofs` | theorems about `Evacuator` | TLAPS |
| `GCMaster`, `MCGCMaster` | when collectors run and mutators sleep | `MCGCMaster.cfg` |
| `GCMasterProofs` | theorems about `GCMaster` | TLAPS |
| `Parallelizer` | task distribution of the mark and write-back phases | `Parallelizer.cfg` |
| `ParallelizerProofs` | theorems about `Parallelizer` | TLAPS |
| `RegionManager`, `MCRegionManager` | the lists regions travel through | `MCRegionManager.cfg` |
| `RegionManagerProofs` | theorems about `RegionManager` | TLAPS |
| `ObjLocker`, `MCObjLocker` | locks on object ids | `MCObjLocker.cfg` |
| `RWLock` | the reader-writer lock over RCU counters | `RWLock.cfg` |
| `LockProofs` | theorems about `RWLock` and `ObjLocker` | TLAPS |
| `SharedPool` | per-core caches of connections | through `TCPDevice` |
| `TCPDevice`, `MCTCPDevice` | client device, server, identifiers of data structures | `MCTCPDevice.cfg` |
| `TCPDeviceProofs` | theorems about `TCPDevice` and its pool | TLAPS |
| `Hopscotch`, `MCHopscotch` | the hash table, its part at the server and the collector | `MCHopscotch.cfg` |
| `HopscotchProofs` | theorems about `Hopscotch` | TLAPS |

The modules meet at named interfaces. `Evacuator` abstracts the scope counters
to a set of counted threads; both it and `DerefScope` are shown to implement
`ScopeSpec`, so what `Evacuator` relies on is what the counters deliver.
`Evacuator` visits the objects of a phase in any order, each once, and starts the
next phase when all are visited: `Parallelizer` shows that of the code that
distributes them. It takes object locks as atomic: `ObjLocker`. It picks
only used regions with reference count zero: `RegionManager`. It runs rounds at
any time: `GCMaster` says when. `Hopscotch` relies on what `Evacuator` shows of scopes:
an operation runs in one scope, and an object it has dereferenced is not evicted
before the scope ends (`pinned`). `TCPDevice` extends `SharedPool`; that requests
and replies of one caller follow each other is what lets `Evacuator` and `Hopscotch`
treat a device call as one step.

### How state and actions correspond to the code

An action is a stretch of code between two points where another thread can see
or change the state: reading or writing a metadata word, obtaining a lock, an
allocation, a device call, a flag. `PROJECT.json` maps every definition to the
lines it stands for.

*Evacuator.* `meta` is `FarMemPtrMeta` as a record. `obj` holds for every slot of
a region the header field that names the owning pointer, the freed mark, and
instead of the data whether this copy has every write made so far (`fresh`);
`remote` is the same for the copy in far memory. `raw` are the raw pointers each
thread holds. A dereference is `DerefStart` (metadata snapshot, fast path), then
`SwapInLock/Alloc/Read` or `MigrateSnap/Check/Lock/Copy/Publish` as
the snapshot asks, then `DerefRetry`, and `DerefBits` for the slow path's bit
updates. `MigrateSnap` and `MigrateCheck` are the two reads of the metadata before the
lock, the address and then the present bit. A round is `pick_from_regions`, `MarkObj`, `FlipExpected`, `WaitDone`,
`SwapOutLock` and `SwapOutCopy` or `SwapOutWriteBack` or `SwapOutEnd`,
`WriteBackDone`, `PushFreeRegion`. The work a phase has left is `todo`. `_flush`, which
`GenericArray::flush` calls outside any scope, is `FlushStart` (snapshot),
`FlushLock` (lock the id found in the header), `FlushRetry` (the metadata changed),
`FlushWrite` and `FlushClean` (the dirty byte is cleared after the write).

*DerefScope.* One action per instruction of `enter` and `exit` that touches a
counter, one per counter the collector reads. Threads change cores at any time.

*GCMaster.* Regions are counted. The three thresholds are whole numbers of regions.
Blocking and non-blocking allocations are told apart because only the first
waits. `Measure` and `PublishEmpty` split the assignment to `almost_empty` into
its read and its write.

*Parallelizer.* The rings are modelled with head, tail and the empty slot. Every
lock-free `size()` is two steps. A theft moves its tasks in one step and publishes
the thief's tail in another.

*RegionManager.* Lists are sequences; a handle that was moved from is `None` in
`local` but still has its buffer in `buf`, because the code writes through it.

*RWLock.* `cnt` are the counters; of the versions only which have changed since the
writer's snapshot is kept (`moved`). Stores and loads are ordered by compiler barriers
only, so on x86 a load can be done while the store before it is in the core's store
buffer: `pending` is a reader's delayed increment, `hidden` says that the writer's
barriers are delayed. `Drain` and `DrainBarriers` write them out. Between
increment and decrement a reader may change cores.

*TCPDevice.* `wire` is what was written to a connection and not read yet, `thread` the
server's thread behind it, `queue` the listener's queue of one. The main thread of a
client dials, constructs the vanilla data structure, runs, destructs and shuts
down; while the client runs the same process stands for its collector, which
writes back objects. Each application thread takes an identifier (`Front`, `Pop`),
constructs a data structure, reads and writes it, and destroys it (`FreeId`,
`Destruct`, `Drop`). A data structure holds the name of the thread that wrote it.
After a client comes the next one. `SharedPool!push` and `pop` are one step each,
because preemption is off.

*Hopscotch.* `bitmap`, `spin` and `ptr` are the buckets; `remote` is the server's part
of the table; `notes` are evictions between the two writes of
`do_evac_notifier`. `put` is `LockBucket`, `Scan`, `Probe`, then
`Room`, `Dislodge`, `Tick`, `CopyPtr`, `ResetPtr`, `ClearBit` for each key it has to move,
`Allocate`, `Publish`, `RemoveRemote`; `get` is `ReadStamp`, `ReadBits`, `Look` per entry,
`Recheck`, the locked slow path, and `Forward`, after which it goes on as a `put`
of what the server said. Of the timestamps only whether a reader's has grown
is kept (`late`). The two copies of a value that can overlap take time: a `put` that finds
its key has the new value in the table after `Scan` but writes until `WriteVal`, and a `get` that has
found its key copies from `Look` to `CopyVal`. If the two overlap on one object the
get is in `torn`, and `GetIsRight` says nothing of its answer: the code neither locks nor rechecks
a hit. The slow path holds the lock and cannot be torn. `move` locks eight bytes of
the object id, the collector and a migrating dereference lock as many as the key has, up
to eight: the same lock unless the key is shorter. `ShortKeys` are those keys, and
`Unmove` records that the pointer of one is changed between `CopyPtr` and `ResetPtr`, after
which nothing is promised. For the others the lock makes the two steps one for
everybody who takes it, and `move`'s retry repeats a copy that has not begun.

### Races as history

Several interleavings that break the intended protocol are possible in the code.
The models contain them: nothing in a guard excludes one. Each is recorded in a
history variable when it happens (`races`, `late`, `torn`), and the invariants say what
holds as long as it has not. This keeps the properties true of the code and
makes visible what they depend on.

| Module | Race | What happens |
|---|---|---|
| Evacuator, DerefScope | `late_enter`, `late` | a thread read `expected_status`, the collector flipped it, then the thread was counted |
| Evacuator | `split_object` | a mutator copies an object that a raw pointer still refers to |
| Evacuator | `stale_migrate` | `mutator_migrate_object` copies from an address read before it got the lock |
| Evacuator | `wild_object` | `mutator_migrate_object` reads the address of an absent pointer and finds it present at its next read: the address is part of an object id (`pointer.cpp:64-66`) |
| Evacuator | `stale_header` | the object id is read from a header whose memory was reused |
| Evacuator | `wild_meta` | `_deref` sets the dirty or hot byte of metadata that has become absent |
| Evacuator | `flush_in_use` | `_flush` clears the dirty byte although the object is being written to |
| GCMaster | `unset_flag` | `gc_master_spawned_` is never initialised and starts out true |
| GCMaster | `stale_empty` | `almost_empty` is set from a measurement the collector has overtaken |
| GCMaster | `stale_spawn` | a collector is spawned although one is active or memory is no longer low; it returns early and leaves `gc_master_spawned_` set |
| GCMaster | `late_low` | no collector is spawned because of one that has already left its loop |
| RWLock | `ahead` | a load was done before the store preceding it became visible |
| TCPDevice | `unlocked_ids` | `allocate_ds_id` pops another identifier than the one it read |
| TCPDevice | `early_id` | an identifier is handed out while its last data structure is still on the server |
| TCPDevice | `late_writeback` | the collector writes back an object of a data structure that is being destroyed |
| TCPDevice | `early_dial` | a client's first connection is accepted before the last client's threads have ended |
| TCPDevice | `late_accept` | a slave connection is accepted after its client asked for the shutdown |
| Hopscotch | `wrong_home` | a retry of `_put` takes the entry it had reached for the home bucket (lines 226 and 262) |
| Hopscotch | `leak` | without memory the reserved entry is never released (262) |
| Hopscotch | `early_reuse` | an entry is reserved while a bit still leads to it (71-76) |
| Hopscotch | `stale_forward` | a value from the server overwrites a newer one, or a removed key (84-92) |
| Hopscotch | `late_remove` | `put` removes at the server what was evicted to it since (289) |
| Hopscotch | `crossed_get` | a `get` misses a new key here and its old value at the server |
| Hopscotch | `early_read` | a `get` follows an old bit to an entry that is being filled |
| Hopscotch | `torn` | a `get` copies a value (`.ipp:131`) while a `put` overwrites it (`.cpp:161`): it can return bytes of both, and no timestamp tells it |
| Hopscotch | `split_move` | the collector or a migrating `get` changes the pointer of a short key between its copy and its reset in `move`, whose lock is another one than theirs (`pointer.cpp:161`) |
| Hopscotch | `self_stash` | a `put` processes the stash while it holds the lock a note needs (224) |

## 3. Runs

| Run | Instance | Result |
|---|---|---|
| `evacuator_two_threads` | 2 threads, 2 pointers, 3 regions of one object | `TypeOK`, `GracePeriod`, `RawIsOwned`, `NoLostUpdate`, `ReclaimedIsDead`, `InitBeforeVisit` hold |
| `evacuator_packed_regions` | 1 thread with two raw pointers, 2 regions of two objects, a hot counter | `RawIsOwned`, `NoLostUpdate`, `ReclaimedIsDead`, also after the thread moved an object it points to |
| `evacuator_live` | 1 thread, 2 pointers, 3 regions | `WaitEnds`, `DerefReturns`; the evacuator implements `ScopeSpec` (`UsesScopes`) |
| `evacuator_late_entry` | 2 threads, 2 pointers, 3 regions | `AllSwitched` is violated |
| `derefscope` | 2 threads, 2 cores | `CountsScopes` (refinement of `ScopeSpec`), `WaitEnds` |
| `gcmaster` | 2 mutators, 3 collector threads, 4 regions | `TypeOK`, `OneMaster`, `FewMasters`, `SleepersHaveHelp`, `PauseEnds` |
| `parallelizer` | 2 slaves, rings of 2, 5 tasks, repeated executions | `EachTaskOnce`, `ExecutionEnds` |
| `regions` | 4 regions of two objects, 1 core, 2 kinds | `TypeOK`, `OneHandle`, `CollectedIsQuiet` |
| `objlocker` | 4 threads, 3 ids in 2 maps | `OneHolder`, `SleepersHaveHolder`, `Progress` |
| `rwlock` | 2 readers, 2 writers, 2 cores | `Exclusion`, `Counted`, `WriterGetsIn`, `ReaderGetsIn` |
| `hopscotch` | 2 threads, 3 keys, 2 home buckets, neighbourhoods of 2, 3 operations | `TypeOK`, `NothingLeaks`, `ChangedByOps`, `GetIsRight` |
| `tcpdevice` | 2 threads and the collector, 2 cores, 4 slave connections, 3 identifiers, 2 clients | `TypeOK`, `NeverStarved`, `RepliesFit`, `NeverBugs`, `NoHang` |

### Bounds, and why they are enough

* *Evacuator.* The races and the protocol concern one object, the thread that moves
  it and the thread that looks on; the second object makes slots and
  regions change owners. Three regions are one to allocate from, one to collect and
  one to copy to. The second instance exchanges a thread for packed regions, several
  raw pointers and hot objects. `MaxRaws` bounds the raw pointers a thread
  holds. With two threads every dereference is a `deref_mut` (`MutSpec`): whether it
  is followed by a write is open, so what a reader does is covered, except that
  objects which are only read stay clean; those are in the packed instance. At most one of
  the two threads is in `_flush` at a time. The
  constraints stop the search at a race. `OnlySplitYet` stops where `RawIsOwned`,
  `NoLostUpdate` and `ReclaimedIsDead` have all become void. `NoRaceYet` stops the
  two-thread instance earlier: `RawIsOwned` and `ReclaimedIsDead` also promise
  something after `split_object`, which the packed instance checks. `TypeOK`,
  `GracePeriod` and `InitBeforeVisit` say something after every race. All six are proved
  without any of these bounds.
* *DerefScope.* `MaxDrift` bounds how far a counter moves from zero. Two cores are
  one the reader has passed and one it has not.
* *GCMaster.* Thresholds 0, 1 and 2 regions are the smallest that differ; three
  collector threads are one more than `FewMasters` allows. `OneRace` stops the search
  at the second kind of race. `PauseEnds` asks for nothing once a race is recorded, and
  the record is never erased, so no behaviour that matters to it is cut off; the
  invariants are seen past the first race and proved past all.
  `CHECK_DEADLOCK FALSE`: the process exits when it runs out of memory in a scope.
* *Parallelizer.* Five tasks are more than two rings of two hold, so the master meets
  full rings; repeated executions start at every position of the ring.
* *RegionManager.* Two of four regions belong to the core, two travel.
* *RWLock.* `MaxCnt` bounds how far a counter moves from zero: with two cores one is
  enough for a reader to leave on another core than it entered on, which makes one
  counter negative. Two writers are needed for a barrier that comes down and up
  again under a reader that waits.
* *TCPDevice.* `kNumCachedItemsPerCPU` is 1 and `ConnsAssumption` is met exactly (2 threads
  and two caches need 4): one connection fewer and `NeverStarved` fails.
  `MaxSessions` is 2, so that the second client meets what the first left behind.
  Three identifiers let one be given back and taken again. `SoundYet` stops the
  search at a race over identifiers, after which nothing is promised; the races of the
  connections are followed to the `BUG` they may end in. `CHECK_DEADLOCK FALSE`: the
  last client leaves, or a `BUG` ends the server; `NoHang` says that there is no
  other end.
* *Hopscotch.* The table starts with two of its four entries taken, so that a third key
  of the first bucket has to move one. `kMaxRetries` is 0: every miss that may be
  wrong takes the slow path. `MaxOps` bounds the operations started, `MaxFails` the
  failed allocations. Three operations are one that inserts, one that it meets and one
  that sees the result. `ShortKeys` is the key that can be moved, so that a move
  with and one without `split_move` are both met. `GetIsRight` was at first stated without `Removed`, and the attempt to
  prove it showed that three threads are needed to refute that: a remove does not find the key
  here, a put inserts it, and the remove goes on to remove it at the server; a get that
  missed the key before the insertion asks the server then, and is told that there is none,
  although the key had a value all the time. The remove counts as done before that put, and
  `Watch` says so. `SoundYet` stops the search at the races after which the properties
  promise nothing. `Finished` stutters when all operations are done, so a deadlock is
  an operation that cannot go on.

### Fairness

Threads of the runtime are preemptively scheduled, so every thread that can
take a step takes one: weak fairness of `Finish`, `Proceed`, `Leave`, `Wait`,
`gc_cache`, `Collector`, `Slave`. A thread that is blocked on a spin lock again
and again obtains it (strong fairness in `Parallelizer`). The application is
assumed to leave every scope it enters, even when it keeps working in it
(strong fairness of leaving): AIFM's interface demands this, and without it the
collector waits for ever by design. `ObjLocker` assumes that a holder unlocks.
In `DerefScope` weak fairness of `Migrate` and strong fairness of `Leave` exist
only because `MaxDrift` can block a counter; the code's counters are not bounded.
`LiveSpec` of `MCEvacuator` leaves writes and frees out: no wait depends on them.
`RWLock` assumes that threads run on, that readers leave, and that store
buffers are written out; the fairness of `reader_unlock` is strong because `MaxCnt` can
block it on one core at a time. Nothing is assumed of `lock_writer` and `lock_reader`: who
comes, and who gets the mutex, is open. `TCPDevice` states no fairness. `NoHang` is a safety
property instead: where no step that is owed can be taken, nothing is owed. Each
request and each session takes finitely many steps, so under weak fairness of
those steps all of them end.
`PauseEnds` does not claim that a particular thread gets memory: a running thread
may take each freed region before the sleeper wakes up.

### Disagreements between code and comments

One run exhibits one.

* `evacuator_late_entry`: "Wait all mutator threads swicth to the new status"
  (`src/manager.cpp:468`) does not hold. `DerefScope::enter` reads the status and
  counts itself in two instructions. A thread preempted in between is not waited
  for, and since the next flip makes its status the expected one again, not
  in the next round either.

The models contain further ones for which no run is kept. The test
`test/test_pointer_concurrent.cpp:85` expects every thread's chunk to be there, but a
thread that migrates a marked object drops what another thread writes to the old
copy between the copy and its next dereference (`split_object`). A "paused" mutator
(`src/manager.cpp:747`) can sleep for ever, through each of `stale_empty`,
`stale_spawn` and `late_low` alone. Reader and writer of the
reader-writer lock can be in together when a store is delayed (`ahead`).
A `get` can return a mixture of the
value that a `put` overwrites and the new one (`torn`).
The retries of `_put` keep an advanced `bucket_idx`, so a key can be inserted under a
bucket that is not its home, and can be in the table twice; a reserved entry is
lost when memory runs out. A client that connects right after another one has
left can end the server. An array's dirty objects can be written back after
its identifier was given to somebody else. `gc_master_spawned_` is never initialised (`inc/manager.hpp:94`; with it true no
collector ever starts); `get_num_threads` asserts `sum >= 0`, but a thread that enters
on a core already read and exits on one yet to be read makes the sum negative;
`mutator_migrate_object` can copy an outdated copy over the current one
(`stale_migrate`); when no region is free, a thread in an old scope and the
collector wait for each other in `_deref`, whose comment says that somebody
else is migrating the object; `try_refill_core_local_free_region` sets the
non-temporal flag of a region the core no longer owns when the free list is
empty; a busy region at the head of `used_regions_` is retried instead of
skipped although the picker is described as round-robin.

## 4. Proofs

All theorems hold for every value of the constants, under the named `ASSUME`s of
the modules (finite or non-empty sets, positive sizes, thresholds in the order
of the code, `None` distinct from everything).

* `EvacuatorProofs!TypeCorrect`: `Spec => []TypeOK`. `TypeOK` is inductive as it
  stands because it includes that the operands an operation needs are there
  at each of its steps (`OperandsTyped`). One lemma each for allocation, metadata and
  the return of a dereference, and for flush; `TypeStep` has one step per action.
* `EvacuatorProofs!GracePeriodHolds`: `Spec => []GracePeriod`, inductive together
  with `TypeOK`. Only entering, leaving, the flip and the end of the wait
  matter (`QuietStep` covers the rest): an entry under the wrong status is recorded
  as late, the flip begins the wait, and the wait ends at an empty set.
* `EvacuatorProofs!ScopesImplemented`: `Spec => UsesScopes`. Needs that a thread
  about to be counted has a status (`EnteringHasStatus`); every step maps to a
  step of `ScopeSpec` or leaves its variables alone.
* `EvacuatorProofs!InitBeforeVisitHolds`: `Spec => []InitBeforeVisit`, whatever
  races happen. `HeapInv` says that the reference count of a region is exactly the
  number of threads filling memory in it (`RefsCounted`, a cardinality, hence
  `Threads` finite), that a core's region is on no list and is no other core's
  (`CoresOwn`), and that memory being filled is in a core's region or a used one
  (`FillsKept`). The property alone is not inductive: a positive count could be
  another thread's, and a refill could retire a region two cores share. The steps
  that matter are allocation (`HeapTaken`), initialisation (`HeapDropped`), the
  pick, which needs that count zero means nobody is at work, and the reuse.
* `EvacuatorProofs!RawIsOwnedHolds`, `ReclaimedIsDeadHolds`: `Spec => []RawIsOwned`,
  `Spec => []ReclaimedIsDead`, the central claim about the collector. Neither is
  inductive: both depend on how far the round has come. `SafetyInv` adds to the above
  `Discipline`, what threads keep to whatever races happen (raw pointers only in a
  scope, object locks held by the operation in progress, nobody uses a null pointer,
  free regions empty), and `MemoryInv`, what is true until a race other than
  `split_object`: a present pointer has an object of its own (`Owned`); a slot just
  allocated is nobody else's and outside the round (`Taken`); who copies an object
  copies a marked one under its lock (`Copying`, `Swapping`); an object in a region of the
  round is marked or still to be visited while marking, marked while waiting, marked and
  to be visited while writing back, and gone after (`Marked`); every header the collector
  will visit is a freed object's or the current one of its pointer (`Headers`); and
  what a thread holds in a region of the round, it holds under the old status
  (`Kept`), so that the grace period means that nobody does when the region is
  reused. There is one lemma per kind of step: allocation, publication, copy, free, mark,
  eviction, pick, reuse.
* `EvacuatorProofs!NoLostUpdateHolds`: `Spec => []NoLostUpdate`, from `SafetyInv` and
  `WritesInv`: without races a clean object has its writes in far memory too (`Clean`), a raw
  pointer refers to the copy the metadata names, which is dirty if the raw pointer may write
  (`HeldCurrent`), whoever makes a copy has the object to himself (`CopyAlone`), and what
  is being flushed stays dirty until the write is done (`Flushing`). `Clean` is what lets
  the collector drop a clean object, `CopyAlone` what lets a copy replace the original.
* `GCMasterProofs!OneMasterHolds`: `Spec => []OneMaster`, from
  `FlagUp` (the flag is up while a master works), without which a second
  master could pass the compare-and-swap. No race is excluded.
* `GCMasterProofs!SleepersHaveHelpHolds`: `Spec => []SleepersHaveHelp`. The
  invariant `HInv` says what is true without races: there is at most one collector
  thread, spawned for want of memory, and both flags tell of it (`OneSpawned`); if
  memory is to be had while somebody needs it, the collector is about to signal; and
  a collector that is stopping leaves a need only to a mutator that has yet to call
  `launch_gc_master` (`HelpInTime`). The last two are what makes the claim
  inductive: a collector may leave its loop only when the list is high, and then
  nobody can be in need.
* `GCMasterProofs!FewMastersHolds`: `Spec => []FewMasters`, from `FlagGuards`: of the threads
  that have yet to clear `gc_master_spawned_` there is one, and the flag is up for it.
* `GCMasterProofs!TypeCorrect`: `Spec => []TypeOK`. That the counts of regions stay in
  range needs that they add up (`Conserved`), and this that a round holds regions only
  while its one active master works on it.
* `LockProofs!OneHolderHolds`, `NoLostWakeup`: inductive together; a sleeper
  found its id locked while it held the spin lock, and whoever removes the id wakes
  all sleepers of the map in the same critical section.
* `RegionManagerProofs!OneHandleHolds`, `CollectedIsQuietHolds`, `TypeCorrect`: inductive
  together with `RefsBounded` (no more objects uninitialised than allocated), which keeps the
  reference counts in range. How often a region is in a list is a cardinality; the lemmas
  `AppendCopies`, `TailCopies` and `RotateCopies` say what the list operations do to it,
  the last through a permutation of the positions. `CollectedIsQuiet` needs `OneHandle`: an
  allocation raises the count of a region that a core owns, which is thus on no list.
* `ParallelizerProofs!EveryTaskOnce`: `Spec => []EachTaskOnce`. `OnceInv` says that the slots
  between head and end of a ring, and no others, hold tasks (`Rings`, where the ring of a
  thief ends behind its loot before its tail says so), that no task is in two slots
  (`Unique`), that every task is to be dealt out, stored, or done (`Dealt`), that a thief
  holds both locks (`Locks`), and that a slave on its way out saw the master done
  and its own ring empty, to which nobody adds any more (`Phases`). Ring positions are
  compared by their distance from the head, for which the modulo is unfolded
  (`RankAround`, `RankMoves`, `RankBehind`).
* `DerefScopeProofs!ScopesImplemented`: `Spec => CountsScopes`, the refinement of
  `ScopeSpec`. `ScanInv`: the counters of a status add up to the threads in a scope of it
  (`CountsClasses`), and unless a thread is counted late the sum read so far is not below
  what the counters read now add up to (`ScanIsAbove`); so a scan that ends at zero or
  below has seen the last old scope end.
* `LockProofs!CountsReaders`: `Spec => []Counted`, together with the types and with who
  may have a store pending (`Buffered`).
* `LockProofs!ExcludesReaders`: `Spec => []Exclusion`. Unless a load overtook a store, a
  writer's barrier is visible once it reads counters (`Raised`), what it has added up is
  the sum of those counters unless one of their versions moved (`SumIsCurrent`), and if a reader
  got in during the first pass, the second will still find a version that moved
  (`WillNotice`).
* `TCPDeviceProofs!TypeCorrect`, `NeverStarvedHolds`: `Spec => []TypeOK`,
  `Spec => []NeverStarved`, whatever races happen. `ClientInv` says that a slave connection of
  the present client is in one place, a cache, the global pool or one caller's call
  (`PoolOK`, `OnePlace`), that something is on a wire exactly while a call, `Init` or `Shutdown`
  waits for it (`Wires`), and which requests a thread and the main thread can be
  waiting for (`Stages`). That nobody starves is a count: what the other callers and the other
  cores' caches can hold (`BusyFew`, `CachedElsewhere`, by an injection into cores times a
  batch) leaves a batch in the global pool (`EnoughLeft`).
* `TCPDeviceProofs!RepliesFitHolds`, `NeverBugsHolds`: `Spec => []RepliesFit`,
  `Spec => []NeverBugs`. `ServerInv`, true until a recorded race: master and slave
  connections are served as what they are (`KindsFit`), an identifier is in the queue or with
  one thread that uses it (`OneHolder`), its contents at the server follow from the step its
  thread is at and from whether its request has been served (`Stored`, `Vanilla`), and what
  is on a call's wire is its request or the reply to it (`Answers`). The two properties
  alone say nothing of requests under way, on which the next step of the server
  depends. `Found` says where the data structure of a request is when the server gets it.
* `HopscotchProofs!TypeCorrect`, `NothingLeaksHolds`: `Spec => [](Sound => TypeOK)` and
  `Spec => []NothingLeaks`, from `CoreHolds`, `Spec => [](Sound => Core)`. `Core` says what an
  operation knows of its key and its entry (`OpOK`), which buckets it has locked and what
  that keeps as it is (`LockOK`), what becomes of the entry it has reserved, the object it
  moves and the one it inserts (`MoveOK`, `OwnOK`); that an object is where it says it is and a bit
  of its home bucket leads there (`ObjOK`), that a bit leads to an object of its bucket
  unless the collector has yet to clear it or the object is being moved (`BitOK`, `UniqueBits`,
  `NoteOK`), that a key is in the table at most once, or twice while it is copied
  (`KeyOK`), and that a busy entry has an owner (`LeakOK`). No part is inductive alone: that
  `ClearBit` clears the bit of the key it has moved needs that the bucket's first bit has
  stayed the first although the collector clears bits of unlocked buckets at any time.
* `HopscotchProofs!CleanHolds`, `ChangedByOpsHolds`: `Spec => [](Sound => CleanOK)` and
  `Spec => ChangedByOps`. `Shown` are the objects a lookup can meet and `Cached` what they say;
  `Core` makes `Lookup` a function of `Cached` and `remote` (`CachedFacts`). Every step then is
  of one of six kinds (`StepKinds`): it leaves `Cached` and `remote` alone, puts a key, inserts
  what the server has, takes a key out, removes it at the server, or evicts it. That an
  eviction does not change the key's value needs `CleanOK`: a clean object
  says what the server has.
* `HopscotchProofs!GetIsRightHolds`: `Spec => GetIsRight`. `AskOK` says of a get without an
  answer that the present value of its key is among those it has seen (`SeenOK`), and, unless
  its timestamp has grown, that what the server has is one of them or a bit it has
  yet to follow leads to the key (`Hit`). A key that is moved while the get reads could
  slip past it; that it does not is `Follows`: the bits are followed in ascending order and a
  key moves up, so who has yet to come to the old place has yet to come to the new one, and
  whoever read the bitmap before the new bit was set is told by the timestamp. A get that is
  copying has noted a value among those it has seen; that these are the bytes it gets
  is promised only outside `torn`. `Links` says of each
  step which bits go on leading to their objects.
* `TypeCorrect` of `DerefScopeProofs`, `ParallelizerProofs` and `LockProofs`:
  `Spec => []TypeOK`. For the rings this needs that an index taken modulo the capacity
  stays in the ring and that a thief takes no more than it has room for
  (`StealSizeTyped`); for the lock, that a writer is past `lock_writer` exactly while it
  holds the mutex and that its barriers are visible when it is in. The type
  invariants of these three modules and of `ObjLocker` (part of `LockerInv`) are proved and
  not checked by a run.

Sums over cores are recursive functions (`CoreSums!RunningSum`). `DerefScopeProofs` and
`LockProofs` each begin with what is needed of them, proved by the least counterexample
(`LeastNat`, `UpToN`), which takes the set of exceptions where an induction rule would
take a predicate. Cardinalities need finite sets: `Threads`, `Readers`, `Regions`, `Cores` and `Slaves` are assumed finite, as they are.
`TCPDevice` also assumes what the manager's constructor does: the queue of identifiers starts
with each identifier once (`IdsAssumption`). `Hopscotch` assumes that the two null pointers are
no objects (`NullAssumption`) and that there is at least one home bucket.

`ChangedByOps`, `GetIsRight` and the invariants of `Hopscotch` promise something only until one of
the races that `Sound` names has happened, as the run does.

Only model-checked: liveness (`WaitEnds`, `DerefReturns`, `PauseEnds`,
`ExecutionEnds`, `Progress`, `WriterGetsIn`, `ReaderGetsIn`), which TLAPS does not do, and
`NoHang`, which uses `ENABLED`. Every other property that a passing run checks is also proved.

## 5. Not modelled

* Shared pointers and the ring that connects them; `evacuate`, which only a
  notifier of a test calls; the bit layout of metadata and objects; notifiers other
  than the hash table's. Updates of one byte of the metadata are single steps, `clear_dirty`'s
  of two bytes as well; where the slow path of `_deref` writes to metadata that has become
  absent the race is recorded (`wild_meta`) and the metadata left alone; after `wild_object` the
  thread retries, where the code would follow a wild address. `_flush` unlocks the id it
  locked, which the code reads again from memory that may have been reused (`stale_header`).
* In the hash table values of different lengths (which reallocate), the size counters
  and the destructor. A `put` may end the process because no key can be moved although
  there is room; the model has the action (`Bug`) and no property against it.
  Keys are compared by `strncmp`, which stops at a zero byte; the model compares them as
  wholes. A `put` dereferences every object it passes with `deref_mut`; only the one
  it overwrites becomes dirty in the model: the others would be written back with the value
  the server has. That a `get` migrates an object while a `put` overwrites it is `Evacuator`'s
  `split_object`, and `Hopscotch` has no migration. The stash is a set without a limit, where
  the code ends the process when it is full (`concurrent_hopscotch.cpp:79`); the collector
  empties it and evicts in one step, although another of its threads may stash a note in
  between. Harmless simplifications: the slow path skips a null pointer instead of
  starting over, and the two comparisons of the timestamp after a miss are one.
* Message formats, the server's own tables, `compute` and `call` beyond their request
  and reply. A client that disappears without `Shutdown`: the server has no code for it,
  and takes the next client for its slaves. `allocate_ds_id` on an empty queue, which is
  undefined, waits in the model. Dialling never fails, and the checks of the opcode in
  `master_fn` (`tcp_device_server.cpp:315`, `319`), which could fail only after a recorded race, are
  not modelled. The server's vector of slave threads, which `Accept` and the shutdown use
  without a lock, is not corrupted by `late_accept`, only recorded.
* Array, list, queue, stack, dataframe vector, prefetcher, slab and serialiser. The RPC and
  numeric code of the dataframe, statistics, vendored code and the experiments are
  out of scope.
* `allocate_remote_object`, which retries for ever when far memory is full.

The priorities the runtime gives to collector threads are left out: they decide how
fast something happens, not whether. `GCMaster` reads the length of the free
list in one step, although `size()` reads tail and head without a lock.

## 6. Plan

1. `SharedPtr`: the ring of pointers to one object, changed without the object lock.
2. `PtrMeta` as pure operators: packing, byte-wise updates, object size.
3. `List`, `Prefetcher`, `Slab`.
