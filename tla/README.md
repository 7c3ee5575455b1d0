# Verification of the transactional memory library

This directory holds TLA+ models of the software transactional memory of
`src/394984` (a TL2 implementation in C++), the TLC configurations that check
them on small instances, and TLAPS proofs of theorems about them for every
instance.

## 1. The system

The repository is a library with the interface of `src/include/tm.hpp`, a
reference implementation of the same interface, and a program that grades one
against the other.

| Part | Source | State it keeps | Operations |
|---|---|---|---|
| Versioned write lock | `394984/data-structures.*` | one 64-bit word: version and lock bit | `lock`, `unlock`, `setVersion`, `isLocked`, `getVersion` |
| TL2 transaction manager | `394984/tm.cpp` | global version clock, array of locks, shared words, list of segments and its mutex, one `Transaction` per open transaction | `tm_begin`, `tm_read`, `tm_write`, `tm_alloc`, `tm_free`, `tm_end`, `tm_destroy` |
| Region creation | `394984/tm.cpp` | the region under construction | `tm_create` |
| Reference manager | `reference/tm.c`, `shared-lock.c` | one reader-writer lock, shared words, doubly linked list of segments | the same interface |
| Client wrapper | `grading/transactional.hpp` | one transaction and its status | `Transaction`, `Shared`, `transactional` (retry until commit), `TransactionalMemory` (bounded creation and destruction), `TransactionalLibrary` (loading) |
| Bank workload | `grading/workload.hpp` | accounts in shared segments | `init`, `run` (short, long and allocation transactions), `check` |
| Grading driver | `grading/grading.cpp`, `common.hpp` | `Sync` (status, counter, error), `Latch`, `Barrier` | master and workers in lock step over rounds |
| Evaluation | `grading/grading.cpp` (`main`), `common.hpp` (`bounded_run`) | the library at hand, the runner thread of a bounded call | load, create, measure, destroy, unload; quick exit |
| Producer-consumer examples | `sync-examples/procon*.c` | ring buffer and two counters, a lock or atomics | `produce`, `consume` |
| Other examples, playground, tests | `sync-examples`, `playground`, `testing` | - | programs beside the library |

### How the parts interact

Client threads call the transaction manager.  A transaction buffers its writes
and remembers its reads in private containers; it meets the others only through
the clock, the lock words, the shared words, and the region's segment list.
The driver's workers run the workload through the client wrapper, and meet each
other in `Sync` and `Barrier`.  Around them `main()` loads a library, has its region
created and destroyed by a thread with a time limit, and unloads it; objects on its
stack tie these together, so that exceptions decide what is destroyed while which
threads still run.

### What is hard

* `tm_read` takes five accesses to shared memory per word, `tm_end` a few per
  word of the write set and of the read set: correctness is a matter of which
  commits can happen between two of them.
* A commit can fail after it took some of its locks.
* Several words share a lock, inside one write set too.
* Segments change owner at commit and are freed by destructors.
* `tm_end` waits for a mutex after its writes are visible.
* `Sync` and `Barrier` reuse one counter for the two phases of a round, and
  threads of different speed are in different phases.
* A worker can fail or throw at any point of a round.
* Destructors throw, run while the stack unwinds, or wait for another thread with a
  time limit; a thread that was given up keeps running.
* Any request for memory can be refused in the middle of an operation.

`PROJECT.json` lists these hazards at the line where they bite.

### What makes each part correct

* Lock: one holder at a time; the version changes only when the holder
  publishes; an abandoned acquisition leaves the version alone.
* Manager: committed transactions are explained by the order of their write
  versions; what a transaction reads is its snapshot; nothing uncommitted is
  visible; no lock leaks; no segment leaks, is freed twice, or is freed in use;
  every call returns.
* Reference manager: a writer is alone; the segment list contains exactly the
  allocated segments.
* Bank: the sum of the balances, divided by the accounts, is invariant; a retry
  does what the first attempt was meant to do.
* Driver: rounds do not overlap; a failure in a round is reported; everybody
  terminates.
* Evaluation: handles, regions and libraries are released once, and not while a
  thread uses them; the process comes to an end.
* Producer and consumer: items arrive whole, once and in order; both threads end.

## 2. Plan

| Order | Module | Models | Composition |
|---|---|---|---|
| done | `LockWord` | arithmetic of a lock word | used by the next two |
| done | `AtomicLock` | abstract specification: a versioned lock whose operations are one step | - |
| done | `VersionedWriteLock` | the lock, one step per atomic access | implements `AtomicLock` |
| done | `VersionedWriteLockProofs` | type correctness and the refinement | - |
| done | `TL2`, `MCTL2` | the transaction manager, one step per shared access | takes `lock`/`unlock` as one step, as `AtomicLock` allows |
| done | `TL2History`, `MCTL2History` | what ended transactions have read, in the order of the write versions | `TL2` with a history variable |
| done | `TL2Proofs` | type correctness, exclusive locks | - |
| done | `TL2HeapProofs` | ownership of segments, published memory, no dirty reads | extends `TL2Proofs` |
| done | `TL2SerialProofs` | serializable executions, snapshots, committed words, growing versions | extends `TL2HeapProofs`, `TL2History` |
| done | `Barrier` | the workload's spin barrier | - |
| done | `Bank` | the bank workload and the retry of the client wrapper | extends `Barrier`; the library is external |
| done | `BankProofs` | the barrier's rounds, the books, no false alarm | - |
| done | `GradingSync` | `Sync`, `Latch`, `measure` | - |
| done | `SerialMemory` | abstract specification: transactions on copies of the memory | - |
| done | `ReferenceTM` | the reference manager, its list and its life cycle | implements `SerialMemory` |
| done | `ReferenceTMProofs` | the refinement, the list and the blocks | - |
| done | `Region` | `tm_create`, its failures, `tm_destroy`, the destructor | - |
| done | `BoundedRun` | `bounded_run`: caller, runner, timeout | - |
| done | `Wrapper` | `transactional` and `Transaction` with their exceptions | extends `GradingSync`: the inside of a worker's round |
| done | `Evaluation` | `main()` and the loading of libraries | extends `Wrapper`, `Region`, `BoundedRun` |
| done | `EvaluationProofs` | the invariants of the driver, the wrapper, the region, `bounded_run` and `main()` | - |
| done | `BoundedBuffer` | abstract specification: a bounded queue | - |
| done | `ProducerConsumer` | `procon2.c`, `procon3.c`, `procon4.c` | implements `BoundedBuffer` |
| done | `ProducerConsumerProofs` | the refinement, slots used by one thread at a time | - |

Everything planned is done except two extensions of `TL2`, which section 8 explains:
words of more than one access, and an abstract memory that `TL2` implements step by step.

## 3. Modules and code

### LockWord, VersionedWriteLock, AtomicLock

A lock word is `2 * version + bit`.  `LockWord` defines what each operation of
`data-structures.cpp` makes of it.  `unlock` masks with `~1u`, an `unsigned int`
that is extended with zeros: its effect is arithmetic modulo `UintSpan`, which
is 2^32 in the build.

`VersionedWriteLock` has the word, a program counter and one local per thread.
`lock()` is `LockLoad`, then `LockCAS` or `LockFail` (the compare-exchange is
the weak one and may fail on the expected word); `unlock()` is `UnlockLoad`,
then `UnlockStore`; `setVersion()` is `SetVersion`.  Threads unlock only what
they locked, which is how `tm_end` uses the lock and what `LocksExclusive`
proves of it.

### TL2

| Variables | Code |
|---|---|
| `gvc` | the global version clock |
| `locks`, `seg_list`, `list_lock`, `alive` | fields of `MemoryRegion` |
| `mem`, `live` | the shared words; the segments obtained from the allocator |
| `is_ro`, `rv`, `read_set`, `write_set`, `txn_segs` | `struct Transaction`, one per thread |
| `pc`, `word`, `last`, `ver`, `new_ver`, `got`, `todo`, `held`, `wv` | locals of the call in progress |
| `hist`, `reads`, `raced`, `published` | history, for the properties |

| Call | Actions |
|---|---|
| `tm_begin` | `tm_begin` |
| `tm_read` | `tm_read`, then for each word `PreVersion`, `PreLocked`, `Copy`, `PostVersion`, `PostLocked` |
| `tm_write`, `tm_alloc`, `tm_free` | one action each: they touch private data only |
| `tm_end` | `tm_end`; `LockTaken`, `LockMine`, `LockBusy` for each word; `Unlock` for each lock of a failed commit; `IncrementClock`; `ValidateLocked`, `ValidateVersion`, `ValidateMine` for each word read; `WriteBack`, `SetVersion` for each word written; `SpliceLock`, `Splice` |
| `tm_destroy` | `tm_destroy` |

Private work belongs to the step of the shared access before it.  A deleted
transaction's locals return to their initial value, which keeps states that the
code cannot tell apart equal.  `Commit` marks the point from which nothing can
fail; it changes history variables and the program counter only.

Addresses are numbers because the lock of an address is computed from it.  The
allocator may give back a freed address, with its old contents and its lock's
old version.

Accesses are sequentially consistent.  The code uses the default order for its
atomics; its word copies are plain `memcpy`, and the model gives a copy that
races with another the value before or after it, which is what the machine does
for words of up to 8 bytes.

`TL2History` adds one history variable.  `seen` has the reads of every transaction that
can no longer fail, with the place in the order of commits where it belongs: before its
own write version, or, for a read-only transaction that no release overtook, at its
snapshot.  `Remember` fills it and no step depends on it.  `MCTL2History` is the instance
for TLC: it forgets a read one step after the last commit that could contradict it, when
no transaction that holds a write version as low is still being validated (`Undecided`).
`ExecutionSerial` is proved of `TL2History`, which forgets nothing.

### Barrier

`step` and `mode` are the two atomics; `sync()` is `Enter`, then `SetLeave` or
`WaitLeave`, then `Leave`, then `SetEnter` or `WaitEnter`.  `arrived` and `left`
count calls and returns.  `Spins` is a thread that finds its loop not ended.

### Bank

`Bank` runs `init`, `run` and `check` of every worker.  `segs` is the linked list of
account segments in shared memory; `at`, `ntx` and the rest are the workers' locals.
The transactional library is external: a committed transaction is one step.

| Code | Actions |
|---|---|
| `init` | `InitWrite`, `InitCheck` |
| `run` | `LongTx`, `AllocTx` (`RemoveAccount` or `AddAccount`) or `AllocThrows`, `ShortTx` then any number of `ShortAbort`, then `ShortCommit`; at the end `LastLongTx` |
| `check` | `FirstSync`; the leader's `WriteCounter`, `VerifyCounter`; `SecondSync`; `ReadCounter`, `DecreaseCounter` in turn; `ThirdSync`; `ReturnFinal`.  Early exits: `BadSecondSync`, `BadThirdSync`, `ReturnBad`, and `CheckThrows` |
| `barrier.sync()` | `Enter` of `Barrier`, then `InSync` and `Spin` |
| `transactional()` | an aborted attempt leaves a trace in `short_tx` only: `ShortAbort` |

`lib` is "atomic" or "faulty".  A faulty library answers the checks of the workload
and the counter transactions with any value: `check` has to end for it as well, which
is why it is there.  An aborted attempt of `short_tx` walks the list as it is at that
moment.  `asked` and `astray` are history, for `TransferAsAsked`.  That the rounds
do not overlap, and that none follows a failed one, is what `GradingSync` shows and
what `StartRound` takes for granted.  An exception leaves `alloc_tx` when the memory
is full, and any transaction of `check`; `threw` is the worker it took out.  The
destructor of the transaction commits what the closure did before the exception: in
`alloc_tx` that is nothing (`BeforeAlloc`), and `BankConsistent` covers the state after it.

### GradingSync

`status`, `nbready` and `errmsg` are the atomics of `Sync`, `raised` is the
latch.  The master starts the threads (`StartWorkers`, `StartFails`), then loops over
the rounds of `measure()`: `MasterNotify`, `LatchWait` (or `LatchTimeout`, after which
`main` leaves the process), `MasterResult`, and at the end `MasterQuit` and
`MasterJoin`.  A worker runs
`worker_wait` (`PollStatus`, `CountIn`, then `ResetIn` and `StartRun`, or
`AwaitRun`), its part of the round (`Work`: success, an error, or an exception),
and `worker_notify` (`StoreError`, `StoreAbort`, `CountOut`, `ResetOut`,
`LoadStatus`, `StoreVerdict`, `LatchRaise`).  An exception goes through
`worker_notify` too, after which the thread ends.

### Wrapper

What a worker does between `worker_wait` and `worker_notify`: one transaction
through `transactional()`, the rest of a round being more of the same.  `tpc` is the
place in the loop, `aborted` the member of `Transaction`, `exc` the exception under
way, and `handle` what the library made of the transaction's handle.

| Code | Actions |
|---|---|
| constructor | `TxBegin`, with the exception of a failed `tm_begin` |
| `read`, `write`, `alloc`, `free` | `TxCallFails`; `TxNoMem` for an allocation without memory.  A call that succeeds changes nothing here |
| end of the closure | `TxReturns` |
| destructor | `TxDropped` after a failed call; otherwise `TxEnds`, which commits, or throws a retry, or terminates the process when an exception is under way |
| end of the worker's part | `EndWork`, a `Work` step of `GradingSync` whose outcome is that of the transaction |

### Region

`blocks` is what the allocator gave, `fields` which pointers of the region are not
null.  `tm_create` is `NewRegion`, `NewLocks`, `AllocStart`, `ZeroStart`; the first
three may be refused, and then give back what there is, by hand or through the
destructor (`DeleteRegion`).  `tm_destroy` is `delete region`.

### BoundedRun

The caller takes the mutex and starts the runner (`StartRunner`), or cannot start it and
throws (`StartRunnerFails`); it waits (`EnterWait`) and leaves by `CallerWakes` and `JoinRunner`, or by `WaitTimeout`.  The runner runs
the function (`FuncReturns`), then `RunnerNotify`, `RunnerUnlock`.  `SpuriousWake` is
the condition variable's licence.  A runner whose caller gave it up meets a frame that
is gone: `RunnerStrays`, and `stray` remembers any such access.

### Evaluation

`stage` is the place in the loop of `main()`: load, create, measure, destroy,
unload, leave.  Creating and destroying go through `BoundedRun` with the steps of
`Region` as the function (`CallRun`, `InRun`, `RunLibrary`, `EndFunc`, `RunnerStep`);
measuring is `GradingSync` (`MeasureStep`, `SyncStep`) with `Wrapper` (`RoundStep`).
The ways out are those of the code: an exception while loading; a thread that cannot be
started, which `main()` catches after the library object is gone (`CreateRefused`) or
which is fatal in the destructor (`DestroyRefused`); an invalid region,
which throws in the runner's thread and terminates the process (`EndFunc`); an overrun
while creating (`CreateOverran`) or destroying (`DestroyOverran`, fatal in a destructor
that is `noexcept`); an error of `measure()` (`Measured`); an exception of `measure()`
(`QuickExit`).  Only libraries after the first have a time limit, since the limits are
the times of the first.

### ProducerConsumer, BoundedBuffer

One module for the three correct programs, which differ in how a thread waits:
`procon2` takes the lock (`Acquire`), checks, and lets it go again (`Retry`);
`procon3` reads a counter until it may `Proceed`; `procon4` waits on the condition
variable (`Retry`) until the other thread's `WakeUp` or a `SpuriousWake`.  An item is
copied in two parts (`CopyFirst`, `CopySecond`) and announced by the counter
(`Publish`).  `Compare` is the check at the end of `main()`.  The queue of
`BoundedBuffer` is the part of the ring between the two counters.

### ReferenceTM, SerialMemory

`ReferenceTM` has the region's life (`phase`, and the `blocks` it obtained from
the allocator), the reader-writer lock (external: `rwreaders`, `rwwriter`), the
shared words, and the fields of the list's nodes.  `tm_create` is
`CreateRegion`, `CreateStart`, `CreateLock`, each of which can fail; `tm_destroy`
is `DestroySegment` for each node, then `DestroyRegion`.  `tm_read` and
`tm_write` copy word by word (`ReadWord`, `WriteWord`); `tm_alloc` goes on with
`LinkNext`, `LinkHead` and `ZeroSegment`, `tm_free` with `UnlinkNext` and
`FreeNode`.  Nothing in these steps mentions the lock, as in the code: that they
do not meet is for the properties to show.

`SerialMemory` is the promise: a transaction works on a copy and installs it at
its end if nobody else did meanwhile.  The mapping takes the memory itself for the
copy of every open transaction, and for the committed memory what the writer found
when it began.

## 4. Runs

| Run | Configuration | Shows |
|---|---|---|
| `lock_refinement` | `VersionedWriteLock.cfg` | three threads: the accesses of the lock implement the one-step lock |
| `tl2_commit` | `TL2Commit.cfg` | two writers, a lock per word: exclusive locks, committed reads are serial, free words are committed, versions only grow |
| `tl2_reader` | `TL2Reader.cfg` | a reader against a writer, calls of one or two words: reads come from the snapshot except through the race of F1 |
| `tl2_heap` | `TL2Heap.cfg` | allocation, abort, reuse, publication, `tm_destroy`; all words under one lock, write sets with clashes |
| `tl2_live` | `TL2Live.cfg` | `MCTL2History`: two threads, transactions of both kinds on one word, up to three write versions, to their end and beyond: every call returns, and what a transaction read stays explained after it has ended, also when one with a lower write version commits later |
| `tl2_ro_snapshot` | `TL2ROSnapshot.cfg` | violation, see F1 |
| `tl2_clash` | `TL2Clash.cfg` | violation, see F2 |
| `evaluation` | `Evaluation.cfg` | the driver from loading to exit: rounds and verdicts of `measure()`, handles of transactions, blocks of the region, the order of destruction and unloading, and that it ends |
| `producer_consumer` | `ProducerConsumer.cfg` | the three programs implement a bounded queue; two threads never use a slot at once; the programs that do not poll under the lock end with the right data |
| `reference` | `ReferenceTM.cfg` | the reference manager implements serial transactions, its list is the heap, every block is freed once |
| `bank` | `Bank.cfg` | three workers through all rounds: money is conserved, a correct library is never accused, the barrier's rounds do not overlap, `check` ends for any library unless a worker throws before its last barrier |
| `bank_retry` | `BankRetry.cfg` | violation, see F5 |

### What the findings show

* **F1** (`tl2_ro_snapshot`): the validation that ends `tm_read` loads the
  version and the lock bit separately.  A commit whose `setVersion` falls
  between the two loads goes unnoticed, and a read-only transaction, which
  validates nothing later, returns values of two different states.
  A read-write transaction is not affected when it commits: `tl2_commit` checks
  that, since its read set is validated again.
* **F2** (`tl2_clash`): the write-back releases the lock of each word as it
  goes.  When two words of a write set have the same lock it is free before the
  second word is written.  The runs that show the rest of the manager correct
  therefore set `ClashFree`, a restriction of the clients and not of the code.
* **F3**: past 2^31 commits `unlock()` truncates the version, because its mask `~1u`
  is an `unsigned int`.  `lock_refinement` runs up to the last word that fits
  (`UintSpan` = 8, words up to 7), and `NoWrap` is the hypothesis of the theorems.
* **F4**: when `aligned_alloc` fails in `tm_create`, the locks are deleted and the
  destructor deletes them again.  `RegionFreedOnce` names this as the only double
  release.
* **F5** (`bank_retry`): the closure of `short_tx` reduces its captured parameters
  while it walks the list, so a retried attempt transfers between other accounts
  than it was asked for.  The sums stay right, which `bank` shows.
* **F6**: `main()` quits at once when `measure()` throws, since it "cannot unload
  library with running threads" (`grading.cpp:341`).  The construction of the workload
  is outside that `try`: when the creation of the region overruns, the library is
  unloaded under the runner.  `UnloadedIdle` names this as the only case.
* **F7**: `bounded_run` waits without a predicate.  After a spurious wake-up it joins
  the runner while it holds the mutex that the runner needs, and both wait for ever.
  `EvaluationEnds` names this and the next as the only ways not to end.
* **F8**: a worker that throws in `check()` leaves the others at the barrier.  The time
  limit ends the evaluation of a tested library; the reference has none (`CheckEnds`).
  `EvaluationEnds` excuses exactly this: a worker of the reference in the work of the check
  for ever (`Stranded`) after another threw.  A throw in an earlier round is no excuse.
* **F9**: an invalid region makes the function of the runner throw; no handler of
  `main()` can catch that, and the process terminates (`EndFunc`).

### Bounds

* `MaxClock` bounds the clock.  `ClockBudget` admits a transaction only when the
  clock can serve it and all the pending ones, so that no behaviour is cut in the
  middle of a commit.  Two commits are what a serialisation anomaly between two
  transactions needs.  Aborted attempts before the clock do not use the budget.  `tl2_live`
  has `MaxClock` = 3, which commits out of the order of their versions need: the taker of
  version 1 has the snapshot 0 and commits without validation, so that another can overtake
  only the taker of version 2.
* `MaxLen` is the number of words of a call: 2 where the loop of `tm_read` over
  words is the subject.
* Two values suffice to tell an old word from a new one; two words to see half a
  commit; one allocated word to be freed, reused and published.
* `NumLocks` is 2 (a lock per word) or 1 (all words share).
* `UintSpan` is far above the words in use in the runs of `TL2`, and just above them in
  `lock_refinement`.
* `MaxVersion` = 3 lets each of three threads publish once.
* `ReferenceTM` has three segments, so that a node is taken out at the head, in the
  middle and at the tail of the list, and a first segment of two words, copied in
  two steps.
* `Evaluation` has three workers and `Rounds` = 3: initialisation, one measurement and
  the check, two of which can meet the leftovers of the round before; a worker can throw
  in two of them without the excuse of F8.  `Libs` = 2: the
  reference without a time limit and one library with it, so that the second evaluation
  meets the leftovers of the first.  `MaxAborts` = 1 failed attempt per transaction lets
  a commit fail at its first and succeed at its second attempt.
* `ProducerConsumer` has `RUNS` = 7 over `BUFFER_SIZE` = 3, so that every slot is used
  again; `MaxSpurious` = 2 lets each thread be woken in vain.
* `Bank` admits one exception per behaviour: one is enough to break up a barrier.
* `MaxRounds` = 3 is the number of calls of the barrier in `check`.
* `Bank` has three workers, one repetition of `run` with two transactions each, which
  makes six in the memory: enough to fill the first segment, add a second, move
  money, and remove the second.  `MaxSegments` = 2 bounds the list.  `Triggers`
  has a draw below every number of accounts and one above.  `nbchecks` = 1 (100 in
  the code) gives three decrements.  `SizeSpan` = 4 is the least that holds the
  counter, so that a wrong decrement wraps as a `size_t` does.
* `ThreadSymmetry` (threads of a role are interchangeable) is used in safety runs only.

## 5. Fairness

`Fairness` of `TL2` asks that a thread inside a call keeps taking steps.  Nothing
obliges a client to make a call, and a call blocks only on `list_lock`.  Under
weak fairness a thread could in principle starve on that lock while others take
it for ever; the bounded clock excludes an endless sequence of other commits.
`std::mutex` gives no stronger promise, so `CallReturns` says that no holder
keeps the lock and no loop goes on for ever, not that the mutex is fair.  Nothing
is claimed of the retry of aborted transactions: the code does not back off, and
two clients can abort each other without end.

`Evaluation` asks weak fairness of each thread, `main`, the runner and every worker:
each one spins or runs, and the operating system schedules it.  Calls of the library
are taken to return and transactions to commit after `MaxAborts` failures.  For `main`
this includes the end of a wait with a time limit, since time passes.  The reference is
measured without one, so that there `EvaluationEnds` rests on the protocol alone.  A
worker in `check` is not obliged to go on once another threw (`Stranded`): it may be in
the barrier.

`ProducerConsumer` asks weak fairness of both threads.  The mutex is not taken to be
fair: in `procon2` a thread that polls may take it again and again while the other is
never served, so nothing is claimed of its end.  `procon4` needs spurious wake-ups to
be finitely many for the same reason.

`Bank` asks weak fairness of each worker's steps in `check` and of nothing in `init`
and `run`: whether `transactional()` ever commits is up to the library.  In `check`
the transactions are taken to commit, since `CheckEnds` is about the barrier.

## 6. Proofs

### VersionedWriteLockProofs

Assumption: `NoWrap`, the largest lock word fits in an `unsigned int` (F3 shows
that it is needed).  `LockInv` adds to the types that at most one thread is
between a successful `lock()` and its release, that the lock bit is set exactly
then, and that the local of a thread in `unlock()` is the word without its bit.
The last is what makes the two accesses of `unlock()` one step: nobody else can
have changed the word in between.

* `LockTypeCorrect`: the types and the bound of the word.
* `LockRefines`: every step of the lock is a step of `AtomicLock` or changes
  nothing there.  `HolderKnown` ties the mapping's `CHOOSE` to the only holder.

### TL2Proofs

For any threads, addresses, values and number of locks.  `Inv` is the conjunction
of

* `TypeOK`;
* `Registers`: the word a loop of `tm_read` is at, and those up to its last, are
  addresses of the region; the loops of `tm_end` are at a word they have to visit,
  and locking and write-back visit words of the write set.  Types alone are not
  inductive: the next address of `tm_read` is the current one plus one;
* `HeldOf`: `locks_held` is exactly the set of locks of the words visited so far,
  and of the whole write set after locking.  It is needed where the commit turns
  from `locks_held` to the write set: the locks that the write-back releases are
  those that the locking loop took;
* `ClashFree => LockOwnership`.

`TypeCorrect` and `LocksExclusive` follow.  `LocksExclusive` assumes `ClashFree`;
F2 is what happens without it.

### TL2HeapProofs

For all clients, those whose write sets share locks included.  `HeapInv` is

* `SegInv`: every segment has one owner; an open transaction names only words that it
  can know of, of the first segment, published ones and its own; its own segments are
  not published before its commit; what is published is allocated.  The second part is
  what makes the first inductive: a segment that is freed on abort is in no write set and
  under no `tm_read` of another thread;
* `ValInv`: every word that exists has a committed value, and so has every word that a
  `tm_read` under way has copied; what a commit writes back is recorded as committed.

`SegmentsOwnedOnce`, `PublishedStaysLive` and `NoDirtyReads` follow.  The last one does
not depend on the lock bits: a word is copied whole, and a commit cannot fail once it
writes.

### TL2SerialProofs

Two hypotheses.  `ClashFree`: no write set has two words under one lock; F2 is what
happens otherwise, and the conclusions are false then.  `NoWrap`: the largest lock word
fits in an `unsigned int`; F3 is what happens otherwise.  Both are restrictions of the
clients that the code does not enforce.

`SerialInv` relates four things:

* `Clock`: the clock is ahead of all versions and all commits; a write version is ahead
  of the snapshot of its transaction and of the versions of the locks it holds.  The
  bound on the clock needs the number of pending transactions to be finite, hence
  `IsFiniteSet(Writers)` among the assumptions of `TL2`;
* `WordsInv`: a word has the value of its last commit up to the version of its lock,
  except between its copy and the release of the lock; later commits of it are being
  written back by the holder of the lock;
* `PastReads` and `InFlight`: what a transaction has read is of its snapshot, or came
  through the race of F1 and the lock is newer than the snapshot now.  For the word that
  `tm_read` is at, there is one clause for each place between its loads: the copy is of
  the snapshot, or a commit is writing back under the lock, or the version has moved on;
* `Validation`: a read that `tm_end` has validated is not changed by any commit between
  the snapshot and the write version, and whoever holds its lock commits later.

The proof is of the rely-guarantee kind.  `Effect(t)` is what a step of one thread may do
to the others: versions change only by the release of a lock with the holder's write
version, commits appear only under locks held or with a version ahead of the clock, and a
thread that writes back goes on until it releases.  One lemma per action shows the effect,
one lemma per part of `SerialInv` that the effects of another thread preserve it, and one
lemma per action that the thread's own part is preserved.  `ReadsSerial`,
`ReadsOfSnapshot`, `WordsCommitted` and the action property `VersionsGrowing` follow.

`ReadsSerial` is about the moment at which a commit becomes certain.  `ExecutionSerial` is
about everything that happens afterwards: write versions are taken before the validation,
so a transaction with a lower version may commit when one with a higher version has long
returned, and must not change what that one should have read.  `SeenOf` is what makes this
inductive: the place of an ended transaction is behind the clock, and whoever holds the
lock of a word that it read and has a write version has one after that place.  A new
holder takes its version from the clock, and a commit is made under a lock that is held
since before its version was taken (`Forward`), so nobody can get in between any more.
That the holder is newer at the start is what the test of the lock bit in the validation
gives; `ValidateIgnoresLock` shows the property fail without it.

### ReferenceTMProofs

For any threads, words and finite set of segments.  `TxInv`: transactions hold the lock
in their mode from `tm_begin` to `tm_end`, calls that write are in writers, and a reader
finds the memory that it began with.  `ReferenceIsSerial` maps each step to a step of
`SerialMemory` or to none.

`HeapInv` is about the list while a call edits it.  A node that is being linked or
unlinked is `Loose`; `Before` is the predecessor of a node once the running call is
through, and with it the links agree in both directions at every step (`LinkInv`).  That
the list has no cycle and no part that is out of reach is the existence of a rank that
grows along `next`: every step shows how to change the rank.  `FreedOnce` and
`ListHoldsHeap` follow; for the latter the recursive function that walks the list in
`ListIsHeap` is shown to have a solution.  Induction goes through sets of numbers (a
nonempty set has a least member), since theorems that take a predicate cannot be used.

### BankProofs

For any number of workers, accounts, transactions and checks, and for a list of any
length up to its bound.

`BarrierInv`: the counter is the number of threads that are counted in, the threads are
where the mode lets them be, the last one to come or go is alone at its place, and all
have been let out of equally many rounds.  `BankUsesBarrier` shows that each step of the
workload is a step of the barrier or leaves it alone, so that `WorkersMeet` holds of the
workload.

`BooksBalance` and `AtomicNeverAccused` need sums.  `AddUp` is a fold, and the library
defines folds through a recursive function on the subsets of the indices.  `Adds` says
what it is to be such a function on the subsets of a given set; that one exists on every
`1..n`, and that two of them agree, is shown through the least number that fails
(`LeastOf`, `NatSetInduction`), since theorems that take a predicate cannot be used.
From it come the four facts that the rest uses: the sum of the empty sequence, of a sequence with one more entry (`AddUpLast`), of one with an entry changed
(`AddUpChange`), and of a constant one.

`BankInv` is the conjunction of `BarrierInv` and `WorkInv`, which has four parts.

* `BankTypes`: the types, the list of segments apart.
* `RoundInv`: which worker can be where in which round; the list is empty or filled for the
  first time during `init`, and `Good` during `run`: every segment has an account in use and
  no negative balance, and all the money in the list is `init_balance` for each account that
  it counts.  `AddAccountKeeps`, `RemoveAccountKeeps` and `TransferKeeps` are about the transactions that change the list.
  A transfer finds its accounts by walking the list (`WalkType`, `PlaceOf`); money moves
  inside a segment, between two, or from an account to itself.  `BooksBalance` is this part.
* `CallsInv`: the number of barriers a worker has come to is given by its place in
  `check`.  With `BarrierInv` it follows that no worker decreases the counter before the
  leader has written it, and that the last barrier opens only after all decrements.
* `AtomicInv`, for a library that is atomic: nobody has reported an error, and `CounterInv`.
  `ToDo` is the set of decrements that are still to be made, as pairs of a worker and a turn,
  and the counter is its cardinality; a value that a worker has read and not yet decreased is
  not below the counter.  The set is empty when the last barrier has opened.  Without the
  count, a worker that finds zero too early, or not zero at the end, could not be excluded.

The only assumptions are those of the constants in `Bank`; the counter is taken modulo
`SizeSpan`, which has to hold the first value written, as a `size_t` does.

### EvaluationProofs

For any number of workers, rounds, libraries and aborts.  `EvalInv` is the conjunction of
one invariant per part:

* `SyncInv`, by the place of the master.  While it waits, a round is in one of three
  phases.  `Entering`: the counter is the number of workers counted in, and the last one
  is alone to reset it.  `Running`: the counter is the number of workers counted out; a
  worker that failed has stored its message before `Abort` and `Abort` before it is
  counted.  `Ended`: the verdict is stored and everybody but the one who raises the latch
  is out.  Together they say that the counter and the status of one phase are never seen
  in the next, from which `RoundsTaken`, `VerdictOfAll` and `Unreachable` follow;
* `WrapperInv`: the handle is open in the closure and on the way out of it, unless the
  transaction was aborted (`HandlesKept`);
* `RegionInv`: which blocks and fields there are at each step (`RegionBlocksFreed`);
* `RunInv`: where caller and runner can be together and who has the mutex (`FrameKept`);
* `StageInv`: what the other parts are doing at each stage of `main()`; in particular
  `measure()` is idle outside its stage unless the process quit (`DestroyedWhenIdle`,
  `UnloadedWhenIdle`).

### ProducerConsumerProofs

For any number of runs and any size of the ring.  `Inv`: the counters count what the
threads have announced and are at most the ring apart; the slots between them are filled;
a part that a thread has copied stays until it is announced.  That two numbers less than
one turn apart have different slots is `SlotsDiffer`.  Locks play no part: the argument is
the same for the three programs.  `Disjoint` and `ProconIsBoundedBuffer` follow.

## 7. Only model-checked

* Liveness (`CallReturns`, `CheckEnds`, `EvaluationEnds`, `BothFinish`) is out of the
  prover's reach.
* The violations of `tl2_ro_snapshot`, `tl2_clash` and `bank_retry` are counterexamples of
  small instances, which is all that they need to be.

## 8. Not modelled

* Words of more than 8 bytes, copied in several accesses.  The interface allows such an
  alignment; the programs of the repository use 8.
* A step-by-step refinement of an abstract memory by `TL2`.  Commits become certain in
  another order than that of their write versions, so an abstract memory that applies them
  one after the other would need to know the future.  `ExecutionSerial` states the result
  over the history instead.
* Progress of retried transactions: the code has no back-off and promises none.
* What detached workers do with the frame of `measure()` after a time limit, before the
  process quits: undefined in C++.  Their calls of the library are modelled.
* Weak memory orders: `Sync`, `Barrier` and `procon3.c` use relaxed, acquire and release
  accesses; the models are sequentially consistent.
* Progress of `tm_begin` in the reference manager: a reader-writer lock of the
  platform may prefer readers for ever, and the code asks for no more.
* `Shared` computes addresses and passes calls on; the checks under `assert_mode` are
  compiled out.
* Times, random draws, output and the parsing of the command line: no protocol state.
* The counter and election examples: one atomic instruction or one critical section
  each, and first versions that are wrong on purpose.
* The playground's lock is an empty exercise; the tests and the submission script
  are clients of the system.
