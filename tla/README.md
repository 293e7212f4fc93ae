# Verification of the concurrent code in RTFSC

RTFSC is a collection of annotated source code: real programs and libraries, some
complete, some as excerpts, kept with the notes of their reader.  This project
models the parts of it that carry state and concurrency of their own, checks them
with TLC on small instances and proves the central invariants with TLAPS.

## 1. Inventory

| Part | State it keeps | Operations | Talks to | What is hard | Module |
|---|---|---|---|---|---|
| redis 2.2 VM (`redis/2.2/VM`) | page bitmap, three job lists, storage state of every value, waiting lists of clients and keys, notification pipe | swap out (threaded, blocking), load, cancel, completion handler, blocking and resuming clients, waiting for the threads before a fork | I/O threads over lists under `io_mutex` and a pipe; commands through `lookupKey`; the BGSAVE child through the swap file | cancel against running jobs, canceled jobs that complete later, reuse of pages and addresses, the pipe filling up | `RedisVM`, `VMPages`, `VMQueue` |
| redis 2.2 objects (`redis/2.2/robj`) | reference count and storage field | create, incr, decr | the VM (decrRefCount cancels jobs) | a count shared with a job | `RedisVM` |
| boost.lockfree stack (`boost/lockfree`) | tagged head, node links, freelist | push, range push, pop, consume_all_atomic | the freelist, by reusing the node's first word | ABA, tag wrap, a throwing allocator, retry loops | `LockFreeStack`, `LifoStack` |
| JDK AQS (`JDK/concurrent`) | CLH queue of nodes with a wait status, state word, condition queues | acquire, release, cancel, await, signal | park/unpark | lost wake-ups, cancellation races | `AQS`, `AQSCondition` |
| redis 2.2 event loop (`redis/2.2/事件驱动`) | tables of file and time events | create, delete, process | handlers that change the tables, epoll | stale fired events, deleted timers, late timers | `AeEventLoop` |
| linux epoll, wait queue, pipe (`linux/io`, `linux/proc`, `linux/fs/pipe`) | ready and overflow list, waiters, items, buffers | epoll_ctl, epoll_wait, poll callback, read | callbacks from the file's wait queue | callbacks during a scan, exclusive waiters, one-shot items | `EventPoll` |
| Android Handler (`Android/Handler`) | message list ordered by time, barriers, idle handlers, message pool | enqueue, next, quit, barriers, runWithScissors | native poll and wake | missed wake-ups, barriers, quitting | `MessageQueue` |
| Android Broadcast (`Android/Broadcast`) | parallel, ordered and deferred broadcasts, split counts, pending process start | send, process the next, finish, time out, defer | processes that answer, die or hang | time-outs, deaths, splitting | `BroadcastQueue` |
| redis 2.2 zmalloc (`redis/2.2/内存分配`) | one counter, sizes in prefixes | malloc, realloc, free | | two updates in one call, no mutex at first | `Zmalloc` |
| libstdc++ shared_ptr (`STL/libstdc++/shared_ptr`) | two counters per block | copy, release, lock | destructors that release further pointers | last strong against weak reference | `SharedPtr` |
| libstdc++ hash table (`STL/libstdc++/unordered_map`) | one list and buckets that point before their first node | insert, erase, rehash, clear | | the bucket behind a moved node | `Hashtable` |
| Toast, libco, sgi allocator, rand48, select, fio, bionic linker, bolt, Activity, SystemServer, Log, linux fs/mm/irq/sched excerpts, glibc structures, other STL containers | | | | see section 11 | none |

`PROJECT.json` lists the hazards of the modelled code line by line and the properties
aimed at them.

## 2. Plan

Done: the modules above with their runs, in the order Redis VM, stack, AQS, event
loops, Android, zmalloc, shared_ptr, hash table; the proofs of section 10.

Left, in this order:

1. Proofs: `NoLostWakeup` of `AQS` over the invariant of its queue; `JobsSound` and
   `PageAccounting` of `RedisVM`; `TableIntact` of `Hashtable`; the action properties
   `WorkUndisturbed` and `OrderKept`.
2. Modules: `consume_all_atomic_reversed`, the copy and move operations of the hash table,
   the sgi allocator.

## 3. How the runs are built

A component that needs an instance of its own has one MC module: `MCRedisVM` and
`MCAQS`.  The others are checked in suites: `MCLockFreeStack` (the stack and `SharedPtr`),
`MCParts`, `MCEvents`, `MCAndroid` extend several components that share no variable, and
the variable `focus` chooses in the initial state the one that runs while the others stand
still.  So a suite's states are the union of its components' states and not their
product, and every property is checked over all states of its component.  `Lists` has the
one list operation that several components need and the library does not offer.

| Run | Properties | Distinct states |
|---|---|---|
| `vm_safety` | `NoAssertionFails` `JobsSound` `PageAccounting` `RefcountExact` `WaitersAreServed` | 692 000 |
| `vm_two_threads` | `DataIntegrity` `SnapshotIntact` `ImplementsQueue` `WorkUndisturbed` | 489 000 |
| `vm_live` | `BlockedClientsResume` `MainThreadReturns` | |
| `stack` | `StackSound` `Linearizable` `CountsSound` | 516 000 |
| `aqs_mutex` | `FIFO` `QueueSound` `EveryoneFinishes` | 366 000 |
| `aqs_safety` | `NoLostWakeup` `ConditionSound` | 693 000 |
| `events` | `TableMatchesKernel` `SleepsNoLonger` `TimerPass` `NoEventLost` `NobodySleepsOverEvents` `ReadyListsSound` | 1 430 000 |
| `android` | `NoMissedWake` `MessagesAccounted` `ScissorsReturn` `QueueMoves` `ServedOnceInOrder` `ResultOnce` | 648 000 |
| `parts` | `SearchSound` `PageTableExact` `ScanComplete` `SearchEnds` `HandoverSound` `UsedMemoryExact` `TableIntact` `OrderKept` `LockFree` | 209 000 |
| `vm_seek_assert` | `NoAssertionFails` is violated | |
| `ae_late` | `NeverSleepsOnDueTimer` is violated | |
| `mq_quit` | `SafeQuitHandlesDue` is violated | |

Deadlock is checked except in `vm_two_threads` and `vm_seek_assert` (a failed assertion
ends the process), and in `events`, `ae_late`, `android` and `mq_quit` (bounded clocks and
numbers of operations end, an event loop without files and timers sleeps for ever, and
a looper that quit has nothing left to do).

## 4. Redis virtual memory

### How the model corresponds to the code

`RedisVM` keeps `struct redisServer` as one record, with the field names of
`redis.h`; each C function that changes it is an operator from a state to a state, and an
action composes the calls of its handler in the order of the code.  `vmMarkPagesFree`,
`freeIOJob`, `vmCancelThreadedIOJob`, `decrRefCount` and the rest keep their names.
A failing `redisAssert` sets `panic`, after which nothing runs.

*Actors.*  The main thread is the event loop: it takes a command, a readable pipe, a
ready client, a cron tick or a BGSAVE, and runs the handler to its end (`main.pc`).
I/O threads take a job, work on it outside the mutex, append it to `io_processed`
and write a byte (`thread[t]`).  The BGSAVE child holds the dictionary it
inherited.  Sections under `io_mutex` are one step; what the main thread does between
two sections touches only objects that no thread holds.  The busy waits are states.

*Data.*  A value's contents are a member of `Data` and its size `PagesOf`.  The swap
file remembers for every page which part of which contents was written there, so
that reading a partly overwritten value is visible.  `Malloc` reuses the lowest free
address at once, to meet a stale pointer with a new object at the same address.
`truth` remembers what was last stored under a key.

*External.*  `db.c`, `redis.c` and `networking.c` are not in the repository; `lookupKey`,
`dbDelete`, `processCommand`, `beforeSleep` and `freeClient` are modelled from what
`vm.c` needs of them and are marked external.

`VMPages` is `vmFindContiguousPages` one iteration per step, with the bitmap.
`RedisVM` uses its result only: any free run, or failure.  `VMQueue` counts jobs
instead of telling them apart; `RedisVM` is shown to implement it (`ImplementsQueue`).

### What the runs show

- `vm_safety`: 2 keys, 2 pages, 7 addresses, the blocking VM or one thread (`Settings`),
  commands that name two keys or one twice.  No assertion fails; jobs and storage fields
  correspond; pages and references are accounted for exactly; every waiter is
  registered on both sides and made ready exactly once.
- `vm_two_threads`: 2 keys, 2 pages, 7 addresses, values of one and two pages, two threads
  or none, a pipe of one byte, BGSAVE, and an `fseeko` that may fail.  Contents are never
  lost or mixed up, the child's snapshot is never overwritten, the server implements
  `VMQueue`, and nothing a thread works on is changed under it.  With 7 addresses a command
  can come while both keys hold an object and each has a job: a LOAD is canceled while a
  thread works on it, or waits in `io_processed` with a value that is out of date, and a
  PREPARE_SWAP that was queued before a fork ends when a page the child still reads is free.
- `vm_live`: 1 key, 1 thread, fairness.  Blocked clients resume, and the main thread comes
  back from every handler, from the wait for the threads before a fork too.
- `parts` has `VMQueue` with 3 threads, a pipe of 2 and 3 jobs, and `VMPages` with 6 pages,
  clusters of up to 3, at most 2 allocations from the near area, and jumps of 0 to 19 pages
  after 5 pages without luck.

*What `vm_two_threads` identifies.*  The keys are interchangeable (symmetry), and the view
`MCView` leaves out what no later step depends on.  Addresses are only compared, and an
object is in use exactly if a key or a job refers to it (a canceled job by its value only),
so which free address `malloc` returns makes no difference: the view names an address after
the first place that refers to it.  Of a canceled job nothing but the value is read again.
A page of the swap file that belongs to no value, no reserved job and no child is written
before it is read.  All four properties of the run are about what the view keeps.

*Bounds.*  Two keys are enough for every pair of jobs to meet, two pages of swap for
success and failure of the search, one client because commands of different clients
do not overlap in the main thread except while one is blocked (which deletes and
swaps of other keys already do).  `MaxMemory` 1 in `vm_safety` lets one value stay in
memory while the other is swapped; 0 elsewhere swaps whatever it can.  The heap is
`Objs`; `Headroom` admits new work only while an address is left for each step that
allocates, which stands for memory not running out: a command needs three, so with fewer
than 7 some jobs and commands would never meet.

*Fairness* (`vm_live`): the handler in progress continues, the event loop
serves a readable pipe and a ready client again and again between other events (strong
fairness: each may be preempted by the next command), and a thread that can run does.
Commands, swaps, BGSAVE and disconnects are never forced to happen.  `SearchEnds`
needs only that the search's own loop goes on.

### Finding: a failed seek

A DO_SWAP job whose seek fails is marked `canceled` by its own thread.  Everywhere
else this mark means that the main thread canceled the job and undid its effects.
So until the completion handler frees the job the value is SWAPPING without a live job,
and a command on its key fails the assertion "We should never reach this"
(`vm_seek_assert`).  The pages reserved for the job are never freed either:
`PageAccounting` fails in the same instance.  Without that error both hold.

## 5. The lock-free stack

`LockFreeStack` takes one atomic access per step.  The stack and the freelist are two lists
over the same nodes and the same link word; each operation is a load, a read or
write of a link, and a compare-and-swap that may fail spuriously.  `push` and
`bounded_push` differ in the call's `bounded` field; a range push prepares its nodes and
links them at once; an unbounded one that gets an exception from the allocator destroys
them.  `pop`/`consume_one` and `consume_all_atomic` share the loop.  `freelist_stack` and
`fixed_size_freelist` have the same steps; a fixed-size one is always bounded.

`chain` and `own` are history: the nodes of each list and of each thread in order.  `age`
counts removals since a remover read the head.  The only assumption is that it
stays below the number of tags (2^16 in the code): a thread is not held up for
that long in the middle of a removal.  Memory is sequentially consistent: the
code's acquire and release orders are not modelled.

`LifoStack` is the promise: each operation takes effect at one instant between call and
return.  `Linearizable` maps the effect of a push or removal to its successful
compare-and-swap and of an operation on an empty stack to the load that saw null.

`stack`: 2 threads, 1 node in the pool and 1 in the allocator, single elements and ranges
of two, bounded and unbounded, 2 tags.  Both lists stay intact, no node is lost when the
allocator throws, and the stack is linearizable.  Two nodes and one removal suffice for the
ABA: a remover reads A with no successor, A is popped, B and A are pushed, and its
compare-and-swap would drop B.  Two tags tell one removal from none.  Elements are only
copied, so two values tell their order.

`LockFree` is checked in `parts`: two threads push and pop single elements on a pool of two
nodes, so that a thread that pushes or frees one node can find that the other has moved the
head meanwhile, and each of the four compare-and-swaps fails for a stale copy.  The nodes
are interchangeable: the pool starts in one of its two orders.  Its fairness: a thread in
an operation is scheduled again, and a compare-and-swap does not fail spuriously for ever;
nobody is forced to start an operation.

## 6. AbstractQueuedSynchronizer

`AQS` is the CLH queue of `AbstractQueuedSynchronizer.java`, one volatile access per step:
`addWaiter`/`enq`, the acquire loop in its plain, interruptible and timed versions for
exclusive and shared mode, `setHead` as its three writes, `setHeadAndPropagate`,
`shouldParkAfterFailedAcquire`, `park`, `cancelAcquire`, `unparkSuccessor`, `release` and
`doReleaseShared`.  The six acquire loops of the code differ in what they do with an
interrupt and a deadline and in `tryAcquire` against `tryAcquireShared`; here they are one
loop that looks at the call (`shared`, `how`).  A thread runs a short program of
calls, so its nodes are known beforehand.  A deadline may pass whenever the code looks at
the clock.  `permit` and `intr` are the permit and the interrupt flag of a thread;
`UnparkThread` and `UnparkPermit` are two steps, so that an unpark may come late and
leave a stale permit.  Three things are merged, each without loss: a failed attempt in
`enq` changes nothing that others see and is left out; the fields of a node that is not
in the queue are written with the step that publishes it; finding a node cancelled and
reading its `prev` are one step, as both are final.
The hooks of the subclass are one compare-and-set each: `Mutex` from the class comment,
and a semaphore.

`AQSCondition` adds the `ConditionObject`: `await` in its versions, `signal` and
`signalAll`, over the queue of `AQS`.  The links of the condition queue are touched only
under the lock, so their accesses belong to the step that reads or changes a wait status,
which is what a waiter that gives up races with.  `moved` is history: the nodes a
signal transferred.

- `aqs_mutex`: 4 threads on a mutex; t1 holds it, and either t2 and t3 (timed) are parked in
  the queue and t4 comes, or t2, t3, t4 are parked and the neighbours t2 and t3 are
  interrupted.  FIFO among those that wait, the chain of `prev` links from the tail
  reaches every waiter and the head, the head is never cancelled, everybody finishes.
- `aqs_safety`: a semaphore with a parked waiter, a second one that is interrupted, and
  two releases; a signal that races with an interrupt and a time-out of the two that wait;
  a signalAll that races with a time-out and a thread that starts to wait; and a timed
  waiter that gives up behind one that stays while the holder of the lock starts to wait
  behind both, so that `unlinkCancelledWaiters` closes a gap between two live waiters,
  and then signals all.  No release and no signal is lost, every await ends for one
  reason, and whoever waits can be found.

A head, a waiter, a cancelling node and a node behind it are what the cases of
`cancelAcquire` tell apart.  The runs start where the threads are queued or wait, in
states that the code reaches when the threads run one after the other up to them: the
ways to get there multiply the states without adding a case.  The thread in `Drowsy`
wakes up spuriously.  One thread that releases twice is enough to meet a waiter between its
`tryAcquireShared` and its `setHead`.  `NoLostWakeup` and the last part of
`ConditionSound` are state invariants about states where all threads finished or sleep,
so they do not lean on fairness.  Fairness in `aqs_mutex` is weak fairness of each
thread's steps: the scheduler runs a thread that is not parked; nobody is forced to
interrupt, and there are no spurious wake-ups, which would only help.

## 7. Event loops

### redis: `AeEventLoop`

One thread runs `aeMain`; each call of `aeProcessEvents` is split where other code runs: the
poll, each handler, each look at a timer.  While a handler runs (`fileproc`,
`timeproc`) any of `aeCreateFileEvent`, `aeDeleteFileEvent`, `aeCreateTimeEvent`,
`aeDeleteTimeEvent` and `aeStop` may happen, on the handler's own event and on others.
The poll returns any events of descriptors the kernel watches (external); the clock ticks at
any moment.  Times are pairs of seconds and milliseconds as in the code, with
`MsPerSec` 2, so that the borrow in the timeout happens at once.  A handler that deletes its
own timer and then returns a delay makes the code write to freed memory; the
model lets a handler return a delay only if its timer still exists.

Bounds in `events`: two descriptors, two timers, a clock that runs to 2, the flags of
`aeMain` and those of a caller that must not block.  Two descriptors are needed for a handler
to remove another fired one, two timers for a pass that deletes or creates one while it
walks the list.

*Finding* (`ae_late`): for a timer that became due in the previous second the loop
sleeps although the timer is due: the seconds come out negative and are set to 0
while the borrowed microseconds stay.  `SleepsNoLonger` says what remains true: the sleep is
then shorter than a second, and in all other cases ends with the next timer.

### linux: `EventPoll`

Two tasks call `epoll_wait`, one calls `epoll_ctl`, and two pipes are written, read and
closed at any moment.  A section under the spin lock is one step, `ep->mtx` is held
across steps, and a wake-up of a pipe's wait queue is a step of its own, so that it
may arrive before, during and after a scan, an insertion, a modification and a removal.
`ep_poll`, `ep_scan_ready_list`, `ep_send_events_proc` and `ep_insert` are split at
every point where the code lets go of the lock.  Level-triggered, edge-triggered and
one-shot items, a fault while copying to user space, time-outs, signals and a
failing insertion are there.  `pipe_write` and the close of a pipe are external.
The excerpts come from kernels with two names for the lock; the model has one.

Bounds in `events`: one level-triggered file and one that is edge-triggered or one-shot,
two waiters that take one event each (so that one of them has to hand the rest on; that a
call returns no item twice is then left to the theorem), two pipe
operations, two calls of `epoll_ctl`, one fault, signal or time-out.  The waiters are
interchangeable (symmetry).  `NobodySleepsOverEvents` leaves one case out because the
code does: a waiter that was woken and is killed before it takes the events passes the
wake-up to nobody (`epoll_wait流程.c:128`).  `EpAssumption` asks for room for at least one
event, as `do_epoll_wait` does, and keeps tasks that wait and tasks that control apart.

## 8. Android

### `MessageQueue`

The looper thread runs `Looper.loop` and `MessageQueue.next`, split where the queue's lock is
released: the poll, the idle handlers, the dispatch.  Other threads obtain messages from the
pool, enqueue them (synchronous, asynchronous, at the front), post and remove
barriers, wait with `runWithScissors`, and quit the looper in both ways.
`nativePollOnce`/`nativeWake` are an eventfd and a deadline (external), the removal of all
(or all future) messages is modelled from its use in `quit` (external).

Bounds in `android`: three messages, a pool of one, one thread that sends three messages or
barriers, one idle handler, a clock to 3.  One sender is enough since a send is one step under
the lock; what matters is where the looper is when it happens.  Fairness: the looper
thread runs, and every barrier is removed some time, as the comment of `postSyncBarrier`
demands.

*Finding* (`mq_quit`): the comment on `quitSafely` promises that messages already due
are handled.  With a barrier at the head `next` sees no synchronous message and
disposes of the queue.

### `BroadcastQueue`

`broadcastIntentLocked` from the merge of the receivers on and `processNextBroadcastLocked`,
whose loop is split into steps while the service's lock keeps everything else out.
Around it, from outside the excerpts and marked external: the delivery to a process, its
answer, the time-out, the death of a process, the start of a process, the dispatcher's
choice of the next broadcast and its deferral check.  The system is ready
(`mProcessesReady`) and no broadcast is exempt from time-outs (`timeoutExempt`): for one that
is, nothing bounds the wait for its receiver, and `QueueMoves` does not speak of it.

Bounds in `android`: one registered and two manifest receivers of two applications, two
broadcasts, seven records (splits included), three troubles (deaths, failed
starts, skipped, slow or aborting receivers).  One deferral that is split twice needs three records.
`QueueMoves` is a state invariant: whenever the lock is free, something that will
process the queue again is under way.  `BcAssumption`: the two lists of receivers arrive
sorted by priority and name nobody twice, as the resolver delivers them, and there is a
manifest receiver.

## 9. `Zmalloc`, `SharedPtr`, `Hashtable`

`Zmalloc` and `Hashtable` run in `parts`, `SharedPtr` in `stack`, where the two threads are
interchangeable (symmetry).

`Zmalloc` is the counter of used memory in the build that keeps sizes in a prefix.  An
update is a load and a store, or one step once `zmalloc_enable_thread_safeness` was called;
`vmInit` calls it before the first thread is started.  `size_t` has 8 values, a word
2 bytes and a prefix 2.  The counter is exact whenever no call is in progress, after any
history: `zrealloc` leaves the prefix out of both of its updates.

`SharedPtr` is the control block of libstdc++ with the lock policies `_S_atomic` and `_S_mutex`:
two threads copy, assign and send shared pointers, keep weak ones and lock them.
The objects are list nodes with a `shared_ptr` to the next one and the `weak_ptr` of
`enable_shared_from_this`, so that a destructor releases other objects in the middle of
`_M_release`.  What a thread has yet to do is a stack of tasks.  With two blocks
the release of one object is under way while that of the other begins.

`Hashtable` is the list with buckets of `hashtable.h`, for unique and for equivalent keys:
insertion with every hint, erasure of a node, a key and a range, `clear` and
`rehash`.  When the table grows is left open: any insertion may be preceded by any of
the sizes 1, 2, 3.  Four nodes and the keys 0, 1 and 3, of which 1 and 3 share a
bucket of two, 0 and 3 one of three, and all one of one, meet every branch of the two
rehash functions.

## 10. Proofs

The theorems hold for every value of the constants that the module's assumption admits:
any number of threads, tasks, nodes, blocks, messages, receivers, descriptors and pages, any
sizes and bounds.  The assumptions say that sizes are positive, that finite things are
finite, that "none" is not the name of a thing, and what sections 4 to 9 mention.  Each
proof goes by an inductive invariant, which implies the property and holds in the first
state and across every action; the last steps of the proof modules compose these facts.

| Module | Theorems | Inductive invariant |
|---|---|---|
| `PartsProofs` | `HandoverIsSound` with `EveryByteHasAJob`, `ThreadsCounted`, `JobsHaveAThread` of `VMQueue` | `QueueInv` |
| | `SearchIsSound`, `PageTableStaysExact` of `VMPages` | `PagesInv` |
| | `ScanIsComplete` of `VMPages` | `PagesInv` and `ScanInv` |
| | `UsedMemoryExactAlways` of `Zmalloc` | `ZInv` |
| | `CountsSoundAlways` of `SharedPtr` | `SpInv` |
| `LockFreeStackProofs` | `StackSoundAlways` | `IInv` |
| | `StackLinearizable` | `IInv` and `DInv` |
| `EventsProofs` | `TableMatchesKernelAlways`, `SleepsNoLongerAlways`, `TimerPassAlways` of `AeEventLoop` | `AeInv` |
| | `NoEventLostAlways`, `NobodySleepsOverEventsAlways`, `ReadyListsSoundAlways` of `EventPoll` | `IInv` |
| `AQSProofs`, `AQSQueueProofs` | `QueueSoundAlways`, `FIFOAlways` of `AQS`; `CondQueueSoundAlways`, `CondFIFOAlways` of `AQSCondition` | `IInv` |
| `AndroidProofs` | `NoMissedWakeAlways`, `MessagesAccountedAlways` of `MessageQueue` | `MqInv` |
| | `QueueMovesAlways`, `ResultOnceAlways`, `ServedOnceInOrderAlways` of `BroadcastQueue` | `BcInv` |
| `ListsProofs` | lemmas on sequences without repetition, on removal, insertion and slices | |

*Redis VM.*  `QueueInv` is the conjunction of the types and the parts of
`HandoverSound`: none is inductive alone, since a thread's exit is safe only because the
list is empty and the count is exact, and removing a processed job is safe only because
of the byte.  `PagesInv` adds to the page table what the loop knows: the last `numfree` pages
before the current one, on the same side of the wrap, are free; they start inside the
file.  `ScanInv` is for the search that fails: as long as it did not jump it overlooked no
run before or after the wrap, and `numfree` counts all the free pages that end where it is,
so that a search without a jump that fails has seen that there is no run.

*zmalloc.*  `ZInv` keeps for each block what the counter counts of it (`Ledger`): what the
block costs, up to the updates its call still owes (`Settles`).  The counter is the sum of
these, modulo `SizeMod`; it goes along with the updates because a thread that loaded it
without the mutex is alone.  `ZAssumption` has what this leans on: `PREFIX_SIZE` is whole
words, so that rounding does not depend on it.  The library's fold over the blocks is shown
to be that sum by induction on the number of blocks, for this one sum (`LibrarySum`).

*Stack.*  The invariant says which nodes each list, each thread and the allocator have
(`NodesPlaced`), that the links follow `chain` and `own` (`ChainsSound`, `OwnSound`), and what
a copied head is worth (`CopySound`): its tag is as far behind the list's as removals have
taken place since (`age`), and at age 0 its node is still in the list and the link read
from it is still its link.  Fewer than `TagMod` removals took place, so equal tags mean age
0: a compare-and-swap that succeeds links what it should, and the ABA does not happen.  `DInv` says which elements are in the nodes a
thread has.  With it every step of `LockFreeStack` is a step of `LifoStack` or a stutter, under
the mapping that `Linearizable` states; `RefinesCalls`, `Lifo...` and their like are the cases.

*AQS.*  `order` is the history of the queue: the nodes as `enq` linked them.  `IInv` says where
everything is in it.  `Shape`: the `prev` link of every node that waits or is cancelled leads
back in the history and passes over cancelled nodes only; what is behind `tail` is
cancelled; the head is not.  So from the tail the links lead through every node that
waits down to the head, however many nodes cancel at once and whoever skips them
(`LeadsBack`, a descent along the places), and a node that becomes head has nobody waiting
before it.  `NodeSound` says at which steps the node of a thread is not queued yet, waits, has
become head, or is cancelled; above all, the thread that acquires has the head as its
predecessor (`FirstPcs`), and nobody but the owner changes the `prev` of a waiting node.
`ClaimSound` and `ClaimsExclusive` are about nodes on their way into the queue: with conditions
it is the signaller or the waiter that gave up, never both, that enqueues a node, because
one compare-and-set of its status decides (`ConditionNodes`).  The same invariant carries
over the steps of `AQSCondition`.  `AQSAssumption` has what the proof needs of names: threads run
a call at least, and `Dummy` and `NULL` are not threads or nodes of calls (in Java, distinct
objects).

*Event loop.*  The three properties do not need each other.  The walk over the timers needs
that those created during the pass are newer than `maxId` (`NewbornAreNew`), and the calls of
handlers that there is an event at hand (`HandlerHasEvent`).

*epoll.*  Nothing is lost (`EventsKept`) because an item with something to report is on one
of the four lists, or has a callback or the insertion's own poll on the way; that
nobody sleeps over it needs further that who sleeps is on the wait queue
(`SleepersQueued`) and that only a scan fills `ovflist` (`MtxHeld`).

*Message queue.*  No wake-up is missed because a looper that sleeps without `mBlocked` does
so for idle handlers that ran and polls without waiting (`PollSound`), and an
insertion before the message it waits for wakes it.

*Broadcasts.*  Each record is in one place; the records that are left of a broadcast share
its token, and the count of splits is their number (`SplitsCounted`), so the result is
sent with the last.  For every broadcast each receiver has been served or is due in exactly
one record that is left (`ServiceSound`), unless the broadcast was cut short.

*shared_ptr.*  `SpInv` equates each counter with the number of variables, members and
releases still to be made, less the copies that are not counted yet, plus a count that a
failed lock has still to undo.  A copy that is not counted yet is harmless because
the thread holds a second reference (`CopiesHeld`), so the counter cannot reach zero.
The tasks are numbered from the bottom of each thread's stack: a push or a pop then
changes the set of pending tasks by one element, which is all the cardinalities need.

Only model-checked, and why:

- All liveness, and termination of the search: the prover has no fairness or ENABLED.
- `RedisVM` and its implementation of `VMQueue`: an invariant needs a description of every
  state between the calls that cancel, complete and free a job, with counts that are sums
  over jobs, waiters and pages; this is the work left.
- `NoLostWakeup` of `AQS` and, but for its first conjunct `QueueSound`, `ConditionSound` of
  `AQSCondition`: they need to know for every sleeper who will wake it, across the
  hand-over of that duty between threads that cancel next to each other.
- `Hashtable`: its list and the two rehash functions are recursive functions over links;
  what each of them yields needs an induction of its own.
- `WorkUndisturbed` (it speaks of `RedisVM`) and `OrderKept` (of `Hashtable`).

## 11. Not modelled

`PROJECT.json` lists every component with its status and reason.  The repository is a
reader's collection of about 80 000 lines; most of them are vendored headers of
sequential containers, kernel excerpts whose callees are missing, and programs such as fio
whose behaviour is I/O.  What is modelled is the code with concurrency, failure or
subtle linked structures that is complete enough to be translated.

- *Toast*: the excerpts show the client and the enqueue only.  *libco*: what is hard is the
  switch of stacks in assembly.  *sgi allocator*, *rand48*: sequential arithmetic.
  *select*: a scan of descriptors.  *Activity*, *SystemServer*, *bolt*, *bionic*: call chains
  into code that is not there.
- Redis VM: `vmPreviewObject`, `computeObjectSwappability`, log messages, the reference
  counts of key objects, the encodings of `object.c`.
- Stack: unsynchronized operations, destructor, `consume_all_atomic_reversed`.
- AQS: the inspection methods, which only read.
- Event loop: `aeWait`, finalizers, the before-sleep hook, ENOMEM.  epoll: nested epoll
  files, `EPOLLEXCLUSIVE`, wakeup sources; pipes: merging of writes, sleeping readers.
- Android: removal of single messages and file descriptor listeners, which are not in the
  excerpts or native; sticky broadcasts, the matching of receivers, permissions.
- zmalloc: `zcalloc` and `zstrdup` count as `zmalloc` does.  shared_ptr: deleters,
  allocators, aliasing, the EASTL classes.  Hash table: the growth policy, copy, move, swap.
- Weak memory orders are out of scope everywhere.
