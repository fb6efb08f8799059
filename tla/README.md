# Verification of OS_2

The repository holds course work on operating systems: small thread exercises (`task1`, `task2`) and
a caching HTTP proxy (`task3/task3_3`).  This directory models the concurrent parts of it in TLA+,
checks them with TLC, and proves facts about them with TLAPS.

Paths below are relative to `src/`; `t3/` stands for `src/task3/task3_3/src/`.

## 1. Inventory

### The proxy `task3/task3_3`

One thread runs a libev loop; a pool of downloader threads and one collector thread work beside it.
They share the cache, its entries, the dirty queue and the task queue, each under a mutex of its own.

| Component | State | Operations | Talks to | Hard behaviour | What makes it correct |
|---|---|---|---|---|---|
| cache (`t3/cache.c`) | hash table, LRU list, `current_size`; per entry: chunks, header, flags, reference count | get or create, acquire, release, append chunk, complete, fail, remove, trim | everybody | references dropped by five parties in any order; `malloc` fails between reserving and storing; waiting for space | an entry is freed by its last user and not before; sizes add up; one entry per key |
| subscribers, sessions (`t3/subscribers.c`, `t3/session.c`) | list of sessions per entry | attach, detach, snapshot | loop, dirty queue | the last session leaves while the worker completes | a page being downloaded is shared |
| dirty queue (`t3/dirty.c`) | queue of changed entries, each with a reference | enqueue, process all | workers → loop (`ev_async`) | full queue; event consumed between two marks | no change goes unnoticed |
| downloader (`t3/downloader.c`) | task queue, `shutdown_flag`, worker threads | enqueue, dequeue, download, destroy | loop → workers | full queue; stop during a download | one download per entry; every thread ends |
| event loop (`t3/loop.c`) | `g_state`, sessions, connect-waits | accept, read, write, async, signal callbacks; `loop_wait_connect`; create, destroy | all | callbacks read entries without their mutex; waits registered while stopping | nobody is parked for ever; nothing is served early or twice |
| streaming (`t3/stream.c`) | `cursor`, `header_sent`, a copied header per session | send header, send body | cache | partial sends, end of chunk, header freed meanwhile | every byte once and in order |
| collector (`t3/gc.c`) | `requested`, `should_exit` | notify, trim, exit | workers | flag set outside the mutex | it ends; space is found |
| `t3/main.c` | order of creation and destruction | start, stop | all | half-finished start | resources outlive their users |
| `t3/parse.c`, `t3/key_builder.c`, `t3/net.c` | none | parse a request, build a key, open sockets | loop | none concurrent | equal requests have equal keys |

### The exercises

| Component | State | Operations | Hard behaviour | What makes it correct |
|---|---|---|---|---|
| futex mutex (`task2/task2_4/mutex`) | lock word, owner | init, lock (bounded tries, then futex), unlock | lost wake-up, unlock by a stranger, failing futex calls | exclusion; every lock call returns |
| spin lock (`task2/task2_4/spinlock`) | lock word, owner | init, lock, unlock | order of the two stores of unlock | exclusion |
| queues (`task2/task2_2/{a,e,f,g}`, `task2/task2_1/sync`) | linked list, counters | add, get, monitor, destroy | no lock at all (`task2_1`), cancellation with a lock held (a, e), waiting with cancellation disabled (f), tokens of cancelled threads (g) | what is taken out is what was put in, in order |
| lists (`task2/task2_3/{mutex,rwlock,spinlock}`) | list with a lock per node | three readers, three swappers | hand-over-hand locks while neighbours are swapped | the list keeps its nodes; no deadlock |
| user threads (`task1/task1_7/src/uthread.c`) | per kernel thread: table of contexts, ids to use again, current thread | create, yield, sleep, join, run | a failing create with an id used again, the limit of threads, waiting while everybody sleeps | an id names its thread until it is joined; turns are fair |
| user threads on kernel threads (`uthread_map.c`) | slots of tasks; per worker a queue and a stop flag | init, create, join, shutdown, the worker | a task queued while the pool stops, a joiner racing the result, a worker that cannot be created | a task runs once and its joiner gets its result; shutdown drops nothing |
| demonstrations (`task1/task1_1` to `task1_5`) | none of their own | pthread calls, signals | none | - |

`PROJECT.json` lists every hazard of this code at its line, with the properties that guard it.

## 2. Modules

```
AbstractLock  <-- OwnerLock   <-- OwnerLock_proof
Broadcast     <-- Delivery    <-- Delivery_proof
                  ProxyCache  <-- MCProxyCache, ProxyCache_proof <-- SingleDownload_proof
                  Shutdown    <-- Shutdown_proof
                  ThreadQueue <-- ThreadQueue_proof
                  SwapList    <-- MCSwapList, SwapList_proof
UThread       <-- UThreadMap  <-- UThreadMap_proof
```

(`<--`: is implemented or extended by.)  The proxy is split along its shared state rather than along
its files, because each question cuts across the files:

* **ProxyCache**: who holds an entry.  `cache.c`, `session.c`, `subscribers.c`, `dirty.c`, `gc.c` and
  the callbacks and worker steps of `loop.c` and `downloader.c`, as far as they touch references, the map
  and space.  An entry is a record at an address of `heap`; a freed address is used again, so a use after
  free shows.  `lru` is the hash table and the LRU list in one.  `loop`, `work`, `gc` hold the local
  variables of the threads between two critical sections.  `lapse` of an entry is history: why
  `is_downloader_running` may say true although nobody downloads (`"refused"`: the task queue was full,
  `loop.c:458`; `"late"`: the flag was set after the worker had finished, `loop.c:463`).
* **Delivery**: what a client of one entry gets.  A chunk is the sequence of the positions of its bytes, so
  a lost, doubled or displaced byte shows.  The write callback is cut into its reads of the entry, because
  it reads `completed`, the chunks and `produced` separately while the thread appends.  `missed` is history: the
  last notification of the entry was lost, because the dirty queue was full or its copy could not be allocated.
* **Broadcast**: the abstract promise of `Delivery`: every client gets growing prefixes of one download,
  and is dismissed only with all of it.
* **Shutdown**: `main`, the flags, the condition variables, the connect-waits.  Tasks are only counted.
  The main thread is also the loop's thread, so its program counter `main` orders start, callbacks and
  destruction.  Here the mutexes of the queue and of the collector are explicit, because flags are
  set inside and outside of them.  Of the cache only the space is there (`used`), because a thread that waits for it looks
  at no flag: `append` and `full` are the loop of `cache_append_chunk`.  Chunks have one size.  An answer other than 200 needs no space; the
  model does not remember the status, so a download may store one portion and pass on the next, which is more than the code does.
  `failed` counts the chunks of failed answers, the only ones whose space comes back.
* **OwnerLock**: the futex mutex and the spin lock, which share the owner field and the test program; `kind` says which
  and is chosen initially.  One action per atomic access, with `g_counter++` of `test.c` as the critical section and
  the tests' stray `unlock` calls at any time.
* **AbstractLock**: what both locks promise.
* **ThreadQueue**: the four queues of `task2_2` and the program around them.  `kind` says which; it is
  chosen initially, so one run covers all.  A critical section is one action, except where a cancellation point lies
  in it (the `printf` of a failed `malloc`, the monitor's `printf`) and between the semaphores of g.  `main`
  creates, cancels and joins the threads and destroys the queue, with the failures of `pthread_create`.
* **SwapList**: the lists of `task2_3`.  `shared` tells the rwlock version from the two exclusive ones; the list's
  size is chosen initially.  An action goes from one acquired lock to the next, so the pointers a thread holds while it
  waits (`curr`, `nxt`) are local and could become stale.  `k` counts the nodes walked past; the code needs it only up
  to `start_skip_pairs`, the model keeps it to say where a thread must be (`WindowValid`).  The three searchers differ only in
  the comparison that is counted, so they are one kind of thread.  `path` is a ghost: the node at each position, kept
  beside the links `next` so that "the pointers spell one path" needs no recursion.
* **UThread**: the scheduler of `uthread.c`.  All its variables are `__thread`, so it has no variables here either: a scheduler is
  a record, and an operation is a function from records to records.  Times become the set of sleepers that are due.
* **UThreadMap**: the pool of `uthread_map.c`, with a scheduler of `UThread` for each worker.  The steps of a user thread between two calls
  of the scheduler are one action, since user threads share nothing with other kernel threads but their results.

Each model lists what it leaves to the others: waiting for space and reference counts are absent
from `Delivery`, header and bytes from `ProxyCache`, entries from `Shutdown`.

### How actions correspond to code

An action is one critical section (or one unlocked access that another thread can race with) together
with the local computation around it.  The map in `PROJECT.json` gives the lines for every definition.

| Code | ProxyCache | Delivery | Shutdown |
|---|---|---|---|
| `accept_callback`, `client_read_callback` | `Accept`, `ReadFails`, `Lookup`, `Attach`, `CheckDownload`, `MarkRunning` | `Join` | `Request` |
| `client_write_callback`, `stream_*` | `Leave`, `HeaderFails` | `StartWrite`, `ReadHeader` ... `EndWrite` | - |
| `session_detach_entry` | `Leave`, `Decide`, `RemoveEntry`, `LetGo` | - | `GiveBack` |
| `async_callback`, `dirty_process_all` | `TakeDirty`, `Wake` | `TakeDirty`, `LookAt`, `WakeUp` | `StartWatchers` |
| `cache_append_chunk` | `Reserve`, `Pressure`, `Store` | `AppendChunk` | `Reserve`, `Pressure`, `TimedOut`, `Store` |
| `downloader_worker` | `Start` ... `Finish` | `ParseHeader` ... `LastMark` | `CheckShutdown` ... `SendNotify` |
| `task_queue_dequeue` | `Dequeue` | - | `Lock`, `NothingToDo`, `Wait`, `Dequeue` |
| `gc_thread_func`, `cache_trim_to_max` | `GcWake`, `GcTrim` | - | `GcTop` ... `GcCheck` |
| signal callback, `loop_destroy`, `downloader_destroy`, `gc_destroy` | - | - | `Signal` ... `Release` |

Each module also holds a few operators marked "seeded fault".  They are not part of the specification:
each is a plausible bug of one action, kept to show that a property of the run notices it.

## 3. Runs

Passing runs:

| Run | Instance | What it shows |
|---|---|---|
| `locks` | both locks, 3 threads, 2 bounded tries, 2 calls each | `MutualExclusion`, `NoLostUpdate`, `NoLostWakeup`; `AllReturn`: every lock call returns; `ImplementsLock` |
| `proxy_cache` | 2 pages, 2 clients, 2 workers, 2 addresses, cache of 1 chunk, queues of 1 slot; 6.8 million states | `RefsCover`: no use after free; `SingleDownload`: never two downloads of an entry, and a client that waits has one, unless the task queue was full; `Shared`; `SizeCovers`: the space is accounted for |
| `delivery` | 2 clients, bodies up to 3 bytes in chunks of 1 or 2, header in 2 portions, notifications that get lost; 0.7 million states | `NoLostWakeup`: a parked session that could go on has a wake-up ahead; `EveryoneServed`; `ImplementsBroadcast` |
| `shutdown` | 2 workers, queue of 1, 2 tasks, 2 addresses each, cache of 1 chunk; 0.2 million states | `RequestTracked`; `NoSleeperLeft`: nobody sleeps on the queue's or the collector's condition through the end; `ResourcesOutlive`; `ConnectFinished`; `ShutdownEnds`: all threads are joined, unless a wait was registered too late or the cache is full for ever |
| `thread_queue` | a queue of 2 in its four forms, values modulo 4; 5 thousand states | `InOrder`: the reader never sees a wrong value; `TokensKept`: a cancelled thread takes no slot or item with it; `NoLostWakeup`; `UnusedWhenFreed`; `MainEnds`: the program ends or hangs in one of three known ways |
| `swap_list` | lists of 0 to 4 nodes, 2 searchers, 2 swap threads that skip 0 and 1 nodes, both kinds of locks; 0.4 million states | `ListIntact`: one path through all nodes; `WindowValid`: every walk sees each position once and no swap is refused; `NoCircle`; `UnusedWhenFreed`; `MainEnds` |
| `user_threads` | 1 client, 3 tasks and as many user threads, 2 workers, the first task creates and joins a user thread of its own; 0.2 million states | `ResultsTrue`: a joiner gets the result of its own task, which has run once; `IdsHold`: an id names its thread until it is joined; `Turns`: round robin, nobody gets two turns while another thread is `READY`; `Drained`: shutdown drops no task that was created before it; `WorkersOutlived`; `CallsReturn`: every join, and the shutdown, comes to its end |

The three hangs that `MainEnds` excepts (`Hung`) are behaviours of the code: in f, main cancels reader and writer one after the
other although `queue_add` waits for room with cancellation disabled (`f/queue-threads.c:111-112`), or cancels a reader
that waits in the same way for a writer that was never created (line 106); in a and e a writer cancelled in the `printf` of
`queue_add` keeps the lock that the monitor then waits for (`e/queue.c:104`).  Without any one of the three exceptions
TLC shows the hang.  The exception in `UnusedWhenFreed` is as real: `a/queue-threads.c:103-107` destroys the queue under the running writer.
No text of the repository says otherwise, so they are no findings but hazards.

The exception `Starved` of `ShutdownEnds` is a hang of the program: a thread that waits for space in a full cache (`cache.c:398`) looks
neither at `shutting_down` nor at `shutdown_flag`, the collector deletes nothing, the sessions that could give space back are gone with the
loop, and `main` joins the thread for ever.  Without the exception TLC shows it in this run, and the theorem `StarvedForEver` says that the
state is never left.  It is the case that the cache is full when the loop is gone, a thread is at the wait and no other one is between its reservation and
its `malloc`, which could fail and give the space back.  With room in the cache, or with such a thread, the shutdown must still end.

The exception `hurt` of `ResultsTrue`, `IdsHold`, `Turns` and `CallsReturn` is real too: when `uthread_create` gets a recycled id and then cannot
allocate the stack or set up the context, it does `thread_count--` although it had not counted up (`uthread.c:48`, `:54`).
The highest id drops out of the scheduler's search, its thread never runs again, or its id is handed out a second time and two results
are mixed up.  Without the exception in `ResultsTrue` and `IdsHold` TLC shows both in this run.  `Turns` is different: the search of `uthread_yield` goes round
`thread_count` (`uthread.c:115`), so when the running thread has the highest id and its failing create lowers the count, the next turn goes
to id 1 instead of 0.  That takes batches of 2, 4 and 3 tasks on one worker to bring the ids into the right order, more tasks than the run has; the
attempt to prove `Turns` without the exception showed it.
`CallsReturn` needs the exception because a thread that waits in `uthread_join` for the highest id spins for ever once another thread's failing
create has taken that id out of the search.  That takes two parents on one worker, so it does not happen in the run; an instance with four
ids, one worker, four tasks that may all create and join, and no sleeping (0.4 million states) shows the hang without the exception, and `CallsReturn`
holds there with it.

Runs that show where the code and what is written about it part (details under "findings" in `PROJECT.json`):

| Run | Property | What happens |
|---|---|---|
| `full_cache` | `WriterGetsSpace` | `cache_append_chunk` waits before `current_size` exceeds `max_size`, `cache_trim_to_max` deletes only after: a full cache stays full |
| `error_cached` | `OnlyOkCached` | an answer other than 200 stays in the map when its clients leave before it is complete |
| `leaked_entry` | `NoOrphan` | `async_callback` skips an entry without subscribers before it drops the queue's reference |
| `header_race` | `HeaderIntact` | `stream_send_header` copies the header after the unlock, and `cache_entry_failed` frees it |
| `late_wait` | `StopsAfterSignal` | a connect-wait registered after the last cancelling is never finished, and `main` joins its thread for ever |

### Bounds, and why they are enough

* Two pages, clients and workers: references race between two parties of each kind, and an entry races with
  the next one of its key or of its address.  The two addresses are fewer than the entries the program
  creates in a behaviour, so reuse occurs.
* `MaxSize = 1`, `MaxChunks = 1`: the cache is full after one chunk, so every writer but the first waits; a
  longer body adds repetitions of the same loop.
* `TaskSlots = DirtySlots = 1`: a full queue is the normal case.
* `MaxBytes = 3` with chunks of 1 or 2: a client can stop inside a chunk, at its end, and join in the
  middle of the download.
* `NumTryLock = 2`: both the last and a former turn of the bounded loop occur.
* `MaxCount = 2` and `Values = 4`: full, empty and partly full queues; the writer counts modulo 4, which tells apart all
  values that can be in the queue or next to it, and so counts for ever.
* `MaxSize = 4` nodes behind the head: two swap threads hold two nodes each and the first waits for the second, which waits for
  a searcher; with fewer nodes there is no such chain.  Skipping 5 or 10 nodes becomes skipping 1.
* `MaxTasks = 2`, `MaxAddresses = 2`: a task is queued while the pool stops, and a failed wait is
  retried with the next address.  In `shutdown`, `MaxSize = 1`: one thread fills the cache, the other one waits, and gets on only if the first
  answer fails and its space comes back.  The same properties hold with `MaxSize = 2` (0.4 million states).
* `MaxThreads = 3`, `MaxWorkers = 2`: a task that waits for its user thread beside a task that is behind it in the round; with the limit of
  three, an id must be used again, and a create fails for want of room.  Tasks go to the workers in turn, so a worker has
  one batch running and a second one queued.
* Left out of the run for its time: `"realloc"` in `StoreOutcomes` (space stays reserved; the same properties
  hold with it).  `WaitMayFail` is `FALSE`: `pthread_cond_timedwait` fails otherwise than by its
  timeout only for arguments the code cannot pass.
* `QueueMayFill` and `CopyMayFail` are `TRUE` in `delivery`; `NoLostWakeup` and `EveryoneServed` except the case that the last
  notification is the lost one (`missed`), in which the sessions do stay parked (`dirty.c:103`, `:138`).  Both are `FALSE` in `header_race`, which
  does not need them.
* `CHECK_DEADLOCK FALSE` everywhere: all these systems may stop (threads that have returned, clients that have
  left, a program that has ended).

### Fairness

* Locks: weak fairness per thread on its own steps, calls of `lock` themselves are optional.  A thread
  in the bounded or endless loop always has a step, so weak fairness is the scheduler running it.  `AllReturn`
  holds because calls are finite; nothing is claimed about starvation under endless calls.
* Delivery: weak fairness for the downloader thread (an origin answers or hangs up) and for a callback
  that has begun; strong fairness for async_callback (`TakeDirty` or `CopyFails`) and `StartWrite`, because libev serves every pending
  watcher of an iteration, while an event may come and go with other callbacks.  A client that is fair reads;
  one that does not may also break off (`SendFails`).
* Shutdown: weak fairness per worker and for the loop's callbacks (the timer of a connect-wait guarantees
  `FinishWait`); strong fairness on getting a mutex that is free again and again, and for the main and the
  collector thread, whose steps compete for the mutexes.  A signal need not come.
* ThreadQueue: weak fairness for `main`; strong fairness for the others, which compete for the lock, and for adding a
  value (`malloc` does not fail for ever).  Spurious wake-ups are possible and not assumed.
* SwapList: weak fairness for `main`, strong fairness for each thread.  That does not let a swap thread into a shared list
  whose head is always read by someone; `MainEnds` does not need it, because cancelled searchers stop.
* UThreadMap: weak fairness for a shutdown that has begun and for each worker's own steps; strong fairness per worker for `Returns`: of
  the routines that get the processor again and again, one returns some time.  Nobody has to create, join or shut down.
* ProxyCache: weak fairness of threads and callbacks, used by `full_cache` only, where it makes the
  counterexample meaningful: everybody runs, and still the writer waits.

## 4. Proofs

`OwnerLock_proof` proves for both locks, any set of threads, any `NUM_TRY_LOCK` and any number of calls, from
`NoThread \notin Threads`, `NumTryLock \in Nat \ {0}` and `MaxCalls \in Nat`:

* `TypeCorrect`, `Exclusion`, `Updates`, `Wakeups`: the invariants of run `locks`;
* `Refinement`: `Spec => ImplementsLock`.

`MutualExclusion` alone is not inductive: a stray `unlock` passes the check `owner == me`, so the proof must know
where the owner field can point.  `OwnerFollows` says it: the field is the holder's from its store until
it is cleared, and it is nobody else's.  The inductive invariant `Inv` is: types, `OwnerFollows`, the spinning lock has no sleeper
(`SpinAwake`), exclusion, no lost update, no lost wake-up.  `InvStep` has one case per action.  The refinement maps the abstract holder to
the thread that `Holds`; only taking the lock word and `StoreUnlocked` change it.

`Shutdown_proof` proves for any number of workers, any queue size, any number of tasks and addresses:
`TypeCorrect`, `Tracked`, `Sleepers`, `Outlive` and `StarvedForEver`.

It rests on `Nobody \notin Workers` and on the bounds being natural numbers (a queue and a cache of at least one slot).  The three
safety properties are not inductive; the invariant adds what `main` and the threads rely on:

* `Phases`: the loop exists from its creation to its destruction, `shutdown_flag` is up while `main` joins, `should_exit`
  is set before `requested`, the collector is not there before it is created, and the workers have ended before it is told to;
* `Locked`: a thread between its test of a flag and its wait holds the mutex, so a flag raised under the mutex
  cannot fall between them (this is why `gc_destroy` may set `should_exit` outside: `requested` is set inside);
* `Registered` with `Handled`: a wait is in a list, or being cancelled, or finished, already between its
  registration and the event that announces it;
* `AddressLeft`: a wait is entered only for an address that is left, so the countdown stays in its type;
* `RoomLeft`: who is about to store a chunk has room left in its answer, so the number of its chunks stays in its type.

`TypeOK` bounds `used` from above, which is why the collector deletes nothing; that it does not fall below zero is `SizeCovers` of `ProxyCache`.
`StarvedForEver` (`Spec => [](Starved => []Starved)`) goes through the steps of a thread: once `main` joins, a thread at `append` can only go to
`full` and back, and no other step lowers `used`.

`late` is a history variable: the workers whose wait was registered after the last cancelling.  The theorem
`Tracked` says that this is the only way to be forgotten; run `late_wait` shows that it is one.

`ThreadQueue_proof` proves for the four queues, of any size and with values modulo any number that is larger: `TypeCorrect`, `Order`,
`Tokens`, `Wakeups` and `Unused`, the invariants of run `thread_queue`.  `InOrder` (the queue holds the numbers from the reader's
next to the writer's, and the reader never saw a wrong one) needs `TokensKept` in g, where only the tokens keep the reader from an
empty queue; the three conditions need `Kinds` (which queue goes through which places) and `Phases` (which threads exist
while main is somewhere), and are proved as one invariant.

`SwapList_proof` proves for lists of any size and any threads: `TypeCorrect`, `Intact`, `Windows`, `Unused` and `NoDeadlock`, the invariants
of run `swap_list`.  The inductive invariant adds `Gripped` (a thread holds exactly the locks of its window),
`Kinds` and `Phases`.  A swap changes three links and two entries of `path` between three nodes that the thread has locked, so nobody else has one of them in its
window.  `NoDeadlock` needs no induction: of the threads that wait for a lock, take one that is furthest along the
path; the holder of what it waits for is further, so it does not wait.

`ProxyCache_proof` proves for any number of pages, clients, downloader threads and addresses, any queues and any size of the cache:
`TypeCorrect`, `NoUseAfterFree` and `SharedEntry`; `SingleDownload_proof` goes on to `OneDownload`.  Both rest on the
assumptions of `ProxyCache` (`FiniteAssumption`: clients and threads are finitely many, so their references can be counted)
and on `~WaitMayFail`, as in the runs.  `RefsCover` is inductive
only beside

* `Places`: which callback works with which entry and session, and that a thread at work has an entry;
* `Mapped`: what a session or a callback works with is in the map, and a session is a subscriber of its entry.  So an
  entry without subscribers is in nobody's hands when `cache_remove_entry` unlinks it, and the references it had are
  the ones `References` counts;
* `OneEach`: a key has one entry in the map, an entry one place in the LRU list;
* `current <= MaxSize`: the collector never deletes (`full_cache` shows this as a flaw; with a collector that does, `Mapped` would have
  to be weakened to entries that are not completed).

`References` adds seven counts; each step changes one element of the sets behind them (lemmas `SessionMoves`, `WorkerMoves`, `TaskAdded`,
`TaskTaken`, from `FiniteSetTheorems`).  A step that drops a reference frees the entry only if nobody uses it
any more (`StillUsed`), so what others know of their entries stays true.  For `OneDownload`, `Downloading` says of an entry who downloads
it, what its flags say of that, and that whoever waits either has a download ahead or was refused; `WorkerDownloads`
is the step of a worker, `FlagsKept` any step that leaves the flags alone or frees the entry.

`SizeCovered`, also in `SingleDownload_proof`, goes on to `SizeCovers`, again under `~WaitMayFail`: `current_size` is at least what the entries in the map hold and the
writers have reserved, and at most `max_size`.  It is inductive beside `OneDownload`, and needs it: because an entry has one
writer, the header that decides `no_cache` cannot arrive between the reservation and the storing of another one (`HeaderSize`), and because the writer holds a
reference (`RefsCover`), an entry with a reservation is neither freed nor used again (`StillHeld`).  `Stored` is a sum over a set, so lemmas about `MapThenSumSet` come first (`SumEmpty`, `SumAdd`,
`SumRemove`, `SumSame`).

`Delivery_proof` proves for any number of clients, any body, header and sizes of chunks, lost notifications or not: `TypeCorrect`, `Wakeups` and
`Refinement`, i.e. the invariants of run `delivery` and `Spec => ImplementsBroadcast`.  The inductive invariant `Inv` adds to `TypeOK` and `NoLostWakeup`

* `Layout`: a chunk is not empty and holds the bytes that follow those of the chunks before it;
* `Received`: a client has the bytes up to its cursor, and what the callback has copied are the next ones;
* `Progress`, `Places`: how far the downloader thread is and what the flags of the entry say of it; whom the callbacks work for;
* `StaleLook`: when `async_callback` has looked at the flags and they have changed since, the change is announced.  Without it `NoLostWakeup`
  is not inductive: the sessions are woken according to the flags as they were (`loop.c:249-293`).

What `cache_get_chunk` finds at a cursor is a choice of a chunk by its position in `FlattenSeq` of the ones before; `FlattenAppend`, `Starts` and `ChunkFromBytes` say
what it is.  The refinement maps `produced`, `completed` and each client's state; `StepRefines` goes through the actions: appending a chunk
is `Produce`, the end of the download `End`, `SendBody` `Deliver`, a failing send `Break`, the end of a write with everything sent `Finish`; the rest stutters.

`UThreadMap_proof` proves for any limits of threads and workers and any number of clients: `TypeCorrect`, `ResultsAreTrue`, `IdsAreSound`, `RoundRobin`, `ShutdownDrains`
and `ShutdownWaits`, the six invariants of run `user_threads`, from `MaxThreadsAssumption`, `BoundsAssumption` and `ChildAssumption`.  None of them is inductive.
The invariant `IInv` (which TLC checked on the instance of the run, and with four threads, before it was proved) consists of

* `Locally`, for each worker and its scheduler: `Phase` (what the worker holds where), `Stands` (what the current thread may be), `Kept` (an ended thread
  has its routine's result), and `Balanced`: the ids in `free_ids`, those the worker has yet to collect and those a thread has of its child are
  together at most `thread_count`.  So `free_ids` never overflows, which nothing in the code checks (`uthread.c:186`);
* for a scheduler that is not `hurt`: `Placed` (which states the threads can have), `Ordered` (who got a turn while a thread was `READY` lies
  between that thread and the current one, going round; so the next one in turn has not had one yet), `Ledger` (a free id is free once and its thread has
  ended; an id that the worker or a parent holds still names its thread and nobody else holds it), and `AllEnded` while the worker
  collects: `uthread_run` returns when nobody is left, which is why the worker's join never waits;
* `Stages`, `Handed`: which workers exist while main starts and stops them; slots are handed out in order, one owner each;
* `Tasks`: a task without a result is in the queue, the batch or the locals of the worker it was given to, and in one of them once; a task has one thread,
  and it has ended exactly when the task has run.

The proof goes from the operators of the scheduler (`RunIs`, `YieldIs`, `CreateIs` ... say what they return, `YieldKeeps` ... that they keep what the invariant says of
one scheduler) over one worker to the actions.  Steps that leave the tasks alone are covered by `QuietKeeps`, steps that touch the tasks
of one worker only by `Spared`.

Only model-checked: the liveness properties (`AllReturn`, `EveryoneServed`, `ConnectFinished`, `ShutdownEnds`, `CallsReturn`, the two `MainEnds`),
since the prover handles neither fairness nor `ENABLED`.  Every invariant and every refinement that a passing run checks is
proved; `OneDownload`, `SizeCovered` and the theorems of `ProxyCache_proof` for waits that do not fail otherwise than by their timeout.

The library's induction theorems take an operator as a parameter, which the installed provers cannot instantiate.  Where a fold has to be
reasoned about, the proofs use induction in the form of sets instead: `Induction` and `SubsetInduction` follow from `WFMin` with the well-founded
relation as a set (`NatLessThanWellFounded`, `FS_StrictSubsetOrderingWellFounded`).  No module declares a `RECURSIVE` operator.

## 5. Not modelled

* `parse.c`, `key_builder.c`, `net.c`: sequential string code; a request is a key or is refused.
* The text of generated headers and of log lines; DNS; the chunked or length-delimited forms of an answer (the
  outcomes of receiving: more data, end, failure).
* The buckets of the hash table and the pointers of the LRU list (one sequence stands for both), the `try_lock`
  of `entry_can_delete`.
* A session that cannot be allocated: its connection is closed before anything is shared.
* The closing of sessions in `loop_destroy`, except for the space it gives back (`GiveBack` of `Shutdown`).
* A `pthread_cond_timedwait` for space that fails otherwise than by its timeout: the runs set `WaitMayFail` to `FALSE`, and `Shutdown` has no such step.
* The failing `getcontext` of `uthread_run` (`uthread.c:194-197`): it has no cause in practice.
* The weak memory orders of the locks: the lock word is acquired and released, and the owner field is relaxed but
  cleared before the release; the models interleave the accesses.
* User threads: a `uthread_map_shutdown` that meets a client inside of `uthread_map_create` (it would free the worker under it; the tests do not do it), a
  join of an id that no create returned (the slot of a failed `malloc` stays used for ever, `uthread_map.c:299`), tasks that
  join other tasks of the pool, a circle of `uthread_join` calls (it spins for ever), and the unlocked read of `used` in
  `uthread_map_join` (`uthread_map.c:329`), which sees a slot its caller was given.  The counter `global_steps` of
  `tests/test.c` is incremented by two kernel threads without a lock; it is the test's race, not the library's.
* The queue of `task2_1` without a lock: it is the queue of `task2_2` with the locks taken out in order to show the races that
  follow.  Every access is undefined behaviour, so there is nothing it promises.
* The exercises without shared state (`task1_1` to `task1_5`).

## 6. Further work

1. `LruCache`: hash buckets and the doubly linked list as code, refining the sequence `lru` of `ProxyCache`.
2. An abstract bounded FIFO that `ThreadQueue` implements.
3. Operators for `parse.c` and `key_builder.c`: equal requests have equal keys.
