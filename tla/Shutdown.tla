------------------------------ MODULE Shutdown ------------------------------
(***************************************************************************)
(* Starting, running and stopping the proxy src/task3/task3_3: main, which *)
(* runs the event loop, the downloader threads with their task queue, the  *)
(* garbage collector thread, and the waits for a connection that a thread  *)
(* delegates to the loop (loop_wait_connect).                              *)
(*                                                                         *)
(* Tasks are anonymous here: what a download does with its cache entry is  *)
(* the subject of ProxyCache; of the cache only the space remains, for     *)
(* which a thread waits without a look at the shutdown.  The mutex of the  *)
(* task queue and that of the collector are explicit, because flags are    *)
(* set both inside and outside of them.                                    *)
(***************************************************************************)
EXTENDS Integers, FiniteSets

CONSTANTS
  Workers,       \* downloader threads, DOWNLOADER_THREAD_COUNT in the code
  Nobody,        \* no thread holds the mutex
  TaskSlots,     \* DOWNLOADER_QUEUE_SIZE
  MaxSize,       \* max_size of the cache, in chunks
  MaxTasks,      \* bound: tasks that clients cause
  MaxAddresses   \* bound: addresses of an origin

ASSUME NobodyAssumption == Nobody \notin Workers
ASSUME BoundsAssumption == /\ TaskSlots \in Nat \ {0} /\ MaxSize \in Nat \ {0}
                           /\ MaxTasks \in Nat /\ MaxAddresses \in Nat

VARIABLES
  main,      \* where the main thread is
  loop,      \* g_state.loop: "null", "up", or "freed" (destroyed, not yet NULL)
  shutting,  \* g_state.shutting_down
  async,     \* is an event of the async watcher pending?
  req,       \* the connect-wait of each worker
  late,      \* history: workers that registered a wait after the last cancelling
  tasks,     \* length of the task queue
  asked,     \* tasks caused so far
  flag,      \* q.shutdown_flag
  qlock,     \* who holds the mutex of the task queue
  work,      \* the downloader threads
  gc,        \* the collector thread
  gcLocked,  \* does it hold its mutex?
  gcExit,    \* g_gc.should_exit
  gcReq,     \* g_gc.requested
  used,      \* g_cache.current_size
  failed,    \* chunks of failed answers, which their last session gives back
  crashed    \* has the process died of using a destroyed loop?

loopVars == <<loop, shutting, async, req, late>>
queueVars == <<tasks, asked, flag, qlock>>
gcVars == <<gc, gcLocked, gcExit, gcReq>>
cacheVars == <<used, failed>>
vars == <<main, loopVars, queueVars, work, gcVars, cacheVars, crashed>>

(* A thread: where it is, the addresses left to try, the chunks it has     *)
(* stored of its answer, and whether it notifies for the last time.        *)
None == [at |-> "none", left |-> 0, n |-> 0, last |-> FALSE]
At(w, pc) == work[w].at = pc
Awake == [w \in Workers |-> IF At(w, "asleep") THEN [work[w] EXCEPT !.at = "lock"] ELSE work[w]]

Init == /\ main = "workers"
        /\ loop = "null"
        /\ shutting = FALSE
        /\ async = FALSE
        /\ req = [w \in Workers |-> "none"]
        /\ late = {}
        /\ tasks = 0
        /\ asked = 0
        /\ flag = FALSE
        /\ qlock = Nobody
        /\ work = [w \in Workers |-> None]
        /\ gc = "none"
        /\ gcLocked = FALSE
        /\ gcExit = FALSE
        /\ gcReq = FALSE
        /\ used = 0
        /\ failed = 0
        /\ crashed = FALSE

Main(from, to) == main = from /\ main' = to
-----------------------------------------------------------------------------
(* main: starting *)

CreateWorker == /\ main = "workers"
                /\ \E w \in Workers :
                      /\ At(w, "none")
                      /\ work' = [work EXCEPT ![w].at = "lock"]
                /\ main' = IF \A w \in Workers : work'[w].at # "none" THEN "gc" ELSE "workers"
                /\ UNCHANGED <<loopVars, queueVars, gcVars, cacheVars, crashed>>

(* pthread_create fails: the flag is raised without the mutex. *)
CreateFails == /\ Main("workers", "failcast")
               /\ flag' = TRUE
               /\ UNCHANGED <<loopVars, tasks, asked, qlock, work, gcVars, cacheVars, crashed>>

FailCast == /\ Main("failcast", "failjoin")
            /\ work' = Awake
            /\ UNCHANGED <<loopVars, queueVars, gcVars, cacheVars, crashed>>

FailJoin == /\ Main("failjoin", "undirty")
            /\ \A w \in Workers : work[w].at \in {"none", "exit"}
            /\ UNCHANGED <<loopVars, queueVars, work, gcVars, cacheVars, crashed>>

CreateGc == /\ \/ Main("gc", "loop") /\ gc' = "top"
               \/ Main("gc", "flag") /\ gc' = gc        \* pthread_create fails
            /\ UNCHANGED <<loopVars, queueVars, work, gcLocked, gcExit, gcReq, cacheVars, crashed>>

CreateLoop == /\ \/ Main("loop", "run") /\ loop' = "up"
                 \/ Main("loop", "flag") /\ loop' = loop  \* no listen socket
              /\ UNCHANGED <<shutting, async, req, late, queueVars, work, gcVars, cacheVars, crashed>>
-----------------------------------------------------------------------------
(* main: callbacks of the running loop; those pending when the loop is    *)
(* told to break are still invoked.                                       *)

Running == main \in {"run", "breaking"}

(* Seeded fault: the full queue is not noticed. *)
RequestBlindly == /\ Running
                  /\ qlock = Nobody
                  /\ asked < MaxTasks
                  /\ asked' = asked + 1
                  /\ tasks' = tasks + 1
                  /\ UNCHANGED <<main, loopVars, flag, qlock, work, gcVars, cacheVars, crashed>>

(* A client's request ends up in the task queue, and one waiting thread   *)
(* is signalled.                                                          *)
Request == /\ Running
           /\ qlock = Nobody
           /\ asked < MaxTasks
           /\ asked' = asked + 1
           /\ IF tasks < TaskSlots
                THEN /\ tasks' = tasks + 1
                     /\ \/ \E w \in Workers : At(w, "asleep") /\ work' = [work EXCEPT ![w].at = "lock"]
                        \/ (\A w \in Workers : ~At(w, "asleep")) /\ UNCHANGED work
                ELSE UNCHANGED <<tasks, work>>
           /\ UNCHANGED <<main, loopVars, flag, qlock, gcVars, cacheVars, crashed>>

(* async_callback starts the watchers of the queued connect-waits. *)
StartWatchers == /\ Running
                 /\ async
                 /\ async' = FALSE
                 /\ req' = [w \in Workers |-> IF req[w] = "queued" THEN "active" ELSE req[w]]
                 /\ UNCHANGED <<main, loop, shutting, late, queueVars, work, gcVars, cacheVars, crashed>>

(* The socket is writable, or in error, or the timer has run out. *)
FinishWait(w) == /\ Running
                 /\ req[w] = "active"
                 /\ \E result \in {"ok", "fail"} : req' = [req EXCEPT ![w] = result]
                 /\ UNCHANGED <<main, loop, shutting, async, late, queueVars, work, gcVars, cacheVars, crashed>>

(* Sessions leave failed answers, also when loop_destroy closes them; the  *)
(* last one gives the space of its answer back.                            *)
GiveBack == /\ Running
            /\ \E k \in 1..failed : /\ failed' = failed - k
                                    /\ used' = IF used >= k THEN used - k ELSE 0
            /\ UNCHANGED <<main, loopVars, queueVars, work, gcVars, crashed>>
-----------------------------------------------------------------------------
(* main: stopping *)

(* Seeded fault: the waits whose watchers are not started are forgotten. *)
TakeActive == req' = [w \in Workers |-> IF req[w] = "active" THEN "taken" ELSE req[w]]

(* Both lists of connect-waits are taken under their mutex ... *)
TakeWaits == req' = [w \in Workers |-> IF req[w] \in {"queued", "active"} THEN "taken" ELSE req[w]]

Signal == /\ Main("run", "cancel")
          /\ shutting' = TRUE
          /\ TakeWaits
          /\ UNCHANGED <<loop, async, late, queueVars, work, gcVars, cacheVars, crashed>>

(* ... and finished one by one. *)
Cancel(w) == /\ main \in {"cancel", "cancel2"}
             /\ req[w] = "taken"
             /\ req' = [req EXCEPT ![w] = "fail"]
             /\ UNCHANGED <<main, loop, shutting, async, late, queueVars, work, gcVars, cacheVars, crashed>>

Cancelled == /\ \A w \in Workers : req[w] # "taken"
             /\ Main("cancel", "breaking") \/ Main("cancel2", "free")
             /\ UNCHANGED <<loopVars, queueVars, work, gcVars, cacheVars, crashed>>

(* loop_destroy: cancel again ... *)
Destroy == /\ Main("breaking", "cancel2")
           /\ TakeWaits
           /\ UNCHANGED <<loop, shutting, async, late, queueVars, work, gcVars, cacheVars, crashed>>

(* ... ev_loop_destroy, and then the pointer becomes NULL. *)
FreeLoop == /\ \/ Main("free", "null") /\ loop' = "freed"
               \/ Main("null", "flag") /\ loop' = "null"
            /\ async' = FALSE
            /\ UNCHANGED <<shutting, req, late, queueVars, work, gcVars, cacheVars, crashed>>

(* Seeded fault: no broadcast. *)
RaiseSilently == /\ Main("flag", "join")
                 /\ qlock = Nobody
                 /\ flag' = TRUE
                 /\ UNCHANGED <<loopVars, tasks, asked, qlock, work, gcVars, cacheVars, crashed>>

(* downloader_destroy: flag and broadcast under the mutex of the queue. *)
RaiseFlag == /\ Main("flag", "join")
             /\ qlock = Nobody
             /\ flag' = TRUE
             /\ work' = Awake
             /\ UNCHANGED <<loopVars, tasks, asked, qlock, gcVars, cacheVars, crashed>>

(* Seeded fault: only one thread is joined. *)
JoinOne == /\ Main("join", IF gc = "none" THEN "undirty" ELSE "gcexit")
           /\ \E w \in Workers : At(w, "exit")
           /\ UNCHANGED <<loopVars, queueVars, work, gcVars, cacheVars, crashed>>

Join == /\ Main("join", IF gc = "none" THEN "undirty" ELSE "gcexit")
        /\ \A w \in Workers : At(w, "exit")
        /\ UNCHANGED <<loopVars, queueVars, work, gcVars, cacheVars, crashed>>

(* gc_destroy: should_exit is set without the mutex, requested with it. *)
SetGcExit == /\ Main("gcexit", "gcreq")
             /\ gcExit' = TRUE
             /\ UNCHANGED <<loopVars, queueVars, work, gc, gcLocked, gcReq, cacheVars, crashed>>

SetGcReq == /\ Main("gcreq", "joingc")
            /\ ~gcLocked
            /\ gcReq' = TRUE
            /\ gc' = IF gc = "asleep" THEN "lock" ELSE gc
            /\ UNCHANGED <<loopVars, queueVars, work, gcLocked, gcExit, cacheVars, crashed>>

JoinGc == /\ Main("joingc", "undirty")
          /\ gc = "exit"
          /\ UNCHANGED <<loopVars, queueVars, work, gcVars, cacheVars, crashed>>

(* dirty_destroy and cache_destroy. *)
Release == /\ Main("undirty", "uncache") \/ Main("uncache", "done")
           /\ UNCHANGED <<loopVars, queueVars, work, gcVars, cacheVars, crashed>>
-----------------------------------------------------------------------------
(* A downloader thread: task_queue_dequeue *)

Go(w, from, to) == At(w, from) /\ work' = [work EXCEPT ![w].at = to]

Lock(w) == /\ Go(w, "lock", "test")
           /\ qlock = Nobody
           /\ qlock' = w
           /\ UNCHANGED <<main, loopVars, tasks, asked, flag, gcVars, cacheVars, crashed>>

(* Seeded fault: the flag is not tested before waiting. *)
NoTask(w) == /\ tasks = 0
             /\ Go(w, "test", "towait")
             /\ UNCHANGED <<main, loopVars, queueVars, gcVars, cacheVars, crashed>>

NothingToDo(w) == /\ tasks = 0 /\ ~flag
                  /\ Go(w, "test", "towait")
                  /\ UNCHANGED <<main, loopVars, queueVars, gcVars, cacheVars, crashed>>

(* pthread_cond_wait gives the mutex up and sleeps in one step. *)
Wait(w) == /\ Go(w, "towait", "asleep")
           /\ qlock' = Nobody
           /\ UNCHANGED <<main, loopVars, tasks, asked, flag, gcVars, cacheVars, crashed>>

SpuriousWakeup(w) == /\ Go(w, "asleep", "lock")
                     /\ UNCHANGED <<main, loopVars, queueVars, gcVars, cacheVars, crashed>>

(* A task is taken even after the flag is up; without one the thread ends. *)
Dequeue(w) == /\ IF tasks > 0 THEN Go(w, "test", "task") /\ tasks' = tasks - 1
                 ELSE flag /\ Go(w, "test", "exit") /\ UNCHANGED tasks
              /\ qlock' = Nobody
              /\ UNCHANGED <<main, loopVars, asked, flag, gcVars, cacheVars, crashed>>

(* The reference of a task that is not served any more is dropped. *)
CheckShutdown(w) == /\ At(w, "task")
                    /\ work' = [work EXCEPT ![w] = IF shutting THEN [None EXCEPT !.at = "exit"]
                                                   ELSE [None EXCEPT !.at = "connect", !.left = MaxAddresses]]
                    /\ UNCHANGED <<main, loopVars, queueVars, gcVars, cacheVars, crashed>>
-----------------------------------------------------------------------------
(* A downloader thread: origin_connect and loop_wait_connect *)

NextAddress(w) == work' = [work EXCEPT ![w].at = "connect", ![w].left = @ - 1]
Connected(w) == work' = [work EXCEPT ![w].at = "recv", ![w].left = 0]

(* Connected at once, failed at once, or in progress; with no address     *)
(* left the download has failed.                                          *)
Connect(w) == /\ At(w, "connect")
              /\ IF work[w].left = 0
                   THEN work' = [work EXCEPT ![w].at = "notify", ![w].last = TRUE]
                   ELSE \/ Connected(w)
                        \/ NextAddress(w)
                        \/ Go(w, "connect", "enter")
              /\ UNCHANGED <<main, loopVars, queueVars, gcVars, cacheVars, crashed>>

(* Is there a loop? *)
EnterWait(w) == /\ At(w, "enter")
                /\ IF loop = "null" THEN NextAddress(w) ELSE Go(w, "enter", "register")
                /\ UNCHANGED <<main, loopVars, queueVars, gcVars, cacheVars, crashed>>

Register(w) == /\ Go(w, "register", "send")
               /\ req' = [req EXCEPT ![w] = "queued"]
               /\ late' = IF main \in {"run", "cancel", "breaking"} THEN late ELSE late \cup {w}
               /\ UNCHANGED <<main, loop, shutting, async, queueVars, gcVars, cacheVars, crashed>>

(* ev_async_send on a loop that is gone: a NULL pointer ends the process,  *)
(* freed memory may or may not.                                            *)
AsyncSend == \/ loop = "up" /\ async' = TRUE /\ UNCHANGED crashed
             \/ loop = "freed" /\ UNCHANGED <<async, crashed>>
             \/ loop # "up" /\ crashed' = TRUE /\ UNCHANGED async

(* Seeded fault: the loop is not told of the new wait. *)
SendNothing(w) == /\ Go(w, "send", "await")
                  /\ UNCHANGED <<main, loopVars, queueVars, gcVars, cacheVars, crashed>>

SendWait(w) == /\ Go(w, "send", "await")
               /\ AsyncSend
               /\ UNCHANGED <<main, loop, shutting, req, late, queueVars, gcVars, cacheVars>>

WaitEnds(w) == /\ At(w, "await")
               /\ req[w] \in {"ok", "fail"}
               /\ req' = [req EXCEPT ![w] = "none"]
               /\ IF req[w] = "ok" THEN Connected(w) ELSE NextAddress(w)
               /\ UNCHANGED <<main, loop, shutting, async, late, queueVars, gcVars, cacheVars, crashed>>
-----------------------------------------------------------------------------
(* A downloader thread: receiving and storing chunks, with a dirty_enqueue *)
(* after every chunk and at the end                                        *)

Note(w, end) == work' = [work EXCEPT ![w].at = "notify", ![w].last = end]

(* The answer has failed; what is stored of it stays in the cache.         *)
GiveUp(w) == Note(w, TRUE) /\ failed' = failed + work[w].n

(* Before each recv the download looks at the shutdown.  It fails by an    *)
(* error or an answer that outgrows the cache, or it is complete, or gets  *)
(* data, which an answer other than 200 does not keep in the cache.        *)
Receive(w) == /\ At(w, "recv")
              /\ \/ GiveUp(w)
                 \/ /\ ~shutting
                    /\ \/ \E end \in BOOLEAN : Note(w, end)
                       \/ work[w].n < MaxSize /\ Go(w, "recv", "append")
                    /\ UNCHANGED failed
              /\ UNCHANGED <<main, loopVars, queueVars, gcVars, used, crashed>>

(* cache_append_chunk takes its space first ...                            *)
Reserve(w) == /\ used < MaxSize
              /\ Go(w, "append", "store")
              /\ used' = used + 1
              /\ UNCHANGED <<main, loopVars, queueVars, gcVars, failed, crashed>>

(* ... and while there is none, it notifies the collector and waits, again *)
(* and again, whatever the shutdown says: for a broadcast or 200 ms.       *)
Pressure(w) == /\ used >= MaxSize
               /\ Go(w, "append", "full")
               /\ ~gcLocked
               /\ gcReq' = TRUE
               /\ gc' = IF gc = "asleep" THEN "lock" ELSE gc
               /\ UNCHANGED <<main, loopVars, queueVars, gcLocked, gcExit, cacheVars, crashed>>

TimedOut(w) == /\ Go(w, "full", "append")
               /\ UNCHANGED <<main, loopVars, queueVars, gcVars, cacheVars, crashed>>

(* The chunk is stored, or there is no memory: for the chunk, whose space  *)
(* is given back, or for the list of chunks, and the space is not.         *)
Store(w) == /\ At(w, "store")
            /\ \/ /\ work' = [work EXCEPT ![w].at = "notify", ![w].n = @ + 1, ![w].last = FALSE]
                  /\ UNCHANGED cacheVars
               \/ GiveUp(w) /\ used' \in {used - 1, used}
            /\ UNCHANGED <<main, loopVars, queueVars, gcVars, crashed>>

Continue(w) == work' = [work EXCEPT ![w] = IF @.last THEN [None EXCEPT !.at = "lock"]
                                           ELSE [@ EXCEPT !.at = "recv"]]

(* loop_notify_dirty looks for a loop, then sends. *)
Notify(w) == /\ At(w, "notify")
             /\ IF loop = "null" THEN Continue(w) ELSE Go(w, "notify", "nsend")
             /\ UNCHANGED <<main, loopVars, queueVars, gcVars, cacheVars, crashed>>

SendNotify(w) == /\ At(w, "nsend")
                 /\ AsyncSend
                 /\ Continue(w)
                 /\ UNCHANGED <<main, loop, shutting, req, late, queueVars, gcVars, cacheVars>>
-----------------------------------------------------------------------------
(* The collector thread *)

GcTop == /\ gc = "top"
         /\ gc' = IF gcExit THEN "exit" ELSE "lock"
         /\ UNCHANGED <<main, loopVars, queueVars, work, gcLocked, gcExit, gcReq, cacheVars, crashed>>

GcLock == /\ gc = "lock" /\ ~gcLocked
          /\ gc' = "test" /\ gcLocked' = TRUE
          /\ UNCHANGED <<main, loopVars, queueVars, work, gcExit, gcReq, cacheVars, crashed>>

GcTest == /\ gc = "test"
          /\ IF ~gcExit /\ ~gcReq
               THEN gc' = "towait" /\ UNCHANGED <<gcLocked, gcReq>>
               ELSE gc' = "check" /\ gcLocked' = FALSE /\ gcReq' = FALSE
          /\ UNCHANGED <<main, loopVars, queueVars, work, gcExit, cacheVars, crashed>>

GcWait == /\ gc = "towait"
          /\ gc' = "asleep" /\ gcLocked' = FALSE
          /\ UNCHANGED <<main, loopVars, queueVars, work, gcExit, gcReq, cacheVars, crashed>>

GcSpurious == /\ gc = "asleep"
              /\ gc' = "lock"
              /\ UNCHANGED <<main, loopVars, queueVars, work, gcLocked, gcExit, gcReq, cacheVars, crashed>>

(* Exit, or trim the cache and start over.  Nothing is deleted: that takes *)
(* more than max_size, and TypeOK says that used never gets there.         *)
GcCheck == /\ gc = "check"
           /\ gc' = IF gcExit THEN "exit" ELSE "top"
           /\ UNCHANGED <<main, loopVars, queueVars, work, gcLocked, gcExit, gcReq, cacheVars, crashed>>
-----------------------------------------------------------------------------
Callback == StartWatchers \/ GiveBack \/ \E w \in Workers : FinishWait(w)

Stopping == \/ CreateWorker \/ CreateGc \/ CreateLoop
            \/ FailCast \/ FailJoin
            \/ Cancelled \/ Destroy \/ FreeLoop \/ RaiseFlag \/ Join
            \/ SetGcExit \/ SetGcReq \/ JoinGc \/ Release
            \/ \E w \in Workers : Cancel(w)

Download(w) == \/ NothingToDo(w) \/ Wait(w) \/ Dequeue(w) \/ CheckShutdown(w)
               \/ Connect(w) \/ EnterWait(w) \/ Register(w) \/ SendWait(w) \/ WaitEnds(w)
               \/ Receive(w) \/ Reserve(w) \/ Pressure(w) \/ TimedOut(w) \/ Store(w)
               \/ Notify(w) \/ SendNotify(w)

Collect == GcTop \/ GcLock \/ GcTest \/ GcWait \/ GcCheck

Next == /\ ~crashed
        /\ \/ CreateFails \/ Request \/ Signal \/ Callback \/ Stopping \/ Collect \/ GcSpurious
           \/ \E w \in Workers : Download(w) \/ Lock(w) \/ SpuriousWakeup(w)

Spec == Init /\ [][Next]_vars

(* Every thread runs; the loop serves its watchers, and a timer ends each  *)
(* wait in the end; an origin answers or hangs up.  The mutexes are passed *)
(* on fairly (a thread that wants one gets it when it is free often).      *)
FairSpec == /\ Spec
            /\ WF_vars(~crashed /\ StartWatchers)
            /\ \A w \in Workers : /\ WF_vars(~crashed /\ FinishWait(w))
                                  /\ WF_vars(~crashed /\ Download(w))
                                  /\ SF_vars(~crashed /\ Lock(w))
            /\ SF_vars(~crashed /\ Stopping)
            /\ SF_vars(~crashed /\ Collect)
-----------------------------------------------------------------------------
(* Properties *)

TypeOK ==
  /\ main \in {"workers", "failcast", "failjoin", "gc", "loop", "run", "cancel", "breaking", "cancel2",
               "free", "null", "flag", "join", "gcexit", "gcreq", "joingc", "undirty", "uncache", "done"}
  /\ loop \in {"null", "up", "freed"}
  /\ shutting \in BOOLEAN /\ async \in BOOLEAN /\ flag \in BOOLEAN /\ crashed \in BOOLEAN
  /\ req \in [Workers -> {"none", "queued", "active", "taken", "ok", "fail"}]
  /\ late \subseteq Workers
  /\ tasks \in 0..TaskSlots
  /\ asked \in 0..MaxTasks
  /\ qlock \in Workers \cup {Nobody}
  /\ work \in [Workers -> [at : {"none", "lock", "test", "towait", "asleep", "task", "connect", "enter",
                                 "register", "send", "await", "recv", "append", "full", "store",
                                 "notify", "nsend", "exit"},
                           left : 0..MaxAddresses, n : 0..MaxSize, last : BOOLEAN]]
  /\ gc \in {"none", "top", "lock", "test", "towait", "asleep", "check", "exit"}
  /\ gcLocked \in BOOLEAN /\ gcExit \in BOOLEAN /\ gcReq \in BOOLEAN
  /\ used \in Int /\ used <= MaxSize
  /\ failed \in Nat

(* A wait for a connection registered before the last cancelling is never *)
(* forgotten: it is queued with an event to come, active, in the list     *)
(* being cancelled, or finished (loop.c:219-240, 304-316, 669-681).       *)
RequestTracked ==
  \A w \in Workers :
    At(w, "await") /\ w \notin late =>
      \/ req[w] \in {"ok", "fail"}
      \/ req[w] = "taken" /\ main \in {"cancel", "cancel2"}
      \/ main \in {"run", "cancel", "breaking"} /\ (req[w] = "active" \/ (req[w] = "queued" /\ async))

(* Nobody sleeps through downloader_destroy or gc_destroy, although       *)
(* should_exit is set outside of the mutex (downloader.c:682-689,         *)
(* gc.c:127-139).                                                         *)
NoSleeperLeft == /\ main = "join" => \A w \in Workers : work[w].at \notin {"towait", "asleep"}
                 /\ main = "joingc" => gc \notin {"towait", "asleep"}

(* The dirty queue and the cache are destroyed after the last thread that *)
(* uses them has ended, also when starting fails half-way (main.c:62-129).*)
ResourcesOutlive ==
  main \in {"undirty", "uncache", "done"} =>
    /\ \A w \in Workers : work[w].at \in {"none", "exit"}
    /\ gc \in {"none", "exit"}

(* Such a wait ends, by the socket, the timer or the shutdown.            *)
ConnectFinished ==
  \A w \in Workers : At(w, "await") /\ w \notin late ~> ~At(w, "await") \/ crashed

InTime(w) == w \notin late /\ work[w].at \notin {"register", "send", "nsend"}

(* main joins a thread that waits for space in a full cache, and nobody    *)
(* has reserved any that he could give back: this hang never ends, for the *)
(* loop is gone and the collector deletes nothing (cache.c:398).           *)
Starved == /\ main = "join"
           /\ used >= MaxSize
           /\ \E w \in Workers : work[w].at \in {"append", "full"}
           /\ \A w \in Workers : ~At(w, "store")

(* Once the loop is gone, the program stops: tasks are given up and all    *)
(* threads are joined, unless a wait was registered too late or the cache  *)
(* is full for ever (main.c:106-129, downloader.c:682-696).                *)
ShutdownEnds ==
  main = "flag" /\ ~crashed /\ (\A w \in Workers : InTime(w)) ~> main = "done" \/ Starved

(* loop.c:304: "Cancel connect-waits to avoid deadlocks (downloader       *)
(* threads may be blocked in loop_wait_connect())": after a signal the    *)
(* program stops.                                                         *)
StopsAfterSignal == shutting ~> main = "done" \/ crashed
=============================================================================
