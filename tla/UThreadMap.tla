----------------------------- MODULE UThreadMap -----------------------------
(***************************************************************************)
(* User threads on kernel threads: src/task1/task1_7/src/uthread_map.c on  *)
(* top of uthread.c (module UThread).  Clients create tasks and join them; *)
(* each worker is a kernel thread that takes the tasks queued for it as    *)
(* one batch, runs them as user threads, and publishes their results.      *)
(* main is the thread that calls uthread_map_init and uthread_map_shutdown.*)
(*                                                                         *)
(* A critical section is one action; the steps of a user thread from one   *)
(* call of the scheduler to the next are one action too, because user      *)
(* threads share nothing with other kernel threads but their results.      *)
(***************************************************************************)
EXTENDS UThread

CONSTANTS Clients,     \* threads that call create and join
          MaxWorkers,  \* bound: worker_count
          MaxInits,    \* bound: calls of uthread_map_init
          Parents,     \* bound: the tasks that create a user thread of their own
          Child        \* the routine of such a user thread

Workers == 0 .. MaxWorkers - 1
Slots == Ids          \* mapped_threads has MAX_THREADS elements as well; a task is called by its slot

ASSUME BoundsAssumption == MaxWorkers \in Nat \ {0} /\ MaxInits \in Nat
ASSUME ChildAssumption == Child \notin Slots \cup {Nil} /\ Parents \subseteq Slots

VARIABLES
  main,     \* where it is, worker_count, threads created, the loop variable, calls of
            \* init, and map_initialized
  next_worker,
  slot,     \* mapped_threads
  client,   \* where each client is, and the slot it works on
  worker,   \* of each worker: where it is, stop, the queue, its batch, locals and i
  sched,    \* the scheduler of each worker's thread
  made,     \* history: the tasks whose uthread_map_create returned 0
  refused,  \* history: the tasks whose uthread_create failed
  ran       \* history: how often each task has run to its end

vars == <<main, next_worker, slot, client, worker, sched, made, refused, ran>>

Free == [used |-> FALSE, worker |-> Nil, finished |-> FALSE, joined |-> FALSE, retval |-> Nil]
Idle == [at |-> "idle", slot |-> Nil]
NoWorker == [at |-> "none", stop |-> FALSE, queue |-> <<>>, batch |-> <<>>, locals |-> <<>>, i |-> 1]

Init == /\ main = [at |-> "down", n |-> 0, created |-> 0, i |-> 0, inits |-> 0, initialized |-> FALSE]
        /\ next_worker = 0
        /\ slot = [s \in Slots |-> Free]
        /\ client = [c \in Clients |-> Idle]
        /\ worker = [w \in Workers |-> NoWorker]
        /\ sched = [w \in Workers |-> Fresh]
        /\ made = {}
        /\ refused = {}
        /\ ran = [s \in Slots |-> 0]

history == <<made, refused, ran>>
-----------------------------------------------------------------------------
(* uthread_map_init *)

CallInit == /\ main.at = "down"
            /\ main.inits < MaxInits
            /\ \E n \in 1 .. MaxWorkers :
                 main' = [main EXCEPT !.at = "init", !.n = n, !.created = 0, !.inits = @ + 1]
            /\ UNCHANGED <<next_worker, slot, client, worker, sched, history>>

CreateWorker == /\ main.at = "init"
                /\ worker' = [worker EXCEPT ![main.created] = [NoWorker EXCEPT !.at = "top"]]
                /\ sched' = [sched EXCEPT ![main.created] = [Fresh EXCEPT !.hurt = sched[main.created].hurt]]
                /\ LET all == main.created + 1 = main.n
                   IN main' = [main EXCEPT !.created = @ + 1, !.at = IF all THEN "up" ELSE @, !.initialized = all]
                /\ UNCHANGED <<next_worker, slot, client, history>>

(* The workers created so far are stopped, as in a shutdown. *)
CreateWorkerFails == /\ main.at = "init"
                     /\ main' = [main EXCEPT !.at = IF main.created = 0 THEN "down" ELSE "stop"]
                     /\ UNCHANGED <<next_worker, slot, client, worker, sched, history>>
-----------------------------------------------------------------------------
(* uthread_map_shutdown, called while no client is inside of uthread_map_create *)

CallShutdown == /\ main.at = "up"
                /\ \A c \in Clients : client[c].at # "create"
                /\ main' = [main EXCEPT !.at = "stop"]
                /\ UNCHANGED <<next_worker, slot, client, worker, sched, history>>

Awake(w) == IF worker[w].at = "asleep" THEN "top" ELSE worker[w].at

(* One turn of a loop over the created workers *)
LastTurn == main.i + 1 = main.created

Stop == /\ main.at = "stop"
        /\ worker' = [worker EXCEPT ![main.i].stop = TRUE, ![main.i].at = Awake(main.i)]
        /\ main' = [main EXCEPT !.at = IF LastTurn THEN "join" ELSE @, !.i = IF LastTurn THEN 0 ELSE @ + 1]
        /\ UNCHANGED <<next_worker, slot, client, sched, history>>

(* Seeded fault: only the last worker is waited for. *)
JoinLast == /\ main.at = "join"
            /\ worker[main.created - 1].at = "end"
            /\ main' = [main EXCEPT !.at = "down", !.i = 0, !.initialized = FALSE]
            /\ UNCHANGED <<next_worker, slot, client, worker, sched, history>>

(* After the last one the array of workers is freed; the slots stay as they are. *)
Join == /\ main.at = "join"
        /\ worker[main.i].at = "end"
        /\ main' = [main EXCEPT !.at = IF LastTurn THEN "down" ELSE @, !.i = IF LastTurn THEN 0 ELSE @ + 1,
                               !.initialized = @ /\ ~LastTurn]
        /\ UNCHANGED <<next_worker, slot, client, worker, sched, history>>

Main == CallInit \/ CreateWorker \/ CreateWorkerFails \/ CallShutdown \/ Stop \/ Join
-----------------------------------------------------------------------------
(* uthread_map_create: a slot under the global mutex, then a task for its worker *)

TakeSlot(c) == /\ main.at = "up"
               /\ client[c] = Idle
               /\ \E s \in Slots :
                    /\ ~slot[s].used
                    /\ \A r \in Slots : r < s => slot[r].used
                    /\ slot' = [slot EXCEPT ![s] = [Free EXCEPT !.used = TRUE, !.worker = next_worker % main.n]]
                    /\ client' = [client EXCEPT ![c] = [at |-> "create", slot |-> s]]
               /\ next_worker' = next_worker + 1
               /\ UNCHANGED <<main, worker, sched, history>>

Enqueue(c) == /\ client[c].at = "create"
              /\ LET s == client[c].slot
                     w == slot[s].worker
                 IN /\ worker' = [worker EXCEPT ![w].queue = Append(@, s), ![w].at = Awake(w)]
                    /\ made' = made \cup {s}
              /\ client' = [client EXCEPT ![c] = Idle]
              /\ UNCHANGED <<main, next_worker, slot, sched, refused, ran>>

(* malloc fails: the slot remains used for ever. *)
TaskFails(c) == /\ client[c].at = "create"
                /\ client' = [client EXCEPT ![c] = Idle]
                /\ UNCHANGED <<main, next_worker, slot, worker, sched, history>>
-----------------------------------------------------------------------------
(* uthread_map_join: a second join is refused, an early one sleeps. *)

MapJoin(c) == /\ main.initialized
              /\ client[c] = Idle
              /\ \E s \in made :
                   /\ ~slot[s].joined
                   /\ slot' = [slot EXCEPT ![s].joined = TRUE]
                   /\ client' = [client EXCEPT ![c] = IF slot[s].finished THEN Idle ELSE [at |-> "join", slot |-> s]]
              /\ UNCHANGED <<main, next_worker, worker, sched, history>>

(* Seeded fault: nobody is told. *)
PublishSilently(s, result) ==
  /\ slot' = [slot EXCEPT ![s].finished = TRUE, ![s].retval = result]
  /\ UNCHANGED client

(* The worker's side: the result, and the broadcast that wakes the joiner. *)
Publish(s, result) ==
  /\ slot' = [slot EXCEPT ![s].finished = TRUE, ![s].retval = result]
  /\ client' = [c \in Clients |-> IF client[c] = [at |-> "join", slot |-> s] THEN Idle ELSE client[c]]
-----------------------------------------------------------------------------
(* worker_main *)

At(w, from, to) == worker[w].at = from /\ worker' = [worker EXCEPT ![w].at = to]

(* Seeded fault: a worker that is told to stop leaves its queue. *)
LookHastily(w) == /\ worker[w].at = "top"
                  /\ LET k == worker[w]
                     IN worker' = [worker EXCEPT ![w] =
                          IF k.stop THEN [k EXCEPT !.at = "end"]
                          ELSE IF k.queue # <<>> THEN [k EXCEPT !.at = "start", !.batch = k.queue, !.queue = <<>>]
                          ELSE [k EXCEPT !.at = "asleep"]]
                  /\ UNCHANGED <<main, next_worker, slot, client, sched, history>>

(* Seeded fault: the batch remains in the queue. *)
LookKeeping(w) == /\ worker[w].at = "top"
                  /\ LET k == worker[w]
                     IN worker' = [worker EXCEPT ![w] =
                          IF k.queue # <<>> THEN [k EXCEPT !.at = "start", !.batch = k.queue]
                          ELSE IF k.stop THEN [k EXCEPT !.at = "end"]
                          ELSE [k EXCEPT !.at = "asleep"]]
                  /\ UNCHANGED <<main, next_worker, slot, client, sched, history>>

(* The whole queue is the next batch; without one the worker ends or sleeps. *)
Look(w) == /\ worker[w].at = "top"
           /\ LET k == worker[w]
              IN worker' = [worker EXCEPT ![w] =
                   IF k.queue # <<>> THEN [k EXCEPT !.at = "start", !.batch = k.queue, !.queue = <<>>]
                   ELSE IF k.stop THEN [k EXCEPT !.at = "end"]
                   ELSE [k EXCEPT !.at = "asleep"]]
           /\ UNCHANGED <<main, next_worker, slot, client, sched, history>>

SpuriousWakeup(w) == /\ At(w, "asleep", "top")
                     /\ UNCHANGED <<main, next_worker, slot, client, sched, history>>

StartTask(w) == /\ worker[w].at = "start"
                /\ worker[w].batch # <<>>
                /\ HasRoom(sched[w])
                /\ LET s == Head(worker[w].batch)
                   IN /\ sched' = [sched EXCEPT ![w] = Create(@, s)]
                      /\ worker' = [worker EXCEPT ![w].batch = Tail(@),
                                                  ![w].locals = Append(@, [id |-> NextId(sched[w]), task |-> s])]
                /\ UNCHANGED <<main, next_worker, slot, client, history>>

(* uthread_create fails: the task is finished at once, with the result NULL. *)
StartFails(w) == /\ worker[w].at = "start"
                 /\ worker[w].batch # <<>>
                 /\ LET s == Head(worker[w].batch)
                    IN /\ Publish(s, Nil)
                       /\ refused' = refused \cup {s}
                 /\ sched' = [sched EXCEPT ![w] = IF HasRoom(@) THEN CreateFails(@) ELSE @]
                 /\ worker' = [worker EXCEPT ![w].batch = Tail(@)]
                 /\ UNCHANGED <<main, next_worker, made, ran>>

(* The scheduler of w goes from u, and uthread_run ends when nobody has the processor. *)
Schedule(w, u) ==
  /\ sched' = [sched EXCEPT ![w] = u]
  /\ worker' = [worker EXCEPT ![w].at = IF u.current = Nil THEN "collect" ELSE "run"]

StartRun(w) == /\ worker[w].at = "start"
               /\ worker[w].batch = <<>>
               /\ IF worker[w].locals = <<>> THEN At(w, "start", "top") /\ UNCHANGED sched
                  ELSE Schedule(w, Run(sched[w]))
               /\ UNCHANGED <<main, next_worker, slot, client, history>>

(* uthread_join of the next local thread: an error gives NULL; a thread    *)
(* that has not ended is waited for without letting anybody run.           *)
Collect(w) ==
  LET k == worker[w]
      u == sched[w]
      local == k.locals[k.i]
  IN /\ k.at = "collect"
     /\ IF CanJoin(u, local.id)
          THEN /\ Ended(u, local.id)
               /\ sched' = [sched EXCEPT ![w] = Reclaim(MarkJoined(u, local.id), local.id)]
               /\ Publish(local.task, u.thread[local.id].retval)
          ELSE Publish(local.task, Nil) /\ UNCHANGED sched
     /\ worker' = [worker EXCEPT ![w] = IF k.i < Len(k.locals) THEN [k EXCEPT !.i = @ + 1]
                                        ELSE [k EXCEPT !.at = "top", !.i = 1, !.locals = <<>>]]
     /\ UNCHANGED <<main, next_worker, history>>
-----------------------------------------------------------------------------
(* The user threads: what their routines may do while they have the processor *)

Me(w) == sched[w].thread[sched[w].current]

Running(w) == worker[w].at = "run" /\ ~sched[w].waiting /\ Me(w).joins = Nil

Sleepers(w) == InState(sched[w], "SLEEPING")

Others == UNCHANGED <<main, next_worker, slot, client, made, refused>>

Yields(w) == /\ Running(w)
             /\ \E due \in SUBSET Sleepers(w) : Schedule(w, Yield(sched[w], due))
             /\ Others /\ UNCHANGED ran

Sleeps(w) == /\ Running(w)
             /\ \E due \in SUBSET (Sleepers(w) \cup {sched[w].current}) : Schedule(w, Sleep(sched[w], due))
             /\ Others /\ UNCHANGED ran

(* The routine returns. *)
Returns(w) == /\ Running(w)
              /\ \E due \in SUBSET Sleepers(w) : Schedule(w, Finish(sched[w], due))
              /\ LET r == Me(w).routine
                 IN ran' = IF r \in Slots THEN [ran EXCEPT ![r] = @ + 1] ELSE ran
              /\ Others

(* Nobody is READY: the first sleeper wakes up. *)
Wakes(w) == /\ worker[w].at = "run"
            /\ sched[w].waiting
            /\ \E i \in Sleepers(w) : Schedule(w, WakeUp(sched[w], i))
            /\ Others /\ UNCHANGED ran

(* A task creates a user thread of its own ... *)
Spawn(w) == /\ Running(w)
            /\ Me(w).routine \in Parents /\ ~Me(w).spawned
            /\ LET u == [sched[w] EXCEPT !.thread[sched[w].current].spawned = TRUE]
                   Parent(id) == [u EXCEPT !.thread[u.current].child = id]
               IN \/ HasRoom(u) /\ Schedule(w, Create(Parent(NextId(u)), Child))
                  \/ Schedule(w, IF HasRoom(u) THEN CreateFails(u) ELSE u)
            /\ Others /\ UNCHANGED ran

(* ... and joins it: it marks the thread and yields until it has ended. *)
CallJoin(w) == /\ Running(w)
               /\ Me(w).child # Nil
               /\ LET u == sched[w]
                      id == Me(w).child
                      v == [u EXCEPT !.thread[u.current].child = Nil]
                  IN Schedule(w, IF CanJoin(u, id) THEN [MarkJoined(v, id) EXCEPT !.thread[u.current].joins = id]
                                 ELSE v)
               /\ Others /\ UNCHANGED ran

AwaitChild(w) == /\ worker[w].at = "run"
                 /\ ~sched[w].waiting
                 /\ LET u == sched[w]
                        id == Me(w).joins
                    IN /\ id # Nil
                       /\ IF Ended(u, id) THEN Schedule(w, [Reclaim(u, id) EXCEPT !.thread[u.current].joins = Nil])
                          ELSE \E due \in SUBSET Sleepers(w) : Schedule(w, Yield(u, due))
                 /\ Others /\ UNCHANGED ran
-----------------------------------------------------------------------------
Client(c) == TakeSlot(c) \/ Enqueue(c) \/ TaskFails(c) \/ MapJoin(c)

(* What a kernel thread does on its own *)
Worker(w) == Look(w) \/ StartTask(w) \/ StartFails(w) \/ StartRun(w) \/ Collect(w) \/ Wakes(w) \/ AwaitChild(w)

(* What a routine may do, or not *)
Routine(w) == Yields(w) \/ Sleeps(w) \/ Spawn(w) \/ CallJoin(w)

Next == \/ Main
        \/ \E c \in Clients : Client(c)
        \/ \E w \in Workers : Worker(w) \/ Routine(w) \/ SpuriousWakeup(w) \/ Returns(w)

Spec == Init /\ [][Next]_vars

(* Kernel threads are scheduled, sleepers become due, and of the routines  *)
(* that get the processor again and again one returns some time (so all    *)
(* do).  Nobody has to call anything, but a shutdown that has begun goes   *)
(* on.                                                                     *)
FairSpec == /\ Spec
            /\ WF_vars(Stop \/ Join)
            /\ \A w \in Workers : WF_vars(Worker(w))
            /\ \A w \in Workers : SF_vars(Returns(w))
-----------------------------------------------------------------------------
(* The state is well formed. *)
TypeOK ==
  /\ main \in [at : {"down", "init", "up", "stop", "join"}, n : 0 .. MaxWorkers, created : 0 .. MaxWorkers,
               i : 0 .. MaxWorkers, inits : 0 .. MaxInits, initialized : BOOLEAN]
  /\ next_worker \in 0 .. MaxThreads
  /\ slot \in [Slots -> [used : BOOLEAN, worker : Workers \cup {Nil}, finished : BOOLEAN, joined : BOOLEAN,
                         retval : Slots \cup {Child, Nil}]]
  /\ client \in [Clients -> [at : {"idle", "create", "join"}, slot : Slots \cup {Nil}]]
  /\ worker \in [Workers -> [at : {"none", "top", "asleep", "start", "run", "collect", "end"}, stop : BOOLEAN,
                             queue : Seq(Slots), batch : Seq(Slots),
                             locals : Seq([id : Ids, task : Slots]), i : Nat]]
  /\ sched \in [Workers -> Scheduler(Slots \cup {Child})]
  /\ made \subseteq Slots
  /\ refused \subseteq Slots
  /\ ran \in [Slots -> 0 .. 1]

(* A task that uthread_map_join calls finished has run to its end, and the *)
(* result is its own; only a task whose uthread_create failed is finished  *)
(* with NULL without having run (test.c:47-50).  The exception is real:    *)
(* once a failing uthread_create has taken back a thread_count that it had *)
(* not added (uthread.c:48, 54), the worker loses a thread, or hands its   *)
(* id out again and mixes up two results.                                  *)
ResultsTrue == \A s \in Slots : slot[s].finished =>
  \/ slot[s].retval = s /\ ran[s] = 1
  \/ slot[s].retval = Nil /\ ran[s] = 0 /\ s \in refused
  \/ sched[slot[s].worker].hurt

(* The id that uthread_create returned names its thread until it is        *)
(* joined: it is not handed out again, it can be joined, and the joiner    *)
(* outside of the scheduler, which lets nobody else run, finds it ended    *)
(* (uthread_map.c:152-157).                                                *)
Names(u, id, routine) == /\ id \in 0 .. u.count - 1
                         /\ \A k \in DOMAIN u.free : u.free[k] # id
                         /\ u.thread[id].routine = routine

IdsHold == \A w \in Workers : LET k == worker[w]  u == sched[w] IN ~u.hurt =>
  /\ \A j \in k.i .. Len(k.locals) :
       /\ Names(u, k.locals[j].id, k.locals[j].task) /\ CanJoin(u, k.locals[j].id)
       /\ k.at = "collect" => Ended(u, k.locals[j].id)
  /\ \A id \in Ids : LET t == u.thread[id] IN t.state # "FINISHED" =>
       /\ t.child # Nil => Names(u, t.child, Child) /\ CanJoin(u, t.child)
       /\ t.joins # Nil => Names(u, t.joins, Child)

(* Round robin: while a thread is READY, no other one gets two turns, even *)
(* if threads sleep, wake up, end and are created meanwhile; unless the    *)
(* thread_count that uthread.c:115 searches modulo has been taken back.    *)
Turns == \A w \in Workers : sched[w].unfair => sched[w].hurt

(* A shutdown drops no task: when it returns, every task that was created  *)
(* before it was called has been finished, also one that was queued behind *)
(* a running batch.  (One that is created during the shutdown would be     *)
(* accepted and dropped, uthread_map.c:377-382; CallShutdown excludes it.) *)
Drained == main.at = "down" => \A s \in made : slot[s].finished

(* The array of workers is freed only when no worker thread uses it any    *)
(* more, also after a failure to create one of them.                       *)
WorkersOutlived == main.at = "down" => \A w \in Workers : worker[w].at \in {"none", "end"}

(* Every uthread_map_join and every uthread_map_shutdown returns, if the   *)
(* routines do: whatever the user threads sleep, yield, create or join.    *)
(* The exception is as in ResultsTrue: a thread that a failing             *)
(* uthread_create has pushed out of thread_count (uthread.c:48, 54) never  *)
(* runs again, and who joins it, in a task or in its worker, waits for     *)
(* ever; with the worker, its clients and the shutdown do.                 *)
CallsReturn ==
  /\ \A c \in Clients : []<>(client[c].at # "join" \/ sched[slot[client[c].slot].worker].hurt)
  /\ []<>(main.at \notin {"stop", "join"} \/ \E w \in Workers : sched[w].hurt)
=============================================================================
