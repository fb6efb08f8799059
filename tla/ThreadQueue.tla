----------------------------- MODULE ThreadQueue -----------------------------
(***************************************************************************)
(* The bounded queue of src/task2/task2_2 in its four forms, with the      *)
(* reader, the writer and the monitor thread of queue-threads.c, and main, *)
(* which cancels and joins them:                                           *)
(*   "spin"   a/  a spin lock; a full or empty queue is a failure          *)
(*   "mutex"  e/  the same with a mutex                                    *)
(*   "cond"   f/  a condition variable; a full or empty queue is waited for*)
(*   "sem"    g/  semaphores for free slots, for items and for access      *)
(*                                                                         *)
(* A critical section without a cancellation point is one action.  Threads *)
(* are cancelled at their cancellation points only (deferred type).        *)
(***************************************************************************)
EXTENDS Integers, Sequences

CONSTANTS MaxCount,   \* max_count of queue_init
          Values      \* bound: the writer counts modulo Values

ASSUME CountAssumption == MaxCount \in Nat \ {0}
ASSUME ValuesAssumption == Values \in Nat /\ Values > MaxCount

VARIABLES
  kind,      \* which of the four
  main,      \* where main is
  cancelled, \* threads that main has cancelled
  q,         \* the values in the list, first to last
  writer,    \* where it is, and i, the next value
  reader,    \* where it is, and expected
  monitor,   \* where it is
  lock,      \* who holds lock or queue_access
  slots,     \* available_slots
  items,     \* available_items
  wrong      \* history: has the reader printed ERROR?

vars == <<kind, main, cancelled, q, writer, reader, monitor, lock, slots, items, wrong>>
semVars == <<slots, items>>

Init == /\ kind \in {"spin", "mutex", "cond", "sem"}
        /\ main = "create"
        /\ cancelled = {}
        /\ q = <<>>
        /\ writer = [at |-> "none", n |-> 0]
        /\ reader = [at |-> "none", n |-> 0]
        /\ monitor = "start"
        /\ lock = "free"
        /\ slots = MaxCount
        /\ items = 0
        /\ wrong = FALSE

Trying == kind \in {"spin", "mutex"}
Gone(pc) == pc \in {"none", "end"}
-----------------------------------------------------------------------------
(* main *)

Main(from, to) == main = from /\ main' = to
Threads == UNCHANGED <<kind, q, writer, reader, monitor, lock, semVars, wrong>>

(* e, f, g: first the reader, then the writer; what has been created is   *)
(* cancelled and joined when the rest fails.                              *)
CreateReader == /\ kind # "spin"
                /\ \/ Main("create", "create2") /\ reader' = [reader EXCEPT !.at = "top"]
                   \/ Main("create", "destroy") /\ UNCHANGED reader
                /\ UNCHANGED <<kind, cancelled, q, writer, monitor, lock, semVars, wrong>>

CreateWriter == /\ kind # "spin"
                /\ \/ Main("create2", "sleep") /\ writer' = [writer EXCEPT !.at = "top"]
                   \/ Main("create2", "cancelR") /\ UNCHANGED writer
                /\ UNCHANGED <<kind, cancelled, q, reader, monitor, lock, semVars, wrong>>

(* a: the writer comes first, but the error paths are those of the other  *)
(* order: without a writer an uninitialised thread id is cancelled and    *)
(* joined, and without a reader the queue is destroyed under the writer.  *)
CreateWriterFirst == /\ kind = "spin"
                     /\ \/ Main("create", "create2") /\ writer' = [writer EXCEPT !.at = "top"]
                        \/ Main("create", "destroy") /\ UNCHANGED writer
                        \/ Main("create", "crashed") /\ UNCHANGED writer
                     /\ UNCHANGED <<kind, cancelled, q, reader, monitor, lock, semVars, wrong>>

CreateReaderLast == /\ kind = "spin"
                    /\ \/ Main("create2", "sleep") /\ reader' = [reader EXCEPT !.at = "top"]
                       \/ Main("create2", "destroy") /\ UNCHANGED reader
                    /\ UNCHANGED <<kind, cancelled, q, writer, monitor, lock, semVars, wrong>>

(* CANCEL_AND_JOIN of the reader, then of the writer if there is one *)
Cancel == /\ \/ (Main("sleep", "joinR") \/ Main("cancelR", "joinR")) /\ cancelled' = cancelled \cup {"reader"}
             \/ Main("cancelW", "joinW") /\ cancelled' = cancelled \cup {"writer"}
             \/ Main("destroy", "joinM") /\ cancelled' = cancelled \cup {"monitor"}
          /\ Threads

(* Seeded fault: main forgets the writer. *)
JoinReaderOnly == /\ \/ reader.at = "end" /\ Main("joinR", "destroy")
                     \/ monitor = "end" /\ Main("joinM", "freed")
                  /\ UNCHANGED cancelled /\ Threads

Join == /\ \/ reader.at = "end" /\ Main("joinR", IF writer.at = "none" THEN "destroy" ELSE "cancelW")
           \/ writer.at = "end" /\ Main("joinW", "destroy")
           \/ monitor = "end" /\ Main("joinM", "freed")
        /\ UNCHANGED cancelled /\ Threads

MainStep == CreateReader \/ CreateWriter \/ CreateWriterFirst \/ CreateReaderLast \/ Cancel \/ Join
-----------------------------------------------------------------------------
(* The loops of the writer and of the reader, with pthread_testcancel *)

Write(from, to) == writer.at = from /\ writer' = [writer EXCEPT !.at = to]
Read(from, to) == reader.at = from /\ reader' = [reader EXCEPT !.at = to]
World == UNCHANGED <<kind, main, cancelled, monitor>>

EnterAdd == /\ "writer" \notin cancelled
            /\ Write("top", IF kind = "sem" THEN "slots" ELSE "enter")
            /\ UNCHANGED <<q, reader, lock, semVars, wrong>> /\ World

EndWriter == /\ "writer" \in cancelled
             /\ Write("top", "end")
             /\ UNCHANGED <<q, reader, lock, semVars, wrong>> /\ World

EnterGet == /\ "reader" \notin cancelled
            /\ Read("top", IF kind = "sem" THEN "items" ELSE "enter")
            /\ UNCHANGED <<q, writer, lock, semVars, wrong>> /\ World

EndReader == /\ "reader" \in cancelled
             /\ Read("top", "end")
             /\ UNCHANGED <<q, writer, lock, semVars, wrong>> /\ World

After(n) == (n + 1) % Values

(* The new node is linked, and the writer goes on to its next value. *)
Link(to) == /\ q' = Append(q, writer.n)
            /\ writer' = [at |-> to, n |-> After(writer.n)]

(* The first node is taken out, and its value compared with expected. *)
Unlink(to) == /\ q' = Tail(q)
              /\ reader' = [at |-> to, n |-> After(Head(q))]
              /\ wrong' = (wrong \/ Head(q) # reader.n)
-----------------------------------------------------------------------------
(* a, e: queue_add and queue_get under the lock *)

(* Seeded fault: the room is not checked. *)
TryAddUnbounded == /\ Trying
                   /\ writer.at = "enter"
                   /\ lock = "free"
                   /\ Link("top")
                   /\ UNCHANGED <<reader, lock, semVars, wrong>> /\ World

(* Seeded fault: the writer goes on to the next value when the queue is full. *)
TryAddOnce == /\ Trying
              /\ writer.at = "enter"
              /\ lock = "free"
              /\ q' = IF Len(q) = MaxCount THEN q ELSE Append(q, writer.n)
              /\ writer' = [at |-> "top", n |-> After(writer.n)]
              /\ UNCHANGED <<reader, lock, semVars, wrong>> /\ World

(* A full queue is a failure. *)
TryAdd == /\ Trying
          /\ writer.at = "enter"
          /\ lock = "free"
          /\ IF Len(q) = MaxCount THEN Write("enter", "top") /\ UNCHANGED q ELSE Link("top")
          /\ UNCHANGED <<reader, lock, semVars, wrong>> /\ World

(* printf is a cancellation point: then the lock stays taken. *)
ReportOom == /\ \/ Write("oom", "top") /\ lock' = "free"
                \/ "writer" \in cancelled /\ Write("oom", "end") /\ UNCHANGED lock
             /\ UNCHANGED <<q, reader, semVars, wrong>> /\ World

TryGet == /\ Trying
          /\ reader.at = "enter"
          /\ lock = "free"
          /\ IF q = <<>> THEN Read("enter", "top") /\ UNCHANGED <<q, wrong>> ELSE Unlink("top")
          /\ UNCHANGED <<writer, lock, semVars>> /\ World
-----------------------------------------------------------------------------
(* f: queue_add and queue_get with the condition variable.  From the first *)
(* test to the end, waiting included, cancellation is disabled.            *)

Woken(thread) == IF thread.at = "asleep" THEN [thread EXCEPT !.at = "enter"] ELSE thread

(* Seeded fault: the reader is not told of the new value. *)
WaitAddSilently == /\ kind = "cond"
                   /\ writer.at = "enter"
                   /\ lock = "free"
                   /\ IF Len(q) = MaxCount THEN Write("enter", "asleep") /\ UNCHANGED q ELSE Link("top")
                   /\ UNCHANGED <<reader, lock, semVars, wrong>> /\ World

WaitAdd == /\ kind = "cond"
           /\ writer.at = "enter"
           /\ lock = "free"
           /\ IF Len(q) = MaxCount THEN Write("enter", "asleep") /\ UNCHANGED <<q, reader>>
              ELSE Link("top") /\ reader' = Woken(reader)
           /\ UNCHANGED <<lock, semVars, wrong>> /\ World

WaitGet == /\ kind = "cond"
           /\ reader.at = "enter"
           /\ lock = "free"
           /\ IF q = <<>> THEN Read("enter", "asleep") /\ UNCHANGED <<q, writer, wrong>>
              ELSE Unlink("top") /\ writer' = Woken(writer)
           /\ UNCHANGED <<lock, semVars>> /\ World

SpuriousWakeup == /\ \/ Write("asleep", "enter") /\ UNCHANGED reader
                     \/ Read("asleep", "enter") /\ UNCHANGED writer
                  /\ UNCHANGED <<q, lock, semVars, wrong>> /\ World
-----------------------------------------------------------------------------
(* g: queue_add and queue_get with semaphores.  sem_wait is a cancellation *)
(* point; after the first one cancellation is disabled.                    *)

(* Seeded fault: cancellation stays enabled after the slot is taken. *)
CancelledWithSlot == /\ kind = "sem"
                     /\ \/ slots > 0 /\ Write("slots", "access") /\ slots' = slots - 1
                        \/ "writer" \in cancelled /\ Write("access", "end") /\ UNCHANGED slots
                     /\ UNCHANGED <<q, reader, lock, items, wrong>> /\ World

TakeSlot == /\ \/ slots > 0 /\ Write("slots", "access") /\ slots' = slots - 1
               \/ "writer" \in cancelled /\ Write("slots", "end") /\ UNCHANGED slots
            /\ UNCHANGED <<q, reader, lock, items, wrong>> /\ World

SemAdd == /\ writer.at = "access"
          /\ lock = "free"
          /\ Link("post")
          /\ UNCHANGED <<reader, lock, semVars, wrong>> /\ World

PostItem == /\ Write("post", "top")
            /\ items' = items + 1
            /\ UNCHANGED <<q, reader, lock, slots, wrong>> /\ World

TakeItem == /\ \/ items > 0 /\ Read("items", "access") /\ items' = items - 1
               \/ "reader" \in cancelled /\ Read("items", "end") /\ UNCHANGED items
            /\ UNCHANGED <<q, writer, lock, slots, wrong>> /\ World

SemGet == /\ reader.at = "access"
          /\ lock = "free"
          /\ q # <<>>          \* the other branch: see TokensKept
          /\ Unlink("post")
          /\ UNCHANGED <<writer, lock, semVars>> /\ World

PostSlot == /\ Read("post", "top")
            /\ slots' = slots + 1
            /\ UNCHANGED <<q, writer, lock, items, wrong>> /\ World
-----------------------------------------------------------------------------
(* malloc fails in queue_add, when there is room.  a, e: printf reports it *)
(* while the lock is held; f: with cancellation disabled; g: the slot is   *)
(* given back.                                                             *)
OutOfMemory == /\ lock = "free"
               /\ \/ /\ Trying /\ Len(q) # MaxCount
                     /\ Write("enter", "oom") /\ lock' = "writer" /\ UNCHANGED slots
                  \/ /\ kind = "cond" /\ Len(q) # MaxCount
                     /\ Write("enter", "top") /\ UNCHANGED <<lock, slots>>
                  \/ Write("access", "top") /\ slots' = slots + 1 /\ UNCHANGED lock
               /\ UNCHANGED <<q, reader, items, wrong>> /\ World
-----------------------------------------------------------------------------
(* qmonitor *)

Watch == UNCHANGED <<kind, main, cancelled, q, writer, reader, semVars, wrong>>
Monitor(from, to) == monitor = from /\ monitor' = to

(* The first printf is a cancellation point. *)
MonitorStart == /\ \/ Monitor("start", IF kind = "cond" THEN "sleep" ELSE "want")
                   \/ "monitor" \in cancelled /\ Monitor("start", "end")
                /\ UNCHANGED lock
                /\ Watch

(* a, e, g: it locks, prints (a cancellation point), unlocks, sleeps.      *)
MonitorLock == /\ \/ lock = "free" /\ Monitor("want", "print") /\ lock' = "monitor"
                  \/ kind = "sem" /\ "monitor" \in cancelled /\ Monitor("want", "end") /\ UNCHANGED lock
               /\ Watch

MonitorPrint == /\ \/ Monitor("print", "sleep") /\ lock' = "free"
                   \/ "monitor" \in cancelled /\ Monitor("print", "end") /\ UNCHANGED lock
                /\ Watch

(* f: it sleeps in pthread_cond_timedwait and prints under the lock; when  *)
(* cancelled, it takes the mutex again and ends with it.                   *)
MonitorSleep == /\ monitor = "sleep"
                /\ IF "monitor" \in cancelled
                     THEN /\ monitor' = "end"
                          /\ IF kind = "cond" THEN lock = "free" /\ lock' = "monitor" ELSE UNCHANGED lock
                     ELSE kind # "cond" /\ monitor' = "want" /\ UNCHANGED lock
                /\ Watch
-----------------------------------------------------------------------------
Adding == TryAdd \/ WaitAdd \/ SemAdd
Writing == EnterAdd \/ EndWriter \/ ReportOom \/ TakeSlot \/ PostItem
Reading == EnterGet \/ EndReader \/ TryGet \/ WaitGet \/ TakeItem \/ SemGet \/ PostSlot
Monitoring == MonitorStart \/ MonitorLock \/ MonitorPrint \/ MonitorSleep

(* When main returns or crashes, the process ends. *)
Next == /\ main \notin {"freed", "crashed"}
        /\ MainStep \/ Adding \/ OutOfMemory \/ Writing \/ Reading \/ Monitoring \/ SpuriousWakeup

Spec == Init /\ [][Next]_vars

(* Every thread is scheduled, one that waits for a lock or a semaphore has *)
(* it some time when it is free again and again, and malloc does not fail  *)
(* for ever.  Nothing is assumed of spurious wakeups.                      *)
FairSpec == /\ Spec
            /\ WF_vars(MainStep)
            /\ SF_vars(Adding)
            /\ SF_vars(Writing)
            /\ SF_vars(Reading)
            /\ SF_vars(Monitoring)
-----------------------------------------------------------------------------
(* The state is well formed, and the queue never holds more than max_count. *)
TypeOK == /\ kind \in {"spin", "mutex", "cond", "sem"}
          /\ main \in {"create", "create2", "sleep", "cancelR", "joinR", "cancelW", "joinW",
                       "destroy", "joinM", "freed", "crashed"}
          /\ cancelled \subseteq {"reader", "writer", "monitor"}
          /\ q \in Seq(0 .. Values - 1) /\ Len(q) <= MaxCount
          /\ writer \in [at : {"none", "top", "enter", "oom", "asleep", "slots", "access", "post", "end"},
                         n : 0 .. Values - 1]
          /\ reader \in [at : {"none", "top", "enter", "asleep", "items", "access", "post", "end"},
                         n : 0 .. Values - 1]
          /\ monitor \in {"start", "want", "print", "sleep", "end"}
          /\ lock \in {"free", "writer", "monitor"}
          /\ slots \in 0 .. MaxCount
          /\ items \in 0 .. MaxCount
          /\ wrong \in BOOLEAN

(* The reader gets the writer's values in order, none lost and none twice, *)
(* whatever fails and whoever is cancelled: the "ERROR: get value is" line *)
(* of reader is never printed, and the queue holds exactly the values from *)
(* the one expected to the last one added.                                 *)
InOrder == /\ ~wrong
           /\ \A k \in 1 .. Len(q) : q[k] = (reader.n + k - 1) % Values
           /\ writer.n = (reader.n + Len(q)) % Values

(* g: every slot is free, or held by a value, or in the hands of a thread  *)
(* between its two semaphores, and a cancelled thread never takes one with *)
(* it; likewise for the items.  The reader that has an item therefore      *)
(* finds a value: the branch "invariants broken" of queue_get is dead.     *)
At(thread, pc) == IF thread.at = pc THEN 1 ELSE 0
TokensKept == kind = "sem" =>
  /\ slots + Len(q) + At(writer, "access") + At(reader, "post") = MaxCount
  /\ items + At(writer, "post") + At(reader, "access") = Len(q)

(* f: one condition variable serves both sides, and the waits have no      *)
(* timeout: nobody sleeps on when what it waits for has come.              *)
NoLostWakeup == kind = "cond" => /\ writer.at = "asleep" => Len(q) = MaxCount
                                 /\ reader.at = "asleep" => q = <<>>

(* The queue and its lock are freed only when no thread can use them any   *)
(* more.  The exception is a real one: main of a/ destroys the queue under *)
(* the running writer when the reader cannot be created.                   *)
UnusedWhenFreed == main = "freed" =>
  /\ monitor = "end"
  /\ Gone(reader.at)
  /\ Gone(writer.at) \/ (kind = "spin" /\ reader.at = "none")

(* The program ends, except in the ways it really hangs: f, the reader     *)
(* sleeps uncancellably when there is no writer, or the writer when main   *)
(* has joined the reader; a, e, the writer was cancelled in the printf of  *)
(* queue_add and took the lock with it.                                    *)
Hung == \/ kind = "cond" /\ main = "joinR" /\ reader.at = "asleep" /\ writer.at = "none"
        \/ kind = "cond" /\ main = "joinW" /\ writer.at = "asleep"
        \/ Trying /\ main = "joinM" /\ lock = "writer" /\ writer.at = "end"
MainEnds == main = "create" ~> (main \in {"freed", "crashed"} \/ Hung)
=============================================================================
