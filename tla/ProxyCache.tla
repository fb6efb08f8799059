----------------------------- MODULE ProxyCache -----------------------------
(***************************************************************************)
(* The life of a cache entry in the HTTP proxy src/task3/task3_3: how the  *)
(* event loop, the downloader threads and the garbage collector create,    *)
(* share, fill, count references to and drop the entries of the cache.     *)
(*                                                                         *)
(* An action is one critical section of the code (of the cache mutex, an   *)
(* entry mutex, the dirty queue or the task queue) with the local          *)
(* computation around it; the callbacks of the event loop and the steps of *)
(* the worker threads interleave between them.  What a client receives is  *)
(* the subject of module Delivery, shutting down that of module Shutdown.  *)
(***************************************************************************)
EXTENDS Integers, Sequences, FiniteSets, SequencesExt, FiniteSetsExt

CONSTANTS
  Keys,           \* cache keys, host:port/path
  Sessions,       \* slots of client connections; a closed one is used again
  Workers,        \* downloader threads, DOWNLOADER_THREAD_COUNT in the code
  Entries,        \* bound: addresses for CacheEntry structures; freed ones are used again
  NoEntry,        \* the NULL entry
  NoSession,      \* no session
  MaxSize,        \* g_cache.max_size, in chunks (every chunk has size 1)
  MaxChunks,      \* bound: chunks of a response
  TaskSlots,      \* DOWNLOADER_QUEUE_SIZE
  DirtySlots,     \* DIRTY_QUEUE_MAX
  StoreOutcomes,  \* what allocations may meet: "ok", "malloc" fails, "realloc" fails
  WaitMayFail     \* may pthread_cond_timedwait fail otherwise than by ETIMEDOUT?

ASSUME NoEntryAssumption   == NoEntry \notin Entries /\ NoSession \notin Sessions
ASSUME SizesAssumption     == /\ MaxSize \in Nat \ {0}
                              /\ MaxChunks \in Nat
                              /\ TaskSlots \in Nat \ {0}
                              /\ DirtySlots \in Nat \ {0}
ASSUME OutcomesAssumption  == StoreOutcomes \subseteq {"ok", "malloc", "realloc"}
ASSUME WaitAssumption      == WaitMayFail \in BOOLEAN
ASSUME FiniteAssumption    == IsFiniteSet(Sessions) /\ IsFiniteSet(Workers)

VARIABLES
  heap,     \* the CacheEntry at each address
  lru,      \* the entries of the map, most recently used first
  current,  \* g_cache.current_size
  sess,     \* the client sessions
  loop,     \* where the event loop thread is inside a callback
  batch,    \* dirty entries the running async_callback has not treated yet
  tasks,    \* the task queue of the downloader
  work,     \* the downloader threads
  dirty,    \* the dirty queue (a set: dirty_enqueue skips duplicates)
  gc        \* the garbage collector thread

vars == <<heap, lru, current, sess, loop, batch, tasks, work, dirty, gc>>
-----------------------------------------------------------------------------
(* Entries *)

(* lapse is history: why running says TRUE although nobody downloads.     *)
Free == [key |-> NoEntry, refs |-> 0, running |-> FALSE, ready |-> FALSE,
         completed |-> FALSE, noCache |-> FALSE, bytes |-> 0, subs |-> {}, lapse |-> "no"]

(* A new entry: one reference of the map, one of the caller of lookup. *)
Fresh(k) == [Free EXCEPT !.key = k, !.refs = 2]

Acquire(h, e) == [h EXCEPT ![e].refs = @ + 1]

(* Dropping the last reference frees the entry and forgets its subscribers. *)
Release(h, e) == [h EXCEPT ![e] = IF h[e].refs = 1 THEN Free ELSE [h[e] EXCEPT !.refs = @ - 1]]

Failed(h, e) == [h EXCEPT ![e].noCache = TRUE, ![e].ready = TRUE, ![e].completed = TRUE]

InMap(e) == e \in ToSet(lru)

(* current_size is reduced, but not below zero. *)
Without(size) == IF current >= size THEN current - size ELSE 0

CanDelete(e) == heap[e].completed /\ ~heap[e].running /\ heap[e].subs = {}

Idle == [at |-> "idle", s |-> NoSession, e |-> NoEntry]
Rest == [at |-> "idle", e |-> NoEntry, n |-> 0]

Init == /\ heap = [e \in Entries |-> Free]
        /\ lru = <<>>
        /\ current = 0
        /\ sess = [s \in Sessions |-> [st |-> "none", e |-> NoEntry]]
        /\ loop = Idle
        /\ batch = {}
        /\ tasks = <<>>
        /\ work = [w \in Workers |-> Rest]
        /\ dirty = {}
        /\ gc = [at |-> "wait", requested |-> FALSE]
-----------------------------------------------------------------------------
(* The event loop: requests *)

Accept(s) == /\ loop.at = "idle"
             /\ sess[s].st = "none"
             /\ sess' = [sess EXCEPT ![s].st = "recv"]
             /\ UNCHANGED <<heap, lru, current, loop, batch, tasks, work, dirty, gc>>

(* The client closes, or sends something that is no GET request with a    *)
(* Host header: the read watcher stops and the session stays as it is.    *)
ReadFails(s) == /\ loop.at = "idle"
                /\ sess[s].st = "recv"
                /\ sess' = [sess EXCEPT ![s].st = "dead"]
                /\ UNCHANGED <<heap, lru, current, loop, batch, tasks, work, dirty, gc>>

(* Seeded fault: a lookup that always creates. *)
CreateAlways(s, k) ==
  /\ loop.at = "idle"
  /\ sess[s].st = "recv"
  /\ \E e \in Entries :
        /\ heap[e].refs = 0
        /\ heap' = [heap EXCEPT ![e] = Fresh(k)]
        /\ lru' = <<e>> \o lru
        /\ loop' = [at |-> "attach", s |-> s, e |-> e]
  /\ UNCHANGED <<current, sess, batch, tasks, work, dirty, gc>>

(* cache_lookup_or_create under the cache mutex. *)
Lookup(s, k) ==
  /\ loop.at = "idle"
  /\ sess[s].st = "recv"
  /\ \/ \E e \in Entries :
          /\ InMap(e) /\ heap[e].key = k
          /\ heap' = Acquire(heap, e)
          /\ lru' = <<e>> \o RemoveFirst(lru, e)
          /\ loop' = [at |-> "attach", s |-> s, e |-> e]
          /\ UNCHANGED sess
     \/ /\ \A e \in Entries : InMap(e) => heap[e].key # k
        /\ \/ \E e \in Entries :
                /\ heap[e].refs = 0
                /\ heap' = [heap EXCEPT ![e] = Fresh(k)]
                /\ lru' = <<e>> \o lru
                /\ loop' = [at |-> "attach", s |-> s, e |-> e]
                /\ UNCHANGED sess
           \/ /\ \A e \in Entries : heap[e].refs # 0      \* no memory for an entry
              /\ sess' = [sess EXCEPT ![s].st = "dead"]
              /\ UNCHANGED <<heap, lru, loop>>
  /\ UNCHANGED <<current, batch, tasks, work, dirty, gc>>

(* session_attach_entry: the session takes over the reference, unless     *)
(* there is no memory for the subscription.                               *)
Attach == /\ loop.at = "attach"
          /\ \/ /\ heap' = [heap EXCEPT ![loop.e].subs = @ \cup {loop.s}]
                /\ sess' = [sess EXCEPT ![loop.s].e = loop.e]
                /\ loop' = [loop EXCEPT !.at = "check"]
             \/ /\ "malloc" \in StoreOutcomes
                /\ heap' = Release(heap, loop.e)
                /\ sess' = [sess EXCEPT ![loop.s].st = "dead"]
                /\ loop' = Idle
          /\ UNCHANGED <<lru, current, batch, tasks, work, dirty, gc>>

Streaming == /\ sess' = [sess EXCEPT ![loop.s].st = "stream"]
             /\ loop' = Idle

(* Seeded fault: only a completed entry is not downloaded again. *)
CheckCompleted ==
  /\ loop.at = "check"
  /\ IF heap[loop.e].completed
       THEN Streaming /\ UNCHANGED <<heap, tasks>>
       ELSE /\ loop' = [loop EXCEPT !.at = "mark"]
            /\ IF Len(tasks) < TaskSlots
                 THEN tasks' = Append(tasks, loop.e) /\ heap' = Acquire(heap, loop.e)
                 ELSE UNCHANGED <<heap, tasks>>
            /\ UNCHANGED sess
  /\ UNCHANGED <<lru, current, batch, work, dirty, gc>>

(* Is somebody downloading?  The two flags are read without the entry     *)
(* mutex; completed only ever rises, so one atomic read is as good.  If   *)
(* not, downloader_enqueue adds a task with a reference of its own, or    *)
(* finds the queue full; either way the flag is set afterwards.           *)
CheckDownload ==
  /\ loop.at = "check"
  /\ IF heap[loop.e].running \/ heap[loop.e].completed
       THEN Streaming /\ UNCHANGED <<heap, tasks>>
       ELSE /\ loop' = [loop EXCEPT !.at = "mark"]
            /\ IF Len(tasks) < TaskSlots
                 THEN tasks' = Append(tasks, loop.e) /\ heap' = Acquire(heap, loop.e)
                 ELSE heap' = [heap EXCEPT ![loop.e].lapse = "refused"] /\ UNCHANGED tasks
            /\ UNCHANGED sess
  /\ UNCHANGED <<lru, current, batch, work, dirty, gc>>

MarkRunning == /\ loop.at = "mark"
               /\ heap' = [heap EXCEPT ![loop.e].running = TRUE,
                                       ![loop.e].lapse = IF heap[loop.e].completed THEN "late" ELSE @]
               /\ Streaming
               /\ UNCHANGED <<lru, current, batch, tasks, work, dirty, gc>>
-----------------------------------------------------------------------------
(* The event loop: the end of a session *)

(* client_write_callback ends the session, because everything is sent or  *)
(* because the client is gone, and session_free starts to detach it.      *)
Leave(s) == LET e == sess[s].e IN
  /\ loop.at = "idle"
  /\ sess[s].st = "stream"
  /\ heap[e].ready
  /\ heap' = [heap EXCEPT ![e].subs = @ \ {s}]
  /\ sess' = [sess EXCEPT ![s] = [st |-> "none", e |-> NoEntry]]
  /\ loop' = [at |-> "decide", s |-> NoSession, e |-> e]
  /\ UNCHANGED <<lru, current, batch, tasks, work, dirty, gc>>

(* A session that cannot send its header is stopped, but not ended: it    *)
(* remains subscribed and keeps its reference.                            *)
HeaderFails(s) == /\ loop.at = "idle"
                  /\ sess[s].st = "stream"
                  /\ heap[sess[s].e].ready
                  /\ sess' = [sess EXCEPT ![s].st = "dead"]
                  /\ UNCHANGED <<heap, lru, current, loop, batch, tasks, work, dirty, gc>>

(* An answer that must not be cached goes with its last subscriber. *)
Decide == /\ loop.at = "decide"
          /\ LET h == heap[loop.e] IN
             loop' = [loop EXCEPT !.at = IF h.noCache /\ h.completed /\ h.subs = {}
                                           THEN "remove" ELSE "release"]
          /\ UNCHANGED <<heap, lru, current, sess, batch, tasks, work, dirty, gc>>

(* cache_remove_entry: unlink, give the space back, drop the map's reference. *)
RemoveEntry == /\ loop.at = "remove"
               /\ lru' = RemoveFirst(lru, loop.e)
               /\ current' = Without(heap[loop.e].bytes)
               /\ heap' = Release(heap, loop.e)
               /\ loop' = [loop EXCEPT !.at = "release"]
               /\ UNCHANGED <<sess, batch, tasks, work, dirty, gc>>

(* The reference that the session held. *)
LetGo == /\ loop.at = "release"
         /\ heap' = Release(heap, loop.e)
         /\ loop' = Idle
         /\ UNCHANGED <<lru, current, sess, batch, tasks, work, dirty, gc>>
-----------------------------------------------------------------------------
(* The event loop: async_callback *)

TakeDirty == /\ loop.at = "idle"
             /\ dirty # {}
             /\ batch' = dirty
             /\ dirty' = {}
             /\ loop' = [Idle EXCEPT !.at = "wake"]
             /\ UNCHANGED <<heap, lru, current, sess, tasks, work, gc>>

(* An entry without subscribers is skipped before its reference is        *)
(* dropped, and so is one whose subscribers cannot be copied.             *)
Wake(e) == /\ loop.at = "wake"
           /\ e \in batch
           /\ \/ heap' = IF heap[e].subs = {} THEN heap ELSE Release(heap, e)
              \/ "malloc" \in StoreOutcomes /\ UNCHANGED heap
           /\ batch' = batch \ {e}
           /\ loop' = IF batch = {e} THEN Idle ELSE loop
           /\ UNCHANGED <<lru, current, sess, tasks, work, dirty, gc>>
-----------------------------------------------------------------------------
(* A downloader thread *)

At(w, from, to) == work[w].at = from /\ work' = [work EXCEPT ![w].at = to]

Dequeue(w) == /\ work[w].at = "idle"
              /\ tasks # <<>>
              /\ work' = [work EXCEPT ![w] = [at |-> "start", e |-> Head(tasks), n |-> 0]]
              /\ tasks' = Tail(tasks)
              /\ UNCHANGED <<heap, lru, current, sess, loop, batch, dirty, gc>>

Start(w) == /\ At(w, "start", "connect")
            /\ heap' = [heap EXCEPT ![work[w].e].running = TRUE]
            /\ UNCHANGED <<lru, current, sess, loop, batch, tasks, dirty, gc>>

(* Resolving, connecting, sending the request, receiving: each may fail, *)
(* and so may an answer that is cut short or larger than the cache.      *)
Fail(w) == /\ work[w].at \in {"connect", "recv"}
           /\ work' = [work EXCEPT ![w].at = "stop", ![w].n = 0]
           /\ heap' = Failed(heap, work[w].e)
           /\ UNCHANGED <<lru, current, sess, loop, batch, tasks, dirty, gc>>

(* The header of the answer: only status 200 may be cached.  What came   *)
(* along behind the header is the first chunk.  A header that is too     *)
(* long is given up and counts as 200.                                   *)
ReceiveHeader(w) ==
  /\ \E next \in {"append", "dirty", "recv"}, ok \in BOOLEAN :
        /\ next = "recv" => ok
        /\ At(w, "connect", next)
        /\ heap' = [heap EXCEPT ![work[w].e].ready = TRUE, ![work[w].e].noCache = ~ok]
  /\ UNCHANGED <<lru, current, sess, loop, batch, tasks, dirty, gc>>

ReceiveData(w) == /\ work[w].n < MaxChunks
                  /\ At(w, "recv", "append")
                  /\ UNCHANGED <<heap, lru, current, sess, loop, batch, tasks, dirty, gc>>

(* A cached answer that outgrows the whole cache is given up. *)
TooLarge(w) == ~heap[work[w].e].noCache /\ work[w].n + 1 > MaxSize

(* Seeded fault: the new chunk is left out of the test for space. *)
ReserveBlindly(w) == LET h == heap[work[w].e] IN
  /\ work[w].at = "append"
  /\ ~TooLarge(w)
  /\ h.noCache \/ current <= MaxSize
  /\ work' = [work EXCEPT ![w].at = "store"]
  /\ current' = IF h.noCache THEN current ELSE current + 1
  /\ UNCHANGED <<heap, lru, sess, loop, batch, tasks, dirty, gc>>

(* cache_append_chunk, first half: wait for space and reserve it.  While  *)
(* there is none, the collector is asked every time the wait times out.   *)
Reserve(w) == LET h == heap[work[w].e] IN
  /\ work[w].at = "append"
  /\ \/ /\ TooLarge(w)
        /\ work' = [work EXCEPT ![w].at = "stop", ![w].n = 0]
        /\ heap' = Failed(heap, work[w].e)
        /\ UNCHANGED current
     \/ /\ ~TooLarge(w)
        /\ h.noCache \/ current + 1 <= MaxSize \/ WaitMayFail
        /\ work' = [work EXCEPT ![w].at = "store"]
        /\ current' = IF h.noCache THEN current ELSE current + 1
        /\ UNCHANGED heap
  /\ UNCHANGED <<lru, sess, loop, batch, tasks, dirty, gc>>

Pressure(w) == /\ work[w].at = "append"
               /\ ~heap[work[w].e].noCache /\ ~TooLarge(w)
               /\ current + 1 > MaxSize
               /\ gc' = [gc EXCEPT !.requested = TRUE]
               /\ UNCHANGED <<heap, lru, current, sess, loop, batch, tasks, work, dirty>>

(* cache_append_chunk, second half: store the chunk, or fail.  A failed   *)
(* malloc gives the reserved space back, a failed realloc does not.       *)
Store(w) == LET e == work[w].e
                counted == IF heap[e].noCache THEN 0 ELSE 1 IN
  /\ work[w].at = "store"
  /\ \E outcome \in StoreOutcomes :
        IF outcome = "ok"
          THEN /\ heap' = [heap EXCEPT ![e].bytes = @ + counted]
               /\ work' = [work EXCEPT ![w].at = "dirty", ![w].n = @ + 1]
               /\ UNCHANGED current
          ELSE /\ heap' = Failed(heap, e)
               /\ work' = [work EXCEPT ![w].at = "stop", ![w].n = 0]
               /\ current' = IF outcome = "malloc" THEN current - counted ELSE current
  /\ UNCHANGED <<lru, sess, loop, batch, tasks, dirty, gc>>

(* Seeded fault: the dirty queue takes no reference. *)
EnqueueUncounted(e) == /\ dirty' = IF Cardinality(dirty) >= DirtySlots THEN dirty ELSE dirty \cup {e}
                       /\ UNCHANGED heap

(* dirty_enqueue: a queued entry is not queued twice, a full queue takes none. *)
Enqueue(e) == IF e \in dirty \/ Cardinality(dirty) >= DirtySlots
                THEN UNCHANGED <<dirty, heap>>
                ELSE dirty' = dirty \cup {e} /\ heap' = Acquire(heap, e)

MarkDirty(w) == /\ At(w, "dirty", "recv")
                /\ Enqueue(work[w].e)
                /\ UNCHANGED <<lru, current, sess, loop, batch, tasks, gc>>

(* The origin closes after the whole answer. *)
Complete(w) == /\ work[w].at = "recv"
               /\ work' = [work EXCEPT ![w].at = "stop", ![w].n = 0]
               /\ heap' = [heap EXCEPT ![work[w].e].completed = TRUE]
               /\ UNCHANGED <<lru, current, sess, loop, batch, tasks, dirty, gc>>

Stop(w) == /\ At(w, "stop", "last")
           /\ heap' = [heap EXCEPT ![work[w].e].running = FALSE, ![work[w].e].lapse = "no"]
           /\ UNCHANGED <<lru, current, sess, loop, batch, tasks, dirty, gc>>

(* The last dirty_enqueue, and the reference that the task held is dropped. *)
Finish(w) == LET e == work[w].e IN
  /\ work[w].at = "last"
  /\ IF e \in dirty \/ Cardinality(dirty) >= DirtySlots
       THEN heap' = Release(heap, e) /\ UNCHANGED dirty
       ELSE dirty' = dirty \cup {e} /\ UNCHANGED heap
  /\ work' = [work EXCEPT ![w] = Rest]
  /\ UNCHANGED <<lru, current, sess, loop, batch, tasks, gc>>
-----------------------------------------------------------------------------
(* The garbage collector thread *)

GcWake == /\ gc = [at |-> "wait", requested |-> TRUE]
          /\ gc' = [at |-> "trim", requested |-> FALSE]
          /\ UNCHANGED <<heap, lru, current, sess, loop, batch, tasks, work, dirty>>

(* One turn of the loop of cache_trim_to_max: above max_size, the entry   *)
(* nearest to the tail of the LRU list that can be deleted goes.  (That   *)
(* entry_can_delete skips an entry whose mutex is taken is left out.)     *)
GcTrim == LET deletable == {i \in DOMAIN lru : CanDelete(lru[i])} IN
  /\ gc.at = "trim"
  /\ IF current > MaxSize /\ deletable # {}
       THEN LET e == lru[Max(deletable)] IN
            /\ lru' = RemoveFirst(lru, e)
            /\ current' = Without(heap[e].bytes)
            /\ heap' = Release(heap, e)
            /\ UNCHANGED gc
       ELSE gc' = [gc EXCEPT !.at = "wait"] /\ UNCHANGED <<heap, lru, current>>
  /\ UNCHANGED <<sess, loop, batch, tasks, work, dirty>>
-----------------------------------------------------------------------------
Callback == \/ Attach \/ CheckDownload \/ MarkRunning \/ Decide \/ RemoveEntry \/ LetGo
            \/ TakeDirty
            \/ \E e \in Entries : Wake(e)

Download(w) == \/ Dequeue(w) \/ Start(w) \/ Fail(w) \/ ReceiveHeader(w) \/ ReceiveData(w)
               \/ Reserve(w) \/ Store(w) \/ MarkDirty(w) \/ Complete(w) \/ Stop(w)
               \/ Finish(w)

Client(s) == Accept(s) \/ ReadFails(s) \/ Leave(s) \/ HeaderFails(s) \/ \E k \in Keys : Lookup(s, k)

Next == \/ Callback
        \/ \E s \in Sessions : Client(s)
        \/ \E w \in Workers : Download(w) \/ Pressure(w)
        \/ GcWake
        \/ GcTrim

Spec == Init /\ [][Next]_vars

(* Threads and callbacks run, a wait for space is retried, an origin      *)
(* answers (recv ends); clients come and go as they like.                 *)
FairSpec == /\ Spec
            /\ WF_vars(Callback)
            /\ WF_vars(GcWake)
            /\ WF_vars(GcTrim)
            /\ \A w \in Workers : WF_vars(Download(w)) /\ WF_vars(Pressure(w))
-----------------------------------------------------------------------------
(* Properties *)

TypeOK ==
  /\ heap \in [Entries -> [key : Keys \cup {NoEntry}, refs : Nat, running : BOOLEAN,
                           ready : BOOLEAN, completed : BOOLEAN, noCache : BOOLEAN,
                           bytes : Nat, subs : SUBSET Sessions, lapse : {"no", "refused", "late"}]]
  /\ lru \in Seq(Entries)
  /\ current \in Int
  /\ sess \in [Sessions -> [st : {"none", "recv", "stream", "dead"}, e : Entries \cup {NoEntry}]]
  /\ loop \in [at : {"idle", "attach", "check", "mark", "decide", "remove", "release", "wake"},
               s : Sessions \cup {NoSession}, e : Entries \cup {NoEntry}]
  /\ batch \subseteq Entries
  /\ tasks \in Seq(Entries)
  /\ work \in [Workers -> [at : {"idle", "start", "connect", "recv", "append", "store", "dirty",
                                 "stop", "last"},
                           e : Entries \cup {NoEntry}, n : Nat]]
  /\ dirty \subseteq Entries
  /\ gc \in [at : {"wait", "trim"}, requested : BOOLEAN]

(* The references to an entry that somebody will still use. *)
Count(P) == IF P THEN 1 ELSE 0

Attached(e) == {s \in Sessions : sess[s].e = e}
Queued(e) == {i \in DOMAIN tasks : tasks[i] = e}
Working(e) == {w \in Workers : work[w].e = e}
Handled(e) == loop.e = e /\ loop.at \in {"attach", "decide", "remove", "release"}

References(e) == Count(InMap(e)) + Count(e \in dirty) + Count(e \in batch) + Count(Handled(e))
                 + Cardinality(Attached(e)) + Cardinality(Queued(e)) + Cardinality(Working(e))

(* No use after free: an entry is never freed, and its address never      *)
(* reused, while the map, a session, a task, a worker, the dirty queue or *)
(* a callback still points to it (cache.c:285-296).                       *)
RefsCover == \A e \in Entries : heap[e].refs >= References(e)

(* One download per entry: whatever the interleaving of the unlocked test *)
(* of loop.c:454 with the workers, an entry never has two tasks or        *)
(* workers (README.md:6-8), and a client never waits for an answer that   *)
(* nobody downloads, unless the task queue was full.  The flag that keeps *)
(* later clients from starting a download, and the collector from         *)
(* deleting the entry, is left behind only by such a refusal, or when the *)
(* loop sets it after the download has ended.                             *)
Downloads(e) == Cardinality(Queued(e)) + Cardinality(Working(e))

SingleDownload ==
  /\ \A e \in Entries : /\ Downloads(e) <= 1
                        /\ heap[e].running /\ Downloads(e) = 0 => heap[e].lapse # "no"
  /\ \A s \in Sessions :
        LET e == sess[s].e IN
        sess[s].st = "stream" /\ ~heap[e].completed
          => Downloads(e) = 1 \/ heap[e].lapse = "refused"

(* Two clients of one page that is still being downloaded work with the   *)
(* same entry (README.md:60-62), and a key has one entry in the map.      *)
Shared ==
  /\ \A s, t \in Sessions :
        LET e == sess[s].e
            f == sess[t].e IN
        (e # NoEntry /\ f # NoEntry /\ e # f /\ heap[e].key = heap[f].key)
          => heap[e].completed \/ heap[f].completed
  /\ \A i, j \in DOMAIN lru : heap[lru[i]].key = heap[lru[j]].key => i = j

(* current_size counts every stored byte of the map and every reserved    *)
(* one, so subtracting an entry never runs below zero, and it never       *)
(* exceeds max_size (cache.c:398-419, 609-613).                           *)
Stored == MapThenSumSet(LAMBDA e : heap[e].bytes, ToSet(lru))
Reserved == Cardinality({w \in Workers : work[w].at = "store" /\ ~heap[work[w].e].noCache})

SizeCovers == current >= Stored + Reserved /\ (WaitMayFail \/ current <= MaxSize)
-----------------------------------------------------------------------------
(* What the documentation says, and the code does not do *)

(* README.md:26-28: answers other than 200 are not cached.  (An entry of  *)
(* such an answer that nobody uses any more should not be in the map.)    *)
Used(e) == References(e) > Count(InMap(e))

OnlyOkCached == \A e \in Entries :
                  InMap(e) /\ heap[e].completed /\ heap[e].noCache => Used(e)

(* cache.c:254: the map holds one reference while in_map is 1; so an      *)
(* entry nobody points to any more is freed.                              *)
NoOrphan == \A e \in Entries : heap[e].refs > 0 => References(e) > 0

(* README.md:98-101: the cache works on after it has filled up, because a *)
(* collector deletes what is not needed.  (A writer that waits for space   *)
(* while the map holds an entry that may be deleted gets on.)              *)
Deletable == \E e \in Entries : InMap(e) /\ CanDelete(e)

WriterGetsSpace ==
  \A w \in Workers : work[w].at = "append" /\ Deletable ~> work[w].at # "append" \/ ~Deletable
=============================================================================
