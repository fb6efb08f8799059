------------------------- MODULE SingleDownload_proof -------------------------
(***************************************************************************)
(* ProxyCache for any number of pages, clients, downloader threads and     *)
(* addresses: an entry has at most one task or worker, and nobody waits    *)
(* for an answer that is not downloaded unless the task queue refused it;  *)
(* and because of that, the size of the cache covers every stored and      *)
(* every reserved byte.  A sum over a set is defined by recursion, so what *)
(* it adds up to is proved first, by induction over the finite subsets.    *)
(***************************************************************************)
EXTENDS ProxyCache_proof, WellFoundedInduction

Marking(e) == loop.at = "mark" /\ loop.e = e
Waits(e) == Marking(e) \/ \E s \in Sessions : sess[s].st = "stream" /\ sess[s].e = e

(* Who downloads an entry, what its flags say of it, and who waits for it *)
DownloadOf(e) ==
  /\ Downloads(e) <= 1
  /\ Downloads(e) = 1 => heap[e].completed \/ heap[e].running \/ Marking(e)
  /\ heap[e].running /\ Downloads(e) = 0 => heap[e].lapse # "no"
  /\ heap[e].lapse = "late" => heap[e].completed
  /\ Waits(e) => heap[e].completed \/ Downloads(e) = 1 \/ heap[e].lapse = "refused"
  /\ \A w \in Workers : work[w].e = e /\ work[w].at \in {"stop", "last"} => heap[e].completed
  /\ \A w \in Workers : work[w].e = e /\ work[w].at = "last" /\ heap[e].running => heap[e].lapse # "no"

Downloading == \A e \in Entries : DownloadOf(e)

DInv == Inv /\ Downloading
-----------------------------------------------------------------------------
LEMMA Counted ==
  ASSUME TypeOK, NEW e
  PROVE  /\ Downloads(e) \in Nat
         /\ Downloads(e) = Cardinality(Queued(e)) + Cardinality(Working(e))
         /\ Cardinality(Queued(e)) \in Nat /\ Cardinality(Working(e)) \in Nat
         /\ \A w \in Workers : work[w].e = e => Cardinality(Working(e)) >= 1
<1>1. ASSUME NEW w \in Workers, work[w].e = e
      PROVE  Cardinality(Working(e)) >= 1
  <2>1. Working(e) # {}
    BY <1>1 DEF Working
  <2>. QED BY <2>1, Finite
<1>. QED BY <1>1, Finite DEF Downloads

(* Nobody downloads an address that holds no entry, and nobody waits. *)
LEMMA Unused == Inv => \A e \in Entries : heap[e].refs = 0 => Downloads(e) = 0 /\ ~ Waits(e)
<1> SUFFICES ASSUME Inv, NEW e \in Entries, heap[e].refs = 0
             PROVE  Downloads(e) = 0 /\ ~ Waits(e)
  OBVIOUS
<1>1. TypeOK /\ 0 >= References(e)
  BY DEF Inv, RefsCover
<1>2. Cardinality(Queued(e)) = 0 /\ Cardinality(Working(e)) = 0 /\ Cardinality(Attached(e)) = 0
  BY <1>1, Finite DEF References, Count, InMap, Handled
<1>3. Attached(e) = {}
  BY <1>1, <1>2, Finite
<1>4. ~ Waits(e)
  BY <1>3 DEF Waits, Marking, Attached, Inv, Places
<1>. QED BY <1>2, <1>4 DEF Downloads

LEMMA UnusedThen == (Inv => \A e \in Entries : heap[e].refs = 0 => Downloads(e) = 0 /\ ~ Waits(e))'
BY Unused, PTL

(* Most steps leave the flags of an entry alone, free it or create it. *)
SameFlags(e) == /\ heap'[e].running = heap[e].running /\ heap'[e].completed = heap[e].completed
                /\ heap'[e].lapse = heap[e].lapse
Unflagged(e) == /\ heap'[e].running = FALSE /\ heap'[e].completed = FALSE /\ heap'[e].lapse = "no"
                /\ heap[e].refs = 0 \/ heap'[e].refs = 0

LEMMA FlagsKept ==
  ASSUME DInv, Inv', UNCHANGED <<tasks, work>>,
         \A f \in Entries : (Waits(f)' => Waits(f)) /\ (Marking(f) => Marking(f)'),
         \A f \in Entries : SameFlags(f) \/ Unflagged(f)
  PROVE  DInv'
<1> SUFFICES ASSUME NEW f \in Entries PROVE DownloadOf(f)'
  BY DEF DInv, Downloading
<1>1. DownloadOf(f) /\ Downloads(f)' = Downloads(f) /\ Downloads(f) \in Nat
      /\ (Waits(f)' => Waits(f)) /\ (Marking(f) => Marking(f)')
  BY Counted DEF DInv, Inv, Downloading, Downloads, Queued, Working
<1>2. CASE SameFlags(f)
  BY <1>1, <1>2 DEF DownloadOf, SameFlags
<1>3. CASE Unflagged(f)
  <2>1. Downloads(f) = 0 /\ ~ Waits(f)'
    BY <1>1, <1>3, Unused, UnusedThen DEF Unflagged, DInv
  <2>2. \A w \in Workers : work'[w].e # f
    <3>1. TypeOK
      BY DEF DInv, Inv
    <3>2. Cardinality(Working(f)) = 0
      BY <2>1, <3>1, Counted
    <3>3. Working(f) = {}
      BY <3>1, <3>2, Finite
    <3>. QED BY <3>3 DEF Working
  <2>. QED BY <1>1, <1>3, <2>1, <2>2 DEF DownloadOf, Unflagged
<1>. QED BY <1>2, <1>3

(* An entry has one worker. *)
LEMMA OnlyWorker ==
  ASSUME TypeOK, NEW e, Downloads(e) <= 1, NEW v \in Workers, NEW w \in Workers, work[v].e = e, work[w].e = e
  PROVE  v = w
<1> SUFFICES ASSUME v # w PROVE FALSE
  OBVIOUS
<1>1. v \in Working(e) \ {w} /\ w \in Working(e) /\ IsFiniteSet(Working(e))
  BY Finite DEF Working
<1>2. Cardinality(Working(e)) <= 1
  BY Counted
<1>3. Cardinality(Working(e) \ {w}) = Cardinality(Working(e)) - 1 /\ IsFiniteSet(Working(e) \ {w})
  BY <1>1, FS_RemoveElement
<1>4. Cardinality(Working(e) \ {w}) = 0
  BY <1>1, <1>2, <1>3, Finite, FS_CardinalityType
<1>. QED BY <1>1, <1>3, <1>4, FS_EmptySet

(* A worker raises completed before it stops, and takes back what running *)
(* says when it stops.                                                    *)
LEMMA WorkerDownloads ==
  ASSUME DInv, NEW w \in Workers, NEW e \in Entries, work[w].e = e, UNCHANGED <<sess, loop, tasks>>,
         \A v \in Workers : work'[v].e = work[v].e /\ (v # w => work'[v] = work[v]),
         \A f \in Entries : f # e => SameFlags(f),
         heap'[e].completed \/ heap'[e].running \/ Marking(e),
         heap[e].completed => heap'[e].completed,
         heap'[e].lapse = heap[e].lapse \/ heap'[e].lapse = "no",
         work'[w].at \in {"stop", "last"} => heap'[e].completed,
         ~ (work'[w].at = "last" /\ heap'[e].running)
  PROVE  Downloading'
<1> SUFFICES ASSUME NEW f \in Entries PROVE DownloadOf(f)'
  BY DEF Downloading
<1>1. /\ TypeOK /\ DownloadOf(f) /\ Downloads(f)' = Downloads(f) /\ Downloads(f) \in Nat
      /\ (Waits(f)' <=> Waits(f)) /\ (Marking(f)' <=> Marking(f))
  BY Counted DEF DInv, Inv, Downloading, Downloads, Queued, Working, Waits, Marking
<1>2. CASE f # e
  <2>1. SameFlags(f) /\ \A v \in Workers : work'[v].e = f => work'[v] = work[v]
    BY <1>2
  <2>. QED BY <1>1, <2>1 DEF DownloadOf, SameFlags
<1>3. CASE f = e
  <2>1. Downloads(e) = 1
    BY <1>1, <1>3, Counted DEF DownloadOf
  <2>2. \A v \in Workers : work[v].e = e => v = w
    BY <1>1, <2>1, OnlyWorker
  <2>3. heap'[e].lapse = "late" => heap'[e].completed
    BY <1>1, <1>3 DEF DownloadOf
  <2>. QED BY <1>1, <1>3, <2>1, <2>2, <2>3 DEF DownloadOf
<1>. QED BY <1>2, <1>3

LEMMA DownloadSteps ==
  ASSUME DInv, NEW w \in Workers,
         \/ Start(w) \/ Fail(w) \/ ReceiveHeader(w) \/ ReceiveData(w)
         \/ Reserve(w) \/ Store(w) \/ Complete(w) \/ Stop(w)
  PROVE  Downloading'
<1> DEFINE e == work[w].e
<1>1. TypeOK /\ heap \in [Entries -> Entry] /\ work \in [Workers -> Worker]
  BY Types DEF DInv, Inv
<1>2. work[w].at # "idle"
  BY DEF Start, Fail, ReceiveHeader, ReceiveData, Reserve, Store, Complete, Stop, At
<1>3. e \in Entries
  BY <1>1, <1>2 DEF DInv, Inv, Places, Worker
<1>4. UNCHANGED <<sess, loop, tasks>>
  BY DEF Start, Fail, ReceiveHeader, ReceiveData, Reserve, Store, Complete, Stop
<1>5. Downloads(e) = 1 /\ DownloadOf(e)
  BY <1>1, <1>3, Counted DEF DInv, Downloading, DownloadOf
<1>6. heap[e].completed \/ heap[e].running \/ Marking(e)
  BY <1>5 DEF DownloadOf
<1> HIDE DEF e
<1> DEFINE Step == /\ \A v \in Workers : work'[v].e = work[v].e /\ (v # w => work'[v] = work[v])
                   /\ \A f \in Entries : f # e => SameFlags(f)
<1>7. CASE Start(w)
  <2>1. heap' = [heap EXCEPT ![e].running = TRUE] /\ work' = [work EXCEPT ![w].at = "connect"]
    BY <1>7 DEF Start, At, e
  <2>2. heap'[e].running /\ heap'[e].completed = heap[e].completed /\ heap'[e].lapse = heap[e].lapse
    BY <1>1, <1>3, <2>1 DEF Entry
  <2>3. Step /\ work'[w].at = "connect"
    BY <1>1, <2>1 DEF SameFlags, Worker
  <2>. QED BY <1>3, <1>4, <2>2, <2>3, WorkerDownloads DEF e
<1>8. CASE Stop(w)
  <2>1. heap' = [heap EXCEPT ![e].running = FALSE, ![e].lapse = "no"] /\ work' = [work EXCEPT ![w].at = "last"]
        /\ work[w].at = "stop"
    BY <1>8 DEF Stop, At, e
  <2>2. heap[e].completed
    BY <1>5, <2>1 DEF DownloadOf, e
  <2>3. ~ heap'[e].running /\ heap'[e].completed /\ heap'[e].lapse = "no"
    BY <1>1, <1>3, <2>1, <2>2 DEF Entry
  <2>4. Step /\ work'[w].at = "last"
    BY <1>1, <2>1 DEF SameFlags, Worker
  <2>. QED BY <1>3, <1>4, <2>3, <2>4, WorkerDownloads DEF e
<1>9. ASSUME heap' = Failed(heap, e), work' = [work EXCEPT ![w].at = "stop", ![w].n = 0]
      PROVE  Downloading'
  <2>1. heap'[e].completed /\ heap'[e].lapse = heap[e].lapse
    BY <1>1, <1>3, <1>9 DEF Entry, Failed
  <2>2. Step /\ work'[w].at = "stop"
    BY <1>1, <1>9 DEF SameFlags, Worker, Failed
  <2>. QED BY <1>3, <1>4, <2>1, <2>2, WorkerDownloads DEF e
<1>10. ASSUME \A f \in Entries : SameFlags(f), Step, work'[w].at \notin {"stop", "last"}
       PROVE  Downloading'
  <2>1. SameFlags(e)
    BY <1>3, <1>10
  <2>. QED BY <1>3, <1>4, <1>6, <1>10, <2>1, WorkerDownloads DEF e, SameFlags
<1>11. CASE ReceiveHeader(w) \/ ReceiveData(w)
  <2>1. PICK next \in {"append", "dirty", "recv"} : work' = [work EXCEPT ![w].at = next]
    BY <1>11 DEF ReceiveHeader, ReceiveData, At
  <2>2. UNCHANGED heap \/ \E ok \in BOOLEAN : heap' = [heap EXCEPT ![e].ready = TRUE, ![e].noCache = ~ok]
    BY <1>11 DEF ReceiveHeader, ReceiveData, e
  <2>3. \A f \in Entries : SameFlags(f)
    <3>1. CASE UNCHANGED heap
      BY <3>1 DEF SameFlags
    <3>2. ASSUME NEW ok \in BOOLEAN, heap' = [heap EXCEPT ![e].ready = TRUE, ![e].noCache = ~ok]
          PROVE  \A f \in Entries : SameFlags(f)
      BY <1>1, <1>3, <3>2 DEF SameFlags, Entry
    <3>. QED BY <2>2, <3>1, <3>2
  <2>4. Step /\ work'[w].at \notin {"stop", "last"}
    BY <1>1, <2>1, <2>3 DEF Worker
  <2>. QED BY <1>10, <2>3, <2>4
<1>12. CASE Complete(w)
  <2>1. heap' = [heap EXCEPT ![e].completed = TRUE] /\ work' = [work EXCEPT ![w].at = "stop", ![w].n = 0]
    BY <1>12 DEF Complete, e
  <2>2. heap'[e].completed /\ heap'[e].lapse = heap[e].lapse
    BY <1>1, <1>3, <2>1 DEF Entry
  <2>3. Step /\ work'[w].at = "stop"
    BY <1>1, <2>1 DEF SameFlags, Worker
  <2>. QED BY <1>3, <1>4, <2>2, <2>3, WorkerDownloads DEF e
<1>13. CASE Reserve(w)
  <2>1. CASE heap' = Failed(heap, e) /\ work' = [work EXCEPT ![w].at = "stop", ![w].n = 0]
    BY <1>9, <2>1
  <2>2. CASE UNCHANGED heap /\ work' = [work EXCEPT ![w].at = "store"]
    <3>1. (\A f \in Entries : SameFlags(f)) /\ Step /\ work'[w].at = "store"
      BY <1>1, <2>2 DEF SameFlags, Worker
    <3>. QED BY <1>10, <3>1
  <2>. QED BY <1>13, <2>1, <2>2 DEF Reserve, e
<1>14. CASE Store(w)
  <2>1. CASE heap' = Failed(heap, e) /\ work' = [work EXCEPT ![w].at = "stop", ![w].n = 0]
    BY <1>9, <2>1
  <2> DEFINE counted == IF heap[e].noCache THEN 0 ELSE 1
  <2>2. CASE heap' = [heap EXCEPT ![e].bytes = @ + counted] /\ work' = [work EXCEPT ![w].at = "dirty", ![w].n = @ + 1]
    <3> HIDE DEF counted
    <3>1. \A f \in Entries : SameFlags(f)
      BY <1>1, <1>3, <2>2 DEF SameFlags, Entry
    <3>2. Step /\ work'[w].at = "dirty"
      BY <1>1, <2>2, <3>1 DEF Worker
    <3>. QED BY <1>10, <3>1, <3>2
  <2>. QED BY <1>14, <2>1, <2>2 DEF Store, e
<1>15. CASE Fail(w)
  BY <1>9, <1>15 DEF Fail, e
<1>. QED BY <1>7, <1>8, <1>11, <1>12, <1>13, <1>14, <1>15

(* A task becomes a worker, a worker ends: what is said of it while it ends *)
(* is what must hold without it.                                            *)
LEMMA DequeueDownload ==
  ASSUME DInv, Inv', NEW w \in Workers, Dequeue(w)
  PROVE  Downloading'
<1> DEFINE e == Head(tasks)
<1>1. TypeOK /\ tasks \in Seq(Entries) /\ work \in [Workers -> Worker]
  BY Types DEF DInv, Inv
<1>2. /\ tasks # <<>> /\ tasks' = Tail(tasks) /\ work[w].at = "idle"
      /\ work' = [work EXCEPT ![w] = [at |-> "start", e |-> e, n |-> 0]] /\ UNCHANGED <<heap, sess, loop>>
  BY DEF Dequeue
<1>3. work[w].e = NoEntry
  BY <1>2 DEF DInv, Inv, Places
<1>4. work'[w].e = e /\ work'[w].at = "start" /\ \A v \in Workers : v # w => work'[v] = work[v]
  BY <1>1, <1>2
<1> SUFFICES ASSUME NEW f \in Entries PROVE DownloadOf(f)'
  BY DEF Downloading
<1>5. Cardinality(Queued(f)') = Cardinality(Queued(f)) - (IF e = f THEN 1 ELSE 0)
  BY <1>1, <1>2, TaskTaken DEF e
<1>6. Cardinality(Working(f)') = Cardinality(Working(f)) - (IF work[w].e = f THEN 1 ELSE 0)
                                 + (IF work'[w].e = f THEN 1 ELSE 0)
  BY <1>1, <1>4, WorkerMoves
<1>7. work[w].e # f
  BY <1>3, NoEntryAssumption
<1> HIDE DEF e
<1>8. Cardinality(Queued(f)') + Cardinality(Working(f)') = Cardinality(Queued(f)) + Cardinality(Working(f))
  BY <1>1, <1>4, <1>5, <1>6, <1>7, Counted
<1>9. Downloads(f)' = Downloads(f)
  BY <1>8 DEF Downloads
<1>10. DownloadOf(f) /\ (Waits(f)' <=> Waits(f)) /\ (Marking(f)' <=> Marking(f))
  BY <1>2 DEF DInv, Downloading, Waits, Marking
<1>. QED BY <1>2, <1>4, <1>9, <1>10 DEF DownloadOf

LEMMA FinishDownload ==
  ASSUME DInv, Inv', NEW w \in Workers, Finish(w)
  PROVE  Downloading'
<1> DEFINE e == work[w].e
<1>1. TypeOK /\ work \in [Workers -> Worker] /\ heap \in [Entries -> Entry]
  BY Types DEF DInv, Inv
<1>2. /\ work[w].at = "last" /\ work' = [work EXCEPT ![w] = Rest] /\ UNCHANGED <<sess, loop, tasks>>
      /\ heap' = Release(heap, e) \/ UNCHANGED heap
  BY DEF Finish
<1>3. e \in Entries /\ work'[w].e = NoEntry /\ \A v \in Workers : v # w => work'[v] = work[v]
  BY <1>1, <1>2 DEF DInv, Inv, Places, Worker, Rest
<1> SUFFICES ASSUME NEW f \in Entries PROVE DownloadOf(f)'
  BY DEF Downloading
<1>4. Cardinality(Working(f)') = Cardinality(Working(f)) - (IF work[w].e = f THEN 1 ELSE 0)
                                 + (IF work'[w].e = f THEN 1 ELSE 0)
  BY <1>1, <1>3, WorkerMoves
<1>5. work'[w].e # f /\ Queued(f)' = Queued(f)
  BY <1>2, <1>3, NoEntryAssumption DEF Queued
<1> HIDE DEF e
<1>6. Cardinality(Queued(f)') + Cardinality(Working(f)')
        = Cardinality(Queued(f)) + Cardinality(Working(f)) - (IF e = f THEN 1 ELSE 0)
  BY <1>1, <1>4, <1>5, Counted DEF e
<1>7. Downloads(f)' = Downloads(f) - (IF e = f THEN 1 ELSE 0) /\ Downloads(f) \in Nat
  BY <1>1, <1>6, Counted DEF Downloads
<1>8. DownloadOf(f) /\ (Waits(f)' <=> Waits(f)) /\ (Marking(f)' <=> Marking(f))
  BY <1>2 DEF DInv, Downloading, Waits, Marking
<1>9. SameFlags(f) \/ (f = e /\ Unflagged(f))
  BY <1>1, <1>2, <1>3 DEF Release, SameFlags, Unflagged, Free, Entry
<1>10. CASE SameFlags(f) /\ f # e
  BY <1>3, <1>7, <1>8, <1>10, NoEntryAssumption DEF DownloadOf, SameFlags
<1>11. CASE f = e
  <2>1. Downloads(f) = 1 /\ heap[f].completed /\ (heap[f].running => heap[f].lapse # "no")
    BY <1>1, <1>2, <1>3, <1>8, <1>11, Counted DEF DownloadOf, e
  <2>2. Downloads(f)' = 0
    BY <1>7, <1>11, <2>1
  <2>3. \A v \in Workers : work'[v].e # f
    <3>1. \A v \in Workers : work[v].e = f => v = w
      BY <1>1, <1>11, <2>1, OnlyWorker DEF e
    <3>. QED BY <3>1, <1>3, NoEntryAssumption
  <2>4. CASE SameFlags(f)
    BY <1>8, <2>1, <2>2, <2>3, <2>4 DEF DownloadOf, SameFlags
  <2>5. CASE Unflagged(f)
    <3>1. ~ Waits(f)'
      <4>1. heap[f].refs # 0
        BY <2>1, Unused DEF DInv
      <4>. QED BY <2>5, <4>1, UnusedThen DEF Unflagged
    <3>. QED BY <2>2, <2>3, <2>5, <3>1 DEF DownloadOf, Unflagged
  <2>. QED BY <1>9, <2>4, <2>5
<1>. QED BY <1>9, <1>10, <1>11

(* The loop finds nobody downloading: it adds a task, or the queue refuses it. *)
LEMMA CheckDownloads ==
  ASSUME DInv, Inv', CheckDownload
  PROVE  Downloading'
<1> DEFINE e == loop.e
<1>1. /\ TypeOK /\ e \in Entries /\ heap \in [Entries -> Entry] /\ tasks \in Seq(Entries) /\ loop.at = "check"
      /\ loop.s \in Sessions /\ sess[loop.s].e = e /\ loop \in Place /\ sess \in [Sessions -> Session]
  BY Handles, Types DEF CheckDownload, DInv
<1>2. UNCHANGED work
  BY DEF CheckDownload
<1>3. ASSUME NEW f \in Entries
      PROVE  /\ DownloadOf(f) /\ Downloads(f) \in Nat /\ ~ Marking(f) /\ Working(f)' = Working(f)
             /\ Waits(f) => Downloads(f) = 1 \/ heap[f].completed \/ heap[f].lapse = "refused"
  BY <1>1, <1>2, Counted DEF DInv, Downloading, Marking, Working, DownloadOf
<1> SUFFICES ASSUME NEW f \in Entries PROVE DownloadOf(f)'
  BY DEF Downloading
<1>4. CASE (heap[e].running \/ heap[e].completed) /\ Streaming /\ UNCHANGED <<heap, tasks>>
  <2>1. Downloads(f)' = Downloads(f)
    BY <1>2, <1>4 DEF Downloads, Queued, Working
  <2>2. ~ Marking(f)'
    BY <1>4 DEF Streaming, Idle, Marking
  <2>3. Waits(f)' => Waits(f) \/ f = e
    BY <1>1, <1>4 DEF Streaming, Idle, Marking, Waits, Session
  <2>4. f = e /\ ~ heap[f].completed => Downloads(f) = 1 \/ heap[f].lapse = "refused"
    <3> SUFFICES ASSUME f = e, ~ heap[f].completed, Downloads(f) # 1 PROVE heap[f].lapse = "refused"
      OBVIOUS
    <3>1. heap[f].running /\ Downloads(f) = 0 /\ heap[f].lapse \in {"no", "refused", "late"}
      BY <1>1, <1>3, <1>4 DEF DownloadOf, Entry
    <3>. QED BY <1>3, <3>1 DEF DownloadOf
  <2>. QED BY <1>2, <1>3, <1>4, <2>1, <2>2, <2>3, <2>4 DEF DownloadOf
<1>5. CASE ~ heap[e].running /\ ~ heap[e].completed /\ loop' = [loop EXCEPT !.at = "mark"] /\ UNCHANGED sess
  <2>1. loop'.at = "mark" /\ loop'.e = e
    BY <1>1, <1>5 DEF Place
  <2> HIDE DEF e
  <2>2. Downloads(e) = 0
    BY <1>1, <1>3, <1>5 DEF DownloadOf
  <2>3. (Marking(f)' <=> f = e) /\ (Waits(f)' => Waits(f) \/ f = e)
    BY <1>5, <2>1 DEF Marking, Waits
  <2>4. \A w \in Workers : work[w].e # e
    BY <1>1, <2>2, Counted
  <2>5. CASE tasks' = Append(tasks, e) /\ heap' = Acquire(heap, e)
    <3>1. Downloads(f)' = Downloads(f) + (IF f = e THEN 1 ELSE 0)
      <4>1. Cardinality(Queued(f)') = Cardinality(Queued(f)) + (IF e = f THEN 1 ELSE 0)
        BY <1>1, <2>5, TaskAdded
      <4>. QED BY <1>1, <1>3, <4>1, Counted DEF Downloads
    <3>2. SameFlags(f)
      BY <1>1, <2>5 DEF SameFlags, Acquire, Entry
    <3>. QED BY <1>2, <1>3, <1>5, <2>2, <2>3, <2>4, <3>1, <3>2 DEF DownloadOf, SameFlags
  <2>6. CASE heap' = [heap EXCEPT ![e].lapse = "refused"] /\ UNCHANGED tasks
    <3>1. Downloads(f)' = Downloads(f)
      BY <1>2, <2>6 DEF Downloads, Queued, Working
    <3>2. /\ heap'[f].running = heap[f].running /\ heap'[f].completed = heap[f].completed
          /\ heap'[f].lapse = IF f = e THEN "refused" ELSE heap[f].lapse
      BY <1>1, <2>6 DEF Entry
    <3>. QED BY <1>2, <1>3, <1>5, <2>2, <2>3, <2>4, <3>1, <3>2 DEF DownloadOf
  <2>. QED BY <1>5, <2>5, <2>6 DEF CheckDownload, Streaming, e
<1>. QED BY <1>4, <1>5 DEF CheckDownload

(* Setting the flag late leaves it behind, and the history says so. *)
LEMMA MarkRunningDownloads ==
  ASSUME DInv, Inv', MarkRunning
  PROVE  Downloading'
<1> DEFINE e == loop.e
<1>1. /\ TypeOK /\ e \in Entries /\ heap \in [Entries -> Entry] /\ loop.at = "mark"
      /\ loop.s \in Sessions /\ sess[loop.s].e = e /\ loop \in Place /\ sess \in [Sessions -> Session]
  BY Handles DEF MarkRunning, DInv
<1>2. /\ heap' = [heap EXCEPT ![e].running = TRUE, ![e].lapse = IF heap[e].completed THEN "late" ELSE @]
      /\ Streaming /\ UNCHANGED <<tasks, work>>
  BY DEF MarkRunning
<1> SUFFICES ASSUME NEW f \in Entries PROVE DownloadOf(f)'
  BY DEF Downloading
<1>3. DownloadOf(f) /\ Downloads(f) \in Nat /\ Downloads(f)' = Downloads(f) /\ (Marking(f) <=> f = e)
  BY <1>1, <1>2, Counted DEF DInv, Downloading, Marking, Downloads, Queued, Working
<1>4. ~ Marking(f)' /\ (Waits(f)' => Waits(f))
  BY <1>1, <1>2 DEF Streaming, Idle, Marking, Waits, Session
<1> HIDE DEF e
<1>5. CASE f # e
  <2>1. SameFlags(f)
    BY <1>1, <1>2, <1>5 DEF SameFlags
  <2>. QED BY <1>2, <1>3, <1>4, <1>5, <2>1 DEF DownloadOf, SameFlags
<1>6. CASE f = e
  <2>1. /\ heap'[f].running /\ heap'[f].completed = heap[f].completed
        /\ heap'[f].lapse = IF heap[f].completed THEN "late" ELSE heap[f].lapse
    BY <1>1, <1>2, <1>6 DEF Entry
  <2>2. Waits(f)
    BY <1>3, <1>6 DEF Waits
  <2>3. UNCHANGED work
    BY <1>2
  <2>4. CASE heap[f].completed
    BY <1>3, <2>1, <2>3, <2>4 DEF DownloadOf
  <2>5. CASE ~ heap[f].completed
    <3>1. \A w \in Workers : ~ (work'[w].e = f /\ work'[w].at \in {"stop", "last"})
      BY <1>3, <2>3, <2>5 DEF DownloadOf
    <3>2. Downloads(f) = 1 \/ heap[f].lapse = "refused"
      BY <1>3, <2>2, <2>5 DEF DownloadOf
    <3>. QED BY <1>3, <2>1, <2>5, <3>1, <3>2 DEF DownloadOf
  <2>. QED BY <2>4, <2>5
<1>. QED BY <1>5, <1>6

(* Giving up a reference frees the entry or leaves its flags alone. *)
LEMMA Freed ==
  ASSUME TypeOK, NEW e \in Entries, heap' = Release(heap, e)
  PROVE  \A f \in Entries : SameFlags(f) \/ Unflagged(f)
BY Types DEF Release, SameFlags, Unflagged, Free, Entry

(* Every other step leaves the flags alone, frees an entry or creates one, *)
(* and nobody new waits.                                                    *)
LEMMA OtherCallbacks ==
  ASSUME DInv, Inv', Attach \/ Decide \/ RemoveEntry \/ LetGo \/ TakeDirty \/ \E e \in Entries : Wake(e)
  PROVE  DInv'
<1>1. TypeOK /\ heap \in [Entries -> Entry] /\ sess \in [Sessions -> Session] /\ loop \in Place /\ UNCHANGED <<tasks, work>>
  BY Types DEF DInv, Inv, TypeOK, Place, Attach, Decide, RemoveEntry, LetGo, TakeDirty, Wake
<1>2. loop.at # "mark" /\ loop'.at # "mark"
  BY <1>1 DEF Attach, Decide, RemoveEntry, LetGo, TakeDirty, Wake, Idle, Place
<1>3. \A s \in Sessions : sess'[s].st = "stream" => sess[s].st = "stream" /\ sess'[s].e = sess[s].e
  <2>1. CASE Attach
    <3>1. loop.s \in Sessions /\ sess[loop.s].st = "recv"
      BY <2>1, Handles DEF DInv, Attach
    <3>. QED BY <1>1, <2>1, <3>1 DEF Attach, Session
  <2>2. CASE Decide \/ RemoveEntry \/ LetGo \/ TakeDirty \/ \E e \in Entries : Wake(e)
    BY <2>2 DEF Decide, RemoveEntry, LetGo, TakeDirty, Wake
  <2>. QED BY <2>1, <2>2
<1>4. \A f \in Entries : (Waits(f)' => Waits(f)) /\ (Marking(f) => Marking(f)')
  BY <1>2, <1>3 DEF Waits, Marking
<1>5. \A f \in Entries : SameFlags(f) \/ Unflagged(f)
  <2>1. ASSUME NEW e \in Entries, heap' = Release(heap, e)
        PROVE  \A f \in Entries : SameFlags(f) \/ Unflagged(f)
    BY <1>1, <2>1, Freed
  <2>2. CASE UNCHANGED heap
    BY <2>2 DEF SameFlags
  <2>3. CASE Attach
    <3>1. CASE heap' = [heap EXCEPT ![loop.e].subs = @ \cup {loop.s}]
      BY <1>1, <3>1 DEF SameFlags, Entry
    <3>2. CASE heap' = Release(heap, loop.e)
      BY <2>1, <2>3, <3>2, Handles DEF Attach, DInv
    <3>. QED BY <2>3, <3>1, <3>2 DEF Attach
  <2>4. CASE RemoveEntry \/ LetGo
    <3>1. loop.e \in Entries
      BY <2>4, Handles DEF RemoveEntry, LetGo, DInv
    <3>. QED BY <2>1, <2>4, <3>1 DEF RemoveEntry, LetGo
  <2>5. CASE Decide \/ TakeDirty
    BY <2>2, <2>5 DEF Decide, TakeDirty
  <2>6. ASSUME NEW e \in Entries, Wake(e)
        PROVE  \A f \in Entries : SameFlags(f) \/ Unflagged(f)
    BY <2>1, <2>2, <2>6 DEF Wake
  <2>. QED BY <2>3, <2>4, <2>5, <2>6
<1>. QED BY <1>1, <1>4, <1>5, FlagsKept

LEMMA ClientDownloads ==
  ASSUME DInv, Inv', NEW s \in Sessions, Client(s)
  PROVE  DInv'
<1>1. TypeOK /\ heap \in [Entries -> Entry] /\ sess \in [Sessions -> Session]
  BY Types DEF DInv, Inv
<1>2. /\ loop.at = "idle" /\ loop'.at # "mark" /\ UNCHANGED <<tasks, work>>
      /\ \A t \in Sessions : sess'[t].st = "stream" => sess[t].st = "stream" /\ sess'[t].e = sess[t].e
  <2>1. CASE Accept(s) \/ ReadFails(s) \/ HeaderFails(s)
    BY <1>1, <2>1 DEF Accept, ReadFails, HeaderFails, Session
  <2>2. CASE Leave(s)
    BY <1>1, <2>2 DEF Leave, Session
  <2>3. ASSUME NEW k \in Keys, Lookup(s, k)
        PROVE  /\ loop.at = "idle" /\ loop'.at # "mark" /\ UNCHANGED <<tasks, work>>
               /\ \A t \in Sessions : sess'[t].st = "stream" => sess[t].st = "stream" /\ sess'[t].e = sess[t].e
    <3>1. UNCHANGED sess \/ sess' = [sess EXCEPT ![s].st = "dead"]
      BY <2>3 DEF Lookup
    <3>2. \A t \in Sessions : sess'[t].st = "stream" => sess[t].st = "stream" /\ sess'[t].e = sess[t].e
      BY <1>1, <3>1 DEF Session
    <3>3. loop.at = "idle" /\ UNCHANGED <<tasks, work>>
      BY <2>3 DEF Lookup
    <3>4. UNCHANGED loop \/ \E e \in Entries : loop' = [at |-> "attach", s |-> s, e |-> e]
      BY <2>3 DEF Lookup
    <3>5. loop'.at # "mark"
      BY <3>3, <3>4
    <3>. QED BY <3>2, <3>3, <3>5
  <2>. QED BY <2>1, <2>2, <2>3 DEF Client
<1>3. \A f \in Entries : (Waits(f)' => Waits(f)) /\ (Marking(f) => Marking(f)')
  BY <1>1, <1>2 DEF Waits, Marking
<1>4. \A f \in Entries : SameFlags(f) \/ Unflagged(f)
  <2>1. CASE UNCHANGED heap
    BY <2>1 DEF SameFlags
  <2>2. CASE Leave(s)
    <3>1. heap' = [heap EXCEPT ![sess[s].e].subs = @ \ {s}]
      BY <2>2 DEF Leave
    <3>. QED BY <1>1, <3>1 DEF SameFlags, Entry
  <2>3. ASSUME NEW e \in Entries, heap' = Acquire(heap, e)
        PROVE  \A f \in Entries : SameFlags(f) \/ Unflagged(f)
    BY <1>1, <2>3 DEF Acquire, SameFlags, Entry
  <2>4. ASSUME NEW e \in Entries, NEW k \in Keys, heap[e].refs = 0, heap' = [heap EXCEPT ![e] = Fresh(k)]
        PROVE  \A f \in Entries : SameFlags(f) \/ Unflagged(f)
    <3>1. Fresh(k).running = FALSE /\ Fresh(k).completed = FALSE /\ Fresh(k).lapse = "no"
      BY DEF Fresh, Free
    <3>. QED BY <1>1, <2>4, <3>1 DEF SameFlags, Unflagged
  <2>5. ASSUME NEW k \in Keys, Lookup(s, k)
        PROVE  \A f \in Entries : SameFlags(f) \/ Unflagged(f)
    BY <2>1, <2>3, <2>4, <2>5 DEF Lookup
  <2>6. CASE Accept(s) \/ ReadFails(s) \/ HeaderFails(s)
    BY <2>1, <2>6 DEF Accept, ReadFails, HeaderFails
  <2>. QED BY <2>2, <2>5, <2>6 DEF Client
<1>. QED BY <1>2, <1>3, <1>4, FlagsKept

(* The dirty queue and the collector change references only. *)
LEMMA ReferencesOnly ==
  ASSUME DInv, Inv', UNCHANGED <<tasks, sess, loop>>, \A f \in Entries : SameFlags(f) \/ Unflagged(f), UNCHANGED work
  PROVE  DInv'
<1>1. \A f \in Entries : (Waits(f)' => Waits(f)) /\ (Marking(f) => Marking(f)')
  BY DEF Waits, Marking
<1>. QED BY <1>1, FlagsKept

LEMMA MarkDirtyDownloads ==
  ASSUME DInv, Inv', NEW w \in Workers, MarkDirty(w)
  PROVE  Downloading'
<1> DEFINE e == work[w].e
<1>1. TypeOK /\ heap \in [Entries -> Entry] /\ work \in [Workers -> Worker]
  BY Types DEF DInv, Inv
<1>2. /\ work[w].at = "dirty" /\ work' = [work EXCEPT ![w].at = "recv"] /\ UNCHANGED <<sess, loop, tasks>>
      /\ UNCHANGED heap \/ heap' = Acquire(heap, e)
  BY DEF MarkDirty, At, Enqueue
<1>3. e \in Entries
  BY <1>1, <1>2 DEF DInv, Inv, Places, Worker
<1>4. heap[e].completed \/ heap[e].running \/ Marking(e)
  <2>1. Downloads(e) = 1 /\ DownloadOf(e)
    BY <1>1, <1>3, Counted DEF DInv, Downloading, DownloadOf
  <2>. QED BY <2>1 DEF DownloadOf
<1> HIDE DEF e
<1>5. \A f \in Entries : SameFlags(f)
  BY <1>1, <1>2, <1>3 DEF Acquire, SameFlags, Entry
<1>6. /\ \A v \in Workers : work'[v].e = work[v].e /\ (v # w => work'[v] = work[v])
      /\ work'[w].at = "recv"
  BY <1>1, <1>2 DEF Worker
<1>. QED BY <1>2, <1>3, <1>4, <1>5, <1>6, WorkerDownloads DEF SameFlags, e
-----------------------------------------------------------------------------
LEMMA InitDownloads == Init => DInv
<1> SUFFICES ASSUME Init PROVE DInv
  OBVIOUS
<1>1. Inv
  BY InitInv
<1>2. ASSUME NEW e \in Entries PROVE DownloadOf(e)
  <2>1. heap[e].refs = 0
    BY DEF Init, Free
  <2>2. Downloads(e) = 0 /\ ~ Waits(e)
    BY <1>1, <2>1, Unused
  <2>3. ~ heap[e].running /\ heap[e].lapse = "no" /\ \A w \in Workers : work[w].at = "idle"
    BY DEF Init, Free, Rest
  <2>. QED BY <2>2, <2>3 DEF DownloadOf
<1>. QED BY <1>1, <1>2 DEF DInv, Downloading

LEMMA NextDownloads == ~WaitMayFail /\ DInv /\ [Next]_vars => DInv'
<1> SUFFICES ASSUME ~WaitMayFail, DInv, [Next]_vars PROVE DInv'
  OBVIOUS
<1>1. Inv'
  BY NextInv DEF DInv
<1>2. CASE Callback
  BY <1>1, <1>2, CheckDownloads, MarkRunningDownloads, OtherCallbacks DEF Callback, DInv
<1>3. ASSUME NEW w \in Workers, Download(w) PROVE DInv'
  BY <1>1, <1>3, DownloadSteps, DequeueDownload, FinishDownload, MarkDirtyDownloads DEF Download, DInv
<1>4. ASSUME GcWake \/ GcTrim \/ \E w \in Workers : Pressure(w) PROVE DInv'
  <2>1. current <= MaxSize
    BY DEF DInv, Inv
  <2>2. UNCHANGED heap
    BY <1>4, <2>1, Types, SizesAssumption DEF GcWake, GcTrim, Pressure, DInv, Inv
  <2>. QED BY <1>1, <1>4, <2>2, ReferencesOnly DEF GcWake, GcTrim, Pressure, SameFlags
<1>5. CASE UNCHANGED vars
  BY <1>1, <1>5, ReferencesOnly DEF vars, SameFlags
<1>6. ASSUME NEW s \in Sessions, Client(s) PROVE DInv'
  BY <1>1, <1>6, ClientDownloads
<1>. QED BY <1>2, <1>3, <1>4, <1>5, <1>6 DEF Next

(* An entry never has two tasks or workers, and a client never waits for   *)
(* an answer that nobody downloads, unless the task queue was full; the    *)
(* flag that says so is left behind only by such a refusal or when the     *)
(* loop sets it too late (loop.c:454-463, downloader.c).                   *)
THEOREM OneDownload == ~WaitMayFail => (Spec => []SingleDownload)
<1> SUFFICES ASSUME ~WaitMayFail PROVE Spec => []SingleDownload
  OBVIOUS
<1>1. DInv /\ [Next]_vars => DInv'
  BY NextDownloads
<1>2. DInv => SingleDownload
  <2> SUFFICES ASSUME DInv PROVE SingleDownload
    OBVIOUS
  <2>1. \A e \in Entries : Downloads(e) <= 1 /\ (heap[e].running /\ Downloads(e) = 0 => heap[e].lapse # "no")
    BY DEF DInv, Downloading, DownloadOf
  <2>2. ASSUME NEW s \in Sessions, sess[s].st = "stream", ~ heap[sess[s].e].completed
        PROVE  Downloads(sess[s].e) = 1 \/ heap[sess[s].e].lapse = "refused"
    <3>1. sess[s].e \in Entries /\ Waits(sess[s].e)
      BY <2>2 DEF Waits, DInv, Inv, Places
    <3>. QED BY <2>2, <3>1 DEF DInv, Downloading, DownloadOf
  <2>. QED BY <2>1, <2>2 DEF SingleDownload
<1>. QED BY InitDownloads, <1>1, <1>2, PTL DEF Spec
-----------------------------------------------------------------------------
(* Sums over finite sets.  First, induction over the natural numbers:      *)
LEMMA Induction ==
  ASSUME NEW S, 0 \in S, \A n \in Nat : n \in S => n + 1 \in S
  PROVE  Nat \subseteq S
<1> DEFINE R == OpToRel(<, Nat)
<1>1. IsWellFoundedOn(R, Nat)
  BY NatLessThanWellFounded
<1>2. \A m, n \in Nat : m < n => <<m, n>> \in R
  BY DEF OpToRel
<1> HIDE DEF R
<1> SUFFICES ASSUME Nat \ S # {} PROVE FALSE
  OBVIOUS
<1>3. PICK n \in Nat \ S : \A m \in Nat \ S : ~ (<<m, n>> \in R)
  BY <1>1, WFMin
<1>4. n - 1 \in Nat /\ n - 1 < n
  BY <1>3
<1>5. n - 1 \in S
  BY <1>2, <1>3, <1>4
<1>. QED BY <1>3, <1>4, <1>5

(* What holds of a subset of S whenever it holds of its own strict subsets *)
(* holds of S, if S is finite.                                             *)
LEMMA SubsetInduction ==
  ASSUME NEW S, IsFiniteSet(S), NEW G,
         \A T \in SUBSET S : (\A U \in SUBSET T : U # T => U \in G) => T \in G
  PROVE  SUBSET S \subseteq G
<1> SUFFICES ASSUME (SUBSET S) \ G # {} PROVE FALSE
  OBVIOUS
<1> DEFINE R == StrictSubsetOrdering(S)
           P == SUBSET S
           Bad == (SUBSET S) \ G
<1>1. IsWellFoundedOn(R, P)
  <2>1. IsWellFoundedOn(StrictSubsetOrdering(S), FiniteSubsetsOf(S))
    BY FS_StrictSubsetOrderingWellFounded
  <2>2. FiniteSubsetsOf(S) = SUBSET S
    BY FS_FiniteSubsetsOfFinite
  <2>. QED BY <2>1, <2>2, Zenon
<1>2. PICK T \in Bad : \A U \in Bad : ~ (<<U, T>> \in R)
  <2>1. Bad \subseteq P /\ Bad # {}
    OBVIOUS
  <2> HIDE DEF R, P, Bad
  <2>2. PICK T \in Bad : TRUE
    BY <2>1
  <2>. QED BY <1>1, <2>1, <2>2, WFMin
<1>3. ASSUME NEW U \in SUBSET T, U # T PROVE U \in G
  BY <1>2, <1>3 DEF StrictSubsetOrdering
<1>. QED BY <1>2, <1>3

(* The sum of the bytes of a set of entries, and the recursion it is made by *)
Sum(h, S) == MapThenSumSet(LAMBDA e : h[e].bytes, S)

First(s) == CHOOSE x \in s : TRUE
Summing(h, S, f) == [s \in SUBSET S |-> IF s = {} THEN 0 ELSE h[First(s)].bytes + f[s \ {First(s)}]]

LEMMA SumIs ==
  ASSUME NEW h, NEW S
  PROVE  Sum(h, S) = (CHOOSE f : f = Summing(h, S, f))[S]
  BY DEF Sum, MapThenSumSet, MapThenFoldSet, Summing, First

(* The recursion over the subsets of a finite set has a solution ... *)
Counts(h, S) == \A e \in S : h[e].bytes \in Nat

LEMMA SummingExists ==
  ASSUME NEW h, NEW S, IsFiniteSet(S), Counts(h, S)
  PROVE  \E f \in [SUBSET S -> Nat] : f = Summing(h, S, f)
<1> DEFINE Body(f, s) == IF s = {} THEN 0 ELSE h[First(s)].bytes + f[s \ {First(s)}]
           Small(k) == {s \in SUBSET S : Cardinality(s) <= k}
           Good(k, f) == f \in [Small(k) -> Nat] /\ \A s \in Small(k) : f[s] = Body(f, s)
           Reach == {k \in Nat : \E f : Good(k, f)}
<1>1. \A s \in SUBSET S : IsFiniteSet(s) /\ Cardinality(s) \in Nat /\ (Cardinality(s) = 0 <=> s = {})
  BY FS_Subset, FS_CardinalityType, FS_EmptySet
<1>2. \A s \in SUBSET S : s # {} => First(s) \in s
  BY DEF First
<1>3. ASSUME NEW s \in SUBSET S, s # {}
      PROVE  /\ s \ {First(s)} \in SUBSET S
             /\ Cardinality(s \ {First(s)}) = Cardinality(s) - 1
             /\ h[First(s)].bytes \in Nat
  BY <1>1, <1>2, <1>3, FS_RemoveElement DEF Counts
<1>4. 0 \in Reach
  <2> DEFINE f == [s \in Small(0) |-> 0]
  <2>1. \A s \in Small(0) : s = {}
    BY <1>1
  <2>2. Good(0, f)
    BY <2>1
  <2> HIDE DEF Good
  <2>. QED BY <2>2
<1>5. ASSUME NEW k \in Nat, k \in Reach PROVE k + 1 \in Reach
  <2>1. PICK f : Good(k, f)
    BY <1>5
  <2> DEFINE g == [s \in Small(k + 1) |-> Body(f, s)]
  <2>2. ASSUME NEW s \in Small(k + 1), s # {} PROVE s \ {First(s)} \in Small(k) /\ h[First(s)].bytes \in Nat
    <3>1. s \in SUBSET S /\ Cardinality(s) <= k + 1 /\ Cardinality(s) \in Nat
      BY <1>1
    <3>. QED BY <3>1, <2>2, <1>3
  <2>3. \A s \in Small(k) : s \in Small(k + 1) /\ g[s] = f[s]
    <3>1. \A s \in Small(k) : s \in Small(k + 1)
      BY <1>1
    <3>2. \A s \in Small(k) : f[s] = Body(f, s)
      BY <2>1
    <3>3. \A s \in Small(k + 1) : g[s] = Body(f, s)
      OBVIOUS
    <3> HIDE DEF Small, Body, g
    <3>. QED BY <3>1, <3>2, <3>3
  <2>4. ASSUME NEW s \in Small(k + 1) PROVE Body(f, s) \in Nat
    <3>1. CASE s = {}
      BY <3>1
    <3>2. CASE s # {}
      <4>1. f[s \ {First(s)}] \in Nat
        BY <2>1, <2>2, <3>2
      <4>. QED BY <4>1, <2>2, <3>2
    <3>. QED BY <3>1, <3>2
  <2>5. g \in [Small(k + 1) -> Nat]
    <3> HIDE DEF Small, Body
    <3>. QED BY <2>4
  <2>6. ASSUME NEW s \in Small(k + 1) PROVE g[s] = Body(g, s)
    <3>1. g[s] = Body(f, s)
      OBVIOUS
    <3>2. s # {} => g[s \ {First(s)}] = f[s \ {First(s)}]
      <4> HIDE DEF Small, g
      <4>. QED BY <2>2, <2>3
    <3> HIDE DEF g, Small
    <3>. QED BY <3>1, <3>2
  <2>7. Good(k + 1, g)
    <3> HIDE DEF g, Small, Body
    <3>. QED BY <2>5, <2>6
  <2> HIDE DEF Good
  <2>. QED BY <2>7
<1> HIDE DEF Reach
<1>6. Cardinality(S) \in Reach
  BY <1>1, <1>4, <1>5, Induction
<1>7. PICK f : Good(Cardinality(S), f)
  BY <1>6 DEF Reach
<1>8. Small(Cardinality(S)) = SUBSET S
  BY FS_Subset
<1>9. f = Summing(h, S, f)
  <2>1. f \in [SUBSET S -> Nat] /\ \A s \in SUBSET S : f[s] = Body(f, s)
    BY <1>7, <1>8
  <2>. QED BY <2>1 DEF Summing
<1>. QED BY <1>7, <1>8, <1>9

(* ... and only one. *)
LEMMA SummingUnique ==
  ASSUME NEW h, NEW S, IsFiniteSet(S), NEW f, NEW g, f = Summing(h, S, f), g = Summing(h, S, g)
  PROVE  f = g
<1> DEFINE G == {s \in SUBSET S : f[s] = g[s]}
<1>1. \A s \in SUBSET S : /\ f[s] = IF s = {} THEN 0 ELSE h[First(s)].bytes + f[s \ {First(s)}]
                          /\ g[s] = IF s = {} THEN 0 ELSE h[First(s)].bytes + g[s \ {First(s)}]
  BY Zenon DEF Summing
<1>2. ASSUME NEW T \in SUBSET S, \A U \in SUBSET T : U # T => U \in G
      PROVE  T \in G
  <2>1. CASE T = {}
    BY <1>1, <2>1
  <2>2. CASE T # {}
    <3> DEFINE U == T \ {First(T)}
    <3>1. U \in SUBSET T /\ U # T
      BY <2>2 DEF First
    <3>2. f[U] = g[U]
      BY <1>2, <3>1
    <3>. QED BY <1>1, <2>2, <3>2
  <2>. QED BY <2>1, <2>2
<1> HIDE DEF G
<1>3. SUBSET S \subseteq G
  BY <1>2, SubsetInduction
<1>4. \A s \in SUBSET S : f[s] = g[s]
  BY <1>3 DEF G
<1>5. f = [s \in SUBSET S |-> f[s]] /\ g = [s \in SUBSET S |-> g[s]]
  BY Zenon DEF Summing
<1>. QED BY <1>4, <1>5

LEMMA SumFrom ==
  ASSUME NEW h, NEW S, IsFiniteSet(S), NEW f, f = Summing(h, S, f)
  PROVE  Sum(h, S) = f[S]
<1> DEFINE g == CHOOSE f_1 : f_1 = Summing(h, S, f_1)
<1>1. g = Summing(h, S, g)
  OBVIOUS
<1>2. Sum(h, S) = g[S]
  BY SumIs
<1> HIDE DEF g
<1>. QED BY <1>1, <1>2, SummingUnique

LEMMA SumType ==
  ASSUME NEW h, NEW S, IsFiniteSet(S), Counts(h, S)
  PROVE  Sum(h, S) \in Nat
<1>1. PICK f \in [SUBSET S -> Nat] : f = Summing(h, S, f)
  BY SummingExists
<1>2. Sum(h, S) = f[S] /\ S \in SUBSET S
  BY <1>1, SumFrom
<1>. QED BY <1>1, <1>2

(* The order in which the elements are taken does not matter. *)
Solves(h, S, f) == IsFiniteSet(S) /\ Counts(h, S) /\ f \in [SUBSET S -> Nat] /\ f = Summing(h, S, f)
FirstAny(h, S, f) == \A T \in SUBSET S : \A x \in T : f[T] = h[x].bytes + f[T \ {x}]

LEMMA AnyFirst == \A h, S, f : Solves(h, S, f) => FirstAny(h, S, f)
<1> SUFFICES ASSUME NEW h, NEW S, NEW f, Solves(h, S, f) PROVE FirstAny(h, S, f)
  OBVIOUS
<1>0. IsFiniteSet(S) /\ Counts(h, S) /\ f \in [SUBSET S -> Nat] /\ f = Summing(h, S, f)
  BY DEF Solves
<1> DEFINE G == {s \in SUBSET S : \A y \in s : f[s] = h[y].bytes + f[s \ {y}]}
<1>1. \A s \in SUBSET S : s # {} => f[s] = h[First(s)].bytes + f[s \ {First(s)}]
  BY <1>0, Zenon DEF Summing
<1>2. ASSUME NEW s \in SUBSET S, \A U \in SUBSET s : U # s => U \in G, NEW y \in s
      PROVE  f[s] = h[y].bytes + f[s \ {y}]
  <2> DEFINE z == First(s)
  <2>1. z \in s
    BY DEF First
  <2>2. f[s] = h[z].bytes + f[s \ {z}]
    BY <1>1
  <2> HIDE DEF z
  <2>3. CASE y = z
    BY <2>2, <2>3
  <2>4. CASE y # z
    <3>1. s \ {y} \in G /\ s \ {z} \in G /\ z \in s \ {y} /\ y \in s \ {z}
      BY <1>2, <2>1, <2>4
    <3>2. f[s \ {y}] = h[z].bytes + f[(s \ {y}) \ {z}] /\ f[s \ {z}] = h[y].bytes + f[(s \ {z}) \ {y}]
      BY <3>1
    <3>3. (s \ {y}) \ {z} = (s \ {z}) \ {y}
      OBVIOUS
    <3>4. h[y].bytes \in Nat /\ h[z].bytes \in Nat /\ f[(s \ {z}) \ {y}] \in Nat
      BY <1>0, <2>1 DEF Counts
    <3> DEFINE a == h[y].bytes
               b == h[z].bytes
               c == f[(s \ {z}) \ {y}]
    <3>5. f[s] = b + (a + c) /\ f[s \ {y}] = b + c
      BY <2>2, <3>2, <3>3
    <3> HIDE DEF a, b, c
    <3>6. b + (a + c) = a + (b + c)
      BY <3>4 DEF a, b, c
    <3>. QED BY <3>5, <3>6 DEF a
  <2>. QED BY <2>3, <2>4
<1>3. \A s \in SUBSET S : (\A U \in SUBSET s : U # s => U \in G) => s \in G
  <2> SUFFICES ASSUME NEW s \in SUBSET S, \A U \in SUBSET s : U # s => U \in G PROVE s \in G
    OBVIOUS
  <2>1. \A y \in s : f[s] = h[y].bytes + f[s \ {y}]
    BY <1>2
  <2>. QED BY <2>1
<1> HIDE DEF G
<1>4. SUBSET S \subseteq G
  BY <1>0, <1>3, SubsetInduction
<1>. QED BY <1>4 DEF G, FirstAny

(* The sum of no entries, and of one entry more *)
LEMMA SumEmpty == \A h : Sum(h, {}) = 0
<1> SUFFICES ASSUME NEW h PROVE Sum(h, {}) = 0
  OBVIOUS
<1>1. IsFiniteSet({}) /\ Counts(h, {})
  BY FS_EmptySet DEF Counts
<1>2. PICK f : f = Summing(h, {}, f)
  BY <1>1, SummingExists
<1>3. f[{}] = 0
  BY <1>2, Zenon DEF Summing
<1>. QED BY <1>1, <1>2, <1>3, SumFrom

LEMMA SumAdd ==
  ASSUME NEW h, NEW S, IsFiniteSet(S), NEW x, x \notin S, Counts(h, S \cup {x})
  PROVE  /\ Sum(h, S) \in Nat
         /\ Sum(h, S \cup {x}) = h[x].bytes + Sum(h, S)
<1> DEFINE T == S \cup {x}
<1>1. IsFiniteSet(T)
  BY FS_AddElement
<1>2. PICK f \in [SUBSET T -> Nat] : f = Summing(h, T, f)
  BY <1>1, SummingExists
<1>3. Sum(h, T) = f[T]
  BY <1>1, <1>2, SumFrom
<1>4. f[T] = h[x].bytes + f[T \ {x}] /\ T \ {x} = S
  <2>1. T \in SUBSET T /\ x \in T
    OBVIOUS
  <2>2. T \ {x} = S
    OBVIOUS
  <2>3. Counts(h, T)
    OBVIOUS
  <2> HIDE DEF T
  <2>4. f[T] = h[x].bytes + f[T \ {x}]
    <3>1. FirstAny(h, T, f)
      BY <1>1, <1>2, <2>3, AnyFirst, Zenon DEF Solves
    <3>. QED BY <2>1, <3>1 DEF FirstAny
  <2>. QED BY <2>2, <2>4
<1> DEFINE g == [s \in SUBSET S |-> f[s]]
<1>5. g = Summing(h, S, g)
  <2>1. \A s \in SUBSET T : f[s] = IF s = {} THEN 0 ELSE h[First(s)].bytes + f[s \ {First(s)}]
    BY <1>2, Zenon DEF Summing
  <2>2. ASSUME NEW s \in SUBSET S
        PROVE  f[s] = IF s = {} THEN 0 ELSE h[First(s)].bytes + g[s \ {First(s)}]
    <3>1. s \in SUBSET T /\ s \ {First(s)} \in SUBSET S
      OBVIOUS
    <3>. QED BY <2>1, <3>1
  <2>. QED BY <2>2 DEF Summing
<1> HIDE DEF T
<1>6. Sum(h, S) = g[S]
  <2> HIDE DEF g
  <2>. QED BY <1>5, SumFrom
<1>7. g[S] = f[S] /\ f[S] \in Nat
  <2>1. S \in SUBSET T
    BY DEF T
  <2>. QED BY <2>1
<1>. QED BY <1>3, <1>4, <1>6, <1>7 DEF T

LEMMA SumRemove ==
  ASSUME NEW h, NEW S, IsFiniteSet(S), NEW x \in S, Counts(h, S)
  PROVE  /\ Sum(h, S \ {x}) \in Nat /\ h[x].bytes \in Nat
         /\ Sum(h, S) = h[x].bytes + Sum(h, S \ {x})
<1> DEFINE U == S \ {x}
<1>1. IsFiniteSet(U) /\ x \notin U /\ U \cup {x} = S
  BY FS_RemoveElement
<1> HIDE DEF U
<1>2. Counts(h, U \cup {x})
  BY <1>1
<1>. QED BY <1>1, <1>2, SumAdd DEF U, Counts

(* The sum does not depend on what else is in the heap. *)
LEMMA SumSame ==
  ASSUME NEW h, NEW g, NEW S, IsFiniteSet(S), Counts(h, S), \A e \in S : g[e].bytes = h[e].bytes
  PROVE  Sum(g, S) = Sum(h, S)
<1>1. PICK f : f = Summing(h, S, f)
  BY SummingExists
<1>2. Summing(g, S, f) = Summing(h, S, f)
  <2>1. \A s \in SUBSET S : s # {} => First(s) \in S
    BY DEF First
  <2>. QED BY <2>1 DEF Summing
<1>3. f = Summing(g, S, f)
  BY <1>1, <1>2
<1>. QED BY <1>1, <1>3, SumFrom
-----------------------------------------------------------------------------
(* The size of the cache *)

Storing(w) == work[w].at = "store" /\ ~ heap[work[w].e].noCache
SizeInv == current >= Stored + Reserved

LEMMA Sizes ==
  ASSUME TypeOK
  PROVE  /\ IsFiniteSet(ToSet(lru)) /\ Counts(heap, ToSet(lru)) /\ Stored = Sum(heap, ToSet(lru))
         /\ Stored \in Nat /\ Reserved \in Nat /\ current \in Int
         /\ IsFiniteSet({w \in Workers : Storing(w)}) /\ Reserved = Cardinality({w \in Workers : Storing(w)})
<1>1. lru \in Seq(Entries) /\ heap \in [Entries -> Entry] /\ ToSet(lru) \subseteq Entries /\ current \in Int
  BY Types
<1>2. IsFiniteSet(ToSet(lru))
  <2>1. DOMAIN lru = 1 .. Len(lru) /\ Len(lru) \in Nat
    BY <1>1
  <2>2. IsFiniteSet(DOMAIN lru)
    BY <2>1, FS_Interval
  <2>3. lru \in [DOMAIN lru -> ToSet(lru)]
    BY <1>1 DEF ToSet
  <2>4. \A x \in ToSet(lru) : \E i \in DOMAIN lru : lru[i] = x
    BY DEF ToSet
  <2>5. lru \in Surjection(DOMAIN lru, ToSet(lru))
    BY <2>3, <2>4 DEF Surjection
  <2>. QED BY <2>2, <2>5, FS_Surjection
<1>3. Counts(heap, ToSet(lru))
  BY <1>1 DEF Counts, Entry
<1>4. Stored = Sum(heap, ToSet(lru))
  BY DEF Stored, Sum
<1>5. Stored \in Nat
  BY <1>2, <1>3, <1>4, SumType
<1>6. IsFiniteSet({w \in Workers : Storing(w)})
  BY FiniteAssumption, FS_Subset
<1>7. Reserved = Cardinality({w \in Workers : Storing(w)})
  BY DEF Reserved, Storing
<1>. QED BY <1>1, <1>2, <1>3, <1>4, <1>5, <1>6, <1>7, FS_CardinalityType

LEMMA SizesThen == (TypeOK => Stored = Sum(heap, ToSet(lru)) /\ Stored \in Nat /\ Reserved \in Nat /\ current \in Int)'
<1>1. TypeOK => Stored = Sum(heap, ToSet(lru)) /\ Stored \in Nat /\ Reserved \in Nat /\ current \in Int
  BY Sizes
<1>. QED BY <1>1, PTL

(* As many bytes are stored as before ... *)
LEMMA StoredKept ==
  ASSUME TypeOK, TypeOK', ToSet(lru') = ToSet(lru), \A e \in ToSet(lru) : heap'[e].bytes = heap[e].bytes
  PROVE  Stored' = Stored
<1>1. Stored' = Sum(heap', ToSet(lru))
  BY SizesThen
<1>. QED BY <1>1, Sizes, SumSame

(* ... and as much is reserved, but for the worker that moves. *)
LEMMA ReservedBut ==
  ASSUME TypeOK, NEW w \in Workers, \A v \in Workers : v # w => (Storing(v)' => Storing(v))
  PROVE  Reserved' <= Reserved - (IF Storing(w) THEN 1 ELSE 0) + (IF Storing(w)' THEN 1 ELSE 0)
<1> DEFINE A == {v \in Workers : Storing(v)}
           B == {v \in Workers : Storing(v)'}
           C == (A \ {w}) \cup (IF Storing(w)' THEN {w} ELSE {})
<1>1. Reserved = Cardinality(A) /\ IsFiniteSet(A) /\ (w \in A <=> Storing(w)) /\ Reserved' = Cardinality(B)
  BY Sizes DEF Reserved, Storing
<1>2. A \ {w} = C \ {w} /\ (w \in C <=> Storing(w)') /\ B \subseteq C
  OBVIOUS
<1> HIDE DEF A, B, C
<1>3. IsFiniteSet(C) /\ Cardinality(C) = Cardinality(A) - (IF w \in A THEN 1 ELSE 0) + (IF w \in C THEN 1 ELSE 0)
  BY <1>1, <1>2, OneMore
<1>4. Cardinality(B) <= Cardinality(C)
  BY <1>2, <1>3, FS_Subset
<1>5. Cardinality(A) \in Nat /\ Cardinality(B) \in Nat /\ Cardinality(C) \in Nat
  BY <1>1, <1>2, <1>3, FS_Subset, FS_CardinalityType
<1>. QED BY <1>1, <1>2, <1>3, <1>4, <1>5

LEMMA ReservedKept ==
  ASSUME TypeOK, \A v \in Workers : Storing(v)' => Storing(v)
  PROVE  Reserved' <= Reserved
<1> DEFINE A == {v \in Workers : Storing(v)}
           B == {v \in Workers : Storing(v)'}
<1>1. Reserved = Cardinality(A) /\ IsFiniteSet(A) /\ Reserved' = Cardinality(B) /\ B \subseteq A
  BY Sizes DEF Reserved, Storing
<1> HIDE DEF A, B
<1>. QED BY <1>1, FS_Subset

(* Most steps neither store nor reserve. *)
LEMMA SizeKept ==
  ASSUME TypeOK, TypeOK', SizeInv, UNCHANGED current, ToSet(lru') = ToSet(lru),
         \A e \in ToSet(lru) : heap'[e].bytes = heap[e].bytes,
         \A v \in Workers : Storing(v)' => Storing(v)
  PROVE  SizeInv'
<1>1. Stored' = Stored /\ Reserved' <= Reserved
  BY StoredKept, ReservedKept
<1>. QED BY <1>1, Sizes, SizesThen DEF SizeInv

(* An entry that is in the map or downloaded has a reference ... *)
LEMMA Busy == TypeOK /\ RefsCover => \A e \in Entries : InMap(e) \/ (\E w \in Workers : work[w].e = e) => heap[e].refs >= 1
<1> SUFFICES ASSUME TypeOK, RefsCover, NEW e \in Entries, InMap(e) \/ \E w \in Workers : work[w].e = e
             PROVE  heap[e].refs >= 1
  OBVIOUS
<1>1. heap[e].refs >= References(e) /\ heap[e].refs \in Nat
  BY Types DEF RefsCover, Entry
<1>2. References(e) \in Nat /\ References(e) >= 1
  <2>1. InMap(e) => Count(InMap(e)) = 1
    BY DEF Count
  <2>2. (\E w \in Workers : work[w].e = e) => Cardinality(Working(e)) >= 1
    <3>1. (\E w \in Workers : work[w].e = e) => Working(e) # {}
      BY DEF Working
    <3>. QED BY <3>1, Finite
  <2>. QED BY <2>1, <2>2, Finite DEF References, Count
<1>. QED BY <1>1, <1>2

LEMMA BusyThen == (TypeOK /\ RefsCover => \A e \in Entries : InMap(e) \/ (\E w \in Workers : work[w].e = e) => heap[e].refs >= 1)'
BY Busy, PTL

(* ... so giving up a reference changes neither its bytes nor noCache. *)
LEMMA StillHeld ==
  ASSUME TypeOK, TypeOK', RefsCover', NEW e \in Entries, heap' = Release(heap, e)
  PROVE  \A f \in Entries : InMap(f)' \/ (\E w \in Workers : work'[w].e = f)
                              => heap'[f].bytes = heap[f].bytes /\ heap'[f].noCache = heap[f].noCache
<1> SUFFICES ASSUME NEW f \in Entries, InMap(f)' \/ \E w \in Workers : work'[w].e = f
             PROVE  heap'[f].bytes = heap[f].bytes /\ heap'[f].noCache = heap[f].noCache
  OBVIOUS
<1>1. heap'[f].refs >= 1
  BY BusyThen
<1>2. heap \in [Entries -> Entry] /\ Free.refs = 0
  BY Types DEF Free
<1>3. heap'[f] = Free \/ (heap'[f].bytes = heap[f].bytes /\ heap'[f].noCache = heap[f].noCache)
  BY <1>2 DEF Release, Entry
<1>. QED BY <1>1, <1>2, <1>3

LEMMA ReleaseSize ==
  ASSUME DInv, DInv', SizeInv, NEW e \in Entries, heap' = Release(heap, e), UNCHANGED <<lru, current>>,
         \A v \in Workers : work'[v] = work[v] \/ work'[v].at = "idle"
  PROVE  SizeInv'
<1>1. TypeOK /\ TypeOK' /\ RefsCover' /\ ToSet(lru) \subseteq Entries /\ work \in [Workers -> Worker]
  BY Types DEF DInv, Inv
<1>2. \A f \in ToSet(lru) : heap'[f].bytes = heap[f].bytes
  BY <1>1, StillHeld DEF InMap
<1>3. \A v \in Workers : Storing(v)' => Storing(v)
  <2> SUFFICES ASSUME NEW v \in Workers, Storing(v)' PROVE Storing(v)
    OBVIOUS
  <2>1. work'[v] = work[v] /\ work[v].at = "store" /\ ~ heap'[work[v].e].noCache
    BY DEF Storing
  <2>2. work[v].e \in Entries
    BY <1>1, <2>1 DEF DInv, Inv, Places, Worker
  <2>3. heap'[work[v].e].noCache = heap[work[v].e].noCache
    BY <1>1, <2>1, <2>2, StillHeld
  <2>. QED BY <2>1, <2>3 DEF Storing
<1>. QED BY <1>1, <1>2, <1>3, SizeKept

(* Steps that leave the answers in the cache alone, and reserve nothing *)
SameAnswer(e) == heap'[e].bytes = heap[e].bytes /\ (heap[e].noCache => heap'[e].noCache)

LEMMA AnswersKept ==
  ASSUME DInv, DInv', SizeInv, UNCHANGED current, ToSet(lru') = ToSet(lru), \A e \in Entries : SameAnswer(e),
         \A v \in Workers : work'[v].at = "store" => work'[v] = work[v]
  PROVE  SizeInv'
<1>1. TypeOK /\ TypeOK' /\ ToSet(lru) \subseteq Entries /\ work \in [Workers -> Worker]
  BY Types DEF DInv, Inv
<1>2. \A v \in Workers : Storing(v)' => Storing(v)
  <2> SUFFICES ASSUME NEW v \in Workers, Storing(v)' PROVE Storing(v)
    OBVIOUS
  <2>1. work'[v] = work[v] /\ work[v].at = "store" /\ ~ heap'[work[v].e].noCache
    BY DEF Storing
  <2>2. work[v].e \in Entries
    BY <1>1, <2>1 DEF DInv, Inv, Places, Worker
  <2>. QED BY <2>1, <2>2 DEF Storing, SameAnswer
<1>. QED BY <1>1, <1>2, SizeKept DEF SameAnswer

(* The new entry of a request is empty, and nobody downloads it yet. *)
LEMMA CreateSize ==
  ASSUME DInv, DInv', SizeInv, NEW e \in Entries, NEW k \in Keys, heap[e].refs = 0,
         heap' = [heap EXCEPT ![e] = Fresh(k)], lru' = <<e>> \o lru, UNCHANGED <<current, work>>
  PROVE  SizeInv'
<1>1. TypeOK /\ TypeOK' /\ RefsCover /\ NoRepeats(lru) /\ lru \in Seq(Entries) /\ ToSet(lru) \subseteq Entries
      /\ heap \in [Entries -> Entry] /\ work \in [Workers -> Worker]
  BY Types DEF DInv, Inv, OneEach
<1>2. e \notin ToSet(lru) /\ \A w \in Workers : work[w].e # e
  BY <1>1, Busy DEF InMap
<1>3. ToSet(lru') = ToSet(lru) \cup {e}
  BY <1>1, <1>2, InFront
<1>4. heap'[e].bytes = 0 /\ \A f \in Entries : f # e => heap'[f] = heap[f]
  BY <1>1 DEF Fresh, Free
<1>5. Stored' = Stored
  <2> DEFINE A == ToSet(lru)
  <2>1. Stored' = Sum(heap', A \cup {e})
    BY <1>1, <1>3, SizesThen
  <2>2. IsFiniteSet(A) /\ Counts(heap, A) /\ Stored = Sum(heap, A) /\ Stored \in Nat /\ e \notin A
    BY <1>1, <1>2, Sizes
  <2>3. \A f \in A : heap'[f].bytes = heap[f].bytes
    BY <1>1, <1>2, <1>4
  <2> HIDE DEF A
  <2>4. Counts(heap', A \cup {e})
    BY <1>4, <2>2, <2>3 DEF Counts
  <2>5. Sum(heap', A \cup {e}) = heap'[e].bytes + Sum(heap', A)
    BY <2>2, <2>4, SumAdd
  <2>6. Sum(heap', A) = Stored
    BY <2>2, <2>3, SumSame
  <2>. QED BY <1>4, <2>1, <2>2, <2>5, <2>6
<1>6. \A v \in Workers : Storing(v)' => Storing(v)
  <2> SUFFICES ASSUME NEW v \in Workers, Storing(v)' PROVE Storing(v)
    OBVIOUS
  <2>1. work'[v] = work[v] /\ work[v].at = "store" /\ ~ heap'[work[v].e].noCache
    BY DEF Storing
  <2>2. work[v].e \in Entries
    BY <1>1, <2>1 DEF DInv, Inv, Places, Worker
  <2>. QED BY <1>2, <1>4, <2>1, <2>2 DEF Storing
<1>7. Reserved' <= Reserved
  BY <1>1, <1>6, ReservedKept
<1>. QED BY <1>1, <1>5, <1>7, Sizes, SizesThen DEF SizeInv

(* The space of a removed entry is given back in full. *)
LEMMA RemoveSize ==
  ASSUME DInv, DInv', SizeInv, RemoveEntry
  PROVE  SizeInv'
<1> DEFINE e == loop.e
<1>1. TypeOK /\ TypeOK' /\ RefsCover' /\ NoRepeats(lru) /\ lru \in Seq(Entries) /\ ToSet(lru) \subseteq Entries
      /\ heap \in [Entries -> Entry] /\ work \in [Workers -> Worker]
  BY Types DEF DInv, Inv, OneEach
<1>2. e \in Entries /\ InMap(e) /\ UNCHANGED work
  BY Handles DEF RemoveEntry, DInv, Inv, Mapped
<1>3. lru' = RemoveFirst(lru, e) /\ current' = Without(heap[e].bytes) /\ heap' = Release(heap, e)
  BY DEF RemoveEntry
<1> HIDE DEF e
<1>4. ToSet(lru') = ToSet(lru) \ {e}
  BY <1>1, <1>2, <1>3, Unlinked
<1>5. \A f \in Entries : f # e => heap'[f] = heap[f]
  BY <1>1, <1>3 DEF Release
<1>6. Stored = heap[e].bytes + Stored' /\ heap[e].bytes \in Nat
  <2> DEFINE A == ToSet(lru)
  <2>1. Stored' = Sum(heap', A \ {e})
    BY <1>1, <1>4, SizesThen
  <2>2. IsFiniteSet(A) /\ Counts(heap, A) /\ Stored = Sum(heap, A) /\ e \in A /\ A \subseteq Entries
    BY <1>1, <1>2, Sizes DEF InMap
  <2> HIDE DEF A
  <2>3. Sum(heap, A) = heap[e].bytes + Sum(heap, A \ {e}) /\ heap[e].bytes \in Nat
    BY <2>2, SumRemove
  <2>4. IsFiniteSet(A \ {e}) /\ Counts(heap, A \ {e}) /\ \A f \in A \ {e} : heap'[f].bytes = heap[f].bytes
    BY <1>5, <2>2, FS_Subset DEF Counts
  <2>5. Sum(heap', A \ {e}) = Sum(heap, A \ {e})
    <3> DEFINE B == A \ {e}
    <3> HIDE DEF B
    <3>1. Sum(heap', B) = Sum(heap, B)
      BY <2>4, SumSame DEF B
    <3>. QED BY <3>1 DEF B
  <2>. QED BY <2>1, <2>2, <2>3, <2>5
<1>7. \A v \in Workers : Storing(v)' => Storing(v)
  <2> SUFFICES ASSUME NEW v \in Workers, Storing(v)' PROVE Storing(v)
    OBVIOUS
  <2>1. work'[v] = work[v] /\ work[v].at = "store" /\ ~ heap'[work[v].e].noCache
    BY <1>2 DEF Storing
  <2>2. work[v].e \in Entries
    BY <1>1, <2>1 DEF DInv, Inv, Places, Worker
  <2>3. heap'[work[v].e].noCache = heap[work[v].e].noCache
    BY <1>1, <1>2, <1>3, <2>1, <2>2, StillHeld
  <2>. QED BY <2>1, <2>3 DEF Storing
<1>8. Reserved' <= Reserved
  BY <1>1, <1>7, ReservedKept
<1>9. Stored \in Nat /\ Reserved \in Nat /\ current \in Int /\ Stored' \in Nat /\ Reserved' \in Nat
  BY <1>1, Sizes, SizesThen
<1>10. current' = current - heap[e].bytes
  BY <1>3, <1>6, <1>9 DEF Without, SizeInv
<1>. QED BY <1>6, <1>8, <1>9, <1>10 DEF SizeInv

(* The entry of a worker, and what its steps make of the answer *)
Replaces(e, h) == heap' = [heap EXCEPT ![e] = h] /\ h.bytes = heap[e].bytes /\ (heap[e].noCache => h.noCache)

LEMMA ReserveSize ==
  ASSUME DInv, DInv', SizeInv, NEW w \in Workers, Reserve(w)
  PROVE  SizeInv'
<1> DEFINE e == work[w].e
<1>1. TypeOK /\ TypeOK' /\ heap \in [Entries -> Entry] /\ work \in [Workers -> Worker]
  BY Types DEF DInv, Inv
<1>2. e \in Entries /\ work[w].at = "append" /\ UNCHANGED lru
  BY <1>1 DEF DInv, Inv, Places, Worker, Reserve
<1>3. CASE work' = [work EXCEPT ![w].at = "stop", ![w].n = 0] /\ heap' = Failed(heap, e) /\ UNCHANGED current
  <2>1. \A f \in Entries : SameAnswer(f)
    BY <1>1, <1>2, <1>3 DEF Failed, SameAnswer, Entry
  <2>2. \A v \in Workers : work'[v].at = "store" => work'[v] = work[v]
    BY <1>1, <1>3 DEF Worker
  <2>. QED BY <1>2, <1>3, <2>1, <2>2, AnswersKept
<1>4. CASE /\ work' = [work EXCEPT ![w].at = "store"] /\ UNCHANGED heap
           /\ current' = IF heap[e].noCache THEN current ELSE current + 1
  <2>1. /\ \A v \in Workers : v # w => work'[v] = work[v]
        /\ work'[w].at = "store" /\ work'[w].e = e
    BY <1>1, <1>4 DEF Worker
  <2>2. ~ Storing(w) /\ (Storing(w)' <=> ~ heap[e].noCache) /\ \A v \in Workers : v # w => (Storing(v)' => Storing(v))
    BY <1>2, <1>4, <2>1 DEF Storing
  <2>3. Reserved' <= Reserved + (IF heap[e].noCache THEN 0 ELSE 1)
    <3>1. Reserved' <= Reserved - (IF Storing(w) THEN 1 ELSE 0) + (IF Storing(w)' THEN 1 ELSE 0) /\ Reserved \in Nat
      BY <1>1, <2>2, ReservedBut, Sizes
    <3>. QED BY <2>2, <3>1
  <2>4. Stored' = Stored
    BY <1>1, <1>2, <1>4, StoredKept
  <2> HIDE DEF e
  <2>. QED BY <1>1, <1>4, <2>3, <2>4, Sizes, SizesThen DEF SizeInv
<1>. QED BY <1>3, <1>4 DEF Reserve

LEMMA StoreSize ==
  ASSUME DInv, DInv', SizeInv, NEW w \in Workers, Store(w)
  PROVE  SizeInv'
<1> DEFINE e == work[w].e
           counted == IF heap[e].noCache THEN 0 ELSE 1
<1>1. TypeOK /\ TypeOK' /\ heap \in [Entries -> Entry] /\ work \in [Workers -> Worker] /\ ToSet(lru) \subseteq Entries
  BY Types DEF DInv, Inv
<1>2. e \in Entries /\ work[w].at = "store" /\ UNCHANGED lru /\ (Storing(w) <=> counted = 1) /\ counted \in {0, 1}
  BY <1>1 DEF DInv, Inv, Places, Worker, Store, Storing
<1>3. CASE /\ heap' = [heap EXCEPT ![e].bytes = @ + counted]
           /\ work' = [work EXCEPT ![w].at = "dirty", ![w].n = @ + 1] /\ UNCHANGED current
  <2> HIDE DEF counted, e
  <2>1. (\A v \in Workers : v # w => work'[v] = work[v]) /\ work'[w].at = "dirty"
    BY <1>1, <1>3 DEF Worker
  <2>2. /\ heap'[e].bytes = heap[e].bytes + counted /\ \A f \in Entries : f # e => heap'[f] = heap[f]
        /\ \A f \in Entries : heap'[f].noCache = heap[f].noCache
    BY <1>1, <1>2, <1>3 DEF Entry
  <2>3. ~ Storing(w)' /\ \A v \in Workers : v # w => (Storing(v)' => Storing(v))
    <3>1. \A v \in Workers : work[v].at = "store" => work[v].e \in Entries
      BY <1>1 DEF DInv, Inv, Places, Worker
    <3>. QED BY <2>1, <2>2, <3>1 DEF Storing
  <2>4. Reserved' <= Reserved - counted
    <3>1. Reserved' <= Reserved - (IF Storing(w) THEN 1 ELSE 0) + (IF Storing(w)' THEN 1 ELSE 0) /\ Reserved \in Nat
      BY <1>1, <2>3, ReservedBut, Sizes
    <3>. QED BY <1>2, <2>3, <3>1
  <2>5. Stored' <= Stored + counted
    <3>1. CASE ~ InMap(e)
      <4>1. \A f \in ToSet(lru) : heap'[f].bytes = heap[f].bytes
        BY <1>1, <2>2, <3>1 DEF InMap
      <4>. QED BY <1>1, <1>2, <4>1, StoredKept, Sizes
    <3>2. CASE InMap(e)
      <4> DEFINE A == ToSet(lru)
                 B == A \ {e}
      <4>1. IsFiniteSet(A) /\ Counts(heap, A) /\ Stored = Sum(heap, A) /\ e \in A /\ A \subseteq Entries
        BY <1>1, <3>2, Sizes DEF InMap
      <4>2. Stored' = Sum(heap', A)
        BY <1>1, <1>2, SizesThen
      <4> HIDE DEF A
      <4>3. heap[e].bytes \in Nat
        BY <1>1, <1>2 DEF Entry
      <4>4. Counts(heap', A)
        BY <1>2, <2>2, <4>1, <4>3 DEF Counts
      <4>5. Sum(heap, A) = heap[e].bytes + Sum(heap, B) /\ Sum(heap, B) \in Nat
        BY <4>1, SumRemove
      <4>6. Sum(heap', A) = heap'[e].bytes + Sum(heap', B)
        BY <4>1, <4>4, SumRemove
      <4>7. IsFiniteSet(B) /\ Counts(heap, B) /\ \A f \in B : heap'[f].bytes = heap[f].bytes
        BY <2>2, <4>1, FS_Subset DEF Counts
      <4> HIDE DEF B
      <4>8. Sum(heap', B) = Sum(heap, B)
        BY <4>7, SumSame
      <4>. QED BY <1>2, <2>2, <4>1, <4>2, <4>3, <4>5, <4>6, <4>8
    <3>. QED BY <3>1, <3>2
  <2>. QED BY <1>1, <1>2, <1>3, <2>4, <2>5, Sizes, SizesThen DEF SizeInv
<1>4. CASE /\ heap' = Failed(heap, e) /\ work' = [work EXCEPT ![w].at = "stop", ![w].n = 0]
           /\ current' = current - counted \/ current' = current
  <2> HIDE DEF counted, e
  <2>1. (\A v \in Workers : v # w => work'[v] = work[v]) /\ work'[w].at = "stop"
    BY <1>1, <1>4 DEF Worker
  <2>2. \A f \in Entries : SameAnswer(f)
    BY <1>1, <1>2, <1>4 DEF Failed, SameAnswer, Entry
  <2>3. ~ Storing(w)' /\ \A v \in Workers : v # w => (Storing(v)' => Storing(v))
    <3>1. \A v \in Workers : work[v].at = "store" => work[v].e \in Entries
      BY <1>1 DEF DInv, Inv, Places, Worker
    <3>. QED BY <2>1, <2>2, <3>1 DEF Storing, SameAnswer
  <2>4. Reserved' <= Reserved - counted
    <3>1. Reserved' <= Reserved - (IF Storing(w) THEN 1 ELSE 0) + (IF Storing(w)' THEN 1 ELSE 0) /\ Reserved \in Nat
      BY <1>1, <2>3, ReservedBut, Sizes
    <3>. QED BY <1>2, <2>3, <3>1
  <2>5. Stored' = Stored
    BY <1>1, <1>2, <2>2, StoredKept DEF SameAnswer
  <2>. QED BY <1>1, <1>2, <1>4, <2>4, <2>5, Sizes, SizesThen DEF SizeInv
<1>. QED BY <1>3, <1>4 DEF Store

(* The header decides about noCache before anything of this answer is stored. *)
LEMMA HeaderSize ==
  ASSUME DInv, DInv', SizeInv, NEW w \in Workers, ReceiveHeader(w)
  PROVE  SizeInv'
<1> DEFINE e == work[w].e
<1>1. TypeOK /\ TypeOK' /\ heap \in [Entries -> Entry] /\ work \in [Workers -> Worker] /\ ToSet(lru) \subseteq Entries
  BY Types DEF DInv, Inv
<1>2. PICK next \in {"append", "dirty", "recv"}, ok \in BOOLEAN :
        /\ work[w].at = "connect" /\ work' = [work EXCEPT ![w].at = next]
        /\ heap' = [heap EXCEPT ![e].ready = TRUE, ![e].noCache = ~ok]
  BY DEF ReceiveHeader, At
<1>3. e \in Entries /\ UNCHANGED <<lru, current>>
  BY <1>1, <1>2 DEF DInv, Inv, Places, Worker, ReceiveHeader
<1>4. Downloads(e) <= 1
  BY <1>3 DEF DInv, Downloading, DownloadOf
<1>5. \A v \in Workers : work[v].e = e => v = w
  BY <1>1, <1>4, OnlyWorker
<1> HIDE DEF e
<1>6. (\A v \in Workers : v # w => work'[v] = work[v]) /\ work'[w].at = next
  BY <1>1, <1>2 DEF Worker
<1>7. (\A f \in Entries : heap'[f].bytes = heap[f].bytes) /\ \A f \in Entries : f # e => heap'[f] = heap[f]
  BY <1>1, <1>2, <1>3 DEF Entry
<1>8. \A v \in Workers : Storing(v)' => Storing(v)
  <2>1. \A v \in Workers : work[v].at = "store" => work[v].e \in Entries
    BY <1>1 DEF DInv, Inv, Places, Worker
  <2>. QED BY <1>2, <1>5, <1>6, <1>7, <2>1 DEF Storing
<1>. QED BY <1>1, <1>3, <1>7, <1>8, SizeKept

LEMMA DownloadSize ==
  ASSUME DInv, DInv', SizeInv, NEW w \in Workers, Download(w)
  PROVE  SizeInv'
<1> DEFINE e == work[w].e
<1>1. TypeOK /\ heap \in [Entries -> Entry] /\ work \in [Workers -> Worker] /\ tasks \in Seq(Entries)
  BY Types DEF DInv, Inv
<1>2. work[w].at # "idle" => e \in Entries
  BY <1>1 DEF DInv, Inv, Places, Worker
<1>3. ASSUME \A f \in Entries : SameAnswer(f), UNCHANGED <<lru, current>>,
             NEW at \in {"start", "connect", "recv", "append", "dirty", "stop", "last"},
             \A v \in Workers : v # w => work'[v] = work[v], work'[w].at = at
      PROVE  SizeInv'
  BY <1>3, AnswersKept
<1>4. CASE Dequeue(w)
  <2>1. \A f \in Entries : SameAnswer(f)
    BY <1>4 DEF Dequeue, SameAnswer
  <2>2. UNCHANGED <<lru, current>> /\ (\A v \in Workers : v # w => work'[v] = work[v]) /\ work'[w].at = "start"
    BY <1>1, <1>4 DEF Dequeue
  <2>. QED BY <1>3, <2>1, <2>2
<1>5. ASSUME NEW at \in {"start", "connect", "recv", "append", "dirty", "stop", "last"},
             work' = [work EXCEPT ![w].at = at] \/ work' = [work EXCEPT ![w].at = at, ![w].n = 0],
             UNCHANGED <<lru, current>>, \A f \in Entries : SameAnswer(f)
      PROVE  SizeInv'
  <2>1. (\A v \in Workers : v # w => work'[v] = work[v]) /\ work'[w].at = at
    BY <1>1, <1>5 DEF Worker
  <2>. QED BY <1>3, <1>5, <2>1
<1>6. CASE Start(w)
  <2>1. e \in Entries /\ heap' = [heap EXCEPT ![e].running = TRUE]
    BY <1>2, <1>6 DEF Start, At
  <2>2. \A f \in Entries : SameAnswer(f)
    BY <1>1, <2>1 DEF SameAnswer, Entry
  <2>. QED BY <1>5, <1>6, <2>2 DEF Start, At
<1>7. CASE Fail(w)
  <2>1. e \in Entries /\ heap' = Failed(heap, e)
    BY <1>2, <1>7 DEF Fail
  <2>2. \A f \in Entries : SameAnswer(f)
    BY <1>1, <2>1 DEF SameAnswer, Entry, Failed
  <2>. QED BY <1>5, <1>7, <2>2 DEF Fail
<1>8. CASE ReceiveData(w)
  <2>1. \A f \in Entries : SameAnswer(f)
    BY <1>8 DEF ReceiveData, SameAnswer
  <2>. QED BY <1>5, <1>8, <2>1 DEF ReceiveData, At
<1>9. CASE MarkDirty(w)
  <2>1. e \in Entries /\ (UNCHANGED heap \/ heap' = Acquire(heap, e))
    BY <1>2, <1>9 DEF MarkDirty, At, Enqueue
  <2>2. \A f \in Entries : SameAnswer(f)
    <3> HIDE DEF e
    <3>1. CASE UNCHANGED heap
      BY <3>1 DEF SameAnswer
    <3>2. CASE heap' = Acquire(heap, e)
      BY <1>1, <2>1, <3>2 DEF SameAnswer, Entry, Acquire
    <3>. QED BY <2>1, <3>1, <3>2
  <2>. QED BY <1>5, <1>9, <2>2 DEF MarkDirty, At
<1>10. CASE Complete(w)
  <2>1. e \in Entries /\ heap' = [heap EXCEPT ![e].completed = TRUE]
    BY <1>2, <1>10 DEF Complete
  <2>2. \A f \in Entries : SameAnswer(f)
    BY <1>1, <2>1 DEF SameAnswer, Entry
  <2>. QED BY <1>5, <1>10, <2>2 DEF Complete
<1>11. CASE Stop(w)
  <2>1. e \in Entries /\ heap' = [heap EXCEPT ![e].running = FALSE, ![e].lapse = "no"]
    BY <1>2, <1>11 DEF Stop, At
  <2>2. \A f \in Entries : SameAnswer(f)
    BY <1>1, <2>1 DEF SameAnswer, Entry
  <2>. QED BY <1>5, <1>11, <2>2 DEF Stop, At
<1>12. CASE Finish(w)
  <2>1. /\ e \in Entries /\ (UNCHANGED heap \/ heap' = Release(heap, e)) /\ UNCHANGED <<lru, current>>
        /\ \A v \in Workers : work'[v] = work[v] \/ work'[v].at = "idle"
    BY <1>1, <1>2, <1>12 DEF Finish, Rest
  <2>2. CASE UNCHANGED heap
    <3>1. (\A f \in Entries : SameAnswer(f)) /\ \A v \in Workers : work'[v].at = "store" => work'[v] = work[v]
      BY <2>1, <2>2 DEF SameAnswer
    <3>. QED BY <2>1, <3>1, AnswersKept
  <2>3. CASE heap' = Release(heap, e)
    BY <2>1, <2>3, ReleaseSize
  <2>. QED BY <2>1, <2>2, <2>3
<1>. QED BY <1>4, <1>6, <1>7, <1>8, <1>9, <1>10, <1>11, <1>12, ReserveSize, StoreSize, HeaderSize DEF Download

LEMMA CallbackSize ==
  ASSUME DInv, DInv', SizeInv, Callback
  PROVE  SizeInv'
<1>1. TypeOK /\ heap \in [Entries -> Entry] /\ batch \subseteq Entries
  BY Types DEF DInv, Inv
<1>2. ASSUME UNCHANGED <<lru, current, work>>, \A f \in Entries : SameAnswer(f) PROVE SizeInv'
  BY <1>2, AnswersKept
<1>3. ASSUME NEW e \in Entries, UNCHANGED <<lru, current, work>>, heap' = Release(heap, e) PROVE SizeInv'
  BY <1>3, ReleaseSize
<1>4. CASE Decide \/ TakeDirty
  BY <1>2, <1>4 DEF Decide, TakeDirty, SameAnswer
<1>5. CASE LetGo
  BY <1>3, <1>5, Handles DEF LetGo, DInv
<1>6. ASSUME NEW e \in Entries, Wake(e) PROVE SizeInv'
  BY <1>2, <1>3, <1>6 DEF Wake, SameAnswer
<1>7. CASE Attach
  <2>1. loop.e \in Entries /\ UNCHANGED <<lru, current, work>>
    BY <1>7, Handles DEF Attach, DInv
  <2>2. CASE heap' = Release(heap, loop.e)
    BY <1>3, <2>1, <2>2
  <2>3. CASE heap' = [heap EXCEPT ![loop.e].subs = @ \cup {loop.s}]
    <3>1. \A f \in Entries : SameAnswer(f)
      BY <1>1, <2>1, <2>3 DEF SameAnswer, Entry
    <3>. QED BY <1>2, <2>1, <3>1
  <2>. QED BY <1>7, <2>2, <2>3 DEF Attach
<1>8. CASE CheckDownload \/ MarkRunning
  <2> DEFINE lapse == IF heap[loop.e].completed THEN "late" ELSE heap[loop.e].lapse
  <2>1. loop.e \in Entries /\ UNCHANGED <<lru, current, work>>
    BY <1>8, Handles DEF CheckDownload, MarkRunning, DInv
  <2>2. \/ UNCHANGED heap \/ heap' = Acquire(heap, loop.e) \/ heap' = [heap EXCEPT ![loop.e].lapse = "refused"]
        \/ heap' = [heap EXCEPT ![loop.e].running = TRUE, ![loop.e].lapse = lapse]
    BY <1>1, <1>8, <2>1 DEF CheckDownload, MarkRunning, Entry
  <2> HIDE DEF lapse
  <2>3. \A f \in Entries : SameAnswer(f)
    BY <1>1, <2>1, <2>2 DEF SameAnswer, Entry, Acquire
  <2>. QED BY <1>2, <2>1, <2>3
<1>. QED BY <1>4, <1>5, <1>6, <1>7, <1>8, RemoveSize DEF Callback

LEMMA ClientSize ==
  ASSUME DInv, DInv', SizeInv, NEW s \in Sessions, Client(s)
  PROVE  SizeInv'
<1>1. /\ TypeOK /\ heap \in [Entries -> Entry] /\ lru \in Seq(Entries) /\ NoRepeats(lru) /\ UNCHANGED <<current, work>>
      /\ ToSet(lru) \subseteq Entries
  BY Types DEF DInv, Inv, OneEach, Client, Accept, ReadFails, Leave, HeaderFails, Lookup
<1>2. ASSUME ToSet(lru') = ToSet(lru), \A f \in Entries : SameAnswer(f) PROVE SizeInv'
  BY <1>1, <1>2, AnswersKept
<1>3. CASE Accept(s) \/ ReadFails(s) \/ HeaderFails(s)
  BY <1>2, <1>3 DEF Accept, ReadFails, HeaderFails, SameAnswer
<1>4. CASE Leave(s)
  <2>1. heap' = [heap EXCEPT ![sess[s].e].subs = @ \ {s}] /\ UNCHANGED lru
    BY <1>4 DEF Leave
  <2>2. \A f \in Entries : SameAnswer(f)
    BY <1>1, <2>1 DEF SameAnswer, Entry
  <2>. QED BY <1>2, <2>1, <2>2
<1>5. ASSUME NEW k \in Keys, Lookup(s, k) PROVE SizeInv'
  <2>1. CASE UNCHANGED <<heap, lru>>
    BY <1>2, <2>1 DEF SameAnswer
  <2>2. ASSUME NEW e \in Entries, InMap(e), heap' = Acquire(heap, e), lru' = <<e>> \o RemoveFirst(lru, e)
        PROVE  SizeInv'
    <3> DEFINE q == RemoveFirst(lru, e)
    <3>1. q \in Seq(Entries) /\ NoRepeats(q) /\ ToSet(q) = ToSet(lru) \ {e}
      BY <1>1, Unlinked
    <3>2. lru' = <<e>> \o q /\ e \in ToSet(lru) /\ e \notin ToSet(q)
      BY <2>2, <3>1 DEF InMap
    <3> HIDE DEF q
    <3>3. ToSet(lru') = ToSet(q) \cup {e}
      BY <3>1, <3>2, InFront
    <3>4. ToSet(lru') = ToSet(lru)
      BY <3>1, <3>2, <3>3
    <3>5. \A f \in Entries : SameAnswer(f)
      BY <1>1, <2>2 DEF SameAnswer, Acquire, Entry
    <3>. QED BY <1>2, <3>4, <3>5
  <2>3. ASSUME NEW e \in Entries, heap[e].refs = 0, heap' = [heap EXCEPT ![e] = Fresh(k)], lru' = <<e>> \o lru
        PROVE  SizeInv'
    BY <1>1, <2>3, CreateSize
  <2>. QED BY <1>5, <2>1, <2>2, <2>3 DEF Lookup
<1>. QED BY <1>3, <1>4, <1>5 DEF Client

LEMMA InitSize == Init => SizeInv
<1> SUFFICES ASSUME Init PROVE SizeInv
  OBVIOUS
<1>1. TypeOK
  BY InitInv DEF Inv
<1>2. ToSet(lru) = {}
  BY DEF Init, ToSet
<1>3. Stored = 0
  BY <1>1, <1>2, Sizes, SumEmpty
<1>4. {w \in Workers : Storing(w)} = {}
  BY DEF Init, Rest, Storing
<1>5. Reserved = 0
  BY <1>1, <1>4, Sizes, FS_EmptySet
<1>. QED BY <1>3, <1>5 DEF SizeInv, Init

LEMMA NextSize == ~WaitMayFail /\ DInv /\ SizeInv /\ [Next]_vars => SizeInv'
<1> SUFFICES ASSUME ~WaitMayFail, DInv, SizeInv, [Next]_vars PROVE SizeInv'
  OBVIOUS
<1>1. DInv'
  BY NextDownloads
<1>2. ASSUME UNCHANGED <<heap, lru, current, work>> PROVE SizeInv'
  BY <1>1, <1>2, AnswersKept DEF SameAnswer
<1>3. CASE GcWake \/ GcTrim \/ \E w \in Workers : Pressure(w)
  <2>1. current <= MaxSize
    BY DEF DInv, Inv
  <2>2. UNCHANGED <<heap, lru, current, work>>
    BY <1>3, <2>1, Types, SizesAssumption DEF GcWake, GcTrim, Pressure, DInv, Inv
  <2>. QED BY <1>2, <2>2
<1>4. CASE UNCHANGED vars
  BY <1>2, <1>4 DEF vars
<1>. QED BY <1>1, <1>3, <1>4, CallbackSize, ClientSize, DownloadSize DEF Next

(* current_size covers every stored byte of the map and every reserved one, *)
(* so giving the space of an entry back never runs below zero, and it never *)
(* exceeds max_size (cache.c:398-419, 609-613), unless a wait fails.        *)
THEOREM SizeCovered == ~WaitMayFail => (Spec => []SizeCovers)
<1> SUFFICES ASSUME ~WaitMayFail PROVE Spec => []SizeCovers
  OBVIOUS
<1>1. Init => DInv /\ SizeInv
  BY InitDownloads, InitSize
<1>2. DInv /\ SizeInv /\ [Next]_vars => (DInv /\ SizeInv)'
  BY NextDownloads, NextSize
<1>3. DInv /\ SizeInv => SizeCovers
  BY DEF DInv, Inv, SizeInv, SizeCovers
<1>. QED BY <1>1, <1>2, <1>3, PTL DEF Spec
=============================================================================
