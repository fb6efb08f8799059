--------------------------- MODULE ProxyCache_proof ---------------------------
(***************************************************************************)
(* ProxyCache for any number of pages, clients, downloader threads and     *)
(* addresses: no entry is freed while it is used, and the clients of a     *)
(* page share its entry.  The inductive invariant Inv says where each      *)
(* callback and thread is and what it works with, that all of it is in the *)
(* map once, and that the references cover it; a step is a change of one   *)
(* element of the sets that References counts.  As long as                 *)
(* pthread_cond_timedwait fails only by its timeout, current_size stays    *)
(* within max_size and the collector deletes nothing (which is the finding *)
(* of run full_cache); the proofs use that.                                *)
(***************************************************************************)
EXTENDS ProxyCache, FiniteSetTheorems, SequenceTheorems, TLAPS

(* Where the callbacks and threads are, and what they work with *)
Places ==
  /\ loop.at # "wake" => batch = {}
  /\ loop.at \in {"attach", "check", "mark"} => loop.s \in Sessions /\ sess[loop.s].st = "recv"
  /\ loop.at \in {"check", "mark"} => sess[loop.s].e = loop.e
  /\ loop.at \in {"attach", "check", "mark", "decide", "remove", "release"} => loop.e \in Entries
  /\ loop.at \in {"idle", "wake"} => loop.e = NoEntry
  /\ \A s \in Sessions : sess[s].st = "stream" => sess[s].e \in Entries
  /\ \A w \in Workers : work[w].at = "idle" <=> work[w].e = NoEntry

(* What a session or the loop works with is in the map. *)
Mapped ==
  /\ \A s \in Sessions : sess[s].e \in Entries => InMap(sess[s].e) /\ s \in heap[sess[s].e].subs
  /\ loop.at \in {"attach", "check", "mark", "decide", "remove"} => InMap(loop.e)
  /\ loop.at = "remove" => heap[loop.e].subs = {}

(* A key has one entry in the map, and an entry one place there. *)
NoRepeats(q) == \A i, j \in DOMAIN q : q[i] = q[j] => i = j
OneEach == NoRepeats(lru) /\ \A e, f \in Entries : InMap(e) /\ InMap(f) /\ heap[e].key = heap[f].key => e = f

(* What TypeOK says of an entry, a session and a worker *)
Entry == [key : Keys \cup {NoEntry}, refs : Nat, running : BOOLEAN, ready : BOOLEAN, completed : BOOLEAN,
          noCache : BOOLEAN, bytes : Nat, subs : SUBSET Sessions, lapse : {"no", "refused", "late"}]
Session == [st : {"none", "recv", "stream", "dead"}, e : Entries \cup {NoEntry}]
Worker == [at : {"idle", "start", "connect", "recv", "append", "store", "dirty", "stop", "last"},
           e : Entries \cup {NoEntry}, n : Nat]

Inv == TypeOK /\ Places /\ Mapped /\ OneEach /\ RefsCover /\ current <= MaxSize

-----------------------------------------------------------------------------
(* The LRU list *)

(* Removing an entry leaves the others as they are. *)
LEMMA Unlinked ==
  ASSUME NEW q \in Seq(Entries), NoRepeats(q), NEW e
  PROVE  /\ RemoveFirst(q, e) \in Seq(Entries) /\ NoRepeats(RemoveFirst(q, e))
         /\ ToSet(RemoveFirst(q, e)) = ToSet(q) \ {e}
<1>1. CASE \E i \in 1 .. Len(q) : q[i] = e
  <2>1. PICK i \in 1 .. Len(q) : q[i] = e
    BY <1>1
  <2>2. {j \in 1 .. Len(q) : q[j] = e} = {i}
    BY <2>1 DEF NoRepeats
  <2>3. Min({i}) = i
    BY <2>1 DEF Min
  <2>4. RemoveFirst(q, e) = RemoveAt(q, i)
    BY <1>1, <2>2, <2>3, Zenon DEF RemoveFirst, SelectInSeq
  <2> DEFINE a == SubSeq(q, 1, i - 1)
             b == SubSeq(q, i + 1, Len(q))
             r == a \o b
  <2>5. Len(q) \in Nat /\ q \in [1 .. Len(q) -> Entries]
    OBVIOUS
  <2>6. a \in Seq(Entries) /\ Len(a) = i - 1 /\ \A j \in 1 .. i - 1 : a[j] = q[j]
    BY <2>5
  <2>7. b \in Seq(Entries) /\ Len(b) = Len(q) - i /\ \A j \in 1 .. Len(q) - i : b[j] = q[i + j]
    <3>1. i + 1 \in Int /\ Len(q) \in Int /\ \A j \in i + 1 .. Len(q) : q[j] \in Entries
      BY <2>5
    <3>2. /\ b \in Seq(Entries) /\ Len(b) = IF i + 1 <= Len(q) THEN Len(q) - (i + 1) + 1 ELSE 0
          /\ \A j \in 1 .. Len(q) - (i + 1) + 1 : b[j] = q[(i + 1) + j - 1]
      BY <3>1, SubSeqProperties
    <3>3. Len(q) - (i + 1) + 1 = Len(q) - i
      BY <2>5
    <3> HIDE DEF a, b
    <3>4. Len(b) = Len(q) - i
      <4>1. Len(q) \in Nat /\ i \in Nat /\ i <= Len(q)
        BY <2>5
      <4>2. CASE i + 1 <= Len(q)
        BY <3>2, <3>3, <4>2
      <4>3. CASE ~ (i + 1 <= Len(q))
        BY <3>2, <4>1, <4>3
      <4>. QED BY <4>2, <4>3
    <3>5. ASSUME NEW j \in 1 .. Len(q) - i
          PROVE  b[j] = q[i + j]
      <4>1. j \in 1 .. Len(q) - (i + 1) + 1
        BY <3>3
      <4>2. (i + 1) + j - 1 = i + j
        OBVIOUS
      <4>. QED BY <4>1, <4>2, <3>2
    <3>. QED BY <3>2, <3>4, <3>5
  <2> HIDE DEF a, b
  <2>8. r \in Seq(Entries) /\ Len(r) = Len(q) - 1 /\ DOMAIN r = 1 .. Len(q) - 1
        /\ \A j \in 1 .. Len(q) - 1 : r[j] = IF j < i THEN a[j] ELSE b[j - (i - 1)]
    <3>1. /\ r \in Seq(Entries) /\ Len(r) = Len(a) + Len(b)
          /\ \A j \in 1 .. Len(a) + Len(b) : r[j] = IF j <= Len(a) THEN a[j] ELSE b[j - Len(a)]
      BY <2>6, <2>7, ConcatProperties
    <3>2. Len(a) + Len(b) = Len(q) - 1 /\ \A j \in 1 .. Len(q) - 1 : j <= Len(a) <=> j < i
      BY <2>5, <2>6, <2>7
    <3>. QED BY <3>1, <3>2, <2>6
  <2> HIDE DEF r
  <2>9. \A j \in 1 .. Len(q) - 1 : IF j < i THEN r[j] = q[j] ELSE r[j] = q[j + 1]
    <3> SUFFICES ASSUME NEW j \in 1 .. Len(q) - 1
                 PROVE  IF j < i THEN r[j] = q[j] ELSE r[j] = q[j + 1]
      OBVIOUS
    <3>1. CASE j < i
      BY <3>1, <2>6, <2>8
    <3>2. CASE ~ (j < i)
      <4>1. j - (i - 1) \in 1 .. Len(q) - i /\ i + (j - (i - 1)) = j + 1
        BY <3>2, <2>5
      <4>. QED BY <4>1, <3>2, <2>7, <2>8
    <3>. QED BY <3>1, <3>2
  <2>10. NoRepeats(r)
    <3> SUFFICES ASSUME NEW j \in 1 .. Len(q) - 1, NEW k \in 1 .. Len(q) - 1, r[j] = r[k]
                 PROVE  j = k
      BY <2>8 DEF NoRepeats
    <3> DEFINE at(m) == IF m < i THEN m ELSE m + 1
    <3>1. at(j) \in 1 .. Len(q) /\ at(k) \in 1 .. Len(q) /\ r[j] = q[at(j)] /\ r[k] = q[at(k)]
      BY <2>5, <2>9
    <3>2. at(j) = at(k)
      BY <3>1, <2>5 DEF NoRepeats
    <3>. QED BY <3>2
  <2>11. ToSet(r) = ToSet(q) \ {e}
    <3>1. \A j \in DOMAIN r : r[j] \in ToSet(q) /\ r[j] # e
      BY <2>1, <2>5, <2>8, <2>9 DEF NoRepeats, ToSet
    <3>2. ASSUME NEW j \in DOMAIN q, q[j] # e
          PROVE  q[j] \in ToSet(r)
      <4>1. CASE j < i
        BY <4>1, <2>5, <2>8, <2>9 DEF ToSet
      <4>2. CASE ~ (j < i)
        <5>1. j - 1 \in 1 .. Len(q) - 1 /\ ~ (j - 1 < i) /\ (j - 1) + 1 = j
          BY <3>2, <4>2, <2>1, <2>5
        <5>2. r[j - 1] = q[j]
          BY <5>1, <2>9
        <5>. QED BY <5>1, <5>2, <2>8 DEF ToSet
      <4>. QED BY <4>1, <4>2
    <3>. QED BY <3>1, <3>2 DEF ToSet
  <2>12. RemoveFirst(q, e) = r
    BY <2>4 DEF RemoveAt, r, a, b
  <2>. QED BY <2>8, <2>10, <2>11, <2>12
<1>2. CASE ~ \E i \in 1 .. Len(q) : q[i] = e
  <2>1. RemoveFirst(q, e) = q
    BY <1>2, Zenon DEF RemoveFirst
  <2>2. e \notin ToSet(q)
    BY <1>2 DEF ToSet
  <2>. QED BY <2>1, <2>2
<1>. QED BY <1>1, <1>2

(* A new entry, or one that was used, comes first. *)
LEMMA InFront ==
  ASSUME NEW q \in Seq(Entries), NoRepeats(q), NEW e \in Entries, e \notin ToSet(q)
  PROVE  /\ <<e>> \o q \in Seq(Entries) /\ NoRepeats(<<e>> \o q)
         /\ ToSet(<<e>> \o q) = ToSet(q) \cup {e}
<1> DEFINE r == <<e>> \o q
<1>1. r \in Seq(Entries) /\ DOMAIN r = 1 .. Len(q) + 1 /\ r[1] = e
      /\ \A j \in 1 .. Len(q) : r[j + 1] = q[j]
  OBVIOUS
<1>2. \A j \in DOMAIN r : j # 1 => j - 1 \in DOMAIN q /\ r[j] = q[j - 1] /\ r[j] # e
  BY <1>1 DEF ToSet
<1> HIDE DEF r
<1>3. NoRepeats(r)
  BY <1>1, <1>2 DEF NoRepeats
<1>4. ToSet(r) = ToSet(q) \cup {e}
  <2>1. \A j \in DOMAIN r : r[j] \in ToSet(q) \cup {e}
    BY <1>1, <1>2 DEF ToSet
  <2>2. e \in ToSet(r)
    BY <1>1 DEF ToSet
  <2>3. ASSUME NEW j \in DOMAIN q PROVE q[j] \in ToSet(r)
    <3>1. j + 1 \in DOMAIN r /\ r[j + 1] = q[j]
      BY <1>1
    <3>. QED BY <3>1 DEF ToSet
  <2>. QED BY <2>1, <2>2, <2>3 DEF ToSet
<1>. QED BY <1>1, <1>3, <1>4 DEF r
-----------------------------------------------------------------------------
(* Counting the users of an entry *)

(* Two finite sets that differ in at most one element *)
LEMMA OneMore ==
  ASSUME NEW A, NEW B, NEW x, IsFiniteSet(A), A \ {x} = B \ {x}
  PROVE  /\ IsFiniteSet(B) /\ Cardinality(A) \in Nat /\ Cardinality(B) \in Nat
         /\ Cardinality(B) = Cardinality(A) - (IF x \in A THEN 1 ELSE 0) + (IF x \in B THEN 1 ELSE 0)
<1>1. IsFiniteSet(A \ {x}) /\ Cardinality(A \ {x}) = IF x \in A THEN Cardinality(A) - 1 ELSE Cardinality(A)
  BY FS_RemoveElement
<1>2. B = IF x \in B THEN (A \ {x}) \cup {x} ELSE A \ {x}
  OBVIOUS
<1>3. IsFiniteSet((A \ {x}) \cup {x}) /\ Cardinality((A \ {x}) \cup {x}) = Cardinality(A \ {x}) + 1
  BY <1>1, FS_AddElement
<1>4. IsFiniteSet(B)
  BY <1>1, <1>2, <1>3
<1>5. Cardinality(A) \in Nat /\ Cardinality(B) \in Nat /\ Cardinality(A \ {x}) \in Nat
  BY <1>1, <1>4, FS_CardinalityType
<1>6. Cardinality(B) = IF x \in B THEN Cardinality(A \ {x}) + 1 ELSE Cardinality(A \ {x})
  BY <1>2, <1>3
<1>. QED BY <1>1, <1>4, <1>5, <1>6

LEMMA Finite ==
  ASSUME TypeOK, NEW e
  PROVE  /\ IsFiniteSet(Attached(e)) /\ Cardinality(Attached(e)) \in Nat
         /\ IsFiniteSet(Queued(e)) /\ Cardinality(Queued(e)) \in Nat
         /\ IsFiniteSet(Working(e)) /\ Cardinality(Working(e)) \in Nat
         /\ Cardinality(Attached(e)) = 0 <=> Attached(e) = {}
         /\ Cardinality(Queued(e)) = 0 <=> Queued(e) = {}
         /\ Cardinality(Working(e)) = 0 <=> Working(e) = {}
<1>1. DOMAIN tasks = 1 .. Len(tasks) /\ Len(tasks) \in Nat
  BY DEF TypeOK
<1>2. IsFiniteSet(DOMAIN tasks)
  BY <1>1, FS_Interval
<1>3. /\ Attached(e) \in SUBSET Sessions /\ Queued(e) \in SUBSET (DOMAIN tasks)
      /\ Working(e) \in SUBSET Workers
  BY DEF Attached, Queued, Working
<1>4. IsFiniteSet(Attached(e)) /\ IsFiniteSet(Queued(e)) /\ IsFiniteSet(Working(e))
  BY <1>2, <1>3, FiniteAssumption, FS_Subset
<1>. QED BY <1>4, FS_CardinalityType, FS_EmptySet

(* One session, one worker or one task changes what it uses. *)
LEMMA SessionMoves ==
  ASSUME TypeOK, NEW s \in Sessions, \A u \in Sessions : u # s => sess'[u].e = sess[u].e
  PROVE  \A e : Cardinality(Attached(e)') = Cardinality(Attached(e))
                  - (IF sess[s].e = e THEN 1 ELSE 0) + (IF sess'[s].e = e THEN 1 ELSE 0)
<1> SUFFICES ASSUME NEW e
             PROVE  Cardinality(Attached(e)') = Cardinality(Attached(e))
                      - (IF sess[s].e = e THEN 1 ELSE 0) + (IF sess'[s].e = e THEN 1 ELSE 0)
  OBVIOUS
<1>1. Attached(e) \ {s} = Attached(e)' \ {s} /\ (s \in Attached(e) <=> sess[s].e = e)
      /\ (s \in Attached(e)' <=> sess'[s].e = e)
  BY DEF Attached
<1>. QED BY <1>1, Finite, OneMore

LEMMA WorkerMoves ==
  ASSUME TypeOK, NEW w \in Workers, \A u \in Workers : u # w => work'[u].e = work[u].e
  PROVE  \A e : Cardinality(Working(e)') = Cardinality(Working(e))
                  - (IF work[w].e = e THEN 1 ELSE 0) + (IF work'[w].e = e THEN 1 ELSE 0)
<1> SUFFICES ASSUME NEW e
             PROVE  Cardinality(Working(e)') = Cardinality(Working(e))
                      - (IF work[w].e = e THEN 1 ELSE 0) + (IF work'[w].e = e THEN 1 ELSE 0)
  OBVIOUS
<1>1. Working(e) \ {w} = Working(e)' \ {w} /\ (w \in Working(e) <=> work[w].e = e)
      /\ (w \in Working(e)' <=> work'[w].e = e)
  BY DEF Working
<1>. QED BY <1>1, Finite, OneMore

LEMMA TaskAdded ==
  ASSUME TypeOK, NEW f \in Entries, tasks' = Append(tasks, f)
  PROVE  \A e : Cardinality(Queued(e)') = Cardinality(Queued(e)) + (IF f = e THEN 1 ELSE 0)
<1> SUFFICES ASSUME NEW e
             PROVE  Cardinality(Queued(e)') = Cardinality(Queued(e)) + (IF f = e THEN 1 ELSE 0)
  OBVIOUS
<1> DEFINE n == Len(tasks) + 1
<1>1. DOMAIN tasks = 1 .. Len(tasks) /\ Len(tasks) \in Nat /\ DOMAIN tasks' = 1 .. n
      /\ tasks'[n] = f /\ \A i \in 1 .. Len(tasks) : tasks'[i] = tasks[i]
  BY DEF TypeOK
<1>2. n \notin DOMAIN tasks /\ n \in DOMAIN tasks' /\ DOMAIN tasks' \ {n} = DOMAIN tasks
  BY <1>1
<1> HIDE DEF n
<1>3. Queued(e) \ {n} = Queued(e)' \ {n} /\ n \notin Queued(e) /\ (n \in Queued(e)' <=> f = e)
  BY <1>1, <1>2 DEF Queued
<1>. QED BY <1>3, Finite, OneMore

LEMMA TaskTaken ==
  ASSUME TypeOK, tasks # <<>>, tasks' = Tail(tasks)
  PROVE  \A e : Cardinality(Queued(e)') = Cardinality(Queued(e)) - (IF Head(tasks) = e THEN 1 ELSE 0)
<1> SUFFICES ASSUME NEW e
             PROVE  Cardinality(Queued(e)') = Cardinality(Queued(e)) - (IF Head(tasks) = e THEN 1 ELSE 0)
  OBVIOUS
<1>1. DOMAIN tasks = 1 .. Len(tasks) /\ Len(tasks) \in Nat /\ Len(tasks) >= 1
      /\ DOMAIN tasks' = 1 .. Len(tasks) - 1 /\ Head(tasks) = tasks[1]
      /\ \A i \in 1 .. Len(tasks) - 1 : tasks'[i] = tasks[i + 1]
  BY DEF TypeOK
<1> DEFINE R == Queued(e) \ {1}
           shift == [i \in R |-> i - 1]
<1>2. shift \in Bijection(R, Queued(e)')
  <2>1. shift \in [R -> Queued(e)']
    BY <1>1 DEF Queued
  <2>2. \A i, j \in R : shift[i] = shift[j] => i = j
    BY <1>1 DEF Queued
  <2>3. \A j \in Queued(e)' : j + 1 \in R /\ shift[j + 1] = j
    BY <1>1 DEF Queued
  <2>. QED BY <2>1, <2>2, <2>3 DEF Bijection, Injection, Surjection, IsInjective
<1>3. IsFiniteSet(R)
      /\ Cardinality(R) = IF 1 \in Queued(e) THEN Cardinality(Queued(e)) - 1 ELSE Cardinality(Queued(e))
  BY Finite, FS_RemoveElement
<1>4. Cardinality(Queued(e)') = Cardinality(R)
  BY <1>2, <1>3, FS_Bijection DEF ExistsBijection
<1>5. 1 \in Queued(e) <=> Head(tasks) = e
  BY <1>1 DEF Queued
<1>. QED BY <1>3, <1>4, <1>5, Finite
-----------------------------------------------------------------------------
(* The parts of the type invariant *)
LEMMA Types ==
  ASSUME TypeOK
  PROVE  /\ heap \in [Entries -> Entry] /\ lru \in Seq(Entries) /\ current \in Int
         /\ sess \in [Sessions -> Session] /\ work \in [Workers -> Worker]
         /\ batch \subseteq Entries /\ dirty \subseteq Entries /\ tasks \in Seq(Entries)
         /\ ToSet(lru) \subseteq Entries
<1>1. \A i \in DOMAIN lru : lru[i] \in Entries
  BY DEF TypeOK
<1>. QED BY <1>1 DEF TypeOK, Entry, Session, Worker, ToSet

(* One reference more, or less *)
LEMMA Acquired ==
  ASSUME TypeOK, NEW e \in Entries
  PROVE  /\ Acquire(heap, e) \in [Entries -> Entry]
         /\ \A f \in Entries : Acquire(heap, e)[f] = IF f = e THEN [heap[e] EXCEPT !.refs = @ + 1] ELSE heap[f]
         /\ Acquire(heap, e)[e].refs = heap[e].refs + 1
         /\ Acquire(heap, e)[e].key = heap[e].key /\ Acquire(heap, e)[e].subs = heap[e].subs
<1>1. heap \in [Entries -> Entry] /\ heap[e] \in Entry
  BY Types
<1>2. /\ [heap[e] EXCEPT !.refs = @ + 1] \in Entry
      /\ [heap[e] EXCEPT !.refs = @ + 1].refs = heap[e].refs + 1
      /\ [heap[e] EXCEPT !.refs = @ + 1].key = heap[e].key /\ [heap[e] EXCEPT !.refs = @ + 1].subs = heap[e].subs
  BY <1>1 DEF Entry
<1>3. \A f \in Entries : Acquire(heap, e)[f] = IF f = e THEN [heap[e] EXCEPT !.refs = @ + 1] ELSE heap[f]
  BY <1>1 DEF Acquire
<1>4. Acquire(heap, e) = [f \in Entries |-> Acquire(heap, e)[f]]
  BY <1>1 DEF Acquire
<1>. QED BY <1>1, <1>2, <1>3, <1>4

LEMMA Released ==
  ASSUME TypeOK, NEW e \in Entries, heap[e].refs >= 1
  PROVE  /\ Release(heap, e) \in [Entries -> Entry]
         /\ \A f \in Entries : f # e => Release(heap, e)[f] = heap[f]
         /\ Release(heap, e)[e] = IF heap[e].refs = 1 THEN Free ELSE [heap[e] EXCEPT !.refs = @ - 1]
         /\ Release(heap, e)[e].refs = heap[e].refs - 1
         /\ heap[e].refs # 1 => /\ Release(heap, e)[e].key = heap[e].key
                                /\ Release(heap, e)[e].subs = heap[e].subs
<1>1. Free \in Entry /\ Free.refs = 0
  BY DEF Free, Entry
<1>2. heap \in [Entries -> Entry] /\ heap[e] \in Entry
  BY Types
<1>3. heap[e].refs # 1 => [heap[e] EXCEPT !.refs = @ - 1] \in Entry
  BY <1>2 DEF Entry
<1>4. /\ \A f \in Entries : f # e => Release(heap, e)[f] = heap[f]
      /\ Release(heap, e)[e] = IF heap[e].refs = 1 THEN Free ELSE [heap[e] EXCEPT !.refs = @ - 1]
      /\ Release(heap, e) = [f \in Entries |-> Release(heap, e)[f]]
  BY <1>2 DEF Release
<1>5. Release(heap, e) \in [Entries -> Entry]
  BY <1>1, <1>2, <1>3, <1>4
<1>. QED BY <1>1, <1>2, <1>4, <1>5 DEF Entry

(* Nobody new uses an entry: the references still suffice. *)
LEMMA SameUsers ==
  ASSUME Inv, UNCHANGED <<lru, dirty, batch, tasks>>,
         \A e \in Entries : heap'[e].refs = heap[e].refs,
         \A s \in Sessions : sess'[s].e = sess[s].e,
         \A w \in Workers : work'[w].e = work[w].e,
         \A e \in Entries : Handled(e)' <=> Handled(e)
  PROVE  RefsCover'
<1> SUFFICES ASSUME NEW e \in Entries PROVE heap'[e].refs >= References(e)'
  BY DEF RefsCover
<1>1. Attached(e)' = Attached(e) /\ Queued(e)' = Queued(e) /\ Working(e)' = Working(e)
  BY DEF Attached, Queued, Working
<1>2. References(e)' = References(e)
  BY <1>1 DEF References, Count, InMap, Handled
<1>. QED BY <1>2 DEF Inv, RefsCover

(* A worker goes on with its download. *)
LEMMA WorkerKeeps ==
  ASSUME Inv, TypeOK', UNCHANGED <<lru, sess, loop, batch, tasks, dirty>>, current' <= MaxSize,
         \A e \in Entries : heap'[e].refs = heap[e].refs /\ heap'[e].key = heap[e].key /\ heap'[e].subs = heap[e].subs,
         \A w \in Workers : work'[w].e = work[w].e /\ (work'[w].at = "idle" <=> work[w].at = "idle")
  PROVE  Inv'
<1>1. RefsCover'
  BY SameUsers DEF Handled
<1>2. Places'
  BY DEF Inv, Places
<1>3. Mapped' /\ OneEach'
  BY DEF Inv, Mapped, OneEach, Places, InMap, NoRepeats
<1>. QED BY <1>1, <1>2, <1>3 DEF Inv

(* An entry is replaced by h. *)
Replaced(e, h) == /\ heap' = [heap EXCEPT ![e] = h]
                  /\ h \in Entry /\ h.refs = heap[e].refs /\ h.key = heap[e].key /\ h.subs = heap[e].subs

LEMMA Filled ==
  ASSUME TypeOK, NEW e \in Entries, NEW h, Replaced(e, h)
  PROVE  /\ heap' \in [Entries -> Entry]
         /\ \A f \in Entries : /\ heap'[f].refs = heap[f].refs
                                /\ heap'[f].key = heap[f].key /\ heap'[f].subs = heap[f].subs
<1>1. heap' \in [Entries -> Entry] /\ heap'[e] = h /\ \A f \in Entries : f # e => heap'[f] = heap[f]
  BY Types DEF Replaced
<1>. QED BY <1>1 DEF Replaced

(* A worker that is not idle has an entry, and takes its steps with it. *)
LEMMA DownloadKeeps ==
  ASSUME Inv, ~WaitMayFail, NEW w \in Workers,
         \/ Start(w) \/ Fail(w) \/ ReceiveHeader(w) \/ ReceiveData(w)
         \/ Reserve(w) \/ Store(w) \/ Complete(w) \/ Stop(w)
  PROVE  Inv'
<1> DEFINE e == work[w].e
<1>1. TypeOK /\ heap \in [Entries -> Entry] /\ work \in [Workers -> Worker] /\ current \in Int /\ current <= MaxSize
  BY Types DEF Inv
<1>2. work[w].at # "idle"
  BY DEF Start, Fail, ReceiveHeader, ReceiveData, Reserve, Store, Complete, Stop, At
<1>3. e \in Entries
  BY <1>1, <1>2 DEF Inv, Places, Worker
<1> HIDE DEF e
<1>4. UNCHANGED <<lru, sess, loop, batch, tasks, dirty, gc>>
  BY DEF Start, Fail, ReceiveHeader, ReceiveData, Reserve, Store, Complete, Stop
<1>5. /\ current' \in Int
      /\ current' <= MaxSize
  <2>1. CASE Reserve(w)
    BY <2>1, <1>1, SizesAssumption DEF Reserve
  <2>2. CASE Store(w)
    <3>1. current' = current \/ current' = current - 0 \/ current' = current - 1
      BY <2>2 DEF Store
    <3>. QED BY <3>1, <1>1, SizesAssumption
  <2>3. CASE \/ Start(w) \/ Fail(w) \/ ReceiveHeader(w) \/ ReceiveData(w) \/ Complete(w) \/ Stop(w)
    BY <2>3, <1>1 DEF Start, Fail, ReceiveHeader, ReceiveData, Complete, Stop
  <2>. QED BY <2>1, <2>2, <2>3
<1>6. /\ work' \in [Workers -> Worker]
      /\ \A v \in Workers : work'[v].e = work[v].e /\ (work'[v].at = "idle" <=> work[v].at = "idle")
  <2>1. CASE Start(w)
    BY <2>1, <1>1 DEF Worker, Start, At
  <2>2. CASE Fail(w)
    BY <2>2, <1>1 DEF Worker, Fail
  <2>3. CASE ReceiveHeader(w)
    BY <2>3, <1>1 DEF Worker, ReceiveHeader, At
  <2>4. CASE ReceiveData(w)
    BY <2>4, <1>1 DEF Worker, ReceiveData, At
  <2>5. CASE Reserve(w)
    BY <2>5, <1>1 DEF Worker, Reserve
  <2>6. CASE Store(w)
    BY <2>6, <1>1 DEF Worker, Store
  <2>7. CASE Complete(w)
    BY <2>7, <1>1 DEF Worker, Complete
  <2>8. CASE Stop(w)
    BY <2>8, <1>1 DEF Worker, Stop, At
  <2>. QED BY <2>1, <2>2, <2>3, <2>4, <2>5, <2>6, <2>7, <2>8
<1>7. UNCHANGED heap \/ \E h : Replaced(e, h)
  <2>. heap[e] \in Entry
    BY <1>1, <1>3
  <2>1. CASE Start(w)
    <3> DEFINE h == [heap[e] EXCEPT !.running = TRUE]
    <3>1. heap' = [heap EXCEPT ![e] = h]
      BY <2>1, <1>1, <1>3 DEF Start, e
    <3>2. h \in Entry /\ h.refs = heap[e].refs /\ h.key = heap[e].key /\ h.subs = heap[e].subs
      BY DEF Entry
    <3>. QED BY <3>1, <3>2 DEF Replaced
  <2>2. CASE Fail(w)
    <3> DEFINE h == [heap[e] EXCEPT !.noCache = TRUE, !.ready = TRUE, !.completed = TRUE]
    <3>1. heap' = [heap EXCEPT ![e] = h]
      BY <2>2, <1>1, <1>3 DEF Fail, e, Failed
    <3>2. h \in Entry /\ h.refs = heap[e].refs /\ h.key = heap[e].key /\ h.subs = heap[e].subs
      BY DEF Entry
    <3>. QED BY <3>1, <3>2 DEF Replaced
  <2>3. CASE ReceiveHeader(w)
    <3>1. PICK ok \in BOOLEAN : heap' = [heap EXCEPT ![e].ready = TRUE, ![e].noCache = ~ok]
      BY <2>3 DEF ReceiveHeader, e
    <3> DEFINE h == [heap[e] EXCEPT !.ready = TRUE, !.noCache = ~ok]
    <3>2. heap' = [heap EXCEPT ![e] = h]
      BY <3>1, <1>1, <1>3
    <3>3. h \in Entry /\ h.refs = heap[e].refs /\ h.key = heap[e].key /\ h.subs = heap[e].subs
      BY DEF Entry
    <3>. QED BY <3>2, <3>3 DEF Replaced
  <2>4. CASE ReceiveData(w)
    BY <2>4 DEF ReceiveData
  <2>5. CASE Reserve(w)
    <3> DEFINE h == [heap[e] EXCEPT !.noCache = TRUE, !.ready = TRUE, !.completed = TRUE]
    <3>1. UNCHANGED heap \/ heap' = [heap EXCEPT ![e] = h]
      BY <2>5, <1>1, <1>3 DEF Reserve, Failed, e
    <3>2. h \in Entry /\ h.refs = heap[e].refs /\ h.key = heap[e].key /\ h.subs = heap[e].subs
      BY DEF Entry
    <3>. QED BY <3>1, <3>2 DEF Replaced
  <2>6. CASE Store(w)
    <3> DEFINE counted == IF heap[e].noCache THEN 0 ELSE 1
               g == [heap[e] EXCEPT !.noCache = TRUE, !.ready = TRUE, !.completed = TRUE]
               h == [heap[e] EXCEPT !.bytes = @ + counted]
    <3>1. heap' = [heap EXCEPT ![e] = g] \/ heap' = [heap EXCEPT ![e] = h]
      BY <2>6, <1>1, <1>3 DEF Store, Failed, e
    <3>2. g \in Entry /\ g.refs = heap[e].refs /\ g.key = heap[e].key /\ g.subs = heap[e].subs
      BY DEF Entry
    <3>3. counted \in Nat
      OBVIOUS
    <3> HIDE DEF counted
    <3>4. h \in Entry /\ h.refs = heap[e].refs /\ h.key = heap[e].key /\ h.subs = heap[e].subs
      BY <3>3 DEF Entry
    <3>. QED BY <3>1, <3>2, <3>4 DEF Replaced
  <2>7. CASE Complete(w)
    <3> DEFINE h == [heap[e] EXCEPT !.completed = TRUE]
    <3>1. heap' = [heap EXCEPT ![e] = h]
      BY <2>7, <1>1, <1>3 DEF Complete, e
    <3>2. h \in Entry /\ h.refs = heap[e].refs /\ h.key = heap[e].key /\ h.subs = heap[e].subs
      BY DEF Entry
    <3>. QED BY <3>1, <3>2 DEF Replaced
  <2>8. CASE Stop(w)
    <3> DEFINE h == [heap[e] EXCEPT !.running = FALSE, !.lapse = "no"]
    <3>1. heap' = [heap EXCEPT ![e] = h]
      BY <2>8, <1>1, <1>3 DEF Stop, e
    <3>2. h \in Entry /\ h.refs = heap[e].refs /\ h.key = heap[e].key /\ h.subs = heap[e].subs
      BY DEF Entry
    <3>. QED BY <3>1, <3>2 DEF Replaced
  <2>. QED BY <2>1, <2>2, <2>3, <2>4, <2>5, <2>6, <2>7, <2>8
<1>8. /\ heap' \in [Entries -> Entry]
      /\ \A f \in Entries : heap'[f].refs = heap[f].refs /\ heap'[f].key = heap[f].key /\ heap'[f].subs = heap[f].subs
  BY <1>1, <1>3, <1>7, Filled
<1>9. TypeOK'
  BY <1>1, <1>4, <1>5, <1>6, <1>8 DEF TypeOK, Entry, Worker
<1>. QED BY <1>4, <1>5, <1>6, <1>8, <1>9, WorkerKeeps

(* The type invariant, put together again *)
Place == [at : {"idle", "attach", "check", "mark", "decide", "remove", "release", "wake"},
          s : Sessions \cup {NoSession}, e : Entries \cup {NoEntry}]

(* Nothing that the invariant speaks of moves in the collector, which never deletes. *)
LEMMA CollectorKeeps ==
  ASSUME Inv, GcWake \/ GcTrim \/ \E w \in Workers : Pressure(w)
  PROVE  Inv'
<1>1. TypeOK /\ current \in Int /\ current <= MaxSize /\ gc \in [at : {"wait", "trim"}, requested : BOOLEAN]
  BY DEF Inv, TypeOK
<1>2. UNCHANGED <<heap, lru, current, sess, loop, batch, tasks, work, dirty>>
  BY <1>1, SizesAssumption DEF GcWake, GcTrim, Pressure
<1>3. gc' \in [at : {"wait", "trim"}, requested : BOOLEAN]
  <2>1. \/ gc' = [at |-> "trim", requested |-> FALSE]
        \/ gc' = [gc EXCEPT !.at = "wait"]
        \/ gc' = [gc EXCEPT !.requested = TRUE]
    BY <1>1, SizesAssumption DEF GcWake, GcTrim, Pressure
  <2>2. gc \in [at : {"wait", "trim"}, requested : BOOLEAN]
    BY <1>1
  <2>3. /\ [gc EXCEPT !.at = "wait"] \in [at : {"wait", "trim"}, requested : BOOLEAN]
        /\ [gc EXCEPT !.requested = TRUE] \in [at : {"wait", "trim"}, requested : BOOLEAN]
    BY <2>2
  <2>4. [at |-> "trim", requested |-> FALSE] \in [at : {"wait", "trim"}, requested : BOOLEAN]
    OBVIOUS
  <2>. QED BY <2>1, <2>3, <2>4, Zenon
<1>4. TypeOK'
  BY <1>1, <1>2, <1>3 DEF TypeOK
<1>. QED BY <1>1, <1>2, <1>4, WorkerKeeps

(* The task's reference becomes the worker's. *)
LEMMA DequeueKeeps ==
  ASSUME Inv, NEW w \in Workers, Dequeue(w)
  PROVE  Inv'
<1> DEFINE e == Head(tasks)
<1>1. TypeOK /\ tasks \in Seq(Entries) /\ work \in [Workers -> Worker]
  BY Types DEF Inv
<1>2. /\ tasks # <<>> /\ tasks' = Tail(tasks) /\ work[w].at = "idle"
      /\ work' = [work EXCEPT ![w] = [at |-> "start", e |-> e, n |-> 0]]
      /\ UNCHANGED <<heap, lru, current, sess, loop, batch, dirty, gc>>
  BY DEF Dequeue
<1>3. e \in Entries /\ tasks' \in Seq(Entries)
  BY <1>1, <1>2
<1> HIDE DEF e
<1>4. work[w].e = NoEntry
  BY <1>2 DEF Inv, Places
<1>5. /\ work' \in [Workers -> Worker] /\ work'[w].e = e /\ work'[w].at = "start"
      /\ \A v \in Workers : v # w => work'[v] = work[v]
  BY <1>1, <1>2, <1>3 DEF Worker
<1>6. TypeOK'
  BY <1>1, <1>2, <1>3, <1>5 DEF TypeOK, Worker
<1>7. RefsCover'
  <2> SUFFICES ASSUME NEW f \in Entries PROVE heap'[f].refs >= References(f)'
    BY DEF RefsCover
  <2>1. Cardinality(Queued(f)') = Cardinality(Queued(f)) - (IF e = f THEN 1 ELSE 0)
    BY <1>1, <1>2, TaskTaken DEF e
  <2>2. Cardinality(Working(f)') = Cardinality(Working(f)) + (IF e = f THEN 1 ELSE 0)
    <3>1. Cardinality(Working(f)') = Cardinality(Working(f)) - (IF work[w].e = f THEN 1 ELSE 0)
                                     + (IF work'[w].e = f THEN 1 ELSE 0)
      BY <1>1, <1>5, WorkerMoves
    <3>2. work[w].e # f
      BY <1>4, NoEntryAssumption
    <3>. QED BY <3>1, <3>2, <1>5, <1>1, Finite
  <2>3. Attached(f)' = Attached(f)
    BY <1>2 DEF Attached
  <2>4. References(f)' = References(f)
    BY <1>1, <1>2, <2>1, <2>2, <2>3, Finite DEF References, Count, InMap, Handled
  <2>. QED BY <1>2, <2>4 DEF Inv, RefsCover
<1>8. Places' /\ Mapped' /\ OneEach' /\ current' <= MaxSize
  <2>1. Places'
    BY <1>2, <1>3, <1>5, NoEntryAssumption DEF Inv, Places
  <2>2. Mapped' /\ OneEach' /\ current' <= MaxSize
    BY <1>2 DEF Inv, Mapped, OneEach, InMap, NoRepeats
  <2>. QED BY <2>1, <2>2
<1>. QED BY <1>6, <1>7, <1>8 DEF Inv

(* The dirty queue takes a reference of its own. *)
LEMMA MarkDirtyKeeps ==
  ASSUME Inv, NEW w \in Workers, MarkDirty(w)
  PROVE  Inv'
<1> DEFINE e == work[w].e
<1>1. TypeOK /\ work \in [Workers -> Worker] /\ heap \in [Entries -> Entry]
  BY Types DEF Inv
<1>2. /\ work[w].at = "dirty" /\ work' = [work EXCEPT ![w].at = "recv"]
      /\ UNCHANGED <<lru, current, sess, loop, batch, tasks, gc>>
      /\ \/ UNCHANGED <<dirty, heap>>
         \/ e \notin dirty /\ dirty' = dirty \cup {e} /\ heap' = Acquire(heap, e)
  BY DEF MarkDirty, At, Enqueue
<1>3. e \in Entries
  BY <1>1, <1>2 DEF Inv, Places, Worker
<1> HIDE DEF e
<1>4. /\ work' \in [Workers -> Worker]
      /\ \A v \in Workers : work'[v].e = work[v].e /\ (work'[v].at = "idle" <=> work[v].at = "idle")
  BY <1>1, <1>2 DEF Worker
<1>5. CASE UNCHANGED <<dirty, heap>>
  <2>1. TypeOK'
    BY <1>1, <1>2, <1>4, <1>5 DEF TypeOK, Worker
  <2>. QED BY <1>2, <1>4, <1>5, <2>1, WorkerKeeps DEF Inv
<1>6. CASE e \notin dirty /\ dirty' = dirty \cup {e} /\ heap' = Acquire(heap, e)
  <2>1. /\ heap' \in [Entries -> Entry]
        /\ heap'[e].refs = heap[e].refs + 1 /\ \A f \in Entries : f # e => heap'[f].refs = heap[f].refs
        /\ \A f \in Entries : heap'[f].key = heap[f].key /\ heap'[f].subs = heap[f].subs
    BY <1>1, <1>3, <1>6, Acquired
  <2>2. TypeOK'
    BY <1>1, <1>2, <1>3, <1>4, <1>6, <2>1 DEF TypeOK, Entry, Worker
  <2>3. RefsCover'
    <3> SUFFICES ASSUME NEW f \in Entries PROVE heap'[f].refs >= References(f)'
      BY DEF RefsCover
    <3>1. Attached(f)' = Attached(f) /\ Queued(f)' = Queued(f) /\ Working(f)' = Working(f)
      BY <1>2, <1>4 DEF Attached, Queued, Working
    <3>2. References(f)' = References(f) + (IF f = e THEN 1 ELSE 0) /\ References(f) \in Nat
      BY <1>1, <1>2, <1>6, <3>1, Finite DEF References, Count, InMap, Handled
    <3>3. heap[f].refs >= References(f) /\ heap[f].refs \in Nat
      BY <1>1 DEF Inv, RefsCover, Entry
    <3>. QED BY <2>1, <3>2, <3>3
  <2>4. Places'
    BY <1>2, <1>4 DEF Inv, Places
  <2>5. Mapped' /\ OneEach' /\ current' <= MaxSize
    BY <1>2, <2>1 DEF Inv, Mapped, OneEach, InMap, NoRepeats, Places
  <2>. QED BY <2>2, <2>3, <2>4, <2>5 DEF Inv
<1>. QED BY <1>2, <1>5, <1>6

(* An entry in the map or with a session has a reference ... *)
Held == \A e \in Entries : InMap(e) \/ (\E s \in Sessions : sess[s].e = e) => heap[e].refs >= 1

LEMMA InUse == TypeOK /\ RefsCover => Held
<1> SUFFICES ASSUME TypeOK, RefsCover, NEW e \in Entries, InMap(e) \/ \E s \in Sessions : sess[s].e = e
             PROVE  heap[e].refs >= 1
  BY DEF Held
<1>1. heap[e].refs >= References(e) /\ heap[e].refs \in Nat
  BY Types DEF RefsCover, Entry
<1>2. References(e) \in Nat /\ References(e) >= 1
  <2>1. CASE InMap(e)
    BY <2>1, Finite DEF References, Count, InMap, Handled
  <2>2. CASE \E s \in Sessions : sess[s].e = e
    <3>1. Attached(e) # {}
      BY <2>2 DEF Attached
    <3>. QED BY <3>1, Finite DEF References, Count, InMap, Handled
  <2>. QED BY <2>1, <2>2
<1>. QED BY <1>1, <1>2

LEMMA InUseThen == (TypeOK /\ RefsCover => Held)'
BY InUse, PTL

(* ... so when somebody gives up a reference, it and its key stay as they are. *)
LEMMA StillUsed ==
  ASSUME TypeOK, TypeOK', RefsCover', NEW e \in Entries, heap[e].refs >= 1, heap' = Release(heap, e)
  PROVE  \A f \in Entries : InMap(f)' \/ (\E s \in Sessions : sess'[s].e = f)
                              => heap'[f].key = heap[f].key /\ heap'[f].subs = heap[f].subs
<1>2. \A f \in Entries : InMap(f)' \/ (\E s \in Sessions : sess'[s].e = f) => heap'[f].refs >= 1
  BY InUseThen DEF Held
<1>3. heap[e].refs \in Nat /\ heap'[e].refs = heap[e].refs - 1
      /\ (heap[e].refs # 1 => heap'[e].key = heap[e].key /\ heap'[e].subs = heap[e].subs)
      /\ \A f \in Entries : f # e => heap'[f] = heap[f]
  BY Released, Types DEF Entry
<1>. QED BY <1>2, <1>3

LEMMA Dropped ==
  ASSUME Inv, NEW e \in Entries, heap' = Release(heap, e),
         \A f \in Entries : References(f)' = References(f) - (IF f = e THEN 1 ELSE 0) /\ References(f)' \in Nat
  PROVE  heap[e].refs >= 1 /\ heap' \in [Entries -> Entry] /\ RefsCover'
<1>1. TypeOK /\ \A f \in Entries : heap[f].refs \in Nat /\ heap[f].refs >= References(f)
  BY Types DEF Inv, RefsCover, Entry
<1>2. \A f \in Entries : References(f) \in Nat
  BY <1>1, Finite DEF References, Count
<1>3. heap[e].refs >= 1
  BY <1>1, <1>2
<1>4. /\ heap' \in [Entries -> Entry] /\ heap'[e].refs = heap[e].refs - 1
      /\ \A f \in Entries : f # e => heap'[f] = heap[f]
  BY <1>1, <1>3, Released
<1>5. RefsCover'
  BY <1>1, <1>2, <1>4 DEF RefsCover
<1>. QED BY <1>3, <1>4, <1>5

LEMMA MapKept ==
  ASSUME OneEach, NoRepeats(lru'), \A f \in Entries : InMap(f)' => InMap(f) /\ heap'[f].key = heap[f].key
  PROVE  OneEach'
BY DEF OneEach

(* The worker gives its reference back, or leaves it to the dirty queue. *)
LEMMA FinishKeeps ==
  ASSUME Inv, NEW w \in Workers, Finish(w)
  PROVE  Inv'
<1> DEFINE e == work[w].e
<1>1. TypeOK /\ work \in [Workers -> Worker] /\ heap \in [Entries -> Entry] /\ dirty \subseteq Entries
  BY Types DEF Inv
<1>2. /\ work[w].at = "last" /\ work' = [work EXCEPT ![w] = Rest]
      /\ UNCHANGED <<lru, current, sess, loop, batch, tasks, gc>>
      /\ \/ UNCHANGED dirty /\ heap' = Release(heap, e)
         \/ e \notin dirty /\ dirty' = dirty \cup {e} /\ UNCHANGED heap
  BY DEF Finish
<1>3. e \in Entries
  BY <1>1, <1>2 DEF Inv, Places, Worker
<1>4. /\ work' \in [Workers -> Worker] /\ work'[w].at = "idle" /\ work'[w].e = NoEntry
      /\ \A v \in Workers : v # w => work'[v] = work[v]
  <2>1. Rest \in Worker /\ Rest.at = "idle" /\ Rest.e = NoEntry
    BY DEF Rest, Worker
  <2>. QED BY <1>1, <1>2, <2>1
<1>5. \A f \in Entries : Cardinality(Working(f)') = Cardinality(Working(f)) - (IF e = f THEN 1 ELSE 0)
  <2>1. \A f : Cardinality(Working(f)') = Cardinality(Working(f)) - (IF work[w].e = f THEN 1 ELSE 0)
                                         + (IF work'[w].e = f THEN 1 ELSE 0)
    BY <1>1, <1>4, WorkerMoves
  <2>. QED BY <1>1, <1>4, <2>1, NoEntryAssumption, Finite
<1>6. \A f \in Entries : Attached(f)' = Attached(f) /\ Queued(f)' = Queued(f)
                         /\ Cardinality(Working(f)) \in Nat /\ (f = e => Cardinality(Working(f)) > 0)
  <2>1. Working(e) # {}
    BY DEF Working
  <2>2. \A f \in Entries : Attached(f)' = Attached(f) /\ Queued(f)' = Queued(f)
    BY <1>2 DEF Attached, Queued
  <2>3. \A f : Cardinality(Working(f)) \in Nat /\ (Cardinality(Working(f)) = 0 <=> Working(f) = {})
    BY <1>1, Finite
  <2> HIDE DEF e
  <2>. QED BY <2>1, <2>2, <2>3
<1> HIDE DEF e
<1>7. Places'
  BY <1>2, <1>4 DEF Inv, Places
<1>8. CASE UNCHANGED dirty /\ heap' = Release(heap, e)
  <2>1. \A f \in Entries : References(f)' = References(f) - (IF f = e THEN 1 ELSE 0) /\ References(f)' \in Nat
    BY <1>1, <1>2, <1>5, <1>6, <1>8, Finite DEF References, Count, InMap, Handled
  <2>2. heap[e].refs >= 1 /\ heap' \in [Entries -> Entry] /\ RefsCover'
    BY <1>3, <1>8, <2>1, Dropped
  <2>3. TypeOK'
    BY <1>1, <1>2, <1>4, <1>8, <2>2 DEF TypeOK, Entry, Worker
  <2>4. \A f \in Entries : InMap(f)' \/ (\E s \in Sessions : sess'[s].e = f)
                              => heap'[f].key = heap[f].key /\ heap'[f].subs = heap[f].subs
    BY <1>1, <1>3, <1>8, <2>2, <2>3, StillUsed
  <2>5. OneEach'
    BY <1>2, <2>4, MapKept DEF Inv, OneEach, InMap
  <2>6. Mapped'
    BY <1>2, <2>4 DEF Inv, Mapped, InMap, Places
  <2>. QED BY <1>2, <1>7, <2>2, <2>3, <2>5, <2>6 DEF Inv
<1>9. CASE e \notin dirty /\ dirty' = dirty \cup {e} /\ UNCHANGED heap
  <2>1. \A f \in Entries : References(f)' = References(f)
    BY <1>1, <1>2, <1>5, <1>6, <1>9, Finite DEF References, Count, InMap, Handled
  <2>2. RefsCover'
    BY <1>9, <2>1 DEF Inv, RefsCover
  <2>3. TypeOK'
    BY <1>1, <1>2, <1>3, <1>4, <1>9 DEF TypeOK, Worker
  <2>4. OneEach' /\ Mapped'
    BY <1>2, <1>9 DEF Inv, Mapped, OneEach, InMap, NoRepeats, Places
  <2>. QED BY <1>2, <1>7, <2>2, <2>3, <2>4 DEF Inv
<1>. QED BY <1>2, <1>8, <1>9

(* async_callback takes the dirty queue with its references, and gives them *)
(* back one by one.                                                         *)
LEMMA TakeDirtyKeeps ==
  ASSUME Inv, TakeDirty
  PROVE  Inv'
<1>1. TypeOK /\ dirty \subseteq Entries /\ batch = {} /\ loop.at = "idle" /\ loop.e = NoEntry
  BY Types DEF Inv, Places, TakeDirty
<1>2. /\ batch' = dirty /\ dirty' = {} /\ loop' = [at |-> "wake", s |-> NoSession, e |-> NoEntry]
      /\ UNCHANGED <<heap, lru, current, sess, tasks, work, gc>>
  BY DEF TakeDirty, Idle
<1>3. TypeOK'
  BY <1>1, <1>2 DEF TypeOK
<1>4. RefsCover'
  <2> SUFFICES ASSUME NEW f \in Entries PROVE heap'[f].refs >= References(f)'
    BY DEF RefsCover
  <2>1. Attached(f)' = Attached(f) /\ Queued(f)' = Queued(f) /\ Working(f)' = Working(f)
    BY <1>2 DEF Attached, Queued, Working
  <2>2. References(f)' = References(f)
    BY <1>1, <1>2, <2>1, Finite, NoEntryAssumption DEF References, Count, InMap, Handled
  <2>. QED BY <1>2, <2>2 DEF Inv, RefsCover
<1>5. Places'
  BY <1>2 DEF Inv, Places
<1>6. Mapped' /\ OneEach' /\ current' <= MaxSize
  BY <1>2 DEF Inv, Mapped, OneEach, InMap, NoRepeats
<1>. QED BY <1>3, <1>4, <1>5, <1>6 DEF Inv

LEMMA WakeKeeps ==
  ASSUME Inv, NEW e \in Entries, Wake(e)
  PROVE  Inv'
<1>1. TypeOK /\ heap \in [Entries -> Entry] /\ batch \subseteq Entries
  BY Types DEF Inv
<1>2. /\ loop.at = "wake" /\ e \in batch /\ batch' = batch \ {e}
      /\ heap' = heap \/ heap' = Release(heap, e)
      /\ loop' = IF batch = {e} THEN Idle ELSE loop
      /\ UNCHANGED <<lru, current, sess, tasks, work, dirty, gc>>
  BY DEF Wake
<1>3. loop.e = NoEntry /\ loop'.e = NoEntry /\ loop'.at \in {"idle", "wake"} /\ (batch' # {} => loop'.at = "wake")
      /\ loop' \in Place
  BY <1>1, <1>2 DEF Inv, Places, Idle, TypeOK, Place
<1>4. \A f \in Entries : References(f)' = References(f) - (IF f = e THEN 1 ELSE 0) /\ References(f)' \in Nat
  <2>1. \A f : Attached(f)' = Attached(f) /\ Queued(f)' = Queued(f) /\ Working(f)' = Working(f)
    BY <1>2 DEF Attached, Queued, Working
  <2>. QED BY <1>1, <1>2, <1>3, <2>1, Finite, NoEntryAssumption DEF References, Count, InMap, Handled
<1>5. Places' /\ current' <= MaxSize
  BY <1>2, <1>3 DEF Inv, Places
<1>6. CASE heap' = heap
  <2>1. TypeOK'
    BY <1>1, <1>2, <1>3, <1>6 DEF TypeOK, Place
  <2>2. RefsCover'
    <3>1. \A f \in Entries : References(f) \in Nat
      BY <1>1, Finite DEF References, Count
    <3>2. \A f \in Entries : heap[f].refs \in Nat /\ heap[f].refs >= References(f)
      BY <1>1 DEF Inv, RefsCover, Entry
    <3>. QED BY <1>4, <1>6, <3>1, <3>2 DEF RefsCover
  <2>3. Mapped' /\ OneEach'
    BY <1>2, <1>3, <1>6 DEF Inv, Mapped, OneEach, InMap, NoRepeats
  <2>. QED BY <1>5, <2>1, <2>2, <2>3 DEF Inv
<1>7. CASE heap' = Release(heap, e)
  <2>1. heap[e].refs >= 1 /\ heap' \in [Entries -> Entry] /\ RefsCover'
    BY <1>4, <1>7, Dropped
  <2>2. TypeOK'
    BY <1>1, <1>2, <1>3, <2>1 DEF TypeOK, Entry, Place
  <2>3. \A f \in Entries : InMap(f)' \/ (\E s \in Sessions : sess'[s].e = f)
                              => heap'[f].key = heap[f].key /\ heap'[f].subs = heap[f].subs
    BY <1>1, <1>7, <2>1, <2>2, StillUsed
  <2>4. OneEach'
    BY <1>2, <2>3, MapKept DEF Inv, OneEach, InMap
  <2>5. Mapped'
    BY <1>2, <1>3, <2>3 DEF Inv, Mapped, InMap, Places
  <2>. QED BY <1>5, <2>1, <2>2, <2>4, <2>5 DEF Inv
<1>. QED BY <1>2, <1>6, <1>7
-----------------------------------------------------------------------------
(* The event loop *)

(* A session waits for its request, or stops before it has an entry, or after. *)
LEMMA SessionKeeps ==
  ASSUME Inv, NEW s \in Sessions, Accept(s) \/ ReadFails(s) \/ HeaderFails(s)
  PROVE  Inv'
<1>1. TypeOK /\ sess \in [Sessions -> Session] /\ loop.at = "idle"
  BY Types DEF Inv, Accept, ReadFails, HeaderFails
<1>2. PICK st \in {"recv", "dead"} : sess' = [sess EXCEPT ![s].st = st]
  BY DEF Accept, ReadFails, HeaderFails
<1>3. UNCHANGED <<heap, lru, current, loop, batch, tasks, work, dirty, gc>>
  BY DEF Accept, ReadFails, HeaderFails
<1>4. /\ sess' \in [Sessions -> Session]
      /\ \A t \in Sessions : sess'[t].e = sess[t].e /\ (sess'[t].st = "stream" => sess[t].st = "stream")
  BY <1>1, <1>2 DEF Session
<1>5. TypeOK'
  BY <1>1, <1>3, <1>4 DEF TypeOK, Session
<1>6. RefsCover'
  BY <1>3, <1>4, SameUsers DEF Handled
<1>7. Places' /\ Mapped' /\ OneEach' /\ current' <= MaxSize
  BY <1>1, <1>3, <1>4 DEF Inv, Places, Mapped, OneEach, InMap, NoRepeats
<1>. QED BY <1>5, <1>6, <1>7 DEF Inv

(* What the loop knows while it handles a session *)
LEMMA Handles ==
  ASSUME Inv, loop.at \in {"attach", "check", "mark", "decide", "remove", "release"}
  PROVE  /\ loop.e \in Entries /\ loop.e # NoEntry
         /\ loop.at \in {"attach", "check", "mark"} => loop.s \in Sessions /\ sess[loop.s].st = "recv"
         /\ loop.at \in {"check", "mark"} => sess[loop.s].e = loop.e
         /\ batch = {}
         /\ TypeOK /\ heap \in [Entries -> Entry] /\ sess \in [Sessions -> Session] /\ loop \in Place
BY Types, NoEntryAssumption DEF Inv, Places, TypeOK, Place

(* The session starts to stream, and the loop is done with it. *)
LEMMA StreamKeeps ==
  ASSUME Inv, loop.at \in {"check", "mark"}, Streaming, UNCHANGED <<lru, current, batch, tasks, work, dirty, gc>>,
         UNCHANGED heap \/ \E h : Replaced(loop.e, h)
  PROVE  Inv'
<1>1. TypeOK /\ loop.e \in Entries /\ loop.s \in Sessions /\ sess[loop.s].e = loop.e /\ batch = {}
      /\ heap \in [Entries -> Entry] /\ sess \in [Sessions -> Session]
  BY Handles
<1>2. /\ sess' = [sess EXCEPT ![loop.s].st = "stream"]
      /\ loop' = [at |-> "idle", s |-> NoSession, e |-> NoEntry]
  BY DEF Streaming, Idle
<1>3. /\ sess' \in [Sessions -> Session]
      /\ \A t \in Sessions : sess'[t].e = sess[t].e /\ (t # loop.s => sess'[t] = sess[t])
  BY <1>1, <1>2 DEF Session
<1>4. /\ heap' \in [Entries -> Entry]
      /\ \A f \in Entries : /\ heap'[f].refs = heap[f].refs
                            /\ heap'[f].key = heap[f].key /\ heap'[f].subs = heap[f].subs
  BY <1>1, Filled
<1>5. TypeOK'
  BY <1>1, <1>2, <1>3, <1>4 DEF TypeOK, Entry, Session
<1>6. RefsCover'
  BY <1>2, <1>3, <1>4, SameUsers DEF Handled
<1>7. Places'
  BY <1>1, <1>2, <1>3 DEF Inv, Places
<1>8. Mapped' /\ OneEach' /\ current' <= MaxSize
  BY <1>2, <1>3, <1>4 DEF Inv, Mapped, OneEach, InMap, NoRepeats
<1>. QED BY <1>5, <1>6, <1>7, <1>8 DEF Inv

LEMMA MarkRunningKeeps ==
  ASSUME Inv, MarkRunning
  PROVE  Inv'
<1> DEFINE old == heap[loop.e]
           lapse == IF old.completed THEN "late" ELSE old.lapse
           h == [old EXCEPT !.running = TRUE, !.lapse = lapse]
<1>1. loop.e \in Entries /\ heap \in [Entries -> Entry] /\ old \in Entry /\ loop.at = "mark"
  BY Handles DEF MarkRunning
<1>2. heap' = [heap EXCEPT ![loop.e] = h]
  BY <1>1 DEF MarkRunning
<1>3. lapse \in {"no", "refused", "late"}
  BY <1>1 DEF Entry
<1> HIDE DEF lapse
<1>4. h \in Entry /\ h.refs = old.refs /\ h.key = old.key /\ h.subs = old.subs
  BY <1>1, <1>3 DEF Entry
<1>5. Replaced(loop.e, h)
  BY <1>2, <1>4 DEF Replaced
<1>. QED BY <1>1, <1>5, StreamKeeps DEF MarkRunning

LEMMA CheckKeeps ==
  ASSUME Inv, CheckDownload
  PROVE  Inv'
<1> DEFINE e == loop.e
<1>1. /\ TypeOK /\ e \in Entries /\ heap \in [Entries -> Entry] /\ tasks \in Seq(Entries) /\ loop.at = "check"
      /\ loop.s \in Sessions /\ sess[loop.s].st = "recv" /\ sess[loop.s].e = e /\ batch = {} /\ loop \in Place
  BY Handles, Types DEF CheckDownload
<1>2. UNCHANGED <<lru, current, batch, work, dirty, gc>>
  BY DEF CheckDownload
<1>3. CASE Streaming /\ UNCHANGED <<heap, tasks>>
  BY <1>1, <1>2, <1>3, StreamKeeps
<1>4. CASE loop' = [loop EXCEPT !.at = "mark"] /\ UNCHANGED sess
  <2>1. loop' \in Place /\ loop'.at = "mark" /\ loop'.e = e /\ loop'.s = loop.s
    BY <1>1, <1>4 DEF Place
  <2>2. Places'
    BY <1>1, <1>2, <1>4, <2>1 DEF Inv, Places
  <2>3. InMap(e)
    BY <1>1 DEF Inv, Mapped
  <2>4. CASE tasks' = Append(tasks, e) /\ heap' = Acquire(heap, e)
    <3>1. /\ heap' \in [Entries -> Entry]
          /\ heap'[e].refs = heap[e].refs + 1 /\ \A f \in Entries : f # e => heap'[f].refs = heap[f].refs
          /\ \A f \in Entries : heap'[f].key = heap[f].key /\ heap'[f].subs = heap[f].subs
      BY <1>1, <2>4, Acquired
    <3>2. tasks' \in Seq(Entries)
      BY <1>1, <2>4
    <3>3. TypeOK'
      BY <1>1, <1>2, <1>4, <2>1, <3>1, <3>2 DEF TypeOK, Entry, Place
    <3>4. RefsCover'
      <4> SUFFICES ASSUME NEW f \in Entries PROVE heap'[f].refs >= References(f)'
        BY DEF RefsCover
      <4>1. /\ Cardinality(Queued(f)') = Cardinality(Queued(f)) + (IF e = f THEN 1 ELSE 0)
            /\ Attached(f)' = Attached(f) /\ Working(f)' = Working(f)
        BY <1>1, <1>2, <1>4, <2>4, TaskAdded DEF Attached, Working
      <4> HIDE DEF e
      <4>2. References(f)' = References(f) + (IF f = e THEN 1 ELSE 0) /\ References(f) \in Nat
        BY <1>1, <1>2, <2>1, <4>1, Finite DEF References, Count, InMap, Handled
      <4>3. heap[f].refs >= References(f) /\ heap[f].refs \in Nat
        BY <1>1 DEF Inv, RefsCover, Entry
      <4>. QED BY <3>1, <4>2, <4>3
    <3>5. Mapped' /\ OneEach' /\ current' <= MaxSize
      BY <1>1, <1>2, <1>4, <2>1, <2>3, <3>1 DEF Inv, Mapped, OneEach, InMap, NoRepeats
    <3>. QED BY <2>2, <3>3, <3>4, <3>5 DEF Inv
  <2>5. CASE heap' = [heap EXCEPT ![e].lapse = "refused"] /\ UNCHANGED tasks
    <3> DEFINE h == [heap[e] EXCEPT !.lapse = "refused"]
    <3>1. heap' = [heap EXCEPT ![e] = h]
      BY <1>1, <2>5
    <3>2. h \in Entry /\ h.refs = heap[e].refs /\ h.key = heap[e].key /\ h.subs = heap[e].subs
      BY <1>1 DEF Entry
    <3>3. Replaced(e, h)
      BY <3>1, <3>2 DEF Replaced
    <3>4. /\ heap' \in [Entries -> Entry]
          /\ \A f \in Entries : /\ heap'[f].refs = heap[f].refs
                                /\ heap'[f].key = heap[f].key /\ heap'[f].subs = heap[f].subs
      BY <1>1, <3>3, Filled
    <3>5. TypeOK'
      BY <1>1, <1>2, <1>4, <2>1, <2>5, <3>4 DEF TypeOK, Entry, Place
    <3>6. RefsCover'
      BY <1>1, <1>2, <1>4, <2>1, <2>5, <3>4, SameUsers DEF Handled
    <3>7. Mapped' /\ OneEach' /\ current' <= MaxSize
      BY <1>1, <1>2, <1>4, <2>1, <2>3, <3>4 DEF Inv, Mapped, OneEach, InMap, NoRepeats
    <3>. QED BY <2>2, <3>5, <3>6, <3>7 DEF Inv
  <2>. QED BY <1>3, <2>4, <2>5, <1>1, <1>4 DEF CheckDownload, Streaming
<1>. QED BY <1>3, <1>4 DEF CheckDownload

LEMMA DecideKeeps ==
  ASSUME Inv, Decide
  PROVE  Inv'
<1>1. TypeOK /\ loop.at = "decide" /\ loop.e \in Entries /\ batch = {} /\ loop \in Place
  BY Handles DEF Decide
<1>2. UNCHANGED <<heap, lru, current, sess, batch, tasks, work, dirty, gc>>
  BY DEF Decide
<1>3. /\ loop'.at \in {"remove", "release"} /\ loop'.e = loop.e /\ loop' \in Place
      /\ loop'.at = "remove" => heap[loop.e].subs = {}
  BY <1>1 DEF Decide, Place
<1>4. TypeOK'
  BY <1>1, <1>2, <1>3 DEF TypeOK, Place
<1>5. RefsCover'
  BY <1>1, <1>2, <1>3, SameUsers DEF Handled
<1>6. Places' /\ Mapped' /\ OneEach' /\ current' <= MaxSize
  BY <1>1, <1>2, <1>3 DEF Inv, Places, Mapped, OneEach, InMap, NoRepeats
<1>. QED BY <1>4, <1>5, <1>6 DEF Inv

(* The reference that the session held, or that Attach could not use *)
LEMMA LetGoKeeps ==
  ASSUME Inv, loop.at \in {"release", "attach"}, heap' = Release(heap, loop.e), loop' = Idle,
         \A s \in Sessions : sess'[s].e = sess[s].e /\ (sess'[s].st = "stream" => sess[s].st = "stream"),
         sess' \in [Sessions -> Session], UNCHANGED <<lru, current, batch, tasks, work, dirty, gc>>
  PROVE  Inv'
<1> DEFINE e == loop.e
<1>1. TypeOK /\ e \in Entries /\ e # NoEntry /\ batch = {} /\ heap \in [Entries -> Entry]
  BY Handles
<1>2. loop' \in Place /\ loop'.at = "idle" /\ loop'.e = NoEntry
  BY DEF Idle, Place
<1>3. \A f \in Entries : References(f)' = References(f) - (IF f = e THEN 1 ELSE 0) /\ References(f)' \in Nat
  <2>1. \A f : Attached(f)' = Attached(f) /\ Queued(f)' = Queued(f) /\ Working(f)' = Working(f)
    BY DEF Attached, Queued, Working
  <2>. QED BY <1>1, <1>2, <2>1, Finite, NoEntryAssumption DEF References, Count, InMap, Handled
<1>4. heap[e].refs >= 1 /\ heap' \in [Entries -> Entry] /\ RefsCover'
  BY <1>1, <1>3, Dropped
<1>5. TypeOK'
  BY <1>1, <1>2, <1>4 DEF TypeOK, Entry, Place, Session
<1>6. \A f \in Entries : InMap(f)' \/ (\E s \in Sessions : sess'[s].e = f)
                            => heap'[f].key = heap[f].key /\ heap'[f].subs = heap[f].subs
  BY <1>1, <1>4, <1>5, StillUsed
<1>7. OneEach'
  BY <1>6, MapKept DEF Inv, OneEach, InMap
<1>8. Places' /\ Mapped' /\ current' <= MaxSize
  BY <1>1, <1>2, <1>6 DEF Inv, Places, Mapped, InMap
<1>. QED BY <1>4, <1>5, <1>7, <1>8 DEF Inv

(* The subscribers of an entry change. *)
LEMMA Subscribed ==
  ASSUME TypeOK, NEW e \in Entries, NEW S \in SUBSET Sessions, heap' = [heap EXCEPT ![e].subs = S]
  PROVE  /\ heap' \in [Entries -> Entry] /\ heap'[e].subs = S
         /\ \A f \in Entries : /\ heap'[f].refs = heap[f].refs /\ heap'[f].key = heap[f].key
                               /\ f # e => heap'[f].subs = heap[f].subs
<1> DEFINE h == [heap[e] EXCEPT !.subs = S]
<1>1. heap \in [Entries -> Entry] /\ heap[e] \in Entry
  BY Types
<1>2. heap' = [heap EXCEPT ![e] = h]
  BY <1>1
<1>3. h \in Entry /\ h.refs = heap[e].refs /\ h.key = heap[e].key /\ h.subs = S
  BY <1>1 DEF Entry
<1> HIDE DEF h
<1>4. heap' \in [Entries -> Entry] /\ heap'[e] = h /\ \A f \in Entries : f # e => heap'[f] = heap[f]
  BY <1>1, <1>2, <1>3
<1>. QED BY <1>3, <1>4

(* The loop's reference becomes the session's. *)
LEMMA AttachKeeps ==
  ASSUME Inv, Attach
  PROVE  Inv'
<1> DEFINE e == loop.e
           s == loop.s
<1>1. /\ TypeOK /\ e \in Entries /\ e # NoEntry /\ s \in Sessions /\ sess[s].st = "recv" /\ batch = {}
      /\ heap \in [Entries -> Entry] /\ sess \in [Sessions -> Session] /\ loop \in Place /\ loop.at = "attach"
  BY Handles DEF Attach
<1>2. UNCHANGED <<lru, current, batch, tasks, work, dirty, gc>>
  BY DEF Attach
<1>3. CASE /\ heap' = [heap EXCEPT ![e].subs = @ \cup {s}]
           /\ sess' = [sess EXCEPT ![s].e = e]
           /\ loop' = [loop EXCEPT !.at = "check"]
  <2>1. loop' \in Place /\ loop'.at = "check" /\ loop'.e = e /\ loop'.s = s
    BY <1>1, <1>3 DEF Place
  <2>2. /\ sess' \in [Sessions -> Session] /\ sess'[s].e = e /\ sess'[s].st = "recv"
        /\ \A t \in Sessions : t # s => sess'[t] = sess[t]
    BY <1>1, <1>3 DEF Session
  <2>3. heap[e].subs \cup {s} \in SUBSET Sessions
    BY <1>1 DEF Entry
  <2>4. heap' = [heap EXCEPT ![e].subs = heap[e].subs \cup {s}]
    BY <1>1, <1>3
  <2>5. /\ heap' \in [Entries -> Entry] /\ heap'[e].subs = heap[e].subs \cup {s}
        /\ \A f \in Entries : /\ heap'[f].refs = heap[f].refs /\ heap'[f].key = heap[f].key
                              /\ f # e => heap'[f].subs = heap[f].subs
    BY <1>1, <2>3, <2>4, Subscribed
  <2>6. TypeOK'
    BY <1>1, <1>2, <2>1, <2>2, <2>5 DEF TypeOK, Entry, Session, Place
  <2>7. RefsCover'
    <3> SUFFICES ASSUME NEW f \in Entries PROVE heap'[f].refs >= References(f)'
      BY DEF RefsCover
    <3>1. Cardinality(Attached(f)') = Cardinality(Attached(f)) - (IF sess[s].e = f THEN 1 ELSE 0)
                                      + (IF e = f THEN 1 ELSE 0)
      BY <1>1, <2>2, SessionMoves
    <3>2. Queued(f)' = Queued(f) /\ Working(f)' = Working(f)
      BY <1>2 DEF Queued, Working
    <3>3. Handled(f) <=> e = f
      BY <1>1 DEF Handled
    <3>4. ~ Handled(f)'
      BY <2>1 DEF Handled
    <3>5. InMap(f)' <=> InMap(f)
      BY <1>2 DEF InMap
    <3> HIDE DEF e, s
    <3>6. References(f)' <= References(f) /\ References(f)' \in Int /\ References(f) \in Nat
      BY <1>1, <1>2, <3>1, <3>2, <3>3, <3>4, <3>5, Finite DEF References, Count, InMap
    <3>7. heap[f].refs >= References(f) /\ heap[f].refs \in Nat
      BY <1>1 DEF Inv, RefsCover, Entry
    <3>. QED BY <2>5, <3>6, <3>7
  <2>8. Places'
    BY <1>1, <1>2, <2>1, <2>2 DEF Inv, Places
  <2>9. Mapped' /\ OneEach' /\ current' <= MaxSize
    BY <1>1, <1>2, <2>1, <2>2, <2>5 DEF Inv, Mapped, OneEach, InMap, NoRepeats
  <2>. QED BY <2>6, <2>7, <2>8, <2>9 DEF Inv
<1>4. CASE heap' = Release(heap, e) /\ sess' = [sess EXCEPT ![s].st = "dead"] /\ loop' = Idle
  <2>1. /\ sess' \in [Sessions -> Session]
        /\ \A t \in Sessions : sess'[t].e = sess[t].e /\ (sess'[t].st = "stream" => sess[t].st = "stream")
    BY <1>1, <1>4 DEF Session
  <2>. QED BY <1>1, <1>2, <1>4, <2>1, LetGoKeeps
<1>. QED BY <1>3, <1>4 DEF Attach

(* A session's reference becomes the loop's. *)
LEMMA LeaveKeeps ==
  ASSUME Inv, NEW s \in Sessions, Leave(s)
  PROVE  Inv'
<1> DEFINE e == sess[s].e
<1>1. /\ TypeOK /\ e \in Entries /\ e # NoEntry /\ batch = {} /\ loop.at = "idle"
      /\ heap \in [Entries -> Entry] /\ sess \in [Sessions -> Session] /\ loop.e = NoEntry
  BY Types, NoEntryAssumption DEF Leave, Inv, Places
<1>2. /\ heap' = [heap EXCEPT ![e].subs = heap[e].subs \ {s}]
      /\ sess' = [sess EXCEPT ![s] = [st |-> "none", e |-> NoEntry]]
      /\ loop' = [at |-> "decide", s |-> NoSession, e |-> e]
      /\ UNCHANGED <<lru, current, batch, tasks, work, dirty, gc>>
  BY <1>1 DEF Leave
<1>3. InMap(e)
  BY <1>1 DEF Inv, Mapped
<1>4. /\ sess' \in [Sessions -> Session] /\ sess'[s].e = NoEntry /\ sess'[s].st = "none"
      /\ \A t \in Sessions : t # s => sess'[t] = sess[t]
  BY <1>1, <1>2 DEF Session
<1>5. heap[e].subs \ {s} \in SUBSET Sessions
  BY <1>1 DEF Entry
<1>6. /\ heap' \in [Entries -> Entry] /\ heap'[e].subs = heap[e].subs \ {s}
      /\ \A f \in Entries : /\ heap'[f].refs = heap[f].refs /\ heap'[f].key = heap[f].key
                            /\ f # e => heap'[f].subs = heap[f].subs
  BY <1>1, <1>2, <1>5, Subscribed
<1>7. loop' \in Place /\ loop'.e = e /\ loop'.at = "decide"
  BY <1>1, <1>2 DEF Place
<1>8. TypeOK'
  BY <1>1, <1>2, <1>4, <1>6, <1>7 DEF TypeOK, Entry, Session, Place
<1>9. RefsCover'
  <2> SUFFICES ASSUME NEW f \in Entries PROVE heap'[f].refs >= References(f)'
    BY DEF RefsCover
  <2>1. Cardinality(Attached(f)') = Cardinality(Attached(f)) - (IF e = f THEN 1 ELSE 0)
                                    + (IF sess'[s].e = f THEN 1 ELSE 0)
    BY <1>1, <1>4, SessionMoves
  <2>2. sess'[s].e # f
    BY <1>4, NoEntryAssumption
  <2>3. Queued(f)' = Queued(f) /\ Working(f)' = Working(f)
    BY <1>2 DEF Queued, Working
  <2>4. ~ Handled(f)
    BY <1>1 DEF Handled
  <2>5. Handled(f)' <=> e = f
    BY <1>7 DEF Handled
  <2>6. InMap(f)' <=> InMap(f)
    BY <1>2 DEF InMap
  <2> HIDE DEF e
  <2>7. References(f)' = References(f)
    BY <1>1, <1>2, <2>1, <2>2, <2>3, <2>4, <2>5, <2>6, Finite DEF References, Count, InMap
  <2>. QED BY <1>6, <2>7 DEF Inv, RefsCover
<1>10. Places'
  BY <1>1, <1>2, <1>4, <1>7 DEF Inv, Places
<1>11. Mapped' /\ OneEach' /\ current' <= MaxSize
  BY <1>1, <1>2, <1>3, <1>4, <1>6, <1>7, NoEntryAssumption DEF Inv, Mapped, OneEach, InMap, NoRepeats
<1>. QED BY <1>8, <1>9, <1>10, <1>11 DEF Inv

(* The references but those of the map and the loop *)
Others(e) == Count(e \in dirty) + Count(e \in batch)
             + Cardinality(Attached(e)) + Cardinality(Queued(e)) + Cardinality(Working(e))

(* What changes when only the map and the loop change *)
LEMMA OnlyMapAndLoop ==
  ASSUME TypeOK, NEW f \in Entries, UNCHANGED <<dirty, batch>>,
         Attached(f)' = Attached(f), Queued(f)' = Queued(f), Working(f)' = Working(f)
  PROVE  /\ Others(f) \in Nat
         /\ References(f) = (IF InMap(f) THEN 1 ELSE 0) + (IF Handled(f) THEN 1 ELSE 0) + Others(f)
         /\ References(f)' = (IF InMap(f)' THEN 1 ELSE 0) + (IF Handled(f)' THEN 1 ELSE 0) + Others(f)
<1>1. Others(f) \in Nat /\ Others(f)' = Others(f)
  BY Finite DEF Others, Count
<1>2. Cardinality(Attached(f)) \in Nat /\ Cardinality(Queued(f)) \in Nat /\ Cardinality(Working(f)) \in Nat
  BY Finite
<1>. QED BY <1>1, <1>2 DEF References, Others, Count

(* cache_remove_entry: nobody is subscribed, so no session works with the   *)
(* entry that leaves the map.                                               *)
LEMMA RemoveKeeps ==
  ASSUME Inv, RemoveEntry
  PROVE  Inv'
<1> DEFINE e == loop.e
<1>1. /\ TypeOK /\ e \in Entries /\ e # NoEntry /\ batch = {} /\ heap \in [Entries -> Entry]
      /\ loop \in Place /\ loop.at = "remove" /\ current \in Int /\ current <= MaxSize
      /\ InMap(e) /\ NoRepeats(lru) /\ lru \in Seq(Entries) /\ heap[e].subs = {}
  BY Handles, Types DEF RemoveEntry, Inv, Mapped, OneEach
<1>2. /\ lru' = RemoveFirst(lru, e) /\ heap' = Release(heap, e) /\ loop' = [loop EXCEPT !.at = "release"]
      /\ current' = Without(heap[e].bytes) /\ UNCHANGED <<sess, batch, tasks, work, dirty, gc>>
  BY DEF RemoveEntry
<1>3. current' \in Int /\ current' <= MaxSize
  BY <1>1, <1>2, SizesAssumption DEF Without, Entry
<1>4. lru' \in Seq(Entries) /\ NoRepeats(lru') /\ \A f : InMap(f)' <=> InMap(f) /\ f # e
  BY <1>1, <1>2, Unlinked DEF InMap
<1>5. loop' \in Place /\ loop'.at = "release" /\ loop'.e = e
  BY <1>1, <1>2 DEF Place
<1>6. \A s \in Sessions : sess[s].e # e
  BY <1>1 DEF Inv, Mapped
<1>7. \A f \in Entries : References(f)' = References(f) - (IF f = e THEN 1 ELSE 0) /\ References(f)' \in Nat
  <2> TAKE f \in Entries
  <2>1. Attached(f)' = Attached(f) /\ Queued(f)' = Queued(f) /\ Working(f)' = Working(f)
    BY <1>2 DEF Attached, Queued, Working
  <2>2. (Handled(f) <=> f = e) /\ (Handled(f)' <=> f = e)
    BY <1>1, <1>5 DEF Handled
  <2>3. InMap(f)' <=> InMap(f) /\ f # e
    BY <1>4
  <2>4. InMap(e)
    BY <1>1
  <2> HIDE DEF e
  <2>5. /\ Others(f) \in Nat
        /\ References(f) = (IF InMap(f) THEN 1 ELSE 0) + (IF Handled(f) THEN 1 ELSE 0) + Others(f)
        /\ References(f)' = (IF InMap(f)' THEN 1 ELSE 0) + (IF Handled(f)' THEN 1 ELSE 0) + Others(f)
    BY <1>1, <1>2, <2>1, OnlyMapAndLoop
  <2>6. CASE f = e
    BY <2>2, <2>3, <2>4, <2>5, <2>6
  <2>7. CASE f # e
    BY <2>2, <2>3, <2>5, <2>7
  <2>. QED BY <2>6, <2>7
<1>8. heap[e].refs >= 1 /\ heap' \in [Entries -> Entry] /\ RefsCover'
  BY <1>1, <1>2, <1>7, Dropped
<1>9. TypeOK'
  BY <1>1, <1>2, <1>3, <1>4, <1>5, <1>8 DEF TypeOK, Entry, Place
<1>10. \A f \in Entries : InMap(f)' \/ (\E s \in Sessions : sess'[s].e = f)
                             => heap'[f].key = heap[f].key /\ heap'[f].subs = heap[f].subs
  BY <1>1, <1>2, <1>8, <1>9, StillUsed
<1>11. OneEach'
  BY <1>4, <1>10, MapKept DEF Inv
<1>12. Places' /\ Mapped'
  BY <1>1, <1>2, <1>4, <1>5, <1>6, <1>10 DEF Inv, Places, Mapped
<1>. QED BY <1>3, <1>8, <1>9, <1>11, <1>12 DEF Inv

(* cache_lookup_or_create: the entry of the map, a new one, or none *)
LEMMA LookupKeeps ==
  ASSUME Inv, NEW s \in Sessions, NEW k \in Keys, Lookup(s, k)
  PROVE  Inv'
<1>1. /\ TypeOK /\ heap \in [Entries -> Entry] /\ sess \in [Sessions -> Session] /\ lru \in Seq(Entries)
      /\ NoRepeats(lru) /\ loop.at = "idle" /\ loop.e = NoEntry /\ sess[s].st = "recv" /\ batch = {}
      /\ \A f \in Entries : References(f) \in Nat /\ heap[f].refs \in Nat /\ heap[f].refs >= References(f)
  <2>1. TypeOK
    BY DEF Inv
  <2>2. \A f \in Entries : References(f) \in Nat
    BY <2>1, Finite DEF References, Count
  <2>. QED BY <2>1, <2>2, Types DEF Inv, Lookup, Places, OneEach, RefsCover, Entry
<1>2. UNCHANGED <<current, batch, tasks, work, dirty, gc>>
  BY DEF Lookup
<1>3. ASSUME NEW e \in Entries, InMap(e), heap' = Acquire(heap, e), lru' = <<e>> \o RemoveFirst(lru, e),
             loop' = [at |-> "attach", s |-> s, e |-> e], UNCHANGED sess
      PROVE  Inv'
  <2>1. /\ heap' \in [Entries -> Entry]
        /\ heap'[e].refs = heap[e].refs + 1 /\ \A f \in Entries : f # e => heap'[f].refs = heap[f].refs
        /\ \A f \in Entries : heap'[f].key = heap[f].key /\ heap'[f].subs = heap[f].subs
    BY <1>1, <1>3, Acquired
  <2>2. lru' \in Seq(Entries) /\ NoRepeats(lru') /\ \A f : InMap(f)' <=> InMap(f)
    <3>1. /\ RemoveFirst(lru, e) \in Seq(Entries) /\ NoRepeats(RemoveFirst(lru, e))
          /\ ToSet(RemoveFirst(lru, e)) = ToSet(lru) \ {e}
      BY <1>1, Unlinked
    <3>2. /\ lru' \in Seq(Entries) /\ NoRepeats(lru')
          /\ ToSet(lru') = ToSet(RemoveFirst(lru, e)) \cup {e}
      BY <1>3, <3>1, InFront
    <3>. QED BY <1>3, <3>1, <3>2 DEF InMap
  <2>3. loop' \in Place /\ loop'.at = "attach" /\ loop'.e = e /\ loop'.s = s
    BY <1>3 DEF Place
  <2>4. TypeOK'
    BY <1>1, <1>2, <1>3, <2>1, <2>2, <2>3 DEF TypeOK, Entry, Place
  <2>5. RefsCover'
    <3> SUFFICES ASSUME NEW f \in Entries PROVE heap'[f].refs >= References(f)'
      BY DEF RefsCover
    <3>1. Attached(f)' = Attached(f) /\ Queued(f)' = Queued(f) /\ Working(f)' = Working(f)
      BY <1>2, <1>3 DEF Attached, Queued, Working
    <3>2. ~ Handled(f) /\ (Handled(f)' <=> f = e)
      BY <1>1, <2>3 DEF Handled
    <3>3. /\ Others(f) \in Nat
          /\ References(f) = (IF InMap(f) THEN 1 ELSE 0) + (IF Handled(f) THEN 1 ELSE 0) + Others(f)
          /\ References(f)' = (IF InMap(f)' THEN 1 ELSE 0) + (IF Handled(f)' THEN 1 ELSE 0) + Others(f)
      BY <1>1, <1>2, <3>1, OnlyMapAndLoop
    <3>4. References(f)' = References(f) + (IF f = e THEN 1 ELSE 0)
      BY <2>2, <3>2, <3>3
    <3>. QED BY <1>1, <2>1, <3>4
  <2>6. Places'
    BY <1>1, <1>2, <1>3, <2>3 DEF Inv, Places
  <2>7. Mapped' /\ OneEach' /\ current' <= MaxSize
    BY <1>1, <1>2, <1>3, <2>1, <2>2, <2>3 DEF Inv, Mapped, OneEach
  <2>. QED BY <2>4, <2>5, <2>6, <2>7 DEF Inv
<1>4. ASSUME \A f \in Entries : InMap(f) => heap[f].key # k,
             NEW e \in Entries, heap[e].refs = 0, heap' = [heap EXCEPT ![e] = Fresh(k)], lru' = <<e>> \o lru,
             loop' = [at |-> "attach", s |-> s, e |-> e], UNCHANGED sess
      PROVE  Inv'
  <2>1. Fresh(k) \in Entry /\ Fresh(k).refs = 2 /\ Fresh(k).key = k
    BY DEF Fresh, Free, Entry
  <2>2. heap' \in [Entries -> Entry] /\ heap'[e].refs = 2 /\ heap'[e].key = k
        /\ \A f \in Entries : f # e => heap'[f] = heap[f]
    BY <1>1, <1>4, <2>1
  <2>3. References(e) = 0
    BY <1>1, <1>4
  <2>4. ~ InMap(e) /\ \A t \in Sessions : sess[t].e # e
    BY <1>1, <1>4, InUse DEF Inv, Held
  <2>5. lru' \in Seq(Entries) /\ NoRepeats(lru') /\ \A f : InMap(f)' <=> InMap(f) \/ f = e
    BY <1>1, <1>4, <2>4, InFront DEF InMap
  <2>6. loop' \in Place /\ loop'.at = "attach" /\ loop'.e = e /\ loop'.s = s
    BY <1>4 DEF Place
  <2>7. TypeOK'
    BY <1>1, <1>2, <1>4, <2>2, <2>5, <2>6 DEF TypeOK, Entry, Place
  <2>8. RefsCover'
    <3> SUFFICES ASSUME NEW f \in Entries PROVE heap'[f].refs >= References(f)'
      BY DEF RefsCover
    <3>1. Attached(f)' = Attached(f) /\ Queued(f)' = Queued(f) /\ Working(f)' = Working(f)
      BY <1>2, <1>4 DEF Attached, Queued, Working
    <3>2. ~ Handled(f) /\ (Handled(f)' <=> f = e)
      BY <1>1, <2>6 DEF Handled
    <3>3. /\ Others(f) \in Nat
          /\ References(f) = (IF InMap(f) THEN 1 ELSE 0) + (IF Handled(f) THEN 1 ELSE 0) + Others(f)
          /\ References(f)' = (IF InMap(f)' THEN 1 ELSE 0) + (IF Handled(f)' THEN 1 ELSE 0) + Others(f)
      BY <1>1, <1>2, <3>1, OnlyMapAndLoop
    <3>4. References(f)' = References(f) + (IF f = e THEN 2 ELSE 0)
      BY <2>4, <2>5, <3>2, <3>3
    <3>. QED BY <1>1, <2>2, <2>3, <3>4
  <2>9. Places'
    BY <1>1, <1>2, <1>4, <2>6 DEF Inv, Places
  <2>10. Mapped' /\ OneEach' /\ current' <= MaxSize
    BY <1>1, <1>2, <1>4, <2>2, <2>4, <2>5, <2>6 DEF Inv, Mapped, OneEach
  <2>. QED BY <2>7, <2>8, <2>9, <2>10 DEF Inv
<1>5. ASSUME sess' = [sess EXCEPT ![s].st = "dead"], UNCHANGED <<heap, lru, loop>>
      PROVE  Inv'
  <2>1. /\ sess' \in [Sessions -> Session]
        /\ \A t \in Sessions : sess'[t].e = sess[t].e /\ (sess'[t].st = "stream" => sess[t].st = "stream")
    BY <1>1, <1>5 DEF Session
  <2>2. TypeOK'
    BY <1>1, <1>2, <1>5, <2>1 DEF TypeOK, Session
  <2>3. RefsCover'
    BY <1>2, <1>5, <2>1, SameUsers DEF Handled
  <2>4. Places' /\ Mapped' /\ OneEach' /\ current' <= MaxSize
    BY <1>1, <1>2, <1>5, <2>1 DEF Inv, Places, Mapped, OneEach, InMap, NoRepeats
  <2>. QED BY <2>2, <2>3, <2>4 DEF Inv
<1>. QED BY <1>3, <1>4, <1>5 DEF Lookup
-----------------------------------------------------------------------------
LEMMA InitInv == Init => Inv
<1> SUFFICES ASSUME Init PROVE Inv
  OBVIOUS
<1>1. TypeOK
  BY DEF Init, TypeOK, Free, Idle, Rest
<1>2. DOMAIN lru = {} /\ \A e \in Entries : heap[e].refs = 0
  BY DEF Init, Free
<1>3. RefsCover
  <2> SUFFICES ASSUME NEW e \in Entries PROVE heap[e].refs >= References(e)
    BY DEF RefsCover
  <2>1. Attached(e) = {} /\ Queued(e) = {} /\ Working(e) = {} /\ ~ Handled(e) /\ ~ InMap(e)
    BY <1>2, NoEntryAssumption DEF Init, Idle, Rest, Attached, Queued, Working, Handled, InMap, ToSet
  <2>2. References(e) = 0
    BY <2>1, FS_EmptySet DEF Init, References, Count
  <2>. QED BY <1>2, <2>2
<1>4. Places /\ Mapped /\ OneEach /\ current <= MaxSize
  BY <1>2, NoEntryAssumption, SizesAssumption
     DEF Init, Idle, Rest, Places, Mapped, OneEach, NoRepeats, InMap, ToSet
<1>. QED BY <1>1, <1>3, <1>4 DEF Inv

LEMMA NextInv == ~WaitMayFail /\ Inv /\ [Next]_vars => Inv'
<1> SUFFICES ASSUME ~WaitMayFail, Inv, [Next]_vars PROVE Inv'
  OBVIOUS
<1>1. CASE Callback
  <2>1. CASE LetGo
    BY <2>1, LetGoKeeps, Types DEF Inv, LetGo
  <2>. QED BY <1>1, <2>1, AttachKeeps, CheckKeeps, MarkRunningKeeps, DecideKeeps, RemoveKeeps, TakeDirtyKeeps,
              WakeKeeps DEF Callback
<1>2. ASSUME NEW s \in Sessions, Client(s) PROVE Inv'
  BY <1>2, SessionKeeps, LeaveKeeps, LookupKeeps DEF Client
<1>3. ASSUME NEW w \in Workers, Download(w) PROVE Inv'
  BY <1>3, DequeueKeeps, DownloadKeeps, MarkDirtyKeeps, FinishKeeps DEF Download
<1>4. CASE GcWake \/ GcTrim \/ \E w \in Workers : Pressure(w)
  BY <1>4, CollectorKeeps
<1>5. CASE UNCHANGED vars
  <2>1. UNCHANGED <<heap, lru, current, sess, loop, batch, tasks, work, dirty, gc>>
    BY <1>5 DEF vars
  <2>2. TypeOK'
    BY <2>1 DEF Inv, TypeOK
  <2>. QED BY <2>1, <2>2, WorkerKeeps DEF Inv
<1>. QED BY <1>1, <1>2, <1>3, <1>4, <1>5 DEF Next

(* What the cache, its users and its queues hold fits together at any time *)
(* (cache.c, dirty.c and the callbacks of loop.c).                          *)
THEOREM Invariance == ~WaitMayFail => (Spec => []Inv)
<1> SUFFICES ASSUME ~WaitMayFail PROVE Spec => []Inv
  OBVIOUS
<1>1. Inv /\ [Next]_vars => Inv'
  BY NextInv
<1>. QED BY InitInv, <1>1, PTL DEF Spec

(* The state stays what cache.c, dirty.c, loop.c and downloader.c declare. *)
THEOREM TypeCorrect == ~WaitMayFail => (Spec => []TypeOK)
<1>1. Inv => TypeOK
  BY DEF Inv
<1>. QED BY Invariance, <1>1, PTL

(* No use after free: the references to an entry are at least its users,   *)
(* so cache_entry_release frees none that is still used (cache.c:285-296). *)
THEOREM NoUseAfterFree == ~WaitMayFail => (Spec => []RefsCover)
<1>1. Inv => RefsCover
  BY DEF Inv
<1>. QED BY Invariance, <1>1, PTL

(* The clients of a page share its entry while it is downloaded, and a key *)
(* has one entry in the map: cache_lookup_or_create looks and creates      *)
(* under one lock, and what is used stays in the map.                      *)
THEOREM SharedEntry == ~WaitMayFail => (Spec => []Shared)
<1>1. Inv => Shared
  <2> SUFFICES ASSUME Inv PROVE Shared
    OBVIOUS
  <2>1. sess \in [Sessions -> Session] /\ lru \in Seq(Entries)
    BY Types DEF Inv
  <2>2. \A s \in Sessions : sess[s].e # NoEntry => sess[s].e \in Entries /\ InMap(sess[s].e)
    BY <2>1 DEF Inv, Mapped, Session
  <2>3. \A e, f \in Entries : InMap(e) /\ InMap(f) /\ heap[e].key = heap[f].key => e = f
    BY DEF Inv, OneEach
  <2>4. \A i \in DOMAIN lru : lru[i] \in Entries /\ InMap(lru[i])
    BY <2>1 DEF InMap, ToSet
  <2>5. \A i, j \in DOMAIN lru : heap[lru[i]].key = heap[lru[j]].key => i = j
    BY <2>3, <2>4 DEF Inv, OneEach, NoRepeats
  <2>. QED BY <2>2, <2>3, <2>5 DEF Shared
<1>. QED BY Invariance, <1>1, PTL
=============================================================================
