------------------------------ MODULE SwapList ------------------------------
(***************************************************************************)
(* The lists of src/task2/task2_3: one lock per node, search threads that  *)
(* compare neighbours and swap threads that exchange them, all walking     *)
(* hand over hand from the head, and main, which starts, cancels and joins *)
(* them and frees the list.  Three forms share the code but for the calls  *)
(* of the lock: mutex/ and spinlock/ (exclusive) and rwlock/ (searchers    *)
(* share).                                                                 *)
(*                                                                         *)
(* An action goes from one acquired lock to the next.  The pointer to the  *)
(* node that is wanted next is read before the wait for its lock and used  *)
(* after it, as in the code.  The lengths that are compared and the        *)
(* counters of the statistics are left out.                                *)
(***************************************************************************)
EXTENDS Integers, Sequences

CONSTANTS Nil,        \* NULL
          MaxSize,    \* bound: size of the list
          Searchers,  \* the threads of find_*_pairs
          Skips,      \* start_skip_pairs of each swap thread
          Order       \* the order in which main creates the threads

First == 0
Nodes == 0 .. MaxSize
Swappers == DOMAIN Skips
Threads == Searchers \cup Swappers

ASSUME NilAssumption == MaxSize \in Nat /\ Nil \notin Nodes
ASSUME SkipsAssumption == Skips \in [Swappers -> Nat]
ASSUME OrderAssumption == /\ Searchers \cap Swappers = {}
                          /\ Order \in Seq(Threads) /\ Len(Order) > 0
                          /\ \A t \in Threads : \E i \in DOMAIN Order : Order[i] = t
                          /\ \A i, j \in DOMAIN Order : Order[i] = Order[j] => i = j

VARIABLES
  shared,     \* is this the version with rwlocks?
  size,       \* size of the storage
  next,       \* the next field of every node
  path,       \* history: the nodes in the order in which the swaps have put them
  lock,       \* the threads that hold the lock of a node
  thread,     \* local variables of the threads, and k, the nodes walked past
  main,       \* where main is, created_count, and the loop variable
  cancelled   \* the threads that main has cancelled

vars == <<shared, size, next, path, lock, thread, main, cancelled>>

Idle(pc) == [at |-> pc, prev |-> Nil, curr |-> Nil, nxt |-> Nil, k |-> 0]

Init == /\ shared \in BOOLEAN
        /\ size \in 0 .. MaxSize
        /\ next = [n \in Nodes |-> IF n < size THEN n + 1 ELSE Nil]
        /\ path = [i \in Nodes |-> i]
        /\ lock = [n \in Nodes |-> {}]
        /\ thread = [t \in Threads |-> Idle("none")]
        /\ main = [at |-> "create", created |-> 0, i |-> 0]
        /\ cancelled = {}
-----------------------------------------------------------------------------
(* main *)

(* A thread cannot be created: those before it are stopped. *)
Create == /\ main.at = "create"
          /\ LET t == Order[main.created + 1]
                 last == main.created + 1 = Len(Order)
             IN \/ /\ main' = [main EXCEPT !.created = @ + 1, !.at = IF last THEN "sleep" ELSE @]
                   /\ thread' = [thread EXCEPT ![t] = Idle("top")]
                \/ /\ main' = [main EXCEPT !.at = IF main.created = 0 THEN "free" ELSE "cancel"]
                   /\ UNCHANGED thread
          /\ UNCHANGED <<shared, size, next, path, lock, cancelled>>

WakeUp == /\ main.at = "sleep"
          /\ main' = [main EXCEPT !.at = "cancel"]
          /\ UNCHANGED <<shared, size, next, path, lock, thread, cancelled>>

(* One turn of a loop over the created threads *)
Turn(then) == main' = IF main.i + 1 = main.created THEN [main EXCEPT !.at = then, !.i = 0]
                      ELSE [main EXCEPT !.i = @ + 1]

(* Seeded fault: only the first thread is cancelled. *)
CancelOne == /\ main.at = "cancel"
             /\ cancelled' = cancelled \cup {Order[main.i + 1]}
             /\ main' = [main EXCEPT !.at = "join"]
             /\ UNCHANGED <<shared, size, next, path, lock, thread>>

Cancel == /\ main.at = "cancel"
          /\ cancelled' = cancelled \cup {Order[main.i + 1]}
          /\ Turn("join")
          /\ UNCHANGED <<shared, size, next, path, lock, thread>>

(* Seeded fault: only the first thread is joined. *)
JoinOne == /\ main.at = "join"
           /\ thread[Order[main.i + 1]].at = "end"
           /\ main' = [main EXCEPT !.at = "free"]
           /\ UNCHANGED <<shared, size, next, path, lock, thread, cancelled>>

Join == /\ main.at = "join"
        /\ thread[Order[main.i + 1]].at = "end"
        /\ Turn("free")
        /\ UNCHANGED <<shared, size, next, path, lock, thread, cancelled>>

Free == /\ main.at = "free"
        /\ main' = [main EXCEPT !.at = "freed"]
        /\ UNCHANGED <<shared, size, next, path, lock, thread, cancelled>>

Main == Create \/ WakeUp \/ Cancel \/ Join \/ Free
-----------------------------------------------------------------------------
(* Walking *)

(* Seeded fault: the swap threads take the read lock as well. *)
CanReadLock(t, n) == lock[n] = {} \/ shared

CanLock(t, n) == lock[n] = {} \/ (shared /\ t \in Searchers /\ lock[n] \subseteq Searchers)

(* Thread t, now the holder of exactly the locks of held, looks at the     *)
(* node behind curr: it wants that one next, or its walk is over and it    *)
(* lets everything go.                                                     *)
Holding(t, held) == [n \in Nodes |-> IF n \in held THEN lock[n] \cup {t} ELSE lock[n] \ {t}]

(* Seeded fault: the locks are kept at the end of the list. *)
ProceedKeeping(t, held, prev, curr, k) ==
  /\ thread' = [thread EXCEPT ![t] = IF next[curr] = Nil THEN Idle("top")
                                     ELSE [at |-> "next", prev |-> prev, curr |-> curr, nxt |-> next[curr], k |-> k]]
  /\ lock' = Holding(t, held)

Proceed(t, held, prev, curr, k) ==
  IF next[curr] = Nil
    THEN /\ thread' = [thread EXCEPT ![t] = Idle("top")]
         /\ lock' = Holding(t, {})
    ELSE /\ thread' = [thread EXCEPT ![t] = [at |-> "next", prev |-> prev, curr |-> curr, nxt |-> next[curr], k |-> k]]
         /\ lock' = Holding(t, held)

List == UNCHANGED <<shared, size, next, path, main, cancelled>>

(* pthread_testcancel, the only cancellation point of the walks *)
TestCancel(t) == /\ thread[t].at = "top"
                 /\ thread' = [thread EXCEPT ![t] = Idle(IF t \in cancelled THEN "end" ELSE "first")]
                 /\ UNCHANGED lock /\ List

(* Seeded fault: the head is let go before the first node is locked. *)
LockFirstOnly(t) == /\ thread[t].at = "first"
                    /\ CanLock(t, First)
                    /\ thread' = [thread EXCEPT ![t] = IF next[First] = Nil THEN Idle("top")
                                                       ELSE [Idle("second") EXCEPT !.curr = next[First]]]
                    /\ UNCHANGED lock /\ List

LockFirst(t) == /\ thread[t].at = "first"
                /\ CanLock(t, First)
                /\ IF next[First] = Nil
                     THEN thread' = [thread EXCEPT ![t] = Idle("top")] /\ UNCHANGED lock
                     ELSE /\ thread' = [thread EXCEPT ![t] = [Idle("second") EXCEPT !.curr = next[First]]]
                          /\ lock' = Holding(t, {First})
                /\ List

(* A searcher needs one node at a time, a swapper two. *)
LockSecond(t) == /\ thread[t].at = "second"
                 /\ LET curr == thread[t].curr
                    IN /\ CanLock(t, curr)
                       /\ IF t \in Searchers THEN Proceed(t, {curr}, Nil, curr, 0)
                          ELSE Proceed(t, {First, curr}, First, curr, 0)
                 /\ List

SearchNext(t) == /\ t \in Searchers
                 /\ thread[t].at = "next"
                 /\ CanLock(t, thread[t].nxt)
                 /\ Proceed(t, {thread[t].nxt}, Nil, thread[t].nxt, thread[t].k + 1)
                 /\ List

LockThird(t) == /\ t \in Swappers
                /\ thread[t].at = "next"
                /\ CanLock(t, thread[t].nxt)
                /\ thread' = [thread EXCEPT ![t].at = "decide"]
                /\ lock' = [lock EXCEPT ![thread[t].nxt] = @ \cup {t}]
                /\ List

Advance(t) == /\ thread[t].at = "decide"
              /\ LET s == thread[t] IN Proceed(t, {s.curr, s.nxt}, s.curr, s.nxt, s.k + 1)
              /\ List
-----------------------------------------------------------------------------
(* perform_swap_locked; it tests once more that the three nodes follow one another. *)
Follow(prev, curr, nxt) == next[prev] = curr /\ next[curr] = nxt

(* Seeded fault: the second assignment comes before the first. *)
SwappedInHaste(prev, curr, nxt) == [next EXCEPT ![nxt] = curr, ![curr] = curr, ![prev] = nxt]

Swapped(prev, curr, nxt) == [next EXCEPT ![curr] = next[nxt], ![nxt] = curr, ![prev] = nxt]

Swap(t) == /\ thread[t].at = "decide"
           /\ thread[t].k >= Skips[t]
           /\ LET s == thread[t]
              IN IF Follow(s.prev, s.curr, s.nxt)
                   THEN /\ next' = Swapped(s.prev, s.curr, s.nxt)
                        /\ path' = [path EXCEPT ![s.k + 1] = path[s.k + 2], ![s.k + 2] = path[s.k + 1]]
                   ELSE UNCHANGED <<next, path>>
           /\ thread' = [thread EXCEPT ![t] = Idle("top")]
           /\ lock' = Holding(t, {})
           /\ UNCHANGED <<shared, size, main, cancelled>>

Walk(t) == \/ TestCancel(t) \/ LockFirst(t) \/ LockSecond(t)
           \/ SearchNext(t) \/ LockThird(t) \/ Advance(t) \/ Swap(t)

(* When main returns, the process ends. *)
Next == /\ main.at # "freed"
        /\ Main \/ \E t \in Threads : Walk(t)

Spec == Init /\ [][Next]_vars

(* Every thread is scheduled, and one that waits for a lock gets it some   *)
(* time when it is free again and again.  A swap thread before the head of *)
(* a shared list may still wait for ever: searchers may always be there.   *)
FairSpec == Spec /\ WF_vars(Main) /\ \A t \in Threads : SF_vars(Walk(t))
-----------------------------------------------------------------------------
Places == {"none", "top", "first", "second", "next", "decide", "end"}

(* The state is well formed; a lock is held by one thread, or by searchers if it is shared. *)
TypeOK == /\ shared \in BOOLEAN
          /\ size \in 0 .. MaxSize
          /\ next \in [Nodes -> Nodes \cup {Nil}]
          /\ path \in [Nodes -> Nodes]
          /\ lock \in [Nodes -> SUBSET Threads]
          /\ thread \in [Threads -> [at : Places, prev : Nodes \cup {Nil}, curr : Nodes \cup {Nil},
                                     nxt : Nodes \cup {Nil}, k : 0 .. MaxSize]]
          /\ main \in [at : {"create", "sleep", "cancel", "join", "free", "freed"},
                       created : 0 .. Len(Order), i : 0 .. Len(Order)]
          /\ cancelled \subseteq Threads
          /\ \A n \in Nodes : \A t, u \in lock[n] : t = u \/ (shared /\ {t, u} \subseteq Searchers)

(* However the swaps interleave, the pointers spell the list in which each *)
(* swap has exchanged the two nodes its thread had walked to: one path     *)
(* through all nodes.  None is lost (free_storage frees them all), none    *)
(* comes twice, and there is no cycle on which a search would run for ever.*)
ListIntact == /\ path[0] = First
              /\ {path[i] : i \in 0 .. size} = 0 .. size
              /\ \A i, j \in 0 .. size : path[i] = path[j] => i = j
              /\ \A i \in 0 .. size : next[path[i]] = IF i < size THEN path[i + 1] ELSE Nil

(* The pointers that a thread took from the list before it waited still    *)
(* describe the list when it has the lock: its nodes follow one another,   *)
(* so perform_swap_locked never refuses, and they are where the thread has *)
(* walked to, so a search compares every pair of neighbours exactly once,  *)
(* although nodes are exchanged before and behind it.                      *)
Window(t, s) ==
  /\ s.at \in {"second", "next", "decide"} => s.k < size /\ s.curr = path[s.k + 1]
  /\ s.at \in {"next", "decide"} => s.nxt # Nil /\ s.nxt = next[s.curr]
  /\ (s.at \in {"next", "decide"} /\ t \in Swappers) => s.prev = path[s.k] /\ Follow(s.prev, s.curr, s.nxt)

WindowValid == \A t \in Threads : Window(t, thread[t])

(* The list is freed, and its locks destroyed, when no thread walks it and nobody holds a lock. *)
UnusedWhenFreed == main.at = "freed" =>
  /\ \A t \in Threads : thread[t].at \in {"none", "end"}
  /\ \A n \in Nodes : lock[n] = {}

(* The threads, which hold up to two locks while they wait for another,    *)
(* never wait in a circle, though the swaps change the order of the nodes: *)
(* one can go on, as README.md of task2_3 demands (no deadlock, the locks  *)
(* nearer to the head first).                                              *)
Waiting(t) == thread[t].at \in {"first", "second", "next"}
Wanted(t) == CASE thread[t].at = "first" -> First
               [] thread[t].at = "second" -> thread[t].curr
               [] thread[t].at = "next" -> thread[t].nxt
NoCircle == (\E t \in Threads : Waiting(t)) =>
              \E t \in Threads : thread[t].at = "decide" \/ (Waiting(t) /\ CanLock(t, Wanted(t)))

(* main stops all threads and returns, whichever of them it could create   *)
(* and wherever they walk: so every walk comes to its end.                 *)
MainEnds == <>(main.at = "freed")
=============================================================================
