--------------------------- MODULE UThreadMap_proof ---------------------------
(***************************************************************************)
(* Proofs about UThreadMap: the types, and its five other invariants.      *)
(*                                                                         *)
(* The inductive invariant IInv has six parts: the types; LocalInv of each *)
(* worker and its scheduler (whose last part, about ids and turns, holds   *)
(* until a failing uthread_create takes back a thread_count); where main   *)
(* is in starting and stopping the workers; which slots are handed out;    *)
(* where every task is; and that the results are true.                     *)
(*                                                                         *)
(* The proof goes from the operators of the scheduler (a record u, and the *)
(* record v that an operation leaves) over one worker k with its scheduler *)
(* u to the actions, so that only the last part is about variables.        *)
(***************************************************************************)
EXTENDS UThreadMap, FiniteSets, FiniteSetTheorems, WellFoundedInduction, SequenceTheorems, TLAPS

-----------------------------------------------------------------------------
(*****************************************************************************)
(* The types of the scheduler and of the worker, and the parts of the        *)
(* inductive invariant that are about one scheduler.                         *)
(*****************************************************************************)

(* The names of the routines: the tasks, and that of the threads they create *)
Routines == Slots \cup {Child}

(* What TypeOK says of a thread, a scheduler, and a worker *)
Thread == [state : States, joined : BOOLEAN, routine : Routines \cup {Nil}, retval : Routines \cup {Nil},
           joins : Ids \cup {Nil}, child : Ids \cup {Nil}, spawned : BOOLEAN, passed : SUBSET Ids]

(* A scheduler of UThread, without the bound on the length of free *)
AnyScheduler == [thread : [Ids -> Thread], count : 0 .. MaxThreads, free : Seq(Ids), current : Ids \cup {Nil},
                 waiting : BOOLEAN, hurt : BOOLEAN, unfair : BOOLEAN]

(* An entry of the array locals of worker_main *)
Local == [id : Ids, task : Slots]

(* A worker *)
KernelThread == [at : {"none", "top", "asleep", "start", "run", "collect", "end"}, stop : BOOLEAN,
                 queue : Seq(Slots), batch : Seq(Slots), locals : Seq(Local), i : Nat]

(* Where a worker is and what it has in its hands *)
Phase(k) ==
  /\ k.at \in {"none", "end"} => k.queue = <<>>
  /\ k.at # "start" => k.batch = <<>>
  /\ k.at \in {"none", "top", "asleep", "end"} => k.locals = <<>>
  /\ k.at # "collect" => k.i = 1
  /\ k.at \in {"run", "collect"} => k.i \in 1 .. Len(k.locals)
  /\ k.at = "end" => k.stop

(* An id comes back only from somebody who got it: the locals of the worker, and the threads with a child *)
Owners(u) == {i \in Ids : u.thread[i].child # Nil \/ u.thread[i].joins # Nil}

(* The locals that the worker has not collected *)
Left(k) == Len(k.locals) + 1 - k.i

(* thread_count covers the ids in free_ids and those that may still come back, so free_ids never overflows *)
Balanced(k, u) == Len(u.free) + Left(k) + Cardinality(Owners(u)) <= u.count

(* What holds only of a scheduler that is not hurt *)
Placed(u) ==
  /\ \A i \in Ids : i < u.count => u.thread[i].state # "NEW"
  /\ \A i \in Ids : i < u.count /\ i # u.current => u.thread[i].state # "RUNNING"
  /\ u.current # Nil => u.current < u.count
  /\ u.current # Nil /\ ~u.waiting => u.thread[u.current].state \in {"RUNNING", "READY"}
  /\ u.current = Nil => \A i \in Ids : i < u.count => u.thread[i].state # "SLEEPING"

(* The ids in free_ids are different, and their threads have ended *)
Reusable(u) ==
  /\ \A j, l \in DOMAIN u.free : u.free[j] = u.free[l] => j = l
  /\ \A j \in DOMAIN u.free : u.free[j] < u.count /\ u.thread[u.free[j]].state = "FINISHED"

(* The places behind j, in the order in which the processor goes round *)
Behind(j, i) == IF i > j THEN i ELSE i + MaxThreads

(* Who got a turn while j is READY lies between j and the current thread, so nobody got two *)
Ordered(u) ==
  /\ ~u.unfair
  /\ \A j \in Ids : j < u.count =>
       /\ u.thread[j].state # "READY" \/ j = u.current => u.thread[j].passed = {}
       /\ \A i \in u.thread[j].passed : u.current # Nil /\ i < u.count /\ Behind(j, i) <= Behind(j, u.current)

(* A thread that has a child is the only one that has it, and its id still names that thread *)
Parented(u) ==
  /\ \A i \in Ids : LET t == u.thread[i] IN t.state # "FINISHED" =>
       /\ t.child # Nil => Names(u, t.child, Child) /\ ~u.thread[t.child].joined
       /\ t.joins # Nil => Names(u, t.joins, Child) /\ u.thread[t.joins].joined
  /\ \A i, j \in Ids : LET s == u.thread[i]  t == u.thread[j] IN
       s.state # "FINISHED" /\ t.state # "FINISHED" /\ i # j =>
         /\ s.child # Nil => s.child # t.child
         /\ s.joins # Nil => s.joins # t.joins

(* The ids of the locals still name the threads of their tasks *)
LocalsNamed(k, u) == \A j \in k.i .. Len(k.locals) :
  Names(u, k.locals[j].id, k.locals[j].task) /\ ~u.thread[k.locals[j].id].joined

(* A set of natural numbers has a least one. *)
LEMMA Least ==
  ASSUME NEW S \in SUBSET Nat, S # {}
  PROVE  \E n \in S : \A m \in S : n <= m
<1> DEFINE R == OpToRel(<, Nat)
<1>1. IsWellFoundedOn(R, Nat)
  BY NatLessThanWellFounded
<1>2. \A m, n \in Nat : m < n => <<m, n>> \in R
  BY DEF OpToRel
<1> HIDE DEF R
<1>3. PICK n \in S : \A m \in S : ~ (<<m, n>> \in R)
  BY <1>1, WFMin
<1>4. \A m \in S : n <= m
  <2> SUFFICES ASSUME NEW m \in S, ~ (n <= m) PROVE FALSE
    OBVIOUS
  <2>1. m < n /\ m \in Nat /\ n \in Nat
    OBVIOUS
  <2>. QED BY <2>1, <1>2, <1>3
<1>. QED BY <1>4

(* uthread_run finds a thread, if one is READY. *)
LEMMA LowestIs ==
  ASSUME NEW S \in SUBSET Ids, S # {}
  PROVE  Lowest(S) \in S
<1>1. S \in SUBSET Nat
  BY MaxThreadsAssumption DEF Ids
<1>2. PICK i \in S : \A j \in S : i <= j
  BY <1>1, Least
<1>. QED BY <1>2 DEF Lowest

(* Going round from thread c of n, how many threads are passed before i *)
Steps(n, c, i) == IF i > c THEN i - c - 1 ELSE i - c - 1 + n

(* The search of uthread.c:115 goes round the thread_count threads. *)
LEMMA StepsAre ==
  ASSUME NEW n \in Nat, NEW c \in 0 .. n - 1, NEW i \in 0 .. n - 1
  PROVE  (i - c - 1) % n = Steps(n, c, i) /\ Steps(n, c, i) \in 0 .. n - 1
<1>1. n > 0 /\ -n <= i - c - 1 /\ i - c - 1 < n /\ i - c - 1 \in Int
  OBVIOUS
<1> DEFINE a == i - c - 1
<1>2. ASSUME NEW b \in Int, -n <= b, b < n PROVE b % n = IF b >= 0 THEN b ELSE b + n
  BY <1>1, <1>2
<1>3. a % n = IF a >= 0 THEN a ELSE a + n
  <2> HIDE DEF a
  <2>. QED BY <1>1, <1>2 DEF a
<1>. QED BY <1>3 DEF Steps

(* The search finds a candidate, and none of the candidates is passed before it. *)
LEMMA NextReadyIs ==
  ASSUME NEW u \in AnyScheduler, NEW C \in SUBSET (0 .. u.count - 1), C # {}, u.current \in Ids
  PROVE  /\ NextReady(u, C) \in C
         /\ u.current < u.count => \A j \in C : Steps(u.count, u.current, NextReady(u, C)) <= Steps(u.count, u.current, j)
<1> DEFINE Distance(i) == (i - u.current - 1) % u.count
           D == {Distance(i) : i \in C}
<1>1. u.count \in Nat /\ u.count > 0 /\ u.current \in Nat
  <2>1. u.count \in 0 .. MaxThreads /\ u.current \in 0 .. MaxThreads - 1 /\ MaxThreads \in Nat
    BY MaxThreadsAssumption DEF AnyScheduler, Ids
  <2>2. PICK i \in 0 .. u.count - 1 : TRUE
    OBVIOUS
  <2>. QED BY <2>1, <2>2
<1>2. \A i \in C : Distance(i) \in Nat
  BY <1>1
<1>3. D \in SUBSET Nat /\ D # {}
  BY <1>2
<1>4. PICK d \in D : \A m \in D : d <= m
  <2> HIDE DEF D
  <2>. QED BY <1>3, Least
<1>5. \E i \in C : \A j \in C : Distance(i) <= Distance(j)
  BY <1>4
<1>6. NextReady(u, C) \in C /\ \A j \in C : Distance(NextReady(u, C)) <= Distance(j)
  BY <1>5, Zenon DEF NextReady
<1>7. ASSUME u.current < u.count, NEW i \in C PROVE Distance(i) = Steps(u.count, u.current, i)
  <2>1. u.current \in 0 .. u.count - 1 /\ i \in 0 .. u.count - 1
    BY <1>1, <1>7
  <2>. QED BY <1>1, <2>1, StepsAre
<1>. QED BY <1>6, <1>7

-----------------------------------------------------------------------------
(*****************************************************************************)
(* What the operations of the scheduler leave: dispatching.                  *)
(*****************************************************************************)

(* Two versions of a thread, and of a scheduler, that differ only in who is to run next *)
Alike(s, t) == /\ t.joined = s.joined /\ t.routine = s.routine /\ t.retval = s.retval
               /\ t.joins = s.joins /\ t.child = s.child /\ t.spawned = s.spawned
               /\ t.state = "FINISHED" <=> s.state = "FINISHED"
               /\ t.state = "NEW" => s.state = "NEW"

Same(u, v) == /\ v.count = u.count /\ v.free = u.free /\ v.hurt = u.hurt
              /\ \A i \in Ids : Alike(u.thread[i], v.thread[i])

(* The threads that sleep *)
Asleep(u) == {i \in Ids : u.thread[i].state = "SLEEPING"}

(* Same is transitive. *)
LEMMA SameTrans ==
  ASSUME NEW u, NEW v, NEW x, Same(u, v), Same(v, x)
  PROVE  Same(u, x)
BY DEF Same, Alike

(* Waking sleepers changes their states only. *)
LEMMA WakeIs ==
  ASSUME NEW u \in AnyScheduler, NEW due \in SUBSET Asleep(u)
  PROVE  LET v == Wake(u, due)
         IN /\ v \in AnyScheduler /\ Same(u, v)
            /\ v.current = u.current /\ v.waiting = u.waiting /\ v.unfair = u.unfair
            /\ \A i \in Ids : /\ v.thread[i].passed = u.thread[i].passed
                              /\ v.thread[i].state = IF i \in due THEN "READY" ELSE u.thread[i].state
<1> DEFINE f == [i \in Ids |-> IF i \in due THEN [u.thread[i] EXCEPT !.state = "READY"] ELSE u.thread[i]]
           v == Wake(u, due)
<1>1. v = [u EXCEPT !.thread = f]
  BY DEF Wake
<1>2. \A i \in Ids : u.thread[i] \in Thread
  BY DEF AnyScheduler
<1>3. ASSUME NEW i \in Ids
      PROVE  /\ f[i] \in Thread /\ Alike(u.thread[i], f[i])
             /\ f[i].passed = u.thread[i].passed
             /\ f[i].state = IF i \in due THEN "READY" ELSE u.thread[i].state
  <2>1. CASE i \in due
    <3>1. u.thread[i].state = "SLEEPING"
      BY <2>1 DEF Asleep
    <3>. QED BY <1>2, <2>1, <3>1 DEF Thread, States, Alike
  <2>2. CASE i \notin due
    BY <1>2, <2>2 DEF Alike
  <2>. QED BY <2>1, <2>2
<1>4. f \in [Ids -> Thread]
  BY <1>3
<1> HIDE DEF f
<1>5. v \in AnyScheduler /\ v.thread = f /\ v.count = u.count /\ v.free = u.free /\ v.hurt = u.hurt
        /\ v.current = u.current /\ v.waiting = u.waiting /\ v.unfair = u.unfair
  BY <1>1, <1>4 DEF AnyScheduler
<1> HIDE DEF v
<1>6. Same(u, v)
  BY <1>3, <1>5 DEF Same
<1>7. \A i \in Ids : /\ v.thread[i].passed = u.thread[i].passed
                     /\ v.thread[i].state = IF i \in due THEN "READY" ELSE u.thread[i].state
  BY <1>3, <1>5
<1>. QED BY <1>5, <1>6, <1>7 DEF v

(* What Dispatch makes of the states and of the sets of passed threads *)
StateAfter(u, i, j) ==
  IF j = i THEN IF j = u.current THEN u.thread[j].state ELSE "RUNNING"
  ELSE IF j = u.current /\ u.thread[j].state = "RUNNING" THEN "READY" ELSE u.thread[j].state

PassedAfter(u, i, j) ==
  IF j = i THEN {}
  ELSE IF j = u.current /\ u.thread[j].state = "RUNNING" THEN {i}
  ELSE IF u.thread[j].state = "READY" THEN u.thread[j].passed \cup {i} ELSE u.thread[j].passed

(* Dispatch is what StateAfter and PassedAfter say. *)
LEMMA DispatchIs ==
  ASSUME NEW u \in AnyScheduler, NEW i \in Ids, u.thread[i].state \in {"READY", "RUNNING"}
  PROVE  LET v == Dispatch(u, i)
         IN /\ v \in AnyScheduler /\ Same(u, v)
            /\ v.current = i /\ ~v.waiting
            /\ v.unfair = (u.unfair \/ \E j \in InState(u, "READY") \ {i} : i \in u.thread[j].passed)
            /\ \A j \in Ids : v.thread[j].state = StateAfter(u, i, j) /\ v.thread[j].passed = PassedAfter(u, i, j)
<1> DEFINE After(j, t) == CASE j = i /\ j # u.current -> [t EXCEPT !.state = "RUNNING", !.passed = {}]
                            [] j = i /\ j = u.current -> [t EXCEPT !.passed = {}]
                            [] j # i /\ j = u.current /\ t.state = "RUNNING" -> [t EXCEPT !.state = "READY", !.passed = {i}]
                            [] j # i /\ t.state = "READY" -> [t EXCEPT !.passed = @ \cup {i}]
                            [] OTHER -> t
           f == [j \in Ids |-> After(j, u.thread[j])]
           b == u.unfair \/ \E j \in InState(u, "READY") \ {i} : i \in u.thread[j].passed
           v == Dispatch(u, i)
<1>1. v = [u EXCEPT !.thread = f, !.current = i, !.waiting = FALSE, !.unfair = b]
  BY DEF Dispatch
<1>2. \A j \in Ids : u.thread[j] \in Thread
  BY DEF AnyScheduler
<1>3. ASSUME NEW j \in Ids
      PROVE  /\ f[j] \in Thread /\ Alike(u.thread[j], f[j])
             /\ f[j].state = StateAfter(u, i, j) /\ f[j].passed = PassedAfter(u, i, j)
  <2> DEFINE t == u.thread[j]
  <2>0. t \in Thread /\ f[j] = After(j, t) /\ (j = i => t.state \in {"READY", "RUNNING"})
    BY <1>2
  <2> HIDE DEF f
  <2>1. CASE j = i /\ j # u.current
    <3>1. f[j] = [t EXCEPT !.state = "RUNNING", !.passed = {}]
      BY <2>0, <2>1
    <3>. QED BY <2>0, <2>1, <3>1 DEF Thread, States, Alike, StateAfter, PassedAfter
  <2>2. CASE j = i /\ j = u.current
    <3>1. f[j] = [t EXCEPT !.passed = {}]
      BY <2>0, <2>2
    <3>. QED BY <2>0, <2>2, <3>1 DEF Thread, Alike, StateAfter, PassedAfter
  <2>3. CASE j # i /\ j = u.current /\ t.state = "RUNNING"
    <3>1. f[j] = [t EXCEPT !.state = "READY", !.passed = {i}]
      BY <2>0, <2>3
    <3>4. {i} \in SUBSET Ids /\ "READY" \in States
      BY DEF States
    <3> HIDE DEF t
    <3>2. f[j] \in Thread
      BY <2>0, <3>1, <3>4 DEF Thread
    <3>5. Alike(t, f[j])
      BY <2>0, <2>3, <3>1 DEF Thread, Alike
    <3>3. f[j].state = "READY" /\ f[j].passed = {i}
      BY <2>0, <3>1 DEF Thread
    <3>. QED BY <2>3, <3>2, <3>3, <3>5 DEF StateAfter, PassedAfter, t
  <2>4. CASE j # i /\ t.state = "READY"
    <3>1. f[j] = [t EXCEPT !.passed = @ \cup {i}]
      BY <2>0, <2>4
    <3>. QED BY <2>0, <2>4, <3>1 DEF Thread, Alike, StateAfter, PassedAfter
  <2>5. CASE j # i /\ t.state # "READY" /\ ~ (j = u.current /\ t.state = "RUNNING")
    <3>1. f[j] = t
      BY <2>0, <2>5
    <3>. QED BY <2>0, <2>5, <3>1 DEF Alike, StateAfter, PassedAfter
  <2>. QED BY <2>1, <2>2, <2>3, <2>4, <2>5
<1>4. f \in [Ids -> Thread] /\ b \in BOOLEAN
  BY <1>3 DEF AnyScheduler
<1> HIDE DEF f, b
<1>5. v \in AnyScheduler /\ v.thread = f /\ v.count = u.count /\ v.free = u.free /\ v.hurt = u.hurt
        /\ v.current = i /\ v.waiting = FALSE /\ v.unfair = b
  BY <1>1, <1>4 DEF AnyScheduler
<1> HIDE DEF v
<1>6. Same(u, v)
  BY <1>3, <1>5 DEF Same
<1>7. \A j \in Ids : v.thread[j].state = StateAfter(u, i, j) /\ v.thread[j].passed = PassedAfter(u, i, j)
  BY <1>3, <1>5
<1>. QED BY <1>5, <1>6, <1>7 DEF v, b

-----------------------------------------------------------------------------
(*****************************************************************************)
(* What holds of a scheduler after a switch.                                 *)
(*****************************************************************************)

(* The thread that has the processor is neither finished nor asleep *)
Stands(u) ==
  /\ u.current = Nil => ~u.waiting
  /\ u.current # Nil /\ ~u.waiting => /\ u.thread[u.current].state # "FINISHED"
                                      /\ u.current < u.count => u.thread[u.current].state # "SLEEPING"

(* Placed, but for the state of the current thread *)
Settled(u) ==
  /\ \A i \in Ids : i < u.count => u.thread[i].state # "NEW"
  /\ \A i \in Ids : i < u.count /\ i # u.current => u.thread[i].state # "RUNNING"
  /\ u.current # Nil => u.current < u.count

(* Every thread has ended *)
AllEnded(u) == \A i \in Ids : i < u.count => u.thread[i].state = "FINISHED"

(* What a switch of threads leaves *)
Switched(u, v) == v \in AnyScheduler /\ Same(u, v) /\ Stands(v)

(* An unhurt scheduler after a switch; uthread_run ends when all threads have *)
Fair(v) == Placed(v) /\ Ordered(v) /\ (v.current = Nil => AllEnded(v))

(* Ids and counts *)
LEMMA Below ==
  ASSUME NEW u \in AnyScheduler
  PROVE  /\ u.count \in Nat /\ u.count <= MaxThreads /\ MaxThreads \in Nat
         /\ 0 .. u.count - 1 \subseteq Ids
         /\ \A i \in Ids : i \in Nat /\ i < MaxThreads /\ (i \in 0 .. u.count - 1 <=> i < u.count)
         /\ Nil \notin Ids
BY MaxThreadsAssumption DEF AnyScheduler, Ids

(* The thread that gets the processor may run. *)
LEMMA DispatchStands ==
  ASSUME NEW u \in AnyScheduler, NEW i \in Ids, u.thread[i].state = "READY" \/ (u.thread[i].state = "RUNNING" /\ i # u.current)
  PROVE  Switched(u, Dispatch(u, i)) /\ Dispatch(u, i).current = i
<1> DEFINE v == Dispatch(u, i)
<1>1. /\ v \in AnyScheduler /\ Same(u, v)
      /\ v.current = i /\ ~v.waiting
      /\ v.thread[i].state = StateAfter(u, i, i)
  BY DispatchIs
<1> HIDE DEF v
<1>2. v.thread[i].state \in {"READY", "RUNNING"}
  BY <1>1 DEF StateAfter
<1>3. Stands(v)
  BY <1>1, <1>2, Below DEF Stands
<1>. QED BY <1>1, <1>3 DEF Switched, v

(* Going round, whoever is not passed before i is not passed before a later one either *)
LEMMA Round ==
  ASSUME NEW n \in Nat, n <= MaxThreads, MaxThreads \in Nat,
         NEW c \in Nat, c < n, NEW i \in Nat, i < n, NEW j \in Nat, j < n, j # i,
         Steps(n, c, i) <= Steps(n, c, j)
  PROVE  /\ j # c => Behind(j, c) <= Behind(j, i) /\ ~ (Behind(j, i) <= Behind(j, c) /\ i # c)
         /\ i # c
BY DEF Steps, Behind

(* Dispatching the next thread of the round keeps the order of the turns. *)
LEMMA DispatchFair ==
  ASSUME NEW u \in AnyScheduler, NEW i \in Ids, i < u.count,
         u.thread[i].state = "READY" \/ (u.thread[i].state = "RUNNING" /\ i # u.current),
         Settled(u), Ordered(u),
         u.current # Nil => \A j \in Ids : j < u.count /\ u.thread[j].state = "READY" =>
                              Steps(u.count, u.current, i) <= Steps(u.count, u.current, j)
  PROVE  Placed(Dispatch(u, i)) /\ Ordered(Dispatch(u, i))
<1> DEFINE v == Dispatch(u, i)
<1>1. /\ v \in AnyScheduler /\ Same(u, v)
      /\ v.current = i /\ ~v.waiting
      /\ v.unfair = (u.unfair \/ \E j \in InState(u, "READY") \ {i} : i \in u.thread[j].passed)
      /\ \A j \in Ids : v.thread[j].state = StateAfter(u, i, j) /\ v.thread[j].passed = PassedAfter(u, i, j)
  BY DispatchIs
<1> HIDE DEF v
<1>2. /\ u.count \in Nat /\ u.count <= MaxThreads /\ MaxThreads \in Nat
      /\ 0 .. u.count - 1 \subseteq Ids
      /\ \A j \in Ids : j \in Nat /\ j < MaxThreads /\ (j \in 0 .. u.count - 1 <=> j < u.count)
      /\ Nil \notin Ids
  BY Below
<1>3. u.thread[i].state = "READY" /\ v.count = u.count
  BY <1>1 DEF Settled, Same
<1>4. Placed(v)
  <2>1. \A j \in Ids : j < v.count => v.thread[j].state # "NEW"
    BY <1>1, <1>3 DEF Settled, StateAfter
  <2>2. \A j \in Ids : j < v.count /\ j # v.current => v.thread[j].state # "RUNNING"
    BY <1>1, <1>3 DEF Settled, StateAfter
  <2>3. v.thread[v.current].state \in {"RUNNING", "READY"}
    BY <1>1, <1>3 DEF StateAfter
  <2>. QED BY <2>1, <2>2, <2>3, <1>1, <1>2, <1>3 DEF Placed
<1>5. ASSUME u.current # Nil, NEW j \in Ids, j < u.count, j # i, u.thread[j].state = "READY" \/ j = u.current
      PROVE  /\ u.current \in Ids /\ i # u.current
             /\ j # u.current => Behind(j, u.current) <= Behind(j, i) /\ ~ (Behind(j, i) <= Behind(j, u.current))
  <2>1. u.current \in Ids /\ u.current < u.count
    BY <1>5 DEF Settled, AnyScheduler
  <2>2. i # u.current
    <3> SUFFICES ASSUME i = u.current PROVE FALSE
      OBVIOUS
    <3>1. u.thread[j].state = "READY" /\ j # u.current
      BY <1>5
    <3>2. Steps(u.count, u.current, i) <= Steps(u.count, u.current, j)
      BY <1>5, <3>1
    <3>. QED BY <2>1, <1>2, <1>5, <3>1, <3>2 DEF Steps
  <2>3. CASE j # u.current
    <3>1. Steps(u.count, u.current, i) <= Steps(u.count, u.current, j)
      BY <1>5, <2>3
    <3>. QED BY <2>1, <2>2, <1>2, <1>5, <3>1, Round
  <2>. QED BY <2>1, <2>2, <2>3
<1>6. ~v.unfair
  <2> SUFFICES ASSUME NEW j \in InState(u, "READY") \ {i}, i \in u.thread[j].passed PROVE FALSE
    BY <1>1 DEF Ordered
  <2>1. j \in Ids /\ j < u.count /\ u.thread[j].state = "READY" /\ j # i
    BY <1>2 DEF InState
  <2>2. u.current # Nil /\ Behind(j, i) <= Behind(j, u.current) /\ j # u.current
    BY <2>1 DEF Ordered
  <2>. QED BY <2>1, <2>2, <1>5
<1>7. ASSUME NEW j \in Ids, j < u.count
      PROVE  /\ v.thread[j].state # "READY" \/ j = v.current => v.thread[j].passed = {}
             /\ \A k \in v.thread[j].passed : v.current # Nil /\ k < u.count /\ Behind(j, k) <= Behind(j, v.current)
  <2>0. /\ u.thread[j].state # "READY" \/ j = u.current => u.thread[j].passed = {}
        /\ \A k \in u.thread[j].passed : u.current # Nil /\ k < u.count /\ Behind(j, k) <= Behind(j, u.current)
        /\ u.thread[j].passed \subseteq Ids
    BY <1>7 DEF Ordered, AnyScheduler, Thread
  <2>1. CASE j = i
    BY <1>1, <2>1 DEF PassedAfter
  <2>2. CASE j # i /\ j = u.current /\ u.thread[j].state = "RUNNING"
    <3>1. v.thread[j].passed = {i} /\ v.thread[j].state = "READY"
      BY <1>1, <2>2 DEF PassedAfter, StateAfter
    <3>2. Behind(j, i) <= Behind(j, i)
      BY <1>2 DEF Behind
    <3>. QED BY <1>1, <1>2, <2>2, <3>1, <3>2
  <2>3. CASE j # i /\ ~ (j = u.current /\ u.thread[j].state = "RUNNING") /\ u.thread[j].state = "READY"
    <3>1. v.thread[j].passed = u.thread[j].passed \cup {i} /\ v.thread[j].state = "READY"
      BY <1>1, <2>3 DEF PassedAfter, StateAfter
    <3>2. ASSUME NEW k \in u.thread[j].passed PROVE k < u.count /\ Behind(j, k) <= Behind(j, i)
      <4>1. u.current # Nil /\ k < u.count /\ Behind(j, k) <= Behind(j, u.current) /\ j # u.current /\ k \in Ids
        BY <2>0
      <4>2. Behind(j, u.current) <= Behind(j, i) /\ u.current \in Ids
        BY <4>1, <1>5, <1>7, <2>3
      <4>. QED BY <4>1, <4>2, <1>2 DEF Behind
    <3>3. Behind(j, i) <= Behind(j, i)
      BY <1>2 DEF Behind
    <3>. QED BY <1>1, <1>2, <2>3, <3>1, <3>2, <3>3
  <2>4. CASE j # i /\ ~ (j = u.current /\ u.thread[j].state = "RUNNING") /\ u.thread[j].state # "READY"
    BY <1>1, <2>0, <2>4 DEF PassedAfter, StateAfter
  <2>. QED BY <2>1, <2>2, <2>3, <2>4
<1>8. Ordered(v)
  BY <1>3, <1>6, <1>7 DEF Ordered
<1>. QED BY <1>4, <1>8 DEF v

(* Waking sleepers keeps the order of the turns. *)
LEMMA WakeSettled ==
  ASSUME NEW u \in AnyScheduler, NEW due \in SUBSET Asleep(u), Settled(u), Ordered(u)
  PROVE  Settled(Wake(u, due)) /\ Ordered(Wake(u, due))
<1> DEFINE v == Wake(u, due)
<1>1. /\ v \in AnyScheduler /\ Same(u, v)
      /\ v.current = u.current /\ v.waiting = u.waiting /\ v.unfair = u.unfair
      /\ \A i \in Ids : /\ v.thread[i].passed = u.thread[i].passed
                        /\ v.thread[i].state = IF i \in due THEN "READY" ELSE u.thread[i].state
  BY WakeIs
<1> HIDE DEF v
<1>2. v.count = u.count
  BY <1>1 DEF Same
<1>3. Settled(v)
  BY <1>1, <1>2 DEF Settled
<1>4. ASSUME NEW j \in Ids, j < u.count
      PROVE  v.thread[j].state # "READY" \/ j = v.current => v.thread[j].passed = {}
  <2>1. j \in due => u.thread[j].state # "READY"
    BY DEF Asleep
  <2>2. u.thread[j].state # "READY" \/ j = u.current => u.thread[j].passed = {}
    BY <1>4 DEF Ordered
  <2>. QED BY <1>1, <2>1, <2>2
<1>5. Ordered(v)
  BY <1>1, <1>2, <1>4 DEF Ordered
<1>. QED BY <1>3, <1>5 DEF v

-----------------------------------------------------------------------------
(*****************************************************************************)
(* yield, the wake-up and run.                                               *)
(*****************************************************************************)

(* The thread that uthread_yield chooses is READY, and no READY thread is passed over. *)
LEMMA CandidatesAre ==
  ASSUME NEW u \in AnyScheduler, u.current \in Ids, Candidates(u) # {}
  PROVE  LET i == NextReady(u, Candidates(u))
         IN /\ i \in Ids /\ i < u.count
            /\ u.thread[i].state = "READY" \/ (u.thread[i].state = "RUNNING" /\ i # u.current)
            /\ u.current < u.count => \A j \in Ids : j < u.count /\ u.thread[j].state = "READY" =>
                                        Steps(u.count, u.current, i) <= Steps(u.count, u.current, j)
<1> DEFINE C == Candidates(u)
           i == NextReady(u, C)
<1>1. 0 .. u.count - 1 \subseteq Ids /\ \A j \in Ids : j \in 0 .. u.count - 1 <=> j < u.count
  BY Below
<1>2. C \in SUBSET (0 .. u.count - 1)
  BY DEF Candidates, InState
<1>3. ASSUME NEW j \in C PROVE u.thread[j].state = "READY" \/ (u.thread[j].state = "RUNNING" /\ j # u.current)
  <2>1. CASE j \in InState(u, "READY")
    <3>1. u.thread[j].state = "READY"
      BY <2>1 DEF InState
    <3>. QED BY <3>1
  <2>2. CASE j \in InState(u, "RUNNING") /\ j # u.current
    <3>1. u.thread[j].state = "RUNNING"
      BY <2>2 DEF InState
    <3>. QED BY <2>2, <3>1
  <2>. QED BY <2>1, <2>2 DEF Candidates
<1>4. \A j \in Ids : j < u.count /\ u.thread[j].state = "READY" => j \in C
  BY <1>1 DEF Candidates, InState
<1> HIDE DEF C
<1>5. /\ i \in C
      /\ u.current < u.count => \A j \in C : Steps(u.count, u.current, i) <= Steps(u.count, u.current, j)
  BY <1>2, NextReadyIs DEF C
<1> HIDE DEF i
<1>. QED BY <1>1, <1>2, <1>3, <1>4, <1>5 DEF i, C

(* Without a candidate nobody but the current thread may run. *)
LEMMA NobodyLeft ==
  ASSUME NEW u \in AnyScheduler, u.current \in Ids, Candidates(u) = {}
  PROVE  \A j \in Ids : j < u.count => u.thread[j].state # "READY" /\ (u.thread[j].state = "RUNNING" => j = u.current)
BY Below DEF Candidates, InState

(* The last thread that ends returns to uthread_run, which finds nobody. *)
LEMMA RunNobody ==
  ASSUME NEW u \in AnyScheduler, u.current \in Ids, ~u.waiting, Candidates(u) = {}, InState(u, "SLEEPING") = {},
         u.thread[u.current].state = "FINISHED"
  PROVE  LET v == Run([u EXCEPT !.current = Nil])
         IN Switched(u, v) /\ (Settled(u) /\ Ordered(u) => Fair(v))
<1> DEFINE x == [u EXCEPT !.current = Nil]
<1>1. /\ x \in AnyScheduler /\ x.thread = u.thread /\ x.count = u.count /\ x.free = u.free /\ x.hurt = u.hurt
      /\ x.current = Nil /\ ~x.waiting /\ x.unfair = u.unfair
  BY DEF AnyScheduler
<1> HIDE DEF x
<1>2. InState(x, "READY") = {}
  BY <1>1 DEF Candidates, InState
<1>3. Run(x) = x
  BY <1>2 DEF Run
<1>4. Switched(u, x)
  BY <1>1 DEF Switched, Same, Alike, Stands
<1>5. ASSUME Settled(u), Ordered(u) PROVE Fair(x)
  <2>1. ASSUME NEW j \in Ids, j < u.count
        PROVE  u.thread[j].state = "FINISHED" /\ u.thread[j].passed = {}
    <3>1. u.thread[j].state # "READY" /\ u.thread[j].state # "SLEEPING" /\ u.thread[j].state # "NEW"
          /\ u.thread[j].state # "RUNNING" /\ u.thread[j] \in Thread
      <4>1. u.thread[j].state # "SLEEPING"
        BY <2>1, Below DEF InState
      <4>2. u.thread[j].state # "READY" /\ (u.thread[j].state = "RUNNING" => j = u.current)
        BY <2>1, NobodyLeft
      <4>. QED BY <4>1, <4>2, <1>5, <2>1 DEF Settled, AnyScheduler
    <3>. QED BY <1>5, <2>1, <3>1 DEF Thread, States, Ordered
  <2>2. AllEnded(x) /\ Placed(x)
    BY <1>1, <2>1 DEF AllEnded, Placed
  <2>3. Ordered(x)
    BY <1>1, <1>5, <2>1 DEF Ordered
  <2>. QED BY <2>2, <2>3 DEF Fair
<1>. QED BY <1>3, <1>4, <1>5 DEF x

(* What uthread_yield does, whoever has become due meanwhile *)
LEMMA YieldIs ==
  ASSUME NEW u \in AnyScheduler, u.current \in Ids, ~u.waiting, NEW due \in SUBSET Asleep(u)
  PROVE  LET y == Yield(u, due)
         IN Switched(u, y) /\ (Settled(u) /\ Ordered(u) => Fair(y))
<1> DEFINE v == Wake(u, due)
           y == Yield(u, due)
<1>0. u.current # Nil
  BY Below
<1>1. /\ v \in AnyScheduler /\ Same(u, v)
      /\ v.current = u.current /\ v.waiting = u.waiting /\ v.unfair = u.unfair
  BY WakeIs
<1>2. Settled(u) /\ Ordered(u) => Settled(v) /\ Ordered(v)
  BY WakeSettled
<1>3. y = IF Candidates(v) # {} THEN Dispatch(v, NextReady(v, Candidates(v)))
          ELSE IF InState(v, "SLEEPING") # {} THEN [v EXCEPT !.waiting = TRUE]
          ELSE IF v.thread[v.current].state = "FINISHED" THEN Run([v EXCEPT !.current = Nil])
          ELSE v
  BY DEF Yield
<1> HIDE DEF v, y
<1>4. Switched(v, y) /\ (Settled(v) /\ Ordered(v) => Fair(y))
  <2>1. CASE Candidates(v) # {}
    <3> DEFINE i == NextReady(v, Candidates(v))
    <3>1. /\ i \in Ids /\ i < v.count
          /\ v.thread[i].state = "READY" \/ (v.thread[i].state = "RUNNING" /\ i # v.current)
          /\ v.current < v.count => \A j \in Ids : j < v.count /\ v.thread[j].state = "READY" =>
                                      Steps(v.count, v.current, i) <= Steps(v.count, v.current, j)
      BY <1>1, <2>1, CandidatesAre
    <3>2. y = Dispatch(v, i)
      BY <1>3, <2>1
    <3> HIDE DEF i
    <3>3. Switched(v, y) /\ y.current = i
      BY <1>1, <3>1, <3>2, DispatchStands
    <3>4. ASSUME Settled(v), Ordered(v) PROVE Fair(y)
      <4>1. v.current < v.count
        BY <1>0, <1>1, <3>4 DEF Settled
      <4>2. Placed(y) /\ Ordered(y)
        BY <1>1, <3>1, <3>2, <3>4, <4>1, DispatchFair
      <4>. QED BY <3>1, <3>3, <4>2, Below DEF Fair
    <3>. QED BY <3>3, <3>4
  <2>2. CASE Candidates(v) = {} /\ InState(v, "SLEEPING") # {}
    <3>1. y = [v EXCEPT !.waiting = TRUE]
      BY <1>3, <2>2
    <3>2. /\ y \in AnyScheduler /\ y.thread = v.thread /\ y.count = v.count /\ y.free = v.free /\ y.hurt = v.hurt
          /\ y.current = v.current /\ y.waiting /\ y.unfair = v.unfair
      BY <1>1, <3>1 DEF AnyScheduler
    <3>3. Switched(v, y)
      BY <1>0, <1>1, <3>2 DEF Switched, Same, Alike, Stands
    <3>4. ASSUME Settled(v), Ordered(v) PROVE Fair(y)
      <4>1. Placed(y)
        BY <1>0, <1>1, <3>2, <3>4 DEF Settled, Placed
      <4>2. Ordered(y)
        BY <3>2, <3>4 DEF Ordered
      <4>. QED BY <1>0, <1>1, <3>2, <4>1, <4>2 DEF Fair
    <3>. QED BY <3>3, <3>4
  <2>3. CASE Candidates(v) = {} /\ InState(v, "SLEEPING") = {} /\ v.thread[v.current].state = "FINISHED"
    <3>1. y = Run([v EXCEPT !.current = Nil])
      BY <1>3, <2>3
    <3>. QED BY <1>1, <2>3, <3>1, RunNobody
  <2>4. CASE Candidates(v) = {} /\ InState(v, "SLEEPING") = {} /\ v.thread[v.current].state # "FINISHED"
    <3>1. y = v
      BY <1>3, <2>4
    <3>2. \A j \in Ids : j < v.count => v.thread[j].state # "SLEEPING"
      BY <1>1, <2>4, Below DEF InState
    <3>3. Switched(v, v)
      BY <1>0, <1>1, <2>4, <3>2 DEF Switched, Same, Alike, Stands
    <3>4. ASSUME Settled(v), Ordered(v) PROVE Fair(v)
      <4>1. v.current \in Ids /\ v.current < v.count /\ v.thread[v.current] \in Thread
        BY <1>0, <1>1, <3>4 DEF Settled, AnyScheduler
      <4>2. v.thread[v.current].state \in {"RUNNING", "READY"}
        BY <2>4, <3>2, <3>4, <4>1 DEF Settled, Thread, States
      <4>3. Placed(v)
        BY <1>0, <1>1, <3>4, <4>2 DEF Settled, Placed
      <4>. QED BY <1>0, <1>1, <3>4, <4>3 DEF Fair
    <3>. QED BY <3>1, <3>3, <3>4
  <2>. QED BY <2>1, <2>2, <2>3, <2>4
<1>5. Switched(u, y)
  BY <1>1, <1>4, SameTrans DEF Switched
<1>. QED BY <1>2, <1>4, <1>5 DEF y

(* What uthread_wait_for_wakeup does with the first sleeper that is due *)
LEMMA WakeUpIs ==
  ASSUME NEW u \in AnyScheduler, u.current \in Ids, NEW i \in InState(u, "SLEEPING")
  PROVE  LET y == WakeUp(u, i)
         IN Switched(u, y) /\ y.current \in Ids /\ (Settled(u) /\ Ordered(u) => Fair(y))
<1> DEFINE v == Wake(u, {i})
           y == WakeUp(u, i)
           k == NextReady(v, Candidates(v))
<1>0. i \in Ids /\ i < u.count /\ {i} \in SUBSET Asleep(u) /\ u.current # Nil
  BY Below DEF InState, Asleep
<1>1. /\ v \in AnyScheduler /\ Same(u, v)
      /\ v.current = u.current /\ v.waiting = u.waiting /\ v.unfair = u.unfair
      /\ v.thread[i].state = "READY"
  <2> DEFINE due == {i}
  <2>1. due \in SUBSET Asleep(u) /\ i \in due
    BY <1>0
  <2> HIDE DEF due
  <2>2. LET x == Wake(u, due)
        IN /\ x \in AnyScheduler /\ Same(u, x)
           /\ x.current = u.current /\ x.waiting = u.waiting /\ x.unfair = u.unfair
           /\ x.thread[i].state = "READY"
    BY <1>0, <2>1, WakeIs
  <2>. QED BY <2>2 DEF due
<1>2. Settled(u) /\ Ordered(u) => Settled(v) /\ Ordered(v)
  BY <1>0, WakeSettled
<1>3. y = Dispatch(v, k)
  BY DEF WakeUp
<1> HIDE DEF v, y
<1>4. i \in Candidates(v)
  BY <1>0, <1>1, Below DEF Candidates, InState, Same
<1>5. /\ k \in Ids /\ k < v.count
      /\ v.thread[k].state = "READY" \/ (v.thread[k].state = "RUNNING" /\ k # v.current)
      /\ v.current < v.count => \A j \in Ids : j < v.count /\ v.thread[j].state = "READY" =>
                                  Steps(v.count, v.current, k) <= Steps(v.count, v.current, j)
  BY <1>1, <1>4, CandidatesAre
<1> HIDE DEF k
<1>6. Switched(v, y) /\ y.current = k
  BY <1>1, <1>3, <1>5, DispatchStands
<1>7. ASSUME Settled(v), Ordered(v) PROVE Fair(y)
  <2>1. v.current < v.count
    BY <1>0, <1>1, <1>7 DEF Settled
  <2>2. Placed(y) /\ Ordered(y)
    BY <1>1, <1>3, <1>5, <1>7, <2>1, DispatchFair
  <2>. QED BY <1>5, <1>6, <2>2, Below DEF Fair
<1>8. Switched(u, y)
  BY <1>1, <1>6, SameTrans DEF Switched
<1>. QED BY <1>2, <1>5, <1>6, <1>7, <1>8 DEF y

(* What uthread_run does first *)
LEMMA RunIs ==
  ASSUME NEW u \in AnyScheduler, u.current = Nil, Stands(u)
  PROVE  LET y == Run(u)
         IN Switched(u, y) /\ (Placed(u) /\ Ordered(u) => Fair(y))
<1> DEFINE y == Run(u)
           ready == InState(u, "READY")
           i == Lowest(ready)
<1>1. CASE ready = {}
  <2>1. y = u
    BY <1>1 DEF Run
  <2>2. Switched(u, u)
    BY DEF Switched, Same, Alike
  <2>3. ASSUME Placed(u) PROVE AllEnded(u)
    <3> SUFFICES ASSUME NEW j \in Ids, j < u.count PROVE u.thread[j].state = "FINISHED"
      BY DEF AllEnded
    <3>1. u.thread[j].state # "READY" /\ j # Nil /\ u.thread[j] \in Thread
      BY <1>1, Below DEF InState, AnyScheduler
    <3>. QED BY <2>3, <3>1 DEF Placed, Thread, States
  <2>. QED BY <2>1, <2>2, <2>3 DEF Fair
<1>2. CASE ready # {}
  <2>1. ready \in SUBSET Ids
    BY Below DEF InState
  <2>2. i \in ready
    <3> HIDE DEF ready
    <3>. QED BY <1>2, <2>1, LowestIs
  <2>3. y = Dispatch(u, i)
    BY <1>2 DEF Run
  <2>4. /\ i \in Ids /\ i < u.count
        /\ u.thread[i].state = "READY" \/ (u.thread[i].state = "RUNNING" /\ i # u.current)
    BY <2>2, Below DEF InState
  <2> HIDE DEF i, y
  <2>5. Switched(u, y) /\ y.current = i
    BY <2>3, <2>4, DispatchStands
  <2>6. ASSUME Placed(u), Ordered(u) PROVE Fair(y)
    <3>1. Settled(u)
      BY <2>6 DEF Placed, Settled
    <3>2. Placed(y) /\ Ordered(y)
      BY <2>3, <2>4, <2>6, <3>1, DispatchFair
    <3>. QED BY <2>4, <2>5, <3>2, Below DEF Fair
  <2>. QED BY <2>5, <2>6 DEF y
<1>. QED BY <1>1, <1>2

-----------------------------------------------------------------------------
(*****************************************************************************)
(* Creating threads, and taking their ids back.                              *)
(*****************************************************************************)

(* A sequence without its last element *)
LEMMA FrontLast ==
  ASSUME NEW T, NEW q \in Seq(T), q # <<>>
  PROVE  /\ Len(q) \in Nat /\ Len(q) >= 1
         /\ Front(q) \in Seq(T) /\ Len(Front(q)) = Len(q) - 1
         /\ \A j \in DOMAIN Front(q) : j \in DOMAIN q /\ j < Len(q) /\ Front(q)[j] = q[j]
         /\ Last(q) = q[Len(q)] /\ Last(q) \in T /\ Len(q) \in DOMAIN q
<1>1. Len(q) \in Nat /\ Len(q) >= 1 /\ DOMAIN q = 1 .. Len(q)
  BY EmptySeq, LenProperties
<1>2. Front(q) = SubSeq(q, 1, Len(q) - 1)
  BY DEF Front
<1>3. /\ Front(q) \in Seq(T) /\ Len(Front(q)) = Len(q) - 1
      /\ \A j \in 1 .. Len(q) - 1 : Front(q)[j] = q[j]
  BY <1>1, <1>2, SubSeqProperties
<1>4. DOMAIN Front(q) = 1 .. Len(q) - 1
  BY <1>3, LenProperties
<1>5. Last(q) = q[Len(q)] /\ Last(q) \in T
  BY <1>1, ElementOfSeq DEF Last
<1>. QED BY <1>1, <1>3, <1>4, <1>5

(* A thread as uthread_create leaves it *)
Created(r) == [Blank EXCEPT !.state = "READY", !.routine = r]

(* uthread_create hands out an id. *)
LEMMA NextIdIs ==
  ASSUME NEW u \in AnyScheduler, HasRoom(u)
  PROVE  NextId(u) \in Ids
<1>1. CASE u.free # <<>>
  <2>1. u.free \in Seq(Ids)
    BY DEF AnyScheduler
  <2>. QED BY <1>1, <2>1, FrontLast DEF NextId
<1>2. CASE u.free = <<>>
  BY <1>2, MaxThreadsAssumption DEF NextId, HasRoom, AnyScheduler, Ids
<1>. QED BY <1>1, <1>2

(* What uthread_create does *)
LEMMA CreateIs ==
  ASSUME NEW u \in AnyScheduler, HasRoom(u), NEW r \in Routines
  PROVE  LET v == Create(u, r)
         IN /\ v \in AnyScheduler
            /\ v.current = u.current /\ v.waiting = u.waiting /\ v.hurt = u.hurt /\ v.unfair = u.unfair
            /\ v.count = IF u.free = <<>> THEN u.count + 1 ELSE u.count
            /\ v.free = IF u.free # <<>> THEN Front(u.free) ELSE u.free
            /\ \A i \in Ids : v.thread[i] = IF i = NextId(u) THEN Created(r) ELSE u.thread[i]
<1> DEFINE n == NextId(u)
           f == [u.thread EXCEPT ![n] = Created(r)]
           q == IF u.free # <<>> THEN Front(u.free) ELSE u.free
           c == IF u.free = <<>> THEN u.count + 1 ELSE u.count
           v == Create(u, r)
<1>1. n \in Ids
  BY NextIdIs
<1>2. v = [u EXCEPT !.thread = f, !.free = q, !.count = c]
  BY DEF Create, Created
<1>3. Created(r) \in Thread
  BY DEF Created, Blank, Thread, States
<1>4. f \in [Ids -> Thread] /\ \A i \in Ids : f[i] = IF i = n THEN Created(r) ELSE u.thread[i]
  <2> HIDE DEF n
  <2>. QED BY <1>1, <1>3 DEF AnyScheduler
<1>5. q \in Seq(Ids)
  <2>1. u.free \in Seq(Ids)
    BY DEF AnyScheduler
  <2>. QED BY <2>1, FrontLast
<1>6. c \in 0 .. MaxThreads
  BY MaxThreadsAssumption DEF AnyScheduler, HasRoom
<1> HIDE DEF f, q, c
<1>7. /\ v \in AnyScheduler /\ v.thread = f /\ v.free = q /\ v.count = c
      /\ v.current = u.current /\ v.waiting = u.waiting /\ v.hurt = u.hurt /\ v.unfair = u.unfair
  BY <1>2, <1>4, <1>5, <1>6 DEF AnyScheduler
<1> HIDE DEF v
<1>. QED BY <1>4, <1>7 DEF v, q, c

(* What uthread_create does when it fails *)
LEMMA CreateFailsIs ==
  ASSUME NEW u \in AnyScheduler, HasRoom(u), Len(u.free) <= u.count
  PROVE  LET v == CreateFails(u)
         IN /\ v \in AnyScheduler
            /\ v.current = u.current /\ v.waiting = u.waiting /\ v.unfair = u.unfair
            /\ v.hurt = (u.hurt \/ u.free # <<>>)
            /\ v.count = IF u.free # <<>> THEN u.count - 1 ELSE u.count
            /\ v.free = IF u.free # <<>> THEN Front(u.free) ELSE u.free
            /\ \A i \in Ids : v.thread[i] = IF i = NextId(u) THEN Blank ELSE u.thread[i]
<1> DEFINE n == NextId(u)
           f == [u.thread EXCEPT ![n] = Blank]
           q == IF u.free # <<>> THEN Front(u.free) ELSE u.free
           c == IF u.free # <<>> THEN u.count - 1 ELSE u.count
           h == u.hurt \/ u.free # <<>>
           v == CreateFails(u)
<1>1. n \in Ids
  BY NextIdIs
<1>2. v = [u EXCEPT !.thread = f, !.free = q, !.count = c, !.hurt = h]
  BY DEF CreateFails
<1>3. Blank \in Thread
  BY DEF Blank, Thread, States
<1>4. f \in [Ids -> Thread] /\ \A i \in Ids : f[i] = IF i = n THEN Blank ELSE u.thread[i]
  <2> HIDE DEF n
  <2>. QED BY <1>1, <1>3 DEF AnyScheduler
<1>5. u.free \in Seq(Ids) /\ u.count \in 0 .. MaxThreads /\ MaxThreads \in Nat
  BY MaxThreadsAssumption DEF AnyScheduler
<1>6. q \in Seq(Ids)
  BY <1>5, FrontLast
<1>7. c \in 0 .. MaxThreads /\ h \in BOOLEAN
  <2>1. CASE u.free = <<>>
    BY <1>5, <2>1 DEF AnyScheduler
  <2>2. CASE u.free # <<>>
    <3>1. Len(u.free) \in Nat /\ Len(u.free) >= 1
      BY <1>5, <2>2, FrontLast
    <3>. QED BY <1>5, <2>2, <3>1 DEF AnyScheduler
  <2>. QED BY <2>1, <2>2
<1> HIDE DEF f, q, c, h
<1>8. /\ v \in AnyScheduler /\ v.thread = f /\ v.free = q /\ v.count = c /\ v.hurt = h
      /\ v.current = u.current /\ v.waiting = u.waiting /\ v.unfair = u.unfair
  BY <1>2, <1>4, <1>6, <1>7 DEF AnyScheduler
<1> HIDE DEF v
<1>. QED BY <1>4, <1>8 DEF v, q, c, h

(* What uthread_join does at its end *)
LEMMA ReclaimIs ==
  ASSUME NEW u \in AnyScheduler, NEW i \in Ids
  PROVE  LET v == Reclaim(u, i)
         IN /\ v \in AnyScheduler /\ v.free = Append(u.free, i) /\ v.thread = u.thread /\ v.count = u.count
            /\ v.current = u.current /\ v.waiting = u.waiting /\ v.hurt = u.hurt /\ v.unfair = u.unfair
<1>1. Append(u.free, i) \in Seq(Ids)
  BY AppendProperties DEF AnyScheduler
<1> DEFINE q == Append(u.free, i)
<1>2. Reclaim(u, i) = [u EXCEPT !.free = q]
  BY DEF Reclaim
<1> HIDE DEF q
<1>3. q \in Seq(Ids)
  BY <1>1 DEF q
<1>. QED BY <1>2, <1>3 DEF AnyScheduler, q

(* A change of one thread *)
LEMMA ThreadChanged ==
  ASSUME NEW u \in AnyScheduler, NEW i \in Ids, NEW t \in Thread
  PROVE  LET v == [u EXCEPT !.thread[i] = t]
         IN /\ v \in AnyScheduler /\ v.free = u.free /\ v.count = u.count
            /\ v.current = u.current /\ v.waiting = u.waiting /\ v.hurt = u.hurt /\ v.unfair = u.unfair
            /\ \A j \in Ids : v.thread[j] = IF j = i THEN t ELSE u.thread[j]
<1> DEFINE f == [u.thread EXCEPT ![i] = t]
           v == [u EXCEPT !.thread[i] = t]
<1>1. v = [u EXCEPT !.thread = f]
  OBVIOUS
<1>2. f \in [Ids -> Thread] /\ \A j \in Ids : f[j] = IF j = i THEN t ELSE u.thread[j]
  BY DEF AnyScheduler
<1> HIDE DEF f, v
<1>3. /\ v \in AnyScheduler /\ v.thread = f /\ v.free = u.free /\ v.count = u.count
      /\ v.current = u.current /\ v.waiting = u.waiting /\ v.hurt = u.hurt /\ v.unfair = u.unfair
  BY <1>1, <1>2 DEF AnyScheduler
<1>. QED BY <1>2, <1>3 DEF v

-----------------------------------------------------------------------------
(*****************************************************************************)
(* The invariant of one worker and its scheduler.                            *)
(*****************************************************************************)

(* What a thread that has ended leaves, and what it may have of a child *)
Kept(u) == \A i \in Ids : LET t == u.thread[i] IN
  /\ t.state = "FINISHED" => t.retval = t.routine
  /\ t.child = Nil \/ t.joins = Nil
  /\ ~t.spawned => t.child = Nil /\ t.joins = Nil

(* The ids: those that are free, those of the children, and those of the worker's locals *)
Ledger(k, u) == Reusable(u) /\ Parented(u) /\ LocalsNamed(k, u)

(* What holds of a worker k and its scheduler u; the last part only as long as the scheduler is not hurt *)
LocalInv(k, u) ==
  /\ k \in KernelThread /\ u \in AnyScheduler
  /\ Phase(k) /\ (k.at = "run" <=> u.current # Nil)
  /\ Stands(u) /\ Kept(u) /\ Balanced(k, u)
  /\ ~u.hurt => Placed(u) /\ Ordered(u) /\ Ledger(k, u) /\ (k.at = "collect" => AllEnded(u))

(* A switch of threads keeps what the ids name, and who owns them. *)
LEMMA SameKeeps ==
  ASSUME NEW k \in KernelThread, NEW u \in AnyScheduler, NEW v \in AnyScheduler, Same(u, v)
  PROVE  /\ Kept(u) => Kept(v)
         /\ Owners(v) = Owners(u)
         /\ Ledger(k, u) => Ledger(k, v)
<1>1. /\ v.count = u.count /\ v.free = u.free
      /\ \A i \in Ids : Alike(u.thread[i], v.thread[i])
  BY DEF Same
<1>2. Kept(u) => Kept(v)
  BY <1>1 DEF Kept, Alike
<1>3. Owners(v) = Owners(u)
  BY <1>1 DEF Owners, Alike
<1>4. ASSUME NEW id \in Ids, NEW r, Names(u, id, r) PROVE Names(v, id, r)
  BY <1>1, <1>4 DEF Names, Alike
<1>5. \A j \in DOMAIN u.free : u.free[j] \in Ids
  BY ElementOfSeq, LenProperties DEF AnyScheduler
<1>6. ASSUME Reusable(u) PROVE Reusable(v)
  BY <1>1, <1>5, <1>6 DEF Reusable, Alike
<1>7. ASSUME Parented(u) PROVE Parented(v)
  <2>1. ASSUME NEW i \in Ids, v.thread[i].state # "FINISHED"
        PROVE  /\ v.thread[i].child # Nil => Names(v, v.thread[i].child, Child) /\ ~v.thread[v.thread[i].child].joined
               /\ v.thread[i].joins # Nil => Names(v, v.thread[i].joins, Child) /\ v.thread[v.thread[i].joins].joined
    <3>1. u.thread[i].state # "FINISHED" /\ v.thread[i].child = u.thread[i].child /\ v.thread[i].joins = u.thread[i].joins
      BY <1>1, <2>1 DEF Alike
    <3>2. u.thread[i].child \in Ids \cup {Nil} /\ u.thread[i].joins \in Ids \cup {Nil}
      BY DEF AnyScheduler, Thread
    <3>3. CASE u.thread[i].child # Nil
      <4> DEFINE id == u.thread[i].child
      <4>1. id \in Ids /\ Names(u, id, Child) /\ ~u.thread[id].joined
        BY <1>7, <3>1, <3>2, <3>3 DEF Parented
      <4> HIDE DEF id
      <4>2. Names(v, id, Child) /\ ~v.thread[id].joined
        BY <1>1, <1>4, <4>1 DEF Alike
      <4>3. CASE u.thread[i].joins = Nil
        BY <3>1, <4>2, <4>3 DEF id
      <4>4. CASE u.thread[i].joins # Nil
        <5> DEFINE jd == u.thread[i].joins
        <5>1. jd \in Ids /\ Names(u, jd, Child) /\ u.thread[jd].joined
          BY <1>7, <3>1, <3>2, <4>4 DEF Parented
        <5> HIDE DEF jd
        <5>2. Names(v, jd, Child) /\ v.thread[jd].joined
          BY <1>1, <1>4, <5>1 DEF Alike
        <5>. QED BY <3>1, <4>2, <5>2 DEF id, jd
      <4>. QED BY <4>3, <4>4
    <3>4. CASE u.thread[i].child = Nil
      <4>1. CASE u.thread[i].joins # Nil
        <5> DEFINE jd == u.thread[i].joins
        <5>1. jd \in Ids /\ Names(u, jd, Child) /\ u.thread[jd].joined
          BY <1>7, <3>1, <3>2, <4>1 DEF Parented
        <5> HIDE DEF jd
        <5>2. Names(v, jd, Child) /\ v.thread[jd].joined
          BY <1>1, <1>4, <5>1 DEF Alike
        <5>. QED BY <3>1, <3>4, <5>2 DEF jd
      <4>. QED BY <3>1, <3>4, <4>1
    <3>. QED BY <3>3, <3>4
  <2>2. ASSUME NEW i \in Ids, NEW j \in Ids, v.thread[i].state # "FINISHED", v.thread[j].state # "FINISHED", i # j
        PROVE  /\ v.thread[i].child # Nil => v.thread[i].child # v.thread[j].child
               /\ v.thread[i].joins # Nil => v.thread[i].joins # v.thread[j].joins
    <3>1. Alike(u.thread[i], v.thread[i]) /\ Alike(u.thread[j], v.thread[j])
      BY <1>1
    <3>. QED BY <1>7, <2>2, <3>1 DEF Parented, Alike
  <2>. QED BY <2>1, <2>2 DEF Parented
<1>8. ASSUME LocalsNamed(k, u) PROVE LocalsNamed(k, v)
  <2>1. \A j \in k.i .. Len(k.locals) : k.i \in Nat /\ j \in Int
    BY DEF KernelThread
  <2>2. ASSUME NEW j \in k.i .. Len(k.locals)
        PROVE  Names(v, k.locals[j].id, k.locals[j].task) /\ ~v.thread[k.locals[j].id].joined
    <3> DEFINE id == k.locals[j].id
               r == k.locals[j].task
    <3>1. Names(u, id, r) /\ ~u.thread[id].joined
      BY <1>8, <2>2 DEF LocalsNamed
    <3>2. id \in Ids
      BY <3>1, Below DEF Names
    <3> HIDE DEF id, r
    <3>3. Names(v, id, r) /\ ~v.thread[id].joined
      BY <1>1, <1>4, <3>1, <3>2 DEF Alike
    <3>. QED BY <3>3 DEF id, r
  <2>. QED BY <2>2 DEF LocalsNamed
<1>. QED BY <1>2, <1>3, <1>6, <1>7, <1>8 DEF Ledger

-----------------------------------------------------------------------------
(*****************************************************************************)
(* It is kept by every switch of threads.                                    *)
(*****************************************************************************)

(* uthread_run ends when nobody has the processor *)
Scheduled(k, u) == [k EXCEPT !.at = IF u.current = Nil THEN "collect" ELSE "run"]

(* A switch of threads keeps the invariant of the worker. *)
LEMMA SwitchKeeps ==
  ASSUME NEW k \in KernelThread, NEW u \in AnyScheduler, NEW v \in AnyScheduler,
         k.at \in {"start", "run"}, k.batch = <<>>, k.locals # <<>>, Phase(k),
         Kept(u), Balanced(k, u), Switched(u, v),
         ~u.hurt => Ledger(k, u) /\ Fair(v)
  PROVE  LocalInv(Scheduled(k, v), v)
<1> DEFINE x == Scheduled(k, v)
<1>1. /\ x \in KernelThread /\ x.at = IF v.current = Nil THEN "collect" ELSE "run"
      /\ x.queue = k.queue /\ x.batch = k.batch /\ x.locals = k.locals /\ x.i = k.i /\ x.stop = k.stop
  BY DEF Scheduled, KernelThread
<1> HIDE DEF x
<1>2. Phase(x)
  <2>1. Len(k.locals) \in Nat /\ Len(k.locals) >= 1
    BY EmptySeq, LenProperties DEF KernelThread
  <2>. QED BY <1>1, <2>1 DEF Phase
<1>3. Kept(v) /\ Owners(v) = Owners(u) /\ (Ledger(k, u) => Ledger(k, v)) /\ Same(u, v) /\ Stands(v)
  BY SameKeeps DEF Switched
<1>4. Balanced(x, v)
  BY <1>1, <1>3 DEF Balanced, Left, Same
<1>5. ASSUME ~v.hurt PROVE Placed(v) /\ Ordered(v) /\ Ledger(x, v) /\ (x.at = "collect" => AllEnded(v))
  <2>1. ~u.hurt
    BY <1>3, <1>5 DEF Same
  <2>2. Ledger(x, v)
    BY <1>1, <1>3, <2>1 DEF Ledger, LocalsNamed
  <2>. QED BY <1>1, <2>1, <2>2 DEF Fair
<1>6. x.at = "run" <=> v.current # Nil
  BY <1>1
<1>. QED BY <1>1, <1>2, <1>3, <1>4, <1>5, <1>6 DEF LocalInv, x

(* What uthread_sleep does, even if its caller is due at once *)
LEMMA SleepIs ==
  ASSUME NEW u \in AnyScheduler, u.current \in Ids, ~u.waiting, Stands(u),
         NEW due \in SUBSET (InState(u, "SLEEPING") \cup {u.current})
  PROVE  LET y == Sleep(u, due)
         IN Switched(u, y) /\ (Placed(u) /\ Ordered(u) => Fair(y))
<1> DEFINE c == u.current
           t == [u.thread[c] EXCEPT !.state = "SLEEPING"]
           x == [u EXCEPT !.thread[c] = t]
<1>0. u.current # Nil /\ u.thread[c].state # "FINISHED" /\ u.thread[c] \in Thread
  BY Below DEF Stands, AnyScheduler
<1>1. t \in Thread /\ t.state = "SLEEPING" /\ Alike(u.thread[c], t) /\ t.passed = u.thread[c].passed
  BY <1>0 DEF Thread, States, Alike
<1>2. Sleep(u, due) = Yield(x, due)
  <2>1. x = [u EXCEPT !.thread[u.current].state = "SLEEPING"]
    OBVIOUS
  <2>. QED BY <2>1 DEF Sleep
<1> HIDE DEF t
<1>3. /\ x \in AnyScheduler /\ x.free = u.free /\ x.count = u.count
      /\ x.current = u.current /\ x.waiting = u.waiting /\ x.hurt = u.hurt /\ x.unfair = u.unfair
      /\ \A j \in Ids : x.thread[j] = IF j = c THEN t ELSE u.thread[j]
  BY <1>1, ThreadChanged
<1> HIDE DEF x
<1>4. Same(u, x)
  BY <1>1, <1>3 DEF Same, Alike
<1>5. due \in SUBSET Asleep(x)
  <2>1. ASSUME NEW i \in due PROVE i \in Ids /\ x.thread[i].state = "SLEEPING"
    BY <1>1, <1>3, Below DEF InState
  <2>. QED BY <2>1 DEF Asleep
<1>6. ASSUME Placed(u), Ordered(u) PROVE Settled(x) /\ Ordered(x)
  <2>1. Settled(x)
    BY <1>1, <1>3, <1>6 DEF Placed, Settled
  <2>2. Ordered(x)
    <3>1. c < u.count => t.passed = {}
      BY <1>1, <1>6 DEF Ordered
    <3>. QED BY <1>1, <1>3, <1>6, <3>1 DEF Ordered
  <2>. QED BY <2>1, <2>2
<1>7. Switched(x, Yield(x, due)) /\ (Settled(x) /\ Ordered(x) => Fair(Yield(x, due)))
  BY <1>3, <1>5, YieldIs
<1>8. Switched(u, Yield(x, due))
  BY <1>4, <1>7, SameTrans DEF Switched
<1>. QED BY <1>2, <1>6, <1>7, <1>8

(* The scheduler when the routine of its current thread has returned *)
Return(u) == [u EXCEPT !.thread[u.current].state = "FINISHED",
                       !.thread[u.current].retval = u.thread[u.current].routine]

(* A thread that returns leaves its id to whoever joins it. *)
LEMMA ReturnIs ==
  ASSUME NEW k \in KernelThread, NEW u \in AnyScheduler, u.current \in Ids, ~u.waiting, Stands(u)
  PROVE  LET v == Return(u)
             c == u.current
         IN /\ v \in AnyScheduler /\ v.free = u.free /\ v.count = u.count
            /\ v.current = u.current /\ v.waiting = u.waiting /\ v.hurt = u.hurt
            /\ \A i \in Ids : v.thread[i].routine = u.thread[i].routine
            /\ v.thread[c].state = "FINISHED" /\ \A i \in Ids : i # c => v.thread[i].state = u.thread[i].state
            /\ Kept(u) => Kept(v)
            /\ Owners(v) = Owners(u)
            /\ Ledger(k, u) => Ledger(k, v)
            /\ Placed(u) /\ Ordered(u) => Settled(v) /\ Ordered(v)
<1> DEFINE c == u.current
           t == [u.thread[c] EXCEPT !.state = "FINISHED", !.retval = u.thread[c].routine]
           v == Return(u)
<1>0. u.current # Nil /\ u.thread[c].state # "FINISHED" /\ u.thread[c] \in Thread
  BY Below DEF Stands, AnyScheduler
<1>1. /\ t \in Thread /\ t.state = "FINISHED" /\ t.retval = t.routine /\ t.routine = u.thread[c].routine
      /\ t.joined = u.thread[c].joined /\ t.child = u.thread[c].child /\ t.joins = u.thread[c].joins
      /\ t.spawned = u.thread[c].spawned /\ t.passed = u.thread[c].passed
  BY <1>0 DEF Thread, States
<1>2. v = [u EXCEPT !.thread[c] = t]
  BY DEF Return
<1> HIDE DEF t, v
<1>3. /\ v \in AnyScheduler /\ v.free = u.free /\ v.count = u.count
      /\ v.current = u.current /\ v.waiting = u.waiting /\ v.hurt = u.hurt /\ v.unfair = u.unfair
      /\ \A j \in Ids : v.thread[j] = IF j = c THEN t ELSE u.thread[j]
  BY <1>1, <1>2, ThreadChanged
<1>4. \A i \in Ids : /\ v.thread[i].routine = u.thread[i].routine /\ v.thread[i].joined = u.thread[i].joined
                     /\ v.thread[i].child = u.thread[i].child /\ v.thread[i].joins = u.thread[i].joins
                     /\ v.thread[i].spawned = u.thread[i].spawned /\ v.thread[i].passed = u.thread[i].passed
                     /\ v.thread[i].state = IF i = c THEN "FINISHED" ELSE u.thread[i].state
                     /\ i # c => v.thread[i].retval = u.thread[i].retval
  BY <1>1, <1>3
<1>5. Kept(u) => Kept(v)
  BY <1>1, <1>3 DEF Kept
<1>6. Owners(v) = Owners(u)
  BY <1>4 DEF Owners
<1>7. ASSUME Placed(u), Ordered(u) PROVE Settled(v) /\ Ordered(v)
  <2>1. Settled(v)
    BY <1>3, <1>4, <1>7 DEF Placed, Settled
  <2>2. Ordered(v)
    BY <1>3, <1>4, <1>7 DEF Ordered
  <2>. QED BY <2>1, <2>2
<1>8. ASSUME Ledger(k, u) PROVE Ledger(k, v)
  <2>1. \A id \in Ids : \A r : Names(u, id, r) => Names(v, id, r)
    BY <1>3, <1>4 DEF Names
  <2>2. \A j \in DOMAIN u.free : u.free[j] \in Ids
    BY ElementOfSeq, LenProperties DEF AnyScheduler
  <2>3. Reusable(v)
    BY <1>3, <1>4, <1>8, <2>2 DEF Ledger, Reusable
  <2>4. LocalsNamed(k, v)
    <3>1. ASSUME NEW j \in k.i .. Len(k.locals)
          PROVE  Names(v, k.locals[j].id, k.locals[j].task) /\ ~v.thread[k.locals[j].id].joined
      <4>1. Names(u, k.locals[j].id, k.locals[j].task) /\ ~u.thread[k.locals[j].id].joined
        BY <1>8 DEF Ledger, LocalsNamed
      <4>2. k.locals[j].id \in Ids
        BY <4>1, Below DEF Names
      <4>. QED BY <1>4, <2>1, <4>1, <4>2
    <3>. QED BY <3>1 DEF LocalsNamed
  <2>5. ASSUME NEW i \in Ids, v.thread[i].state # "FINISHED"
        PROVE  /\ u.thread[i].state # "FINISHED"
               /\ v.thread[i].child # Nil => Names(v, v.thread[i].child, Child) /\ ~v.thread[v.thread[i].child].joined
               /\ v.thread[i].joins # Nil => Names(v, v.thread[i].joins, Child) /\ v.thread[v.thread[i].joins].joined
    <3>1. /\ u.thread[i].state # "FINISHED" /\ v.thread[i].child = u.thread[i].child /\ v.thread[i].joins = u.thread[i].joins
          /\ u.thread[i].child \in Ids \cup {Nil} /\ u.thread[i].joins \in Ids \cup {Nil}
      BY <1>4, <2>5 DEF AnyScheduler, Thread
    <3>2. v.thread[i].child # Nil => Names(v, v.thread[i].child, Child) /\ ~v.thread[v.thread[i].child].joined
      BY <1>4, <1>8, <2>1, <3>1 DEF Ledger, Parented
    <3>3. v.thread[i].joins # Nil => Names(v, v.thread[i].joins, Child) /\ v.thread[v.thread[i].joins].joined
      BY <1>4, <1>8, <2>1, <3>1 DEF Ledger, Parented
    <3>. QED BY <3>1, <3>2, <3>3
  <2>6. Parented(v)
    BY <1>4, <1>8, <2>5 DEF Ledger, Parented
  <2>. QED BY <2>3, <2>4, <2>6 DEF Ledger
<1>9. v.thread[c].state = "FINISHED" /\ \A i \in Ids : i # c => v.thread[i].state = u.thread[i].state
  BY <1>4
<1>. QED BY <1>3, <1>4, <1>5, <1>6, <1>7, <1>8, <1>9 DEF v

(* What the tasks see of a step of the scheduler, when nobody has returned *)
Routed(u, v) == /\ u.hurt => v.hurt
                /\ \A i \in Ids : /\ v.thread[i].routine = u.thread[i].routine
                                  /\ v.thread[i].state = "FINISHED" <=> u.thread[i].state = "FINISHED"
                                  /\ v.thread[i].state = "NEW" => u.thread[i].state = "NEW"

(* A switch of threads is such a step. *)
LEMMA SwitchRouted ==
  ASSUME NEW u, NEW v, Switched(u, v)
  PROVE  Routed(u, v)
BY DEF Switched, Same, Alike, Routed

(* A worker in uthread_run has a current thread. *)
LEMMA RunningFacts ==
  ASSUME NEW k, NEW u, LocalInv(k, u), k.at = "run"
  PROVE  /\ u.current \in Ids /\ u.current # Nil /\ k.batch = <<>> /\ k.locals # <<>> /\ k.i = 1
         /\ ~u.waiting => u.thread[u.current].state # "FINISHED"
<1>1. k.batch = <<>> /\ k.i = 1 /\ k.i \in 1 .. Len(k.locals)
  BY DEF LocalInv, Phase
<1>2. k.locals # <<>>
  BY <1>1, EmptySeq
<1>3. u.current # Nil /\ u.current \in Ids
  BY DEF LocalInv, AnyScheduler
<1>. QED BY <1>1, <1>2, <1>3 DEF LocalInv, Stands

(* uthread_yield keeps the invariant. *)
LEMMA YieldKeeps ==
  ASSUME NEW k, NEW u, LocalInv(k, u), k.at = "run", ~u.waiting, NEW due \in SUBSET InState(u, "SLEEPING")
  PROVE  LET v == Yield(u, due) IN LocalInv(Scheduled(k, v), v) /\ Routed(u, v)
<1> DEFINE v == Yield(u, due)
<1>1. k \in KernelThread /\ u \in AnyScheduler /\ Phase(k) /\ Kept(u) /\ Balanced(k, u)
      /\ (~u.hurt => Placed(u) /\ Ordered(u) /\ Ledger(k, u))
  BY DEF LocalInv
<1>2. due \in SUBSET Asleep(u)
  BY <1>1, Below DEF InState, Asleep
<1>3. u.current \in Ids /\ k.batch = <<>> /\ k.locals # <<>>
  BY RunningFacts
<1>4. Switched(u, v) /\ (Settled(u) /\ Ordered(u) => Fair(v))
  BY <1>1, <1>2, <1>3, YieldIs
<1>5. Placed(u) => Settled(u)
  BY DEF Placed, Settled
<1> HIDE DEF v
<1>6. v \in AnyScheduler
  BY <1>4 DEF Switched
<1>7. LocalInv(Scheduled(k, v), v)
  BY <1>1, <1>3, <1>4, <1>5, <1>6, SwitchKeeps
<1>. QED BY <1>4, <1>7, SwitchRouted DEF v

(* uthread_sleep keeps the invariant. *)
LEMMA SleepKeeps ==
  ASSUME NEW k, NEW u, LocalInv(k, u), k.at = "run", ~u.waiting,
         NEW due \in SUBSET (InState(u, "SLEEPING") \cup {u.current})
  PROVE  LET v == Sleep(u, due) IN LocalInv(Scheduled(k, v), v) /\ Routed(u, v)
<1> DEFINE v == Sleep(u, due)
<1>1. k \in KernelThread /\ u \in AnyScheduler /\ Phase(k) /\ Kept(u) /\ Balanced(k, u) /\ Stands(u)
      /\ (~u.hurt => Placed(u) /\ Ordered(u) /\ Ledger(k, u))
  BY DEF LocalInv
<1>3. u.current \in Ids /\ k.batch = <<>> /\ k.locals # <<>>
  BY RunningFacts
<1>4. Switched(u, v) /\ (Placed(u) /\ Ordered(u) => Fair(v))
  BY <1>1, <1>3, SleepIs
<1> HIDE DEF v
<1>6. v \in AnyScheduler
  BY <1>4 DEF Switched
<1>7. LocalInv(Scheduled(k, v), v)
  BY <1>1, <1>3, <1>4, <1>6, SwitchKeeps
<1>. QED BY <1>4, <1>7, SwitchRouted DEF v

(* The end of the wait for a sleeper keeps the invariant. *)
LEMMA WakeUpKeeps ==
  ASSUME NEW k, NEW u, LocalInv(k, u), k.at = "run", NEW i \in InState(u, "SLEEPING")
  PROVE  LET v == WakeUp(u, i) IN LocalInv(Scheduled(k, v), v) /\ Routed(u, v)
<1> DEFINE v == WakeUp(u, i)
<1>1. k \in KernelThread /\ u \in AnyScheduler /\ Phase(k) /\ Kept(u) /\ Balanced(k, u)
      /\ (~u.hurt => Placed(u) /\ Ordered(u) /\ Ledger(k, u))
  BY DEF LocalInv
<1>3. u.current \in Ids /\ k.batch = <<>> /\ k.locals # <<>>
  BY RunningFacts
<1>4. Switched(u, v) /\ (Settled(u) /\ Ordered(u) => Fair(v))
  BY <1>1, <1>3, WakeUpIs
<1>5. Placed(u) => Settled(u)
  BY DEF Placed, Settled
<1> HIDE DEF v
<1>6. v \in AnyScheduler
  BY <1>4 DEF Switched
<1>7. LocalInv(Scheduled(k, v), v)
  BY <1>1, <1>3, <1>4, <1>5, <1>6, SwitchKeeps
<1>. QED BY <1>4, <1>7, SwitchRouted DEF v

(* The start of uthread_run keeps the invariant. *)
LEMMA RunKeeps ==
  ASSUME NEW k, NEW u, LocalInv(k, u), k.at = "start", k.batch = <<>>, k.locals # <<>>
  PROVE  LET v == Run(u) IN LocalInv(Scheduled(k, v), v) /\ Routed(u, v)
<1> DEFINE v == Run(u)
<1>1. k \in KernelThread /\ u \in AnyScheduler /\ Phase(k) /\ Kept(u) /\ Balanced(k, u) /\ Stands(u) /\ u.current = Nil
      /\ (~u.hurt => Placed(u) /\ Ordered(u) /\ Ledger(k, u))
  BY DEF LocalInv
<1>4. Switched(u, v) /\ (Placed(u) /\ Ordered(u) => Fair(v))
  BY <1>1, RunIs
<1> HIDE DEF v
<1>6. v \in AnyScheduler
  BY <1>4 DEF Switched
<1>7. LocalInv(Scheduled(k, v), v)
  BY <1>1, <1>4, <1>6, SwitchKeeps
<1>. QED BY <1>4, <1>7, SwitchRouted DEF v

(* The end of a routine keeps the invariant. *)
LEMMA FinishKeeps ==
  ASSUME NEW k, NEW u, LocalInv(k, u), k.at = "run", ~u.waiting, NEW due \in SUBSET InState(u, "SLEEPING")
  PROVE  LET v == Finish(u, due)
         IN /\ LocalInv(Scheduled(k, v), v)
            /\ v.hurt = u.hurt
            /\ \A i \in Ids : /\ v.thread[i].routine = u.thread[i].routine
                              /\ v.thread[i].state = "FINISHED" <=> u.thread[i].state = "FINISHED" \/ i = u.current
                              /\ v.thread[i].state = "NEW" => u.thread[i].state = "NEW"
<1> DEFINE x == Return(u)
           v == Finish(u, due)
<1>1. k \in KernelThread /\ u \in AnyScheduler /\ Phase(k) /\ Kept(u) /\ Balanced(k, u) /\ Stands(u)
      /\ (~u.hurt => Placed(u) /\ Ordered(u) /\ Ledger(k, u))
  BY DEF LocalInv
<1>2. u.current \in Ids /\ k.batch = <<>> /\ k.locals # <<>> /\ u.thread[u.current].state # "FINISHED"
  BY RunningFacts
<1>3. /\ x \in AnyScheduler /\ x.free = u.free /\ x.count = u.count
      /\ x.current = u.current /\ x.waiting = u.waiting /\ x.hurt = u.hurt
      /\ \A i \in Ids : x.thread[i].routine = u.thread[i].routine
      /\ x.thread[u.current].state = "FINISHED"
      /\ \A i \in Ids : i # u.current => x.thread[i].state = u.thread[i].state
      /\ Kept(u) => Kept(x)
      /\ Owners(x) = Owners(u)
      /\ Ledger(k, u) => Ledger(k, x)
      /\ Placed(u) /\ Ordered(u) => Settled(x) /\ Ordered(x)
  BY <1>1, <1>2, ReturnIs
<1>4. v = Yield(x, due)
  BY DEF Finish, Return
<1> HIDE DEF x, v
<1>5. due \in SUBSET Asleep(x)
  <2>1. ASSUME NEW i \in due PROVE i \in Ids /\ x.thread[i].state = "SLEEPING"
    <3>1. i \in Ids /\ u.thread[i].state = "SLEEPING" /\ i < u.count
      BY <1>1, Below DEF InState
    <3>2. i # u.current
      BY <1>1, <1>2, <3>1, Below DEF Stands
    <3>. QED BY <1>3, <3>1, <3>2
  <2>. QED BY <2>1 DEF Asleep
<1>6. Switched(x, v) /\ (Settled(x) /\ Ordered(x) => Fair(v))
  BY <1>2, <1>3, <1>4, <1>5, YieldIs
<1>7. v \in AnyScheduler /\ Balanced(k, x)
  BY <1>1, <1>3, <1>6 DEF Switched, Balanced
<1>8. LocalInv(Scheduled(k, v), v)
  BY <1>1, <1>2, <1>3, <1>6, <1>7, SwitchKeeps
<1>9. ASSUME NEW i \in Ids
      PROVE  /\ v.thread[i].routine = u.thread[i].routine
             /\ v.thread[i].state = "FINISHED" <=> u.thread[i].state = "FINISHED" \/ i = u.current
             /\ v.thread[i].state = "NEW" => u.thread[i].state = "NEW"
  BY <1>3, <1>6 DEF Switched, Same, Alike
<1>10. v.hurt = u.hurt
  BY <1>3, <1>6 DEF Switched, Same
<1>. QED BY <1>8, <1>9, <1>10 DEF v

(* How the number of the owners changes *)
LEMMA OwnersCount ==
  ASSUME NEW u, NEW v, NEW c
  PROVE  /\ Cardinality(Owners(u)) \in Nat
         /\ Owners(v) \subseteq Owners(u) => Cardinality(Owners(v)) <= Cardinality(Owners(u))
         /\ Owners(v) \subseteq Owners(u) \cup {c} => Cardinality(Owners(v)) <= Cardinality(Owners(u)) + 1
         /\ Owners(v) \subseteq Owners(u) \ {c} /\ c \in Owners(u) => Cardinality(Owners(v)) <= Cardinality(Owners(u)) - 1
<1>1. IsFiniteSet(Ids)
  BY MaxThreadsAssumption, FS_Interval DEF Ids
<1>2. IsFiniteSet(Owners(u)) /\ IsFiniteSet(Owners(v))
  BY <1>1, FS_Subset DEF Owners
<1> DEFINE O == Owners(u)
           P == Owners(v)
<1> HIDE DEF O, P
<1>3. IsFiniteSet(O) /\ IsFiniteSet(P) /\ Cardinality(O) \in Nat /\ Cardinality(P) \in Nat
  BY <1>2, FS_CardinalityType DEF O, P
<1>4. P \subseteq O => Cardinality(P) <= Cardinality(O)
  BY <1>3, FS_Subset
<1>5. IsFiniteSet(O \cup {c}) /\ Cardinality(O \cup {c}) <= Cardinality(O) + 1 /\ Cardinality(O \cup {c}) \in Nat
  BY <1>3, FS_AddElement, FS_CardinalityType
<1>6. IsFiniteSet(O \ {c}) /\ (c \in O => Cardinality(O \ {c}) = Cardinality(O) - 1) /\ Cardinality(O \ {c}) \in Nat
  BY <1>3, FS_RemoveElement, FS_CardinalityType
<1>7. P \subseteq O \cup {c} => Cardinality(P) <= Cardinality(O \cup {c})
  BY <1>5, FS_Subset
<1>8. P \subseteq O \ {c} => Cardinality(P) <= Cardinality(O \ {c})
  BY <1>6, FS_Subset
<1>. QED BY <1>3, <1>4, <1>5, <1>6, <1>7, <1>8 DEF O, P

-----------------------------------------------------------------------------
(*****************************************************************************)
(* It is kept when a thread is created, or not.                              *)
(*****************************************************************************)

(* The id that an unhurt scheduler hands out names nobody else. *)
LEMMA CreateUnhurt ==
  ASSUME NEW k \in KernelThread, NEW u \in AnyScheduler, HasRoom(u), NEW r \in Routines, ~u.waiting,
         Placed(u), Ordered(u), Ledger(k, u)
  PROVE  LET v == Create(u, r)
             n == NextId(u)
         IN /\ n # u.current
            /\ Placed(v) /\ Ordered(v) /\ Ledger(k, v)
            /\ Names(v, n, r)
            /\ \A id \in Ids : \A q : Names(u, id, q) => id # n
<1> DEFINE v == Create(u, r)
           n == NextId(u)
<1>1. /\ v \in AnyScheduler
      /\ v.current = u.current /\ v.waiting = u.waiting /\ v.hurt = u.hurt /\ v.unfair = u.unfair
      /\ v.count = IF u.free = <<>> THEN u.count + 1 ELSE u.count
      /\ v.free = IF u.free # <<>> THEN Front(u.free) ELSE u.free
      /\ \A i \in Ids : v.thread[i] = IF i = n THEN Created(r) ELSE u.thread[i]
  BY CreateIs
<1>2. /\ n \in Ids
      /\ u.free # <<>> => n = Last(u.free)
      /\ u.free = <<>> => n = u.count
  BY NextIdIs DEF NextId
<1>3. /\ u.count \in Nat /\ u.count <= MaxThreads /\ MaxThreads \in Nat
      /\ 0 .. u.count - 1 \subseteq Ids
      /\ \A i \in Ids : i \in Nat /\ i < MaxThreads /\ (i \in 0 .. u.count - 1 <=> i < u.count)
      /\ Nil \notin Ids
  BY Below
<1>4. u.current \in Ids \cup {Nil} /\ u.free \in Seq(Ids) /\ \A i \in Ids : u.thread[i] \in Thread
  BY DEF AnyScheduler
<1> HIDE DEF v, n
<1>5. /\ v.count \in Nat /\ u.count <= v.count /\ n < v.count
      /\ \A i \in Ids : i < v.count => i < u.count \/ i = n
      /\ \A j \in DOMAIN v.free : j \in DOMAIN u.free /\ v.free[j] = u.free[j] /\ v.free[j] # n
      /\ n < u.count => u.thread[n].state = "FINISHED" /\ \E j \in DOMAIN u.free : u.free[j] = n
  <2>1. CASE u.free = <<>>
    BY <1>1, <1>2, <1>3, <2>1
  <2>2. CASE u.free # <<>>
    <3>1. /\ Len(u.free) \in Nat /\ Len(u.free) >= 1 /\ Len(u.free) \in DOMAIN u.free
          /\ \A j \in DOMAIN Front(u.free) : j \in DOMAIN u.free /\ j < Len(u.free) /\ Front(u.free)[j] = u.free[j]
          /\ n = u.free[Len(u.free)]
      BY <1>2, <1>4, <2>2, FrontLast
    <3>2. \A j, l \in DOMAIN u.free : u.free[j] = u.free[l] => j = l
      BY DEF Ledger, Reusable
    <3>3. n < u.count /\ u.thread[n].state = "FINISHED"
      BY <3>1 DEF Ledger, Reusable
    <3>4. \A j \in DOMAIN v.free : j \in DOMAIN u.free /\ v.free[j] = u.free[j] /\ v.free[j] # n
      <4> SUFFICES ASSUME NEW j \in DOMAIN Front(u.free)
                   PROVE  j \in DOMAIN u.free /\ Front(u.free)[j] = u.free[j] /\ u.free[j] # n
        BY <1>1, <2>2
      <4>1. j \in DOMAIN u.free /\ Front(u.free)[j] = u.free[j] /\ j # Len(u.free)
        BY <3>1
      <4>2. u.free[j] # u.free[Len(u.free)]
        BY <3>1, <3>2, <4>1
      <4>. QED BY <3>1, <4>1, <4>2
    <3>5. v.count = u.count
      BY <1>1, <2>2
    <3>. QED BY <1>3, <3>1, <3>3, <3>4, <3>5
  <2>. QED BY <2>1, <2>2
<1>6. /\ Created(r).state = "READY" /\ Created(r).routine = r /\ Created(r).joined = FALSE
      /\ Created(r).child = Nil /\ Created(r).joins = Nil /\ Created(r).passed = {}
  BY DEF Created, Blank
<1>7. n # u.current
  <2> SUFFICES ASSUME n = u.current PROVE FALSE
    OBVIOUS
  <2>1. u.current # Nil /\ n < u.count /\ u.thread[n].state = "FINISHED"
    BY <1>2, <1>3, <1>5 DEF Placed
  <2>. QED BY <2>1 DEF Placed
<1>8. Placed(v)
  <2>1. \A i \in Ids : i < v.count => v.thread[i].state # "NEW" /\ (i # v.current => v.thread[i].state # "RUNNING")
    BY <1>1, <1>5, <1>6 DEF Placed
  <2>2. v.current # Nil => v.current < v.count /\ v.thread[v.current].state \in {"RUNNING", "READY"}
    <3> SUFFICES ASSUME u.current # Nil PROVE u.current < v.count /\ v.thread[u.current].state \in {"RUNNING", "READY"}
      BY <1>1
    <3>1. u.current \in Ids /\ u.current < u.count /\ u.thread[u.current].state \in {"RUNNING", "READY"}
      BY <1>4 DEF Placed
    <3>. QED BY <1>1, <1>3, <1>5, <1>7, <3>1
  <2>3. v.current = Nil => \A i \in Ids : i < v.count => v.thread[i].state # "SLEEPING"
    BY <1>1, <1>5, <1>6 DEF Placed
  <2>. QED BY <2>1, <2>2, <2>3 DEF Placed
<1>9. Ordered(v)
  <2>1. ASSUME NEW j \in Ids, j < v.count
        PROVE  /\ v.thread[j].state # "READY" \/ j = v.current => v.thread[j].passed = {}
               /\ \A i \in v.thread[j].passed : v.current # Nil /\ i < v.count /\ Behind(j, i) <= Behind(j, v.current)
    <3>1. CASE j = n
      BY <1>1, <1>6, <3>1
    <3>2. CASE j # n
      <4>1. j < u.count /\ v.thread[j] = u.thread[j] /\ u.thread[j].passed \subseteq Ids
        BY <1>1, <1>4, <1>5, <2>1, <3>2 DEF Thread
      <4>2. /\ u.thread[j].state # "READY" \/ j = u.current => u.thread[j].passed = {}
            /\ \A i \in u.thread[j].passed : u.current # Nil /\ i < u.count /\ Behind(j, i) <= Behind(j, u.current)
        BY <4>1 DEF Ordered
      <4>3. \A i \in u.thread[j].passed : i < v.count
        BY <1>3, <1>5, <4>1, <4>2
      <4>. QED BY <1>1, <4>1, <4>2, <4>3
    <3>. QED BY <3>1, <3>2
  <2>. QED BY <1>1, <2>1 DEF Ordered
<1>10. ASSUME NEW id \in Ids, NEW q, Names(u, id, q)
       PROVE  id # n /\ Names(v, id, q) /\ v.thread[id].joined = u.thread[id].joined
  <2>1. id < u.count /\ (\A j \in DOMAIN u.free : u.free[j] # id) /\ u.thread[id].routine = q
    BY <1>3, <1>10 DEF Names
  <2>2. id # n
    BY <1>5, <2>1
  <2>3. id \in 0 .. v.count - 1
    BY <1>3, <1>5, <2>1
  <2>. QED BY <1>1, <1>5, <2>1, <2>2, <2>3 DEF Names
<1>11. Reusable(v)
  <2>1. \A j \in DOMAIN u.free : u.free[j] \in Ids /\ u.free[j] < u.count /\ u.thread[u.free[j]].state = "FINISHED"
    BY <1>4, ElementOfSeq, LenProperties DEF Ledger, Reusable
  <2>2. \A j, l \in DOMAIN v.free : v.free[j] = v.free[l] => j = l
    BY <1>5 DEF Ledger, Reusable
  <2>3. ASSUME NEW j \in DOMAIN v.free PROVE v.free[j] < v.count /\ v.thread[v.free[j]].state = "FINISHED"
    <3>1. v.free[j] \in Ids /\ v.free[j] < u.count /\ u.thread[v.free[j]].state = "FINISHED" /\ v.free[j] # n
      BY <1>5, <2>1
    <3>. QED BY <1>1, <1>3, <1>5, <3>1
  <2>. QED BY <2>2, <2>3 DEF Reusable
<1>12. Parented(v)
  <2>1. ASSUME NEW i \in Ids, v.thread[i].state # "FINISHED"
        PROVE  /\ v.thread[i].child # Nil => Names(v, v.thread[i].child, Child) /\ ~v.thread[v.thread[i].child].joined
               /\ v.thread[i].joins # Nil => Names(v, v.thread[i].joins, Child) /\ v.thread[v.thread[i].joins].joined
    <3>1. CASE i = n
      BY <1>1, <1>6, <3>1
    <3>2. CASE i # n
      <4>1. v.thread[i] = u.thread[i] /\ u.thread[i].child \in Ids \cup {Nil} /\ u.thread[i].joins \in Ids \cup {Nil}
        BY <1>1, <1>4, <3>2 DEF Thread
      <4>2. v.thread[i].child # Nil => Names(v, v.thread[i].child, Child) /\ ~v.thread[v.thread[i].child].joined
        BY <1>10, <2>1, <4>1 DEF Ledger, Parented
      <4>3. v.thread[i].joins # Nil => Names(v, v.thread[i].joins, Child) /\ v.thread[v.thread[i].joins].joined
        BY <1>10, <2>1, <4>1 DEF Ledger, Parented
      <4>. QED BY <4>2, <4>3
    <3>. QED BY <3>1, <3>2
  <2>2. ASSUME NEW i \in Ids, NEW j \in Ids, v.thread[i].state # "FINISHED", v.thread[j].state # "FINISHED", i # j
        PROVE  /\ v.thread[i].child # Nil => v.thread[i].child # v.thread[j].child
               /\ v.thread[i].joins # Nil => v.thread[i].joins # v.thread[j].joins
    <3>1. CASE i = n \/ j = n
      BY <1>1, <1>6, <3>1
    <3>2. CASE i # n /\ j # n
      <4>1. v.thread[i] = u.thread[i] /\ v.thread[j] = u.thread[j]
        BY <1>1, <3>2
      <4>. QED BY <2>2, <4>1 DEF Ledger, Parented
    <3>. QED BY <3>1, <3>2
  <2>. QED BY <2>1, <2>2 DEF Parented
<1>13. LocalsNamed(k, v)
  <2>1. ASSUME NEW j \in k.i .. Len(k.locals)
        PROVE  Names(v, k.locals[j].id, k.locals[j].task) /\ ~v.thread[k.locals[j].id].joined
    <3>1. Names(u, k.locals[j].id, k.locals[j].task) /\ ~u.thread[k.locals[j].id].joined
      BY DEF Ledger, LocalsNamed
    <3>2. k.locals[j].id \in Ids
      BY <1>3, <3>1 DEF Names
    <3>. QED BY <1>10, <3>1, <3>2
  <2>. QED BY <2>1 DEF LocalsNamed
<1>14. Names(v, n, r)
  <2>1. n \in 0 .. v.count - 1
    BY <1>2, <1>3, <1>5
  <2>. QED BY <1>1, <1>2, <1>5, <1>6, <2>1 DEF Names
<1>. QED BY <1>7, <1>8, <1>9, <1>10, <1>11, <1>12, <1>13, <1>14 DEF Ledger, v, n

(* What uthread_create needs of a scheduler, and keeps *)
Stable(k, u) ==
  /\ u \in AnyScheduler /\ Stands(u) /\ Kept(u) /\ Balanced(k, u)
  /\ ~u.hurt => Placed(u) /\ Ordered(u) /\ Ledger(k, u)

(* free_ids has room for every id that comes back. *)
LEMMA Counts ==
  ASSUME NEW k \in KernelThread, NEW u \in AnyScheduler, k.i <= Len(k.locals) + 1, Balanced(k, u)
  PROVE  /\ Len(u.free) \in Nat /\ Left(k) \in Nat /\ Cardinality(Owners(u)) \in Nat
         /\ Len(u.free) <= u.count /\ u.count \in 0 .. MaxThreads
<1>1. Len(u.free) \in Nat /\ u.count \in 0 .. MaxThreads /\ u.count \in Int
  BY LenProperties, MaxThreadsAssumption DEF AnyScheduler
<1>2. k.i \in Nat /\ Len(k.locals) \in Nat
  BY LenProperties DEF KernelThread
<1>3. Cardinality(Owners(u)) \in Nat
  BY OwnersCount
<1>4. Left(k) \in Nat
  BY <1>2 DEF Left
<1>5. Len(u.free) + Left(k) + Cardinality(Owners(u)) <= u.count
  BY DEF Balanced
<1>. QED BY <1>1, <1>3, <1>4, <1>5

(* uthread_create keeps the invariant, with one more owner of an id to come. *)
LEMMA CreateKeeps ==
  ASSUME NEW k \in KernelThread, k.i <= Len(k.locals) + 1, NEW u, Stable(k, u), ~u.waiting, HasRoom(u), NEW r \in Routines
  PROVE  LET v == Create(u, r)
             n == NextId(u)
         IN /\ v \in AnyScheduler /\ Stands(v) /\ Kept(v) /\ ~v.waiting
            /\ Len(v.free) \in Nat /\ Len(v.free) + 1 + Left(k) + Cardinality(Owners(v)) <= v.count
            /\ v.current = u.current /\ v.hurt = u.hurt
            /\ n \in Ids
            /\ \A i \in Ids : v.thread[i] = IF i = n THEN Created(r) ELSE u.thread[i]
            /\ ~v.hurt => /\ Placed(v) /\ Ordered(v) /\ Ledger(k, v)
                          /\ n # u.current /\ Names(v, n, r)
                          /\ \A id \in Ids : \A q : Names(u, id, q) => id # n
<1> DEFINE v == Create(u, r)
           n == NextId(u)
<1>0. u \in AnyScheduler
  BY DEF Stable
<1>1. /\ v \in AnyScheduler
      /\ v.current = u.current /\ v.waiting = u.waiting /\ v.hurt = u.hurt /\ v.unfair = u.unfair
      /\ v.count = IF u.free = <<>> THEN u.count + 1 ELSE u.count
      /\ v.free = IF u.free # <<>> THEN Front(u.free) ELSE u.free
      /\ \A i \in Ids : v.thread[i] = IF i = n THEN Created(r) ELSE u.thread[i]
  BY <1>0, CreateIs
<1>2. n \in Ids /\ (u.free = <<>> => n = u.count)
  BY <1>0, NextIdIs DEF NextId
<1>3. /\ Len(u.free) \in Nat /\ Left(k) \in Nat /\ Cardinality(Owners(u)) \in Nat
      /\ Len(u.free) + Left(k) + Cardinality(Owners(u)) <= u.count /\ u.count \in Nat
  BY <1>0, Counts, MaxThreadsAssumption DEF Stable, Balanced
<1>4. ASSUME ~u.hurt
      PROVE  /\ Placed(v) /\ Ordered(v) /\ Ledger(k, v)
             /\ n # u.current /\ Names(v, n, r)
             /\ \A id \in Ids : \A q : Names(u, id, q) => id # n
  BY <1>0, <1>4, CreateUnhurt DEF Stable
<1> HIDE DEF v, n
<1>5. /\ Created(r).state = "READY" /\ Created(r).child = Nil /\ Created(r).joins = Nil
  BY DEF Created, Blank
<1>6. Stands(v)
  <2>1. CASE u.current = Nil
    BY <1>1, <2>1 DEF Stands
  <2>2. CASE u.current = n /\ u.current # Nil
    BY <1>1, <1>2, <1>5, <2>2 DEF Stands
  <2>3. CASE u.current # n /\ u.current # Nil
    <3>1. u.current \in Ids /\ v.thread[u.current] = u.thread[u.current] /\ u.current \in Nat
      BY <1>0, <1>1, <2>3, Below DEF AnyScheduler
    <3>2. u.current < v.count => u.current < u.count
      BY <1>1, <1>2, <1>3, <2>3, <3>1
    <3>. QED BY <1>1, <2>3, <3>1, <3>2 DEF Stands, Stable
  <2>. QED BY <2>1, <2>2, <2>3
<1>7. Kept(v)
  BY <1>1, <1>5 DEF Stable, Kept
<1>8. Len(v.free) \in Nat /\ Len(v.free) + 1 + Left(k) + Cardinality(Owners(v)) <= v.count
  <2>1. Owners(v) \subseteq Owners(u)
    BY <1>1, <1>5 DEF Owners
  <2>2. Cardinality(Owners(v)) <= Cardinality(Owners(u)) /\ Cardinality(Owners(v)) \in Nat
    BY <2>1, OwnersCount
  <2>3. CASE u.free = <<>>
    <3>1. Len(v.free) = 0 /\ Len(u.free) = 0 /\ v.count = u.count + 1
      BY <1>1, <2>3
    <3>. QED BY <1>3, <2>2, <3>1
  <2>4. CASE u.free # <<>>
    <3>1. u.free \in Seq(Ids)
      BY <1>0 DEF AnyScheduler
    <3>2. Len(v.free) = Len(u.free) - 1 /\ Len(u.free) >= 1 /\ v.count = u.count
      BY <1>1, <2>4, <3>1, FrontLast
    <3>. QED BY <1>3, <2>2, <3>2
  <2>. QED BY <2>3, <2>4
<1>. QED BY <1>1, <1>2, <1>4, <1>6, <1>7, <1>8 DEF v, n

(* A uthread_create that fails keeps it, because the scheduler is hurt if an id was lost. *)
LEMMA CreateFailsKeeps ==
  ASSUME NEW k \in KernelThread, k.i <= Len(k.locals) + 1, NEW u, Stable(k, u), HasRoom(u)
  PROVE  LET v == CreateFails(u)
             n == NextId(u)
         IN /\ Stable(k, v)
            /\ v.current = u.current /\ v.waiting = u.waiting /\ (u.hurt => v.hurt)
            /\ n \in Ids
            /\ \A i \in Ids : v.thread[i] = IF i = n THEN Blank ELSE u.thread[i]
<1> DEFINE v == CreateFails(u)
           n == NextId(u)
<1>0. u \in AnyScheduler /\ Len(u.free) <= u.count
  BY Counts DEF Stable
<1>1. /\ v \in AnyScheduler
      /\ v.current = u.current /\ v.waiting = u.waiting /\ v.unfair = u.unfair
      /\ v.hurt = (u.hurt \/ u.free # <<>>)
      /\ v.count = IF u.free # <<>> THEN u.count - 1 ELSE u.count
      /\ v.free = IF u.free # <<>> THEN Front(u.free) ELSE u.free
      /\ \A i \in Ids : v.thread[i] = IF i = n THEN Blank ELSE u.thread[i]
  BY <1>0, CreateFailsIs
<1>2. n \in Ids /\ (u.free = <<>> => n = u.count)
  BY <1>0, NextIdIs DEF NextId
<1>3. /\ Len(u.free) \in Nat /\ Left(k) \in Nat /\ Cardinality(Owners(u)) \in Nat
      /\ Len(u.free) + Left(k) + Cardinality(Owners(u)) <= u.count /\ u.count \in Nat
      /\ \A i \in Ids : i \in Nat
      /\ Nil \notin Ids /\ u.current \in Ids \cup {Nil} /\ u.free \in Seq(Ids)
  BY <1>0, Counts, Below, MaxThreadsAssumption DEF Stable, Balanced, AnyScheduler
<1> HIDE DEF v, n
<1>5. Blank.state = "NEW" /\ Blank.child = Nil /\ Blank.joins = Nil
  BY DEF Blank
<1>6. Stands(v)
  <2>1. CASE u.current = Nil
    BY <1>1, <2>1 DEF Stands, Stable
  <2>2. CASE u.current = n /\ u.current # Nil
    BY <1>1, <1>2, <1>5, <2>2 DEF Stands
  <2>3. CASE u.current # n /\ u.current # Nil
    <3>1. u.current \in Ids /\ v.thread[u.current] = u.thread[u.current] /\ u.current \in Nat
      BY <1>1, <1>3, <2>3
    <3>2. u.current < v.count => u.current < u.count
      BY <1>1, <1>3, <3>1
    <3>. QED BY <1>1, <2>3, <3>1, <3>2 DEF Stands, Stable
  <2>. QED BY <2>1, <2>2, <2>3
<1>7. Kept(v)
  BY <1>1, <1>5 DEF Stable, Kept
<1>8. Balanced(k, v)
  <2>1. Owners(v) \subseteq Owners(u)
    BY <1>1, <1>5 DEF Owners
  <2>2. Cardinality(Owners(v)) <= Cardinality(Owners(u)) /\ Cardinality(Owners(v)) \in Nat
    BY <2>1, OwnersCount
  <2>3. CASE u.free = <<>>
    BY <1>1, <1>3, <2>2, <2>3 DEF Balanced
  <2>4. CASE u.free # <<>>
    <3>2. Len(v.free) = Len(u.free) - 1 /\ Len(u.free) >= 1 /\ v.count = u.count - 1
      BY <1>1, <1>3, <2>4, FrontLast
    <3>. QED BY <1>3, <2>2, <3>2 DEF Balanced
  <2>. QED BY <2>3, <2>4
<1>9. ASSUME ~v.hurt PROVE Placed(v) /\ Ordered(v) /\ Ledger(k, v)
  <2>1. /\ Placed(u) /\ Ordered(u) /\ Ledger(k, u)
        /\ v.count = u.count /\ v.free = u.free /\ n = u.count
        /\ \A i \in Ids : i < u.count => v.thread[i] = u.thread[i]
    <3>1. ~u.hurt /\ u.free = <<>>
      BY <1>1, <1>9
    <3>2. \A i \in Ids : i < u.count => i # n
      BY <1>2, <1>3, <3>1
    <3>. QED BY <1>1, <1>2, <3>1, <3>2 DEF Stable
  <2>2. Placed(v)
    BY <1>1, <1>3, <2>1 DEF Placed
  <2>3. Ordered(v)
    BY <1>1, <2>1 DEF Ordered
  <2>4. ASSUME NEW id \in Ids, NEW q, Names(u, id, q)
        PROVE  Names(v, id, q) /\ v.thread[id].joined = u.thread[id].joined
    BY <1>3, <2>1, <2>4 DEF Names
  <2>5. \A j \in DOMAIN u.free : u.free[j] \in Ids
    BY <1>3, ElementOfSeq, LenProperties
  <2>6. Reusable(v)
    BY <2>1, <2>5 DEF Ledger, Reusable
  <2>7. LocalsNamed(k, v)
    <3>1. ASSUME NEW j \in k.i .. Len(k.locals)
          PROVE  Names(v, k.locals[j].id, k.locals[j].task) /\ ~v.thread[k.locals[j].id].joined
      <4>1. Names(u, k.locals[j].id, k.locals[j].task) /\ ~u.thread[k.locals[j].id].joined
        BY <2>1 DEF Ledger, LocalsNamed
      <4>2. k.locals[j].id \in Ids
        BY <1>0, <4>1, Below DEF Names
      <4>. QED BY <2>4, <4>1, <4>2
    <3>. QED BY <3>1 DEF LocalsNamed
  <2>8. ASSUME NEW i \in Ids, v.thread[i].state # "FINISHED"
        PROVE  /\ v.thread[i].child # Nil => Names(v, v.thread[i].child, Child) /\ ~v.thread[v.thread[i].child].joined
               /\ v.thread[i].joins # Nil => Names(v, v.thread[i].joins, Child) /\ v.thread[v.thread[i].joins].joined
    <3>1. CASE i = n
      BY <1>1, <1>5, <3>1
    <3>2. CASE i # n
      <4>1. v.thread[i] = u.thread[i] /\ u.thread[i].child \in Ids \cup {Nil} /\ u.thread[i].joins \in Ids \cup {Nil}
        BY <1>0, <1>1, <3>2 DEF AnyScheduler, Thread
      <4>2. v.thread[i].child # Nil => Names(v, v.thread[i].child, Child) /\ ~v.thread[v.thread[i].child].joined
        BY <2>1, <2>4, <2>8, <4>1 DEF Ledger, Parented
      <4>3. v.thread[i].joins # Nil => Names(v, v.thread[i].joins, Child) /\ v.thread[v.thread[i].joins].joined
        BY <2>1, <2>4, <2>8, <4>1 DEF Ledger, Parented
      <4>. QED BY <4>2, <4>3
    <3>. QED BY <3>1, <3>2
  <2>9. ASSUME NEW i \in Ids, NEW j \in Ids, v.thread[i].state # "FINISHED", v.thread[j].state # "FINISHED", i # j
        PROVE  /\ v.thread[i].child # Nil => v.thread[i].child # v.thread[j].child
               /\ v.thread[i].joins # Nil => v.thread[i].joins # v.thread[j].joins
    <3>1. CASE i = n \/ j = n
      BY <1>1, <1>5, <3>1
    <3>2. CASE i # n /\ j # n
      <4>1. v.thread[i] = u.thread[i] /\ v.thread[j] = u.thread[j]
        BY <1>1, <3>2
      <4>. QED BY <2>1, <2>9, <4>1 DEF Ledger, Parented
    <3>. QED BY <3>1, <3>2
  <2>10. Parented(v)
    BY <2>8, <2>9 DEF Parented
  <2>. QED BY <2>2, <2>3, <2>6, <2>7, <2>10 DEF Ledger
<1>. QED BY <1>1, <1>2, <1>6, <1>7, <1>8, <1>9 DEF Stable, v, n

-----------------------------------------------------------------------------
(*****************************************************************************)
(* It is kept by the start of a batch.                                       *)
(*****************************************************************************)

(* A step of a thread that does not concern the order of the threads *)
Steady(u, v) ==
  /\ v.count = u.count /\ v.free = u.free /\ v.current = u.current /\ v.waiting = u.waiting
  /\ v.hurt = u.hurt /\ v.unfair = u.unfair
  /\ \A i \in Ids : /\ v.thread[i].state = u.thread[i].state /\ v.thread[i].passed = u.thread[i].passed
                    /\ v.thread[i].routine = u.thread[i].routine /\ v.thread[i].retval = u.thread[i].retval

(* Such a step keeps the order of the threads and the names of the ids. *)
LEMMA SteadyKeeps ==
  ASSUME NEW u \in AnyScheduler, NEW v \in AnyScheduler, Steady(u, v)
  PROVE  /\ Routed(u, v)
         /\ Stands(u) => Stands(v)
         /\ Placed(u) => Placed(v)
         /\ Ordered(u) => Ordered(v)
         /\ Reusable(u) => Reusable(v)
         /\ \A id \in Ids : \A q : Names(v, id, q) <=> Names(u, id, q)
<1>1. u.current \in Ids \cup {Nil}
  BY DEF AnyScheduler
<1>2. \A j \in DOMAIN u.free : u.free[j] \in Ids
  BY ElementOfSeq, LenProperties DEF AnyScheduler
<1>3. Routed(u, v)
  BY DEF Steady, Routed
<1>4. Stands(u) => Stands(v)
  BY <1>1 DEF Steady, Stands
<1>5. Placed(u) => Placed(v)
  BY <1>1 DEF Steady, Placed
<1>6. Ordered(u) => Ordered(v)
  BY DEF Steady, Ordered
<1>7. Reusable(u) => Reusable(v)
  BY <1>2 DEF Steady, Reusable
<1>8. \A id \in Ids : \A q : Names(v, id, q) <=> Names(u, id, q)
  BY DEF Steady, Names
<1>. QED BY <1>3, <1>4, <1>5, <1>6, <1>7, <1>8

(* The invariant of the worker gives what uthread_create needs. *)
LEMMA LocalIsStable ==
  ASSUME NEW k, NEW u, LocalInv(k, u)
  PROVE  /\ Stable(k, u) /\ k \in KernelThread /\ u \in AnyScheduler
         /\ k.i \in Nat /\ Len(k.locals) \in Nat /\ k.i <= Len(k.locals) + 1 /\ k.i >= 1
<1>1. k \in KernelThread /\ k.i \in Nat /\ Len(k.locals) \in Nat
  BY LenProperties DEF LocalInv, KernelThread
<1>2. k.i = 1 \/ k.i \in 1 .. Len(k.locals)
  BY <1>1 DEF LocalInv, Phase
<1>. QED BY <1>1, <1>2 DEF LocalInv, Stable

(* Starting a task of the batch keeps the invariant. *)
LEMMA StartTaskKeeps ==
  ASSUME NEW k, NEW u, LocalInv(k, u), k.at = "start", k.batch # <<>>, HasRoom(u)
  PROVE  LET s == Head(k.batch)
             n == NextId(u)
             v == Create(u, s)
             x == [k EXCEPT !.batch = Tail(@), !.locals = Append(@, [id |-> n, task |-> s])]
         IN /\ LocalInv(x, v)
            /\ v.hurt = u.hurt /\ n \in Ids
            /\ \A i \in Ids : v.thread[i] = IF i = n THEN Created(s) ELSE u.thread[i]
<1> DEFINE s == Head(k.batch)
           n == NextId(u)
           v == Create(u, s)
           q == Tail(k.batch)
           new == [id |-> n, task |-> s]
           l == Append(k.locals, new)
           x == [k EXCEPT !.batch = q, !.locals = l]
<1>1. /\ k \in KernelThread /\ u \in AnyScheduler /\ Stable(k, u) /\ k.i <= Len(k.locals) + 1
      /\ u.current = Nil /\ ~u.waiting /\ k.i = 1
      /\ k.locals \in Seq(Local) /\ Len(k.locals) \in Nat /\ k.batch \in Seq(Slots)
  BY LocalIsStable DEF LocalInv, Stands, Phase, KernelThread
<1>2. s \in Slots /\ q \in Seq(Slots)
  BY <1>1, HeadTailProperties
<1>3. s \in Routines
  BY <1>2 DEF Routines
<1>4. /\ v \in AnyScheduler /\ Stands(v) /\ Kept(v) /\ ~v.waiting
      /\ Len(v.free) \in Nat /\ Len(v.free) + 1 + Left(k) + Cardinality(Owners(v)) <= v.count
      /\ v.current = u.current /\ v.hurt = u.hurt
      /\ n \in Ids
      /\ \A i \in Ids : v.thread[i] = IF i = n THEN Created(s) ELSE u.thread[i]
      /\ ~v.hurt => /\ Placed(v) /\ Ordered(v) /\ Ledger(k, v)
                    /\ n # u.current /\ Names(v, n, s)
                    /\ \A id \in Ids : \A r : Names(u, id, r) => id # n
  BY <1>1, <1>3, CreateKeeps
<1> HIDE DEF s, n, v, q
<1>5. new \in Local
  BY <1>2, <1>4 DEF Local
<1>6. /\ l \in Seq(Local) /\ Len(l) = Len(k.locals) + 1 /\ l[Len(k.locals) + 1] = new
      /\ \A j \in 1 .. Len(k.locals) : l[j] = k.locals[j]
  <2> DEFINE T == Local
  <2>1. k.locals \in Seq(T) /\ new \in T
    BY <1>1, <1>5
  <2> HIDE DEF T, new
  <2>2. /\ l \in Seq(T) /\ Len(l) = Len(k.locals) + 1 /\ l[Len(k.locals) + 1] = new
        /\ \A j \in 1 .. Len(k.locals) : l[j] = k.locals[j]
    BY <2>1, AppendProperties
  <2>. QED BY <2>2 DEF T
<1>7. new.id = n /\ new.task = s
  OBVIOUS
<1> HIDE DEF l, new
<1>8. /\ x \in KernelThread /\ x.at = "start" /\ x.queue = k.queue /\ x.batch = q /\ x.locals = l /\ x.i = k.i /\ x.stop = k.stop
  BY <1>1, <1>2, <1>6 DEF KernelThread
<1> HIDE DEF x
<1>9. Phase(x)
  BY <1>1, <1>8 DEF Phase
<1>10. Balanced(x, v)
  <2>1. Left(x) = Left(k) + 1 /\ Left(k) \in Nat
    BY <1>1, <1>6, <1>8 DEF Left
  <2>2. Cardinality(Owners(v)) \in Nat
    BY OwnersCount
  <2>. QED BY <1>4, <2>1, <2>2 DEF Balanced
<1>11. ASSUME ~v.hurt PROVE LocalsNamed(x, v)
  <2>1. ASSUME NEW j \in 1 .. Len(l) PROVE Names(v, l[j].id, l[j].task) /\ ~v.thread[l[j].id].joined
    <3>1. CASE j = Len(k.locals) + 1
      <4>1. Names(v, n, s) /\ v.thread[n] = Created(s)
        BY <1>4, <1>11
      <4>2. ~v.thread[n].joined
        BY <4>1 DEF Created, Blank
      <4>. QED BY <1>6, <1>7, <3>1, <4>1, <4>2
    <3>2. CASE j # Len(k.locals) + 1
      <4>1. j \in 1 .. Len(k.locals) /\ l[j] = k.locals[j]
        BY <1>1, <1>6, <3>2
      <4>2. Ledger(k, v)
        BY <1>4, <1>11
      <4>. QED BY <1>1, <4>1, <4>2 DEF Ledger, LocalsNamed
    <3>. QED BY <3>1, <3>2
  <2>. QED BY <1>1, <1>8, <2>1 DEF LocalsNamed
<1>12. LocalInv(x, v)
  BY <1>1, <1>4, <1>8, <1>9, <1>10, <1>11 DEF LocalInv, Ledger
<1>. QED BY <1>4, <1>12 DEF x, l, new, q, v, n, s

(* So does a task that cannot be started. *)
LEMMA StartFailsKeeps ==
  ASSUME NEW k, NEW u, LocalInv(k, u), k.at = "start", k.batch # <<>>
  PROVE  LET v == IF HasRoom(u) THEN CreateFails(u) ELSE u
             x == [k EXCEPT !.batch = Tail(@)]
         IN /\ LocalInv(x, v)
            /\ u.hurt => v.hurt
            /\ \A i \in Ids : v.thread[i] = u.thread[i] \/ v.thread[i] = Blank
<1> DEFINE v == IF HasRoom(u) THEN CreateFails(u) ELSE u
           q == Tail(k.batch)
           x == [k EXCEPT !.batch = q]
<1>1. /\ k \in KernelThread /\ u \in AnyScheduler /\ Stable(k, u) /\ k.i <= Len(k.locals) + 1
      /\ u.current = Nil /\ k.batch \in Seq(Slots)
  BY LocalIsStable DEF LocalInv, KernelThread
<1>2. q \in Seq(Slots)
  BY <1>1, HeadTailProperties
<1>3. /\ Stable(k, v) /\ v.current = Nil /\ (u.hurt => v.hurt)
      /\ \A i \in Ids : v.thread[i] = u.thread[i] \/ v.thread[i] = Blank
  <2>1. CASE HasRoom(u)
    <3> DEFINE y == CreateFails(u)
    <3>1. /\ Stable(k, y) /\ y.current = u.current /\ (u.hurt => y.hurt)
          /\ \A i \in Ids : y.thread[i] = IF i = NextId(u) THEN Blank ELSE u.thread[i]
      BY <1>1, <2>1, CreateFailsKeeps
    <3> HIDE DEF y
    <3>2. \A i \in Ids : y.thread[i] = u.thread[i] \/ y.thread[i] = Blank
      BY <3>1
    <3>3. v = y
      BY <2>1 DEF y
    <3> HIDE DEF v
    <3>. QED BY <1>1, <3>1, <3>2, <3>3
  <2>2. CASE ~HasRoom(u)
    BY <1>1, <2>2
  <2>. QED BY <2>1, <2>2
<1> HIDE DEF v, q
<1>4. /\ x \in KernelThread /\ x.at = "start" /\ x.queue = k.queue /\ x.batch = q /\ x.locals = k.locals /\ x.i = k.i /\ x.stop = k.stop
  BY <1>1, <1>2 DEF KernelThread
<1> HIDE DEF x
<1>5. Phase(x)
  BY <1>4 DEF LocalInv, Phase
<1>6. Balanced(x, v) /\ (Ledger(k, v) => Ledger(x, v))
  BY <1>3, <1>4 DEF Stable, Balanced, Left, Ledger, LocalsNamed
<1>7. LocalInv(x, v)
  BY <1>3, <1>4, <1>5, <1>6 DEF LocalInv, Stable
<1>. QED BY <1>3, <1>7 DEF x, v, q

-----------------------------------------------------------------------------
(*****************************************************************************)
(* It is kept when a thread creates a child and joins it.                    *)
(*****************************************************************************)

(* A step in which the same thread goes on *)
LEMMA StaysRunning ==
  ASSUME NEW k, NEW u, LocalInv(k, u), k.at = "run", NEW v, Stable(k, v), v.current = u.current
  PROVE  LocalInv(Scheduled(k, v), v)
<1>1. k \in KernelThread /\ Phase(k) /\ u.current # Nil
  BY DEF LocalInv
<1>2. Scheduled(k, v) = k
  BY <1>1 DEF Scheduled, KernelThread
<1>3. LocalInv(k, v)
  BY <1>1 DEF LocalInv, Stable
<1>. QED BY <1>2, <1>3

(* The current thread has tried to create a child; it tries once. *)
Tried(u) == [u EXCEPT !.thread[u.current].spawned = TRUE]

(* To have tried to create a child changes nothing else. *)
LEMMA TriedIs ==
  ASSUME NEW k, NEW u, LocalInv(k, u), k.at = "run", ~u.waiting, ~u.thread[u.current].spawned
  PROVE  LET v == Tried(u)
         IN /\ Stable(k, v) /\ Steady(u, v) /\ Routed(u, v)
            /\ v.thread[u.current].spawned
            /\ v.thread[u.current].child = Nil /\ v.thread[u.current].joins = Nil
            /\ \A i \in Ids : i # u.current => v.thread[i] = u.thread[i]
<1> DEFINE c == u.current
           t == [u.thread[c] EXCEPT !.spawned = TRUE]
           v == Tried(u)
<1>1. c \in Ids /\ k \in KernelThread /\ u \in AnyScheduler /\ Stable(k, u)
  BY RunningFacts, LocalIsStable
<1>2. u.thread[c] \in Thread /\ u.thread[c].child = Nil /\ u.thread[c].joins = Nil
  BY <1>1 DEF AnyScheduler, Stable, Kept
<1>3. /\ t \in Thread /\ t.spawned /\ t.child = Nil /\ t.joins = Nil /\ t.state = u.thread[c].state
      /\ t.passed = u.thread[c].passed /\ t.routine = u.thread[c].routine /\ t.retval = u.thread[c].retval
      /\ t.joined = u.thread[c].joined
  BY <1>2 DEF Thread
<1>4. v = [u EXCEPT !.thread[c] = t]
  BY DEF Tried
<1> HIDE DEF t, v
<1>5. /\ v \in AnyScheduler /\ v.free = u.free /\ v.count = u.count
      /\ v.current = u.current /\ v.waiting = u.waiting /\ v.hurt = u.hurt /\ v.unfair = u.unfair
      /\ \A j \in Ids : v.thread[j] = IF j = c THEN t ELSE u.thread[j]
  BY <1>1, <1>3, <1>4, ThreadChanged
<1>6. Steady(u, v)
  BY <1>3, <1>5 DEF Steady
<1>7. /\ Routed(u, v) /\ Stands(v) /\ (Placed(u) => Placed(v)) /\ (Ordered(u) => Ordered(v)) /\ (Reusable(u) => Reusable(v))
      /\ \A id \in Ids : \A q : Names(v, id, q) <=> Names(u, id, q)
  BY <1>1, <1>5, <1>6, SteadyKeeps DEF Stable
<1>8. \A i \in Ids : /\ v.thread[i].child = u.thread[i].child /\ v.thread[i].joins = u.thread[i].joins
                     /\ v.thread[i].joined = u.thread[i].joined /\ v.thread[i].state = u.thread[i].state
                     /\ v.thread[i].routine = u.thread[i].routine
  BY <1>2, <1>3, <1>5
<1>9. Kept(v)
  BY <1>1, <1>2, <1>3, <1>5 DEF Stable, Kept
<1>10. Balanced(k, v)
  BY <1>1, <1>5, <1>8 DEF Stable, Balanced, Owners
<1>11. ASSUME Ledger(k, u) PROVE Ledger(k, v)
  <2>1. LocalsNamed(k, v)
    <3>1. ASSUME NEW j \in k.i .. Len(k.locals)
          PROVE  Names(v, k.locals[j].id, k.locals[j].task) /\ ~v.thread[k.locals[j].id].joined
      <4>1. Names(u, k.locals[j].id, k.locals[j].task) /\ ~u.thread[k.locals[j].id].joined
        BY <1>11 DEF Ledger, LocalsNamed
      <4>2. k.locals[j].id \in Ids
        BY <1>1, <4>1, Below DEF Names
      <4>. QED BY <1>7, <1>8, <4>1, <4>2
    <3>. QED BY <3>1 DEF LocalsNamed
  <2>2. Parented(v)
    <3>1. ASSUME NEW i \in Ids, v.thread[i].state # "FINISHED"
          PROVE  /\ v.thread[i].child # Nil => Names(v, v.thread[i].child, Child) /\ ~v.thread[v.thread[i].child].joined
                 /\ v.thread[i].joins # Nil => Names(v, v.thread[i].joins, Child) /\ v.thread[v.thread[i].joins].joined
      <4>1. u.thread[i].child \in Ids \cup {Nil} /\ u.thread[i].joins \in Ids \cup {Nil}
        BY <1>1 DEF AnyScheduler, Thread
      <4>2. v.thread[i].child # Nil => Names(v, v.thread[i].child, Child) /\ ~v.thread[v.thread[i].child].joined
        BY <1>7, <1>8, <1>11, <3>1, <4>1 DEF Ledger, Parented
      <4>3. v.thread[i].joins # Nil => Names(v, v.thread[i].joins, Child) /\ v.thread[v.thread[i].joins].joined
        BY <1>7, <1>8, <1>11, <3>1, <4>1 DEF Ledger, Parented
      <4>. QED BY <4>2, <4>3
    <3>2. ASSUME NEW i \in Ids, NEW j \in Ids, v.thread[i].state # "FINISHED", v.thread[j].state # "FINISHED", i # j
          PROVE  /\ v.thread[i].child # Nil => v.thread[i].child # v.thread[j].child
                 /\ v.thread[i].joins # Nil => v.thread[i].joins # v.thread[j].joins
      BY <1>8, <1>11, <3>2 DEF Ledger, Parented
    <3>. QED BY <3>1, <3>2 DEF Parented
  <2>. QED BY <1>7, <1>11, <2>1, <2>2 DEF Ledger
<1>12. Stable(k, v)
  BY <1>1, <1>5, <1>7, <1>9, <1>10, <1>11 DEF Stable
<1>. QED BY <1>3, <1>1, <1>5, <1>6, <1>7, <1>12 DEF v

(* Creating a child keeps the invariant: its parent owns the id. *)
LEMMA SpawnKeeps ==
  ASSUME NEW k, NEW u, LocalInv(k, u), k.at = "run", ~u.waiting, ~u.thread[u.current].spawned, HasRoom(Tried(u))
  PROVE  LET a == Tried(u)
             n == NextId(a)
             v == Create([a EXCEPT !.thread[a.current].child = n], Child)
         IN /\ LocalInv(Scheduled(k, v), v)
            /\ v.hurt = u.hurt /\ n \in Ids
            /\ v.thread[n] = Created(Child)
            /\ \A i \in Ids : i # n => /\ v.thread[i].routine = u.thread[i].routine
                                       /\ v.thread[i].state = u.thread[i].state
<1> DEFINE a == Tried(u)
           c == u.current
           n == NextId(a)
           t == [a.thread[c] EXCEPT !.child = n]
           b == [a EXCEPT !.thread[c] = t]
           y == Create(a, Child)
           v == Create(b, Child)
<1>1. /\ c \in Ids /\ c # Nil /\ k \in KernelThread /\ k.i <= Len(k.locals) + 1
      /\ u.thread[c].state # "FINISHED" /\ Stable(k, u)
  BY RunningFacts, LocalIsStable
<1>2. /\ Stable(k, a) /\ Steady(u, a) /\ Routed(u, a)
      /\ a.thread[c].spawned /\ a.thread[c].child = Nil /\ a.thread[c].joins = Nil
      /\ \A i \in Ids : i # c => a.thread[i] = u.thread[i]
  BY TriedIs
<1> HIDE DEF a
<1>3. a \in AnyScheduler /\ a.current = c /\ ~a.waiting /\ a.thread[c] \in Thread /\ Child \in Routines /\ HasRoom(a)
  BY <1>1, <1>2 DEF Stable, Steady, AnyScheduler, Routines, a
<1>4. /\ y \in AnyScheduler /\ Stands(y) /\ Kept(y) /\ ~y.waiting
      /\ Len(y.free) \in Nat /\ Len(y.free) + 1 + Left(k) + Cardinality(Owners(y)) <= y.count
      /\ y.current = a.current /\ y.hurt = a.hurt
      /\ n \in Ids
      /\ \A i \in Ids : y.thread[i] = IF i = n THEN Created(Child) ELSE a.thread[i]
      /\ ~y.hurt => /\ Placed(y) /\ Ordered(y) /\ Ledger(k, y)
                    /\ n # a.current /\ Names(y, n, Child)
                    /\ \A id \in Ids : \A q : Names(a, id, q) => id # n
  BY <1>1, <1>2, <1>3, CreateKeeps
<1>5. /\ y.unfair = a.unfair
      /\ y.count = IF a.free = <<>> THEN a.count + 1 ELSE a.count
      /\ y.free = IF a.free # <<>> THEN Front(a.free) ELSE a.free
  BY <1>3, CreateIs
<1> HIDE DEF n, y
<1>6. /\ t \in Thread /\ t.child = n /\ t.joins = Nil /\ t.spawned /\ t.state = a.thread[c].state
      /\ t.passed = a.thread[c].passed /\ t.routine = a.thread[c].routine /\ t.retval = a.thread[c].retval
      /\ t.joined = a.thread[c].joined
  BY <1>2, <1>3, <1>4 DEF Thread
<1> HIDE DEF t
<1>7. /\ b \in AnyScheduler /\ b.free = a.free /\ b.count = a.count
      /\ b.current = a.current /\ b.waiting = a.waiting /\ b.hurt = a.hurt /\ b.unfair = a.unfair
      /\ \A j \in Ids : b.thread[j] = IF j = c THEN t ELSE a.thread[j]
  BY <1>1, <1>3, <1>6, ThreadChanged
<1> HIDE DEF b
<1>8. HasRoom(b) /\ NextId(b) = n
  BY <1>3, <1>7 DEF HasRoom, NextId, n
<1>9. /\ v \in AnyScheduler
      /\ v.current = b.current /\ v.waiting = b.waiting /\ v.hurt = b.hurt /\ v.unfair = b.unfair
      /\ v.count = IF b.free = <<>> THEN b.count + 1 ELSE b.count
      /\ v.free = IF b.free # <<>> THEN Front(b.free) ELSE b.free
      /\ \A i \in Ids : v.thread[i] = IF i = n THEN Created(Child) ELSE b.thread[i]
  BY <1>3, <1>7, <1>8, CreateIs
<1> HIDE DEF v
<1>10. /\ v.current = c /\ ~v.waiting /\ v.hurt = y.hurt /\ v.unfair = y.unfair /\ v.count = y.count /\ v.free = y.free
       /\ y.waiting = v.waiting /\ y.current = c
       /\ \A i \in Ids : v.thread[i] = IF i = n THEN Created(Child) ELSE IF i = c THEN t ELSE y.thread[i]
  BY <1>3, <1>4, <1>5, <1>7, <1>9 DEF AnyScheduler
<1>11. Created(Child).state = "READY" /\ Created(Child).child = Nil /\ Created(Child).joins = Nil /\ Created(Child).joined = FALSE
  BY DEF Created, Blank
<1>12. Steady(y, v)
  BY <1>4, <1>6, <1>10 DEF Steady
<1>13. /\ Stands(v) /\ (Placed(y) => Placed(v)) /\ (Ordered(y) => Ordered(v)) /\ (Reusable(y) => Reusable(v))
       /\ \A id \in Ids : \A q : Names(v, id, q) <=> Names(y, id, q)
  BY <1>4, <1>9, <1>12, SteadyKeeps
<1>14. Kept(v)
  BY <1>1, <1>2, <1>4, <1>6, <1>10, <1>11 DEF Kept, Stable
<1>15. Balanced(k, v)
  <2>1. Owners(v) \subseteq Owners(y) \cup {c}
    <3>1. ASSUME NEW i \in Owners(v), i # c PROVE i \in Owners(y)
      <4>1. i \in Ids /\ (v.thread[i].child # Nil \/ v.thread[i].joins # Nil)
        BY DEF Owners
      <4>2. i # n
        BY <1>10, <1>11, <4>1
      <4>3. v.thread[i] = y.thread[i]
        BY <1>10, <3>1, <4>1, <4>2
      <4>. QED BY <4>1, <4>3 DEF Owners
    <3>. QED BY <3>1
  <2>2. Cardinality(Owners(v)) <= Cardinality(Owners(y)) + 1 /\ Cardinality(Owners(v)) \in Nat /\ Cardinality(Owners(y)) \in Nat
    BY <2>1, OwnersCount
  <2>3. Left(k) \in Nat /\ y.count \in Int /\ Len(v.free) \in Nat
    BY <1>1, <1>3, <1>4, <1>10, Counts, Below DEF Stable
  <2>. QED BY <1>4, <1>10, <2>2, <2>3 DEF Balanced
<1>16. ASSUME ~v.hurt PROVE Placed(v) /\ Ordered(v) /\ Ledger(k, v)
  <2>1. /\ Placed(y) /\ Ordered(y) /\ Ledger(k, y) /\ n # c /\ Names(y, n, Child)
        /\ \A id \in Ids : \A q : Names(a, id, q) => id # n
        /\ Ledger(k, a)
    BY <1>2, <1>3, <1>4, <1>10, <1>16 DEF Stable
  <2>2. \A i \in Ids : v.thread[i].joined = y.thread[i].joined /\ v.thread[i].state = y.thread[i].state
    BY <1>4, <1>6, <1>10
  <2>3. LocalsNamed(k, v)
    <3>1. ASSUME NEW j \in k.i .. Len(k.locals)
          PROVE  Names(v, k.locals[j].id, k.locals[j].task) /\ ~v.thread[k.locals[j].id].joined
      <4>1. Names(y, k.locals[j].id, k.locals[j].task) /\ ~y.thread[k.locals[j].id].joined
        BY <2>1 DEF Ledger, LocalsNamed
      <4>2. k.locals[j].id \in Ids
        BY <1>4, <4>1, Below DEF Names
      <4>. QED BY <1>13, <2>2, <4>1, <4>2
    <3>. QED BY <3>1 DEF LocalsNamed
  <2>4. \A i \in Ids : i # n /\ i # c => v.thread[i] = y.thread[i] /\ v.thread[i] = a.thread[i]
    BY <1>4, <1>10
  <2>5. v.thread[c] = t /\ v.thread[n] = Created(Child)
    BY <1>1, <1>4, <1>10, <2>1
  <2>6. ASSUME NEW i \in Ids, v.thread[i].state # "FINISHED"
        PROVE  /\ v.thread[i].child # Nil => Names(v, v.thread[i].child, Child) /\ ~v.thread[v.thread[i].child].joined
               /\ v.thread[i].joins # Nil => Names(v, v.thread[i].joins, Child) /\ v.thread[v.thread[i].joins].joined
    <3>1. CASE i = n
      BY <1>11, <2>5, <3>1
    <3>2. CASE i = c
      <4>1. v.thread[i].child = n /\ v.thread[i].joins = Nil
        BY <1>6, <2>5, <3>2
      <4>2. Names(v, n, Child) /\ ~v.thread[n].joined
        BY <1>4, <1>11, <1>13, <2>1, <2>5
      <4>. QED BY <4>1, <4>2
    <3>3. CASE i # n /\ i # c
      <4>1. v.thread[i] = y.thread[i] /\ y.thread[i].child \in Ids \cup {Nil} /\ y.thread[i].joins \in Ids \cup {Nil}
        BY <1>4, <2>4, <3>3 DEF AnyScheduler, Thread
      <4>2. v.thread[i].child # Nil => Names(v, v.thread[i].child, Child) /\ ~v.thread[v.thread[i].child].joined
        BY <1>13, <2>1, <2>2, <2>6, <4>1 DEF Ledger, Parented
      <4>3. v.thread[i].joins # Nil => Names(v, v.thread[i].joins, Child) /\ v.thread[v.thread[i].joins].joined
        BY <1>13, <2>1, <2>2, <2>6, <4>1 DEF Ledger, Parented
      <4>. QED BY <4>2, <4>3
    <3>. QED BY <3>1, <3>2, <3>3
  <2>7. ASSUME NEW i \in Ids, v.thread[i].state # "FINISHED", i # c, i # n
        PROVE  v.thread[i].child # n
    <3>1. v.thread[i] = a.thread[i]
      BY <2>4, <2>7
    <3>2. a.thread[i].child # Nil => Names(a, a.thread[i].child, Child)
      BY <2>1, <2>7, <3>1 DEF Ledger, Parented
    <3>3. a.thread[i].child \in Ids \cup {Nil} /\ n # Nil
      BY <1>3, <1>4, Below DEF AnyScheduler, Thread
    <3>. QED BY <2>1, <3>1, <3>2, <3>3
  <2>8. ASSUME NEW i \in Ids, NEW j \in Ids, v.thread[i].state # "FINISHED", v.thread[j].state # "FINISHED", i # j
        PROVE  /\ v.thread[i].child # Nil => v.thread[i].child # v.thread[j].child
               /\ v.thread[i].joins # Nil => v.thread[i].joins # v.thread[j].joins
    <3>1. CASE i = n \/ j = n
      BY <1>11, <2>5, <3>1
    <3>2. CASE i = c /\ j # n
      BY <1>6, <2>5, <2>7, <2>8, <3>2
    <3>3. CASE j = c /\ i # n
      BY <1>6, <2>5, <2>7, <2>8, <3>3
    <3>4. CASE i # n /\ j # n /\ i # c /\ j # c
      <4>1. v.thread[i] = a.thread[i] /\ v.thread[j] = a.thread[j]
        BY <2>4, <3>4
      <4>. QED BY <2>1, <2>8, <4>1 DEF Ledger, Parented
    <3>. QED BY <3>1, <3>2, <3>3, <3>4
  <2>9. Parented(v)
    BY <2>6, <2>8 DEF Parented
  <2>. QED BY <1>13, <2>1, <2>3, <2>9 DEF Ledger
<1>17. Stable(k, v)
  BY <1>9, <1>13, <1>14, <1>15, <1>16 DEF Stable
<1>18. LocalInv(Scheduled(k, v), v)
  BY <1>10, <1>17, StaysRunning
<1>19. \A i \in Ids : i # n => v.thread[i].routine = u.thread[i].routine /\ v.thread[i].state = u.thread[i].state
  BY <1>2, <1>4, <1>6, <1>10 DEF Steady
<1>20. v.hurt = u.hurt /\ v.thread[n] = Created(Child)
  BY <1>2, <1>4, <1>10 DEF Steady
<1>21. Create([a EXCEPT !.thread[a.current].child = n], Child) = v
  <2>1. [a EXCEPT !.thread[a.current].child = n] = b
    BY <1>3 DEF b, t
  <2>. QED BY <2>1 DEF v
<1>. QED BY <1>4, <1>18, <1>19, <1>20, <1>21 DEF a, n

(* The checks of uthread_join keep the invariant: the id is still owned by its caller. *)
LEMMA CallJoinKeeps ==
  ASSUME NEW k, NEW u, LocalInv(k, u), k.at = "run", ~u.waiting, u.thread[u.current].child # Nil
  PROVE  LET id == u.thread[u.current].child
             a == [u EXCEPT !.thread[u.current].child = Nil]
             v == IF CanJoin(u, id) THEN [MarkJoined(a, id) EXCEPT !.thread[u.current].joins = id] ELSE a
         IN LocalInv(Scheduled(k, v), v) /\ Routed(u, v)
<1> DEFINE c == u.current
           id == u.thread[c].child
           s == [u.thread[c] EXCEPT !.child = Nil]
           a == [u EXCEPT !.thread[c] = s]
<1>1. /\ c \in Ids /\ c # Nil /\ k \in KernelThread /\ u \in AnyScheduler /\ Stable(k, u)
      /\ u.thread[c].state # "FINISHED" /\ u.thread[c] \in Thread
  BY RunningFacts, LocalIsStable DEF AnyScheduler
<1>2. id \in Ids /\ u.thread[c].joins = Nil /\ u.thread[c].spawned
  BY <1>1 DEF Thread, Stable, Kept
<1>3. /\ s \in Thread /\ s.child = Nil /\ s.joins = Nil /\ s.spawned /\ s.spawned = u.thread[c].spawned /\ s.state = u.thread[c].state
      /\ s.passed = u.thread[c].passed /\ s.routine = u.thread[c].routine /\ s.retval = u.thread[c].retval
      /\ s.joined = u.thread[c].joined
  BY <1>1, <1>2 DEF Thread
<1>4. a = [u EXCEPT !.thread[u.current].child = Nil]
  OBVIOUS
<1> HIDE DEF s, id
<1>5. /\ a \in AnyScheduler /\ a.free = u.free /\ a.count = u.count
      /\ a.current = u.current /\ a.waiting = u.waiting /\ a.hurt = u.hurt /\ a.unfair = u.unfair
      /\ \A j \in Ids : a.thread[j] = IF j = c THEN s ELSE u.thread[j]
  BY <1>1, <1>3, ThreadChanged
<1> HIDE DEF a
<1>6. ASSUME ~u.hurt PROVE /\ Names(u, id, Child) /\ ~u.thread[id].joined /\ CanJoin(u, id)
                           /\ Placed(u) /\ Ordered(u) /\ Ledger(k, u)
  BY <1>1, <1>2, <1>6 DEF Stable, Ledger, Parented, id, CanJoin, Names
<1>7. ASSUME CanJoin(u, id)
      PROVE  LET v == [MarkJoined(a, id) EXCEPT !.thread[c].joins = id]
             IN LocalInv(Scheduled(k, v), v) /\ Routed(u, v)
  <2> DEFINE t == [a.thread[id] EXCEPT !.joined = TRUE]
             b == [a EXCEPT !.thread[id] = t]
             r == [b.thread[c] EXCEPT !.joins = id]
             v == [b EXCEPT !.thread[c] = r]
  <2>1. MarkJoined(a, id) = b
    BY DEF MarkJoined
  <2>2. /\ t \in Thread /\ t.joined /\ t.child = a.thread[id].child /\ t.joins = a.thread[id].joins
        /\ t.spawned = a.thread[id].spawned /\ t.state = a.thread[id].state
        /\ t.passed = a.thread[id].passed /\ t.routine = a.thread[id].routine /\ t.retval = a.thread[id].retval
    <3>1. a.thread[id] \in Thread
      BY <1>2, <1>5 DEF AnyScheduler
    <3>. QED BY <3>1 DEF Thread
  <2> HIDE DEF t
  <2>3. /\ b \in AnyScheduler /\ b.free = a.free /\ b.count = a.count
        /\ b.current = a.current /\ b.waiting = a.waiting /\ b.hurt = a.hurt /\ b.unfair = a.unfair
        /\ \A j \in Ids : b.thread[j] = IF j = id THEN t ELSE a.thread[j]
    BY <1>2, <1>5, <2>2, ThreadChanged
  <2> HIDE DEF b
  <2>4. /\ r \in Thread /\ r.joins = id /\ r.child = b.thread[c].child /\ r.joined = b.thread[c].joined
        /\ r.spawned = b.thread[c].spawned /\ r.state = b.thread[c].state
        /\ r.passed = b.thread[c].passed /\ r.routine = b.thread[c].routine /\ r.retval = b.thread[c].retval
    <3>1. b.thread[c] \in Thread
      BY <1>1, <2>3 DEF AnyScheduler
    <3>. QED BY <1>2, <3>1 DEF Thread
  <2> HIDE DEF r
  <2>5. /\ v \in AnyScheduler /\ v.free = b.free /\ v.count = b.count
        /\ v.current = b.current /\ v.waiting = b.waiting /\ v.hurt = b.hurt /\ v.unfair = b.unfair
        /\ \A j \in Ids : v.thread[j] = IF j = c THEN r ELSE b.thread[j]
    BY <1>1, <2>3, <2>4, ThreadChanged
  <2>6. [MarkJoined(a, id) EXCEPT !.thread[c].joins = id] = v
    BY <2>1 DEF r
  <2> HIDE DEF v
  <2>7. \A i \in Ids : /\ v.thread[i].child = IF i = c THEN Nil ELSE u.thread[i].child
                       /\ v.thread[i].joins = IF i = c THEN id ELSE u.thread[i].joins
                       /\ v.thread[i].joined = IF i = id THEN TRUE ELSE u.thread[i].joined
                       /\ v.thread[i].spawned = u.thread[i].spawned /\ v.thread[i].state = u.thread[i].state
                       /\ v.thread[i].passed = u.thread[i].passed /\ v.thread[i].routine = u.thread[i].routine
                       /\ v.thread[i].retval = u.thread[i].retval
    <3> SUFFICES ASSUME NEW i \in Ids
                 PROVE  /\ v.thread[i].child = IF i = c THEN Nil ELSE u.thread[i].child
                        /\ v.thread[i].joins = IF i = c THEN id ELSE u.thread[i].joins
                        /\ v.thread[i].joined = IF i = id THEN TRUE ELSE u.thread[i].joined
                        /\ v.thread[i].spawned = u.thread[i].spawned /\ v.thread[i].state = u.thread[i].state
                        /\ v.thread[i].passed = u.thread[i].passed /\ v.thread[i].routine = u.thread[i].routine
                        /\ v.thread[i].retval = u.thread[i].retval
      OBVIOUS
    <3>0. u.thread[i].joined \in BOOLEAN /\ t.joined \in BOOLEAN /\ s.joined \in BOOLEAN
      BY <1>1, <1>3, <2>2 DEF AnyScheduler, Thread
    <3>1. CASE i = c
      <4>1. v.thread[i] = r /\ a.thread[c] = s
        BY <1>1, <1>5, <2>5, <3>1
      <4>2. CASE i = id
        <5>1. b.thread[c] = t /\ a.thread[id] = s
          BY <1>2, <2>3, <3>1, <4>1, <4>2
        <5>2. /\ v.thread[i].child = Nil /\ v.thread[i].joins = id /\ v.thread[i].joined
              /\ v.thread[i].spawned = s.spawned /\ v.thread[i].state = s.state /\ v.thread[i].passed = s.passed
              /\ v.thread[i].routine = s.routine /\ v.thread[i].retval = s.retval
              /\ v.thread[i].joined \in BOOLEAN
          BY <1>3, <2>2, <2>4, <3>0, <4>1, <5>1
        <5>. QED BY <1>3, <3>0, <3>1, <4>2, <5>2
      <4>3. CASE i # id
        <5>1. b.thread[c] = s
          BY <1>1, <2>3, <3>1, <4>1, <4>3
        <5>. QED BY <1>3, <2>4, <3>0, <3>1, <4>1, <4>3, <5>1
      <4>. QED BY <4>2, <4>3
    <3>2. CASE i # c
      <4>1. v.thread[i] = b.thread[i] /\ a.thread[i] = u.thread[i]
        BY <1>5, <2>5, <3>2
      <4>2. CASE i = id
        <5>1. b.thread[i] = t /\ a.thread[id] = u.thread[i]
          BY <2>3, <4>1, <4>2
        <5>. QED BY <2>2, <3>0, <3>2, <4>1, <4>2, <5>1
      <4>3. CASE i # id
        <5>1. b.thread[i] = u.thread[i]
          BY <2>3, <4>1, <4>3
        <5>. QED BY <3>2, <4>1, <4>3, <5>1
      <4>. QED BY <4>2, <4>3
    <3>. QED BY <3>1, <3>2
  <2>8. Steady(u, v)
    BY <1>5, <2>3, <2>5, <2>7 DEF Steady
  <2>9. /\ Routed(u, v) /\ Stands(v) /\ (Placed(u) => Placed(v)) /\ (Ordered(u) => Ordered(v)) /\ (Reusable(u) => Reusable(v))
        /\ \A i \in Ids : \A q : Names(v, i, q) <=> Names(u, i, q)
    BY <1>1, <2>5, <2>8, SteadyKeeps DEF Stable
  <2>10. Kept(v)
    <3>1. ASSUME NEW i \in Ids
          PROVE  /\ v.thread[i].state = "FINISHED" => v.thread[i].retval = v.thread[i].routine
                 /\ v.thread[i].child = Nil \/ v.thread[i].joins = Nil
                 /\ ~v.thread[i].spawned => v.thread[i].child = Nil /\ v.thread[i].joins = Nil
      <4>1. /\ u.thread[i].state = "FINISHED" => u.thread[i].retval = u.thread[i].routine
            /\ u.thread[i].child = Nil \/ u.thread[i].joins = Nil
            /\ ~u.thread[i].spawned => u.thread[i].child = Nil /\ u.thread[i].joins = Nil
        BY <1>1 DEF Stable, Kept
      <4>2. CASE i = c
        <5>1. v.thread[i].child = Nil /\ v.thread[i].spawned = u.thread[c].spawned /\ u.thread[c].spawned
          BY <1>2, <2>7, <4>2
        <5>. QED BY <2>7, <4>1, <5>1
      <4>3. CASE i # c
        BY <2>7, <4>1, <4>3
      <4>. QED BY <4>2, <4>3
    <3>. QED BY <3>1 DEF Kept
  <2>11. Balanced(k, v)
    <3>1. Owners(v) = Owners(u)
      <4>1. c \in Owners(u)
        BY <1>1 DEF Owners
      <4>2. id # Nil
        BY <1>1, <1>2, Below
      <4>3. ASSUME NEW i \in Ids PROVE i \in Owners(v) <=> i \in Owners(u)
        <5>1. CASE i = c
          BY <2>7, <4>1, <4>2, <5>1 DEF Owners
        <5>2. CASE i # c
          <6>1. v.thread[i].child = u.thread[i].child /\ v.thread[i].joins = u.thread[i].joins
            BY <2>7, <5>2
          <6>. QED BY <6>1 DEF Owners
        <5>. QED BY <5>1, <5>2
      <4>4. Owners(u) \subseteq Ids /\ Owners(v) \subseteq Ids
        BY DEF Owners
      <4>. QED BY <4>3, <4>4
    <3>. QED BY <1>1, <2>8, <3>1 DEF Stable, Balanced, Steady
  <2>12. ASSUME ~u.hurt PROVE Ledger(k, v)
    <3>1. Names(u, id, Child) /\ ~u.thread[id].joined /\ Reusable(u) /\ Parented(u) /\ LocalsNamed(k, u)
      BY <1>6, <2>12 DEF Ledger
    <3>2. LocalsNamed(k, v)
      <4>1. ASSUME NEW j \in k.i .. Len(k.locals)
            PROVE  Names(v, k.locals[j].id, k.locals[j].task) /\ ~v.thread[k.locals[j].id].joined
        <5>1. Names(u, k.locals[j].id, k.locals[j].task) /\ ~u.thread[k.locals[j].id].joined
          BY <3>1 DEF LocalsNamed
        <5>2. k.locals[j].id \in Ids
          BY <1>1, <5>1, Below DEF Names
        <5>3. k.locals[j].task \in Slots
          <6>1. k.locals \in Seq(Local) /\ j \in 1 .. Len(k.locals)
            <7>1. k.i \in Nat /\ k.i >= 1 /\ Len(k.locals) \in Nat /\ k.locals \in Seq(Local)
              BY LocalIsStable DEF KernelThread
            <7>. QED BY <7>1
          <6>2. k.locals[j] \in Local
            BY <6>1, ElementOfSeq
          <6>. QED BY <6>2 DEF Local
        <5>4. k.locals[j].id # id
          BY <3>1, <5>1, <5>3, ChildAssumption DEF Names
        <5>. QED BY <2>7, <2>9, <5>1, <5>2, <5>4
      <4>. QED BY <4>1 DEF LocalsNamed
    <3>3. ASSUME NEW i \in Ids, v.thread[i].state # "FINISHED"
          PROVE  /\ v.thread[i].child # Nil => Names(v, v.thread[i].child, Child) /\ ~v.thread[v.thread[i].child].joined
                 /\ v.thread[i].joins # Nil => Names(v, v.thread[i].joins, Child) /\ v.thread[v.thread[i].joins].joined
      <4>0. u.thread[i].child \in Ids \cup {Nil} /\ u.thread[i].joins \in Ids \cup {Nil} /\ u.thread[i].state # "FINISHED"
        BY <1>1, <2>7, <3>3 DEF AnyScheduler, Thread
      <4>1. CASE i = c
        BY <1>2, <2>7, <2>9, <3>1, <4>1
      <4>2. CASE i # c
        <5>1. v.thread[i].child = u.thread[i].child /\ v.thread[i].joins = u.thread[i].joins
          BY <2>7, <4>2
        <5>2. ASSUME u.thread[i].child # Nil
              PROVE  Names(v, u.thread[i].child, Child) /\ ~v.thread[u.thread[i].child].joined
          <6>1. u.thread[i].child # id
            BY <1>1, <3>1, <4>0, <4>2, <5>2 DEF Parented, id
          <6>2. u.thread[i].child \in Ids /\ Names(u, u.thread[i].child, Child) /\ ~u.thread[u.thread[i].child].joined
            BY <3>1, <4>0, <5>2 DEF Parented
          <6>. QED BY <2>7, <2>9, <6>1, <6>2
        <5>3. ASSUME u.thread[i].joins # Nil
              PROVE  Names(v, u.thread[i].joins, Child) /\ v.thread[u.thread[i].joins].joined
          <6>2. u.thread[i].joins \in Ids /\ Names(u, u.thread[i].joins, Child) /\ u.thread[u.thread[i].joins].joined
            BY <3>1, <4>0, <5>3 DEF Parented
          <6>. QED BY <2>7, <2>9, <6>2
        <5>. QED BY <5>1, <5>2, <5>3
      <4>. QED BY <4>1, <4>2
    <3>4. ASSUME NEW i \in Ids, NEW j \in Ids, v.thread[i].state # "FINISHED", v.thread[j].state # "FINISHED", i # j
          PROVE  /\ v.thread[i].child # Nil => v.thread[i].child # v.thread[j].child
                 /\ v.thread[i].joins # Nil => v.thread[i].joins # v.thread[j].joins
      <4>0. u.thread[i].state # "FINISHED" /\ u.thread[j].state # "FINISHED" /\ id # Nil
        BY <1>1, <1>2, <2>7, <3>4, Below
      <4>1. ASSUME NEW h \in Ids, h # c, u.thread[h].state # "FINISHED" PROVE u.thread[h].joins # id
        BY <1>2, <3>1, <4>0, <4>1 DEF Parented
      <4>2. CASE i = c
        BY <2>7, <3>4, <4>0, <4>1, <4>2
      <4>3. CASE j = c
        BY <2>7, <3>4, <4>0, <4>1, <4>3
      <4>4. CASE i # c /\ j # c
        <5>1. /\ v.thread[i].child = u.thread[i].child /\ v.thread[i].joins = u.thread[i].joins
              /\ v.thread[j].child = u.thread[j].child /\ v.thread[j].joins = u.thread[j].joins
          BY <2>7, <4>4
        <5>. QED BY <3>1, <3>4, <4>0, <5>1 DEF Parented
      <4>. QED BY <4>2, <4>3, <4>4
    <3>5. Parented(v)
      BY <3>3, <3>4 DEF Parented
    <3>. QED BY <2>9, <3>1, <3>2, <3>5 DEF Ledger
  <2>13. Stable(k, v) /\ v.current = c
    BY <1>6, <2>5, <2>8, <2>9, <2>10, <2>11, <2>12 DEF Stable, Steady
  <2>14. LocalInv(Scheduled(k, v), v)
    BY <2>13, StaysRunning
  <2>. QED BY <2>6, <2>9, <2>14
<1>8. ASSUME ~CanJoin(u, id)
      PROVE  LocalInv(Scheduled(k, a), a) /\ Routed(u, a)
  <2>1. u.hurt
    BY <1>6, <1>8
  <2>2. Steady(u, a)
    BY <1>3, <1>5 DEF Steady
  <2>3. Routed(u, a) /\ Stands(a)
    BY <1>1, <1>5, <2>2, SteadyKeeps DEF Stable
  <2>4. Kept(a)
    BY <1>1, <1>3, <1>5 DEF Stable, Kept
  <2>5. Balanced(k, a)
    <3>1. Owners(a) \subseteq Owners(u)
      BY <1>3, <1>5 DEF Owners
    <3>2. Cardinality(Owners(a)) <= Cardinality(Owners(u)) /\ Cardinality(Owners(a)) \in Nat /\ Cardinality(Owners(u)) \in Nat
      BY <3>1, OwnersCount
    <3>3. Left(k) \in Nat /\ Len(u.free) \in Nat /\ u.count \in Int
      BY <1>1, LocalIsStable, Counts, Below DEF Stable
    <3>4. Len(u.free) + Left(k) + Cardinality(Owners(u)) <= u.count
      BY <1>1 DEF Stable, Balanced
    <3>. QED BY <1>5, <3>2, <3>3, <3>4 DEF Balanced
  <2>6. Stable(k, a) /\ a.current = c
    BY <1>5, <2>1, <2>3, <2>4, <2>5 DEF Stable
  <2>. QED BY <2>3, <2>6, StaysRunning
<1>9. CASE CanJoin(u, id)
  BY <1>4, <1>7, <1>9 DEF id
<1>10. CASE ~CanJoin(u, id)
  BY <1>4, <1>8, <1>10 DEF id
<1>. QED BY <1>9, <1>10

(* An id that comes back to free_ids *)
LEMMA Recycled ==
  ASSUME NEW u \in AnyScheduler, NEW id \in Ids, NEW v, v.free = Append(u.free, id), v.count = u.count,
         \A i \in Ids : v.thread[i].routine = u.thread[i].routine /\ v.thread[i].state = u.thread[i].state
  PROVE  /\ Len(v.free) = Len(u.free) + 1 /\ Len(u.free) \in Nat
         /\ \A i \in Ids : \A q : Names(u, i, q) /\ i # id => Names(v, i, q)
         /\ Reusable(u) /\ Ended(u, id) /\ (\E q : Names(u, id, q)) => Reusable(v)
<1>1. u.free \in Seq(Ids)
  BY DEF AnyScheduler
<1>2. /\ v.free \in Seq(Ids) /\ Len(v.free) = Len(u.free) + 1 /\ Len(u.free) \in Nat
      /\ v.free[Len(u.free) + 1] = id /\ \A j \in 1 .. Len(u.free) : v.free[j] = u.free[j]
  BY <1>1, AppendProperties, LenProperties
<1>3. DOMAIN v.free = 1 .. Len(u.free) + 1 /\ DOMAIN u.free = 1 .. Len(u.free)
  BY <1>1, <1>2, LenProperties
<1>4. \A j \in DOMAIN v.free : v.free[j] = id \/ (j \in DOMAIN u.free /\ v.free[j] = u.free[j])
  BY <1>2, <1>3
<1>5. ASSUME NEW i \in Ids, NEW q, Names(u, i, q), i # id PROVE Names(v, i, q)
  BY <1>4, <1>5 DEF Names
<1>6. ASSUME Reusable(u), Ended(u, id), NEW q, Names(u, id, q) PROVE Reusable(v)
  <2>1. \A j \in DOMAIN u.free : u.free[j] \in Ids /\ u.free[j] # id
    BY <1>1, <1>3, <1>6, ElementOfSeq DEF Names
  <2>2. id < u.count /\ u.thread[id].state = "FINISHED"
    BY <1>6, Below DEF Names, Ended
  <2>3. ASSUME NEW j \in DOMAIN v.free, NEW l \in DOMAIN v.free, v.free[j] = v.free[l] PROVE j = l
    <3>1. CASE j \in DOMAIN u.free /\ l \in DOMAIN u.free
      BY <1>2, <1>3, <1>6, <2>3, <3>1 DEF Reusable
    <3>2. CASE j \notin DOMAIN u.free /\ l \notin DOMAIN u.free
      BY <1>2, <1>3, <3>2
    <3>3. CASE j \in DOMAIN u.free /\ l \notin DOMAIN u.free
      <4>1. l = Len(u.free) + 1 /\ v.free[j] = u.free[j]
        BY <1>2, <1>3, <3>3
      <4>. QED BY <1>2, <2>1, <2>3, <3>3, <4>1
    <3>4. CASE j \notin DOMAIN u.free /\ l \in DOMAIN u.free
      <4>1. j = Len(u.free) + 1 /\ v.free[l] = u.free[l]
        BY <1>2, <1>3, <3>4
      <4>. QED BY <1>2, <2>1, <2>3, <3>4, <4>1
    <3>. QED BY <3>1, <3>2, <3>3, <3>4
  <2>4. ASSUME NEW j \in DOMAIN v.free PROVE v.free[j] < v.count /\ v.thread[v.free[j]].state = "FINISHED"
    <3>1. CASE v.free[j] = id
      BY <2>2, <3>1
    <3>2. CASE j \in DOMAIN u.free /\ v.free[j] = u.free[j]
      BY <1>6, <2>1, <3>2 DEF Reusable
    <3>. QED BY <1>4, <3>1, <3>2
  <2>. QED BY <2>3, <2>4 DEF Reusable
<1>. QED BY <1>2, <1>5, <1>6

(* The end of uthread_join keeps the invariant: its caller gives the id back. *)
LEMMA AwaitedKeeps ==
  ASSUME NEW k, NEW u, LocalInv(k, u), k.at = "run", ~u.waiting,
         u.thread[u.current].joins # Nil, Ended(u, u.thread[u.current].joins)
  PROVE  LET v == [Reclaim(u, u.thread[u.current].joins) EXCEPT !.thread[u.current].joins = Nil]
         IN LocalInv(Scheduled(k, v), v) /\ Routed(u, v)
<1> DEFINE c == u.current
           id == u.thread[c].joins
           a == Reclaim(u, id)
           t == [a.thread[c] EXCEPT !.joins = Nil]
           v == [a EXCEPT !.thread[c] = t]
<1>1. /\ c \in Ids /\ c # Nil /\ k \in KernelThread /\ u \in AnyScheduler /\ Stable(k, u)
      /\ u.thread[c].state # "FINISHED" /\ u.thread[c] \in Thread
  BY RunningFacts, LocalIsStable DEF AnyScheduler
<1>2. id \in Ids /\ u.thread[c].child = Nil /\ u.thread[c].spawned /\ Ended(u, id)
  BY <1>1 DEF Thread, Stable, Kept
<1>3. v = [Reclaim(u, u.thread[u.current].joins) EXCEPT !.thread[u.current].joins = Nil]
  OBVIOUS
<1> HIDE DEF id
<1>4. /\ a \in AnyScheduler /\ a.free = Append(u.free, id) /\ a.thread = u.thread /\ a.count = u.count
      /\ a.current = u.current /\ a.waiting = u.waiting /\ a.hurt = u.hurt /\ a.unfair = u.unfair
  BY <1>1, <1>2, ReclaimIs
<1> HIDE DEF a
<1>5. /\ t \in Thread /\ t.child = Nil /\ t.joins = Nil /\ t.spawned = u.thread[c].spawned /\ t.state = u.thread[c].state
      /\ t.passed = u.thread[c].passed /\ t.routine = u.thread[c].routine /\ t.retval = u.thread[c].retval
      /\ t.joined = u.thread[c].joined
  BY <1>1, <1>2, <1>4 DEF Thread
<1> HIDE DEF t
<1>6. /\ v \in AnyScheduler /\ v.free = a.free /\ v.count = a.count
      /\ v.current = a.current /\ v.waiting = a.waiting /\ v.hurt = a.hurt /\ v.unfair = a.unfair
      /\ \A j \in Ids : v.thread[j] = IF j = c THEN t ELSE a.thread[j]
  BY <1>1, <1>4, <1>5, ThreadChanged
<1> HIDE DEF v
<1>7. \A i \in Ids : /\ v.thread[i].child = u.thread[i].child /\ v.thread[i].joins = IF i = c THEN Nil ELSE u.thread[i].joins
                     /\ v.thread[i].joined = u.thread[i].joined
                     /\ v.thread[i].spawned = u.thread[i].spawned /\ v.thread[i].state = u.thread[i].state
                     /\ v.thread[i].passed = u.thread[i].passed /\ v.thread[i].routine = u.thread[i].routine
                     /\ v.thread[i].retval = u.thread[i].retval
  BY <1>2, <1>4, <1>5, <1>6
<1>8. /\ Len(v.free) = Len(u.free) + 1 /\ Len(u.free) \in Nat
      /\ \A i \in Ids : \A q : Names(u, i, q) /\ i # id => Names(v, i, q)
      /\ Reusable(u) /\ Ended(u, id) /\ (\E q : Names(u, id, q)) => Reusable(v)
  BY <1>1, <1>2, <1>4, <1>6, <1>7, Recycled
<1>9. Routed(u, v)
  BY <1>4, <1>6, <1>7 DEF Routed
<1>10. Stands(v) /\ Kept(v)
  BY <1>1, <1>2, <1>4, <1>6, <1>7 DEF Stable, Stands, Kept
<1>11. Balanced(k, v)
  <2>1. Owners(v) \subseteq Owners(u) \ {c} /\ c \in Owners(u)
    <3>1. c \in Owners(u)
      BY <1>1 DEF Owners
    <3>2. ASSUME NEW i \in Owners(v) PROVE i \in Owners(u) /\ i # c
      <4>1. i \in Ids /\ (v.thread[i].child # Nil \/ v.thread[i].joins # Nil)
        BY DEF Owners
      <4>2. i # c
        BY <1>2, <1>7, <4>1
      <4>. QED BY <1>7, <4>1, <4>2 DEF Owners
    <3>. QED BY <3>1, <3>2
  <2>2. Cardinality(Owners(v)) <= Cardinality(Owners(u)) - 1 /\ Cardinality(Owners(v)) \in Nat /\ Cardinality(Owners(u)) \in Nat
    BY <2>1, OwnersCount
  <2>3. Left(k) \in Nat /\ u.count \in Int /\ Len(u.free) + Left(k) + Cardinality(Owners(u)) <= u.count
    BY <1>1, LocalIsStable, Counts, Below DEF Stable, Balanced
  <2>. QED BY <1>4, <1>6, <1>8, <2>2, <2>3 DEF Balanced
<1>12. ASSUME ~u.hurt PROVE Placed(v) /\ Ordered(v) /\ Ledger(k, v)
  <2>1. /\ Placed(u) /\ Ordered(u) /\ Reusable(u) /\ Parented(u) /\ LocalsNamed(k, u)
        /\ Names(u, id, Child) /\ u.thread[id].joined
    BY <1>1, <1>2, <1>12 DEF Stable, Ledger, Parented, id
  <2>2. Placed(v)
    BY <1>1, <1>4, <1>6, <1>7, <2>1 DEF Placed
  <2>3. Ordered(v)
    BY <1>4, <1>6, <1>7, <2>1 DEF Ordered
  <2>4. Reusable(v)
    BY <1>2, <1>8, <2>1
  <2>5. LocalsNamed(k, v)
    <3>1. ASSUME NEW j \in k.i .. Len(k.locals)
          PROVE  Names(v, k.locals[j].id, k.locals[j].task) /\ ~v.thread[k.locals[j].id].joined
      <4>1. Names(u, k.locals[j].id, k.locals[j].task) /\ ~u.thread[k.locals[j].id].joined
        BY <2>1 DEF LocalsNamed
      <4>2. k.locals[j].id \in Ids /\ k.locals[j].id # id
        BY <1>1, <2>1, <4>1, Below DEF Names
      <4>. QED BY <1>7, <1>8, <4>1, <4>2
    <3>. QED BY <3>1 DEF LocalsNamed
  <2>6. ASSUME NEW i \in Ids, v.thread[i].state # "FINISHED"
        PROVE  /\ v.thread[i].child # Nil => Names(v, v.thread[i].child, Child) /\ ~v.thread[v.thread[i].child].joined
               /\ v.thread[i].joins # Nil => Names(v, v.thread[i].joins, Child) /\ v.thread[v.thread[i].joins].joined
    <3>0. u.thread[i].child \in Ids \cup {Nil} /\ u.thread[i].joins \in Ids \cup {Nil} /\ u.thread[i].state # "FINISHED"
      BY <1>1, <1>7, <2>6 DEF AnyScheduler, Thread
    <3>1. CASE i = c
      BY <1>2, <1>7, <3>1
    <3>2. CASE i # c
      <4>1. v.thread[i].child = u.thread[i].child /\ v.thread[i].joins = u.thread[i].joins
        BY <1>7, <3>2
      <4>2. ASSUME u.thread[i].child # Nil
            PROVE  Names(v, u.thread[i].child, Child) /\ ~v.thread[u.thread[i].child].joined
        <5>1. u.thread[i].child \in Ids /\ Names(u, u.thread[i].child, Child) /\ ~u.thread[u.thread[i].child].joined
          BY <2>1, <3>0, <4>2 DEF Parented
        <5>2. u.thread[i].child # id
          BY <2>1, <5>1
        <5>. QED BY <1>7, <1>8, <5>1, <5>2
      <4>3. ASSUME u.thread[i].joins # Nil
            PROVE  Names(v, u.thread[i].joins, Child) /\ v.thread[u.thread[i].joins].joined
        <5>1. u.thread[i].joins \in Ids /\ Names(u, u.thread[i].joins, Child) /\ u.thread[u.thread[i].joins].joined
          BY <2>1, <3>0, <4>3 DEF Parented
        <5>2. u.thread[i].joins # id
          BY <1>1, <2>1, <3>0, <3>2, <4>3 DEF Parented, id
        <5>. QED BY <1>7, <1>8, <5>1, <5>2
      <4>. QED BY <4>1, <4>2, <4>3
    <3>. QED BY <3>1, <3>2
  <2>7. ASSUME NEW i \in Ids, NEW j \in Ids, v.thread[i].state # "FINISHED", v.thread[j].state # "FINISHED", i # j
        PROVE  /\ v.thread[i].child # Nil => v.thread[i].child # v.thread[j].child
               /\ v.thread[i].joins # Nil => v.thread[i].joins # v.thread[j].joins
    <3>0. /\ u.thread[i].child # Nil => u.thread[i].child # u.thread[j].child
          /\ u.thread[i].joins # Nil => u.thread[i].joins # u.thread[j].joins
      BY <1>7, <2>1, <2>7 DEF Parented
    <3>1. CASE i = c
      BY <1>2, <1>7, <3>1
    <3>2. CASE i # c /\ j = c
      BY <1>2, <1>7, <3>2
    <3>3. CASE i # c /\ j # c
      BY <1>7, <3>0, <3>3
    <3>. QED BY <3>1, <3>2, <3>3
  <2>8. Parented(v)
    BY <2>6, <2>7 DEF Parented
  <2>. QED BY <2>2, <2>3, <2>4, <2>5, <2>8 DEF Ledger
<1>13. Stable(k, v) /\ v.current = u.current
  BY <1>4, <1>6, <1>10, <1>11, <1>12 DEF Stable
<1>14. LocalInv(Scheduled(k, v), v)
  BY <1>13, StaysRunning
<1>. QED BY <1>3, <1>9, <1>14 DEF v, a, t, id

-----------------------------------------------------------------------------
(*****************************************************************************)
(* It is kept when the worker collects the results.                          *)
(*****************************************************************************)

(* The locals are different tasks *)
LocalTasks(k) == \A j, l \in DOMAIN k.locals : k.locals[j].task = k.locals[l].task => j = l

(* The worker after it has collected the result of one of its locals *)
NextLocal(k) == IF k.i < Len(k.locals) THEN [k EXCEPT !.i = @ + 1]
                ELSE [k EXCEPT !.at = "top", !.i = 1, !.locals = <<>>]

(* When the worker collects, its threads have ended and have the results of their tasks. *)
LEMMA CollectFacts ==
  ASSUME NEW k, NEW u, LocalInv(k, u), k.at = "collect"
  PROVE  /\ k \in KernelThread /\ u \in AnyScheduler /\ Stable(k, u) /\ u.current = Nil /\ ~u.waiting
         /\ k.i \in Nat /\ k.i >= 1 /\ k.i <= Len(k.locals) /\ Len(k.locals) \in Nat
         /\ DOMAIN k.locals = 1 .. Len(k.locals)
         /\ \A j \in DOMAIN k.locals : k.locals[j] \in Local
         /\ k.locals[k.i].id \in Ids /\ k.locals[k.i].task \in Slots
         /\ ~u.hurt => LET j == k.locals[k.i]
                       IN /\ CanJoin(u, j.id) /\ Ended(u, j.id)
                          /\ u.thread[j.id].routine = j.task /\ u.thread[j.id].retval = j.task
<1>1. /\ k \in KernelThread /\ u \in AnyScheduler /\ Stable(k, u) /\ u.current = Nil /\ ~u.waiting
      /\ k.i \in Nat /\ k.i >= 1 /\ k.i <= Len(k.locals) /\ Len(k.locals) \in Nat
  BY LocalIsStable DEF LocalInv, Phase, Stands
<1>2. k.locals \in Seq(Local)
  BY <1>1 DEF KernelThread
<1>3. DOMAIN k.locals = 1 .. Len(k.locals) /\ \A j \in DOMAIN k.locals : k.locals[j] \in Local
  BY <1>2, LenProperties, ElementOfSeq
<1>4. k.locals[k.i] \in Local
  BY <1>1, <1>3
<1>5. k.locals[k.i].id \in Ids /\ k.locals[k.i].task \in Slots
  BY <1>4 DEF Local
<1>6. ASSUME ~u.hurt
      PROVE  LET j == k.locals[k.i]
             IN /\ CanJoin(u, j.id) /\ Ended(u, j.id)
                /\ u.thread[j.id].routine = j.task /\ u.thread[j.id].retval = j.task
  <2> DEFINE j == k.locals[k.i]
  <2>1. Names(u, j.id, j.task) /\ ~u.thread[j.id].joined /\ AllEnded(u) /\ Kept(u)
    BY <1>1, <1>6 DEF LocalInv, Ledger, LocalsNamed
  <2> HIDE DEF j
  <2>2. j.id \in Ids
    BY <1>5 DEF j
  <2>3. j.id < u.count
    BY <1>1, <2>1, <2>2, Below DEF Names
  <2>. QED BY <2>1, <2>2, <2>3 DEF Names, AllEnded, Kept, CanJoin, Ended, j
<1>. QED BY <1>1, <1>3, <1>5, <1>6

(* One local less, and after the last one none *)
LEMMA NextLocalIs ==
  ASSUME NEW k, NEW u, LocalInv(k, u), k.at = "collect"
  PROVE  LET x == NextLocal(k)
         IN /\ x \in KernelThread /\ Phase(x) /\ x.at # "run" /\ x.batch = <<>> /\ x.queue = k.queue
            /\ Left(x) = Left(k) - 1 /\ Left(k) \in Nat /\ Left(x) \in Nat
            /\ \A j \in x.i .. Len(x.locals) : j \in k.i + 1 .. Len(k.locals) /\ x.locals[j] = k.locals[j]
            /\ x.at \in {"collect", "top"} /\ x.stop = k.stop
            /\ x.at = "top" => k.i = Len(k.locals) /\ x.locals = <<>> /\ x.i = 1
            /\ x.at = "collect" => x.i = k.i + 1 /\ x.locals = k.locals
<1> DEFINE x == NextLocal(k)
<1>1. /\ k \in KernelThread /\ k.i \in Nat /\ k.i >= 1 /\ k.i <= Len(k.locals) /\ Len(k.locals) \in Nat
      /\ Phase(k)
  BY CollectFacts DEF LocalInv
<1>2. k.batch = <<>>
  BY <1>1 DEF Phase
<1>3. CASE k.i < Len(k.locals)
  <2>1. /\ x \in KernelThread /\ x.at = "collect" /\ x.i = k.i + 1 /\ x.batch = <<>> /\ x.queue = k.queue
        /\ x.locals = k.locals /\ x.stop = k.stop
    BY <1>1, <1>2, <1>3 DEF KernelThread, NextLocal
  <2> HIDE DEF x
  <2>2. Phase(x)
    BY <1>1, <1>3, <2>1 DEF Phase
  <2>3. Left(x) = Left(k) - 1 /\ Left(k) \in Nat /\ Left(x) \in Nat
    BY <1>1, <1>3, <2>1 DEF Left
  <2>. QED BY <1>1, <1>3, <2>1, <2>2, <2>3 DEF x
<1>4. CASE k.i = Len(k.locals)
  <2>0. <<>> \in Seq(Local) /\ Len(<<>>) = 0
    BY EmptySeq
  <2>1. /\ x \in KernelThread /\ x.at = "top" /\ x.i = 1 /\ x.batch = <<>> /\ x.queue = k.queue
        /\ x.locals = <<>> /\ x.stop = k.stop
    <3> DEFINE e == <<>>
    <3>1. x = [k EXCEPT !.at = "top", !.i = 1, !.locals = e]
      BY <1>4 DEF NextLocal
    <3>2. e \in Seq(Local) /\ 1 \in Nat
      BY <2>0
    <3> HIDE DEF e, x
    <3>3. /\ x \in KernelThread /\ x.at = "top" /\ x.i = 1 /\ x.batch = k.batch /\ x.queue = k.queue
          /\ x.locals = e /\ x.stop = k.stop
      BY <1>1, <3>1, <3>2 DEF KernelThread
    <3>. QED BY <1>2, <3>3 DEF e, x
  <2> HIDE DEF x
  <2>2. Phase(x)
    BY <2>1 DEF Phase
  <2>3. Left(x) = Left(k) - 1 /\ Left(k) \in Nat /\ Left(x) \in Nat
    BY <1>1, <1>4, <2>0, <2>1 DEF Left
  <2>4. x.i .. Len(x.locals) = {}
    BY <2>0, <2>1
  <2>. QED BY <1>4, <2>1, <2>2, <2>3, <2>4 DEF x
<1>. QED BY <1>1, <1>3, <1>4

(* Collecting a result keeps the invariant: the worker gives the id back. *)
LEMMA CollectKeeps ==
  ASSUME NEW k, NEW u, LocalInv(k, u), k.at = "collect", LocalTasks(k),
         CanJoin(u, k.locals[k.i].id) => Ended(u, k.locals[k.i].id)
  PROVE  LET id == k.locals[k.i].id
             v == IF CanJoin(u, id) THEN Reclaim(MarkJoined(u, id), id) ELSE u
         IN LocalInv(NextLocal(k), v) /\ Routed(u, v)
<1> DEFINE id == k.locals[k.i].id
           task == k.locals[k.i].task
           x == NextLocal(k)
<1>1. /\ k \in KernelThread /\ u \in AnyScheduler /\ Stable(k, u) /\ u.current = Nil /\ ~u.waiting
      /\ k.i \in Nat /\ k.i >= 1 /\ k.i <= Len(k.locals) /\ Len(k.locals) \in Nat
      /\ DOMAIN k.locals = 1 .. Len(k.locals)
      /\ id \in Ids /\ task \in Slots
      /\ ~u.hurt => CanJoin(u, id) /\ Ended(u, id)
  BY CollectFacts
<1>2. /\ x \in KernelThread /\ Phase(x) /\ x.at # "run"
      /\ Left(x) = Left(k) - 1 /\ Left(k) \in Nat /\ Left(x) \in Nat
      /\ \A j \in x.i .. Len(x.locals) : j \in k.i + 1 .. Len(k.locals) /\ x.locals[j] = k.locals[j]
  BY NextLocalIs
<1>3. ASSUME NEW j \in k.i + 1 .. Len(k.locals) PROVE j \in k.i .. Len(k.locals) /\ k.locals[j].task # task
  BY <1>1 DEF LocalTasks
<1>4. Cardinality(Owners(u)) \in Nat /\ u.count \in Int /\ Len(u.free) + Left(k) + Cardinality(Owners(u)) <= u.count
      /\ Len(u.free) \in Nat
  BY <1>1, OwnersCount, LocalIsStable, Counts, Below DEF Stable, Balanced
<1>5. ~u.hurt => /\ Placed(u) /\ Ordered(u) /\ Reusable(u) /\ Parented(u) /\ LocalsNamed(k, u) /\ AllEnded(u)
                 /\ Names(u, id, task)
  BY <1>1 DEF LocalInv, Ledger, LocalsNamed
<1> HIDE DEF id, task, x
<1>6. ASSUME ~CanJoin(u, id) PROVE LocalInv(x, u) /\ Routed(u, u)
  <2>1. u.hurt
    BY <1>1, <1>6
  <2>2. Balanced(x, u)
    BY <1>2, <1>4 DEF Balanced
  <2>. QED BY <1>1, <1>2, <2>1, <2>2 DEF LocalInv, Stable, Routed
<1>7. ASSUME CanJoin(u, id)
      PROVE  LET v == Reclaim(MarkJoined(u, id), id) IN LocalInv(x, v) /\ Routed(u, v)
  <2> DEFINE t == [u.thread[id] EXCEPT !.joined = TRUE]
             b == [u EXCEPT !.thread[id] = t]
             v == Reclaim(b, id)
  <2>1. MarkJoined(u, id) = b
    BY DEF MarkJoined
  <2>2. u.thread[id] \in Thread
    BY <1>1 DEF AnyScheduler
  <2>3. /\ t \in Thread /\ t.child = u.thread[id].child /\ t.joins = u.thread[id].joins
        /\ t.spawned = u.thread[id].spawned /\ t.state = u.thread[id].state
        /\ t.passed = u.thread[id].passed /\ t.routine = u.thread[id].routine /\ t.retval = u.thread[id].retval
    BY <2>2 DEF Thread
  <2> HIDE DEF t
  <2>4. /\ b \in AnyScheduler /\ b.free = u.free /\ b.count = u.count
        /\ b.current = u.current /\ b.waiting = u.waiting /\ b.hurt = u.hurt /\ b.unfair = u.unfair
        /\ \A j \in Ids : b.thread[j] = IF j = id THEN t ELSE u.thread[j]
    BY <1>1, <2>3, ThreadChanged
  <2> HIDE DEF b
  <2>5. /\ v \in AnyScheduler /\ v.free = Append(b.free, id) /\ v.thread = b.thread /\ v.count = b.count
        /\ v.current = b.current /\ v.waiting = b.waiting /\ v.hurt = b.hurt /\ v.unfair = b.unfair
    BY <1>1, <2>4, ReclaimIs
  <2> HIDE DEF v
  <2>6. \A i \in Ids : /\ v.thread[i].child = u.thread[i].child /\ v.thread[i].joins = u.thread[i].joins
                       /\ v.thread[i].spawned = u.thread[i].spawned /\ v.thread[i].state = u.thread[i].state
                       /\ v.thread[i].passed = u.thread[i].passed /\ v.thread[i].routine = u.thread[i].routine
                       /\ v.thread[i].retval = u.thread[i].retval
                       /\ i # id => v.thread[i].joined = u.thread[i].joined
    BY <2>3, <2>4, <2>5
  <2>7. /\ Len(v.free) = Len(u.free) + 1
        /\ \A i \in Ids : \A q : Names(u, i, q) /\ i # id => Names(v, i, q)
        /\ Reusable(u) /\ Ended(u, id) /\ (\E q : Names(u, id, q)) => Reusable(v)
    BY <1>1, <2>4, <2>5, <2>6, Recycled
  <2>8. Routed(u, v)
    BY <2>4, <2>5, <2>6 DEF Routed
  <2>9. Stands(v) /\ Kept(v)
    BY <1>1, <2>4, <2>5, <2>6 DEF Stable, Stands, Kept
  <2>10. Balanced(x, v)
    <3>1. Owners(v) = Owners(u)
      BY <2>6 DEF Owners
    <3>. QED BY <1>2, <1>4, <2>4, <2>5, <2>7, <3>1 DEF Balanced
  <2>11. ASSUME ~u.hurt PROVE Placed(v) /\ Ordered(v) /\ Ledger(x, v) /\ AllEnded(v)
    <3>1. /\ Placed(u) /\ Ordered(u) /\ Reusable(u) /\ LocalsNamed(k, u) /\ AllEnded(u) /\ Names(u, id, task)
          /\ Parented(u) /\ Ended(u, id)
      BY <1>1, <1>5, <2>11
    <3>2. AllEnded(v)
      BY <2>4, <2>5, <2>6, <3>1 DEF AllEnded
    <3>3. Placed(v)
      BY <1>1, <2>4, <2>5, <2>6, <3>1 DEF Placed
    <3>4. Ordered(v)
      BY <2>4, <2>5, <2>6, <3>1 DEF Ordered
    <3>5. Reusable(v)
      BY <2>7, <3>1
    <3>6. LocalsNamed(x, v)
      <4>1. ASSUME NEW j \in x.i .. Len(x.locals)
            PROVE  Names(v, x.locals[j].id, x.locals[j].task) /\ ~v.thread[x.locals[j].id].joined
        <5>1. j \in k.i .. Len(k.locals) /\ x.locals[j] = k.locals[j] /\ k.locals[j].task # task
          BY <1>2, <1>3
        <5>2. Names(u, k.locals[j].id, k.locals[j].task) /\ ~u.thread[k.locals[j].id].joined
          BY <3>1, <5>1 DEF LocalsNamed
        <5>3. k.locals[j].id \in Ids /\ k.locals[j].id # id
          BY <1>1, <3>1, <5>1, <5>2, Below DEF Names
        <5>. QED BY <2>6, <2>7, <5>1, <5>2, <5>3
      <4>. QED BY <4>1 DEF LocalsNamed
    <3>7. Parented(v)
      <4>1. ASSUME NEW i \in Ids, v.thread[i].state # "FINISHED"
            PROVE  /\ v.thread[i].child # Nil => Names(v, v.thread[i].child, Child) /\ ~v.thread[v.thread[i].child].joined
                   /\ v.thread[i].joins # Nil => Names(v, v.thread[i].joins, Child) /\ v.thread[v.thread[i].joins].joined
        <5>0. u.thread[i].child \in Ids \cup {Nil} /\ u.thread[i].joins \in Ids \cup {Nil} /\ u.thread[i].state # "FINISHED"
              /\ v.thread[i].child = u.thread[i].child /\ v.thread[i].joins = u.thread[i].joins
          BY <1>1, <2>6, <4>1 DEF AnyScheduler, Thread
        <5>1. \A j : Names(u, j, Child) => j # id
          BY <1>1, <3>1, ChildAssumption DEF Names
        <5>2. ASSUME u.thread[i].child # Nil
              PROVE  Names(v, u.thread[i].child, Child) /\ ~v.thread[u.thread[i].child].joined
          <6>1. u.thread[i].child \in Ids /\ Names(u, u.thread[i].child, Child) /\ ~u.thread[u.thread[i].child].joined
            BY <3>1, <5>0, <5>2 DEF Parented
          <6>. QED BY <2>6, <2>7, <5>1, <6>1
        <5>3. ASSUME u.thread[i].joins # Nil
              PROVE  Names(v, u.thread[i].joins, Child) /\ v.thread[u.thread[i].joins].joined
          <6>1. u.thread[i].joins \in Ids /\ Names(u, u.thread[i].joins, Child) /\ u.thread[u.thread[i].joins].joined
            BY <3>1, <5>0, <5>3 DEF Parented
          <6>. QED BY <2>6, <2>7, <5>1, <6>1
        <5>. QED BY <5>0, <5>2, <5>3
      <4>2. ASSUME NEW i \in Ids, NEW j \in Ids, v.thread[i].state # "FINISHED", v.thread[j].state # "FINISHED", i # j
            PROVE  /\ v.thread[i].child # Nil => v.thread[i].child # v.thread[j].child
                   /\ v.thread[i].joins # Nil => v.thread[i].joins # v.thread[j].joins
        BY <2>6, <3>1, <4>2 DEF Parented
      <4>. QED BY <4>1, <4>2 DEF Parented
    <3>. QED BY <3>2, <3>3, <3>4, <3>5, <3>6, <3>7 DEF Ledger
  <2>12. LocalInv(x, v)
    BY <1>1, <1>2, <2>4, <2>5, <2>9, <2>10, <2>11 DEF LocalInv
  <2>. QED BY <2>1, <2>8, <2>12 DEF v
<1>8. CASE CanJoin(u, id)
  BY <1>7, <1>8 DEF id, x
<1>9. CASE ~CanJoin(u, id)
  BY <1>6, <1>9 DEF id, x
<1>. QED BY <1>8, <1>9

-----------------------------------------------------------------------------
(*****************************************************************************)
(* The actions of a worker.                                                  *)
(*****************************************************************************)

(* TypeOK without the lengths *)
Mains == [at : {"down", "init", "up", "stop", "join"}, n : 0 .. MaxWorkers, created : 0 .. MaxWorkers,
          i : 0 .. MaxWorkers, inits : 0 .. MaxInits, initialized : BOOLEAN]

MappedThread == [used : BOOLEAN, worker : Workers \cup {Nil}, finished : BOOLEAN, joined : BOOLEAN,
                 retval : Routines \cup {Nil}]
Caller == [at : {"idle", "create", "join"}, slot : Slots \cup {Nil}]

Typed ==
  /\ main \in Mains
  /\ next_worker \in 0 .. MaxThreads
  /\ slot \in [Slots -> MappedThread]
  /\ client \in [Clients -> Caller]
  /\ worker \in [Workers -> KernelThread]
  /\ sched \in [Workers -> AnyScheduler]
  /\ made \subseteq Slots
  /\ refused \subseteq Slots
  /\ ran \in [Slots -> 0 .. 1]

(* The invariant of every worker *)
Locally == \A w \in Workers : LocalInv(worker[w], sched[w])

(* A kernel thread that exists and has not ended *)
Alive(k) == k.at \notin {"none", "end"}

(* A step of worker w and its scheduler *)
Moves(w) == \E x \in KernelThread, v \in AnyScheduler :
  /\ worker' = [worker EXCEPT ![w] = x] /\ sched' = [sched EXCEPT ![w] = v]
  /\ LocalInv(x, v)
  /\ x.stop = worker[w].stop
  /\ Alive(worker[w]) /\ (Alive(x) \/ x.stop)
  /\ sched[w].hurt => v.hurt
  /\ UNCHANGED <<main, next_worker>>

(* A step of a user thread of w that does not return from its routine *)
Careful(u, v) == /\ u.hurt => v.hurt
                 /\ \A i \in Ids : v.thread[i].routine \in Slots =>
                      /\ u.thread[i].routine = v.thread[i].routine
                      /\ v.thread[i].state = "FINISHED" <=> u.thread[i].state = "FINISHED"
                      /\ v.thread[i].state = "NEW" => u.thread[i].state = "NEW"

(* The worker has the same tasks in its hands *)
Carries(k, x) == x.queue = k.queue /\ x.batch = k.batch /\ x.locals = k.locals /\ x.i = k.i

(* A step of w in which no task starts, returns or is collected *)
UserTurn(w) == \E x \in KernelThread, v \in AnyScheduler :
  /\ worker' = [worker EXCEPT ![w] = x] /\ sched' = [sched EXCEPT ![w] = v]
  /\ LocalInv(x, v) /\ Careful(sched[w], v) /\ Carries(worker[w], x)
  /\ x.stop = worker[w].stop /\ Alive(worker[w]) /\ (Alive(x) \/ x.stop)
  /\ UNCHANGED <<main, next_worker, slot, client, made, refused, ran>>

(* A step of the scheduler in which nobody returns is careful. *)
LEMMA RoutedIsCareful ==
  ASSUME NEW u, NEW v, Routed(u, v)
  PROVE  Careful(u, v)
BY DEF Routed, Careful

(* The worker goes on to another place, outside of uthread_run. *)
LEMMA OtherPlace ==
  ASSUME NEW k, NEW u, LocalInv(k, u), NEW x \in KernelThread, Phase(x),
         x.locals = k.locals, x.i = k.i, k.at # "run", x.at \notin {"run", "collect"}
  PROVE  LocalInv(x, u)
BY DEF LocalInv, Balanced, Left, Ledger, LocalsNamed

(* Going on in uthread_run, or out of it, keeps the tasks in their places. *)
LEMMA ScheduledIs ==
  ASSUME NEW k \in KernelThread, NEW v
  PROVE  /\ Scheduled(k, v) \in KernelThread /\ Carries(k, Scheduled(k, v)) /\ Alive(Scheduled(k, v))
         /\ Scheduled(k, v).stop = k.stop
         /\ Scheduled(k, v) = [k EXCEPT !.at = IF v.current = Nil THEN "collect" ELSE "run"]
BY DEF Scheduled, KernelThread, Carries, Alive

(* How the actions of user threads are turns of their worker *)
LEMMA ScheduleTurns ==
  ASSUME Typed, NEW w \in Workers, NEW v, LocalInv(Scheduled(worker[w], v), v), Careful(sched[w], v),
         worker[w].at \in {"start", "run"}, Schedule(w, v),
         UNCHANGED <<main, next_worker, slot, client, made, refused, ran>>
  PROVE  UserTurn(w)
<1> DEFINE k == worker[w]
           x == Scheduled(k, v)
<1>1. k \in KernelThread /\ worker \in [Workers -> KernelThread]
  BY DEF Typed
<1>2. /\ x \in KernelThread /\ Carries(k, x) /\ Alive(x) /\ x.stop = k.stop
      /\ x = [k EXCEPT !.at = IF v.current = Nil THEN "collect" ELSE "run"]
  BY <1>1, ScheduledIs
<1>3. worker' = [worker EXCEPT ![w] = x]
  BY <1>1, <1>2 DEF Schedule
<1>4. sched' = [sched EXCEPT ![w] = v] /\ v \in AnyScheduler /\ Alive(k)
  BY DEF Schedule, LocalInv, Alive
<1> HIDE DEF x
<1>. QED BY <1>2, <1>3, <1>4 DEF UserTurn, x

(* A turn is a step of its worker. *)
LEMMA UserTurnMoves ==
  ASSUME NEW w \in Workers, UserTurn(w)
  PROVE  Moves(w)
BY DEF UserTurn, Moves, Carries, Careful

(* uthread_yield is a turn. *)
LEMMA YieldTurns ==
  ASSUME Typed, Locally, NEW w \in Workers, Yields(w)
  PROVE  UserTurn(w)
<1> DEFINE k == worker[w]
           u == sched[w]
<1>1. LocalInv(k, u) /\ k.at = "run" /\ ~u.waiting
  BY DEF Locally, Yields, Running
<1>2. PICK due \in SUBSET InState(u, "SLEEPING") : Schedule(w, Yield(u, due))
  BY Zenon DEF Yields, Sleepers
<1>3. UNCHANGED <<main, next_worker, slot, client, made, refused, ran>>
  BY DEF Yields, Others
<1>4. LocalInv(Scheduled(k, Yield(u, due)), Yield(u, due)) /\ Careful(u, Yield(u, due))
  BY <1>1, YieldKeeps, RoutedIsCareful
<1>. QED BY <1>1, <1>2, <1>3, <1>4, ScheduleTurns

(* uthread_sleep is a turn. *)
LEMMA SleepTurns ==
  ASSUME Typed, Locally, NEW w \in Workers, Sleeps(w)
  PROVE  UserTurn(w)
<1> DEFINE k == worker[w]
           u == sched[w]
<1>1. LocalInv(k, u) /\ k.at = "run" /\ ~u.waiting
  BY DEF Locally, Sleeps, Running
<1>2. PICK due \in SUBSET (InState(u, "SLEEPING") \cup {u.current}) : Schedule(w, Sleep(u, due))
  BY Zenon DEF Sleeps, Sleepers
<1>3. UNCHANGED <<main, next_worker, slot, client, made, refused, ran>>
  BY DEF Sleeps, Others
<1>4. LocalInv(Scheduled(k, Sleep(u, due)), Sleep(u, due)) /\ Careful(u, Sleep(u, due))
  BY <1>1, SleepKeeps, RoutedIsCareful
<1>. QED BY <1>1, <1>2, <1>3, <1>4, ScheduleTurns

(* The end of the wait for a sleeper is a turn. *)
LEMMA WakeTurns ==
  ASSUME Typed, Locally, NEW w \in Workers, Wakes(w)
  PROVE  UserTurn(w)
<1> DEFINE k == worker[w]
           u == sched[w]
<1>1. LocalInv(k, u) /\ k.at = "run"
  BY DEF Locally, Wakes
<1>2. PICK i \in InState(u, "SLEEPING") : Schedule(w, WakeUp(u, i))
  BY Zenon DEF Wakes, Sleepers
<1>3. UNCHANGED <<main, next_worker, slot, client, made, refused, ran>>
  BY DEF Wakes, Others
<1>4. LocalInv(Scheduled(k, WakeUp(u, i)), WakeUp(u, i)) /\ Careful(u, WakeUp(u, i))
  BY <1>1, WakeUpKeeps, RoutedIsCareful
<1>. QED BY <1>1, <1>2, <1>3, <1>4, ScheduleTurns

(* The start of uthread_run is a turn, and so is a batch of which no task could be started. *)
LEMMA StartRunTurns ==
  ASSUME Typed, Locally, NEW w \in Workers, StartRun(w)
  PROVE  UserTurn(w)
<1> DEFINE k == worker[w]
           u == sched[w]
<1>1. LocalInv(k, u) /\ k.at = "start" /\ k.batch = <<>> /\ k \in KernelThread /\ u \in AnyScheduler
      /\ worker \in [Workers -> KernelThread] /\ sched \in [Workers -> AnyScheduler]
  BY DEF Typed, Locally, StartRun
<1>2. UNCHANGED <<main, next_worker, slot, client, made, refused, ran>>
  BY DEF StartRun, history
<1>3. CASE k.locals # <<>>
  <2>1. Schedule(w, Run(u))
    BY <1>3 DEF StartRun
  <2>2. LocalInv(Scheduled(k, Run(u)), Run(u)) /\ Careful(u, Run(u))
    BY <1>1, <1>3, RunKeeps, RoutedIsCareful
  <2>. QED BY <1>1, <1>2, <2>1, <2>2, ScheduleTurns
<1>4. CASE k.locals = <<>>
  <2> DEFINE x == [k EXCEPT !.at = "top"]
  <2>1. worker' = [worker EXCEPT ![w] = x] /\ sched' = sched
    BY <1>1, <1>4 DEF StartRun, At
  <2>2. x \in KernelThread /\ Carries(k, x) /\ x.at = "top" /\ x.stop = k.stop
    BY <1>1 DEF KernelThread, Carries
  <2> HIDE DEF x
  <2>3. Phase(x)
    BY <1>1, <1>4, <2>2 DEF LocalInv, Phase, Carries
  <2>4. LocalInv(x, u)
    BY <1>1, <2>2, <2>3, OtherPlace DEF Carries
  <2>5. sched' = [sched EXCEPT ![w] = u]
    BY <1>1, <2>1
  <2>6. Careful(u, u)
    BY DEF Careful
  <2>7. Alive(k) /\ Alive(x)
    BY <1>1, <2>2 DEF Alive
  <2> HIDE DEF k, u
  <2>. QED BY <1>1, <1>2, <2>1, <2>2, <2>4, <2>5, <2>6, <2>7 DEF UserTurn, k, u
<1>. QED BY <1>3, <1>4

(* Creating a child is a turn. *)
LEMMA SpawnTurns ==
  ASSUME Typed, Locally, NEW w \in Workers, Spawn(w)
  PROVE  UserTurn(w)
<1> DEFINE k == worker[w]
           u == sched[w]
           a == Tried(u)
           n == NextId(a)
           v == Create([a EXCEPT !.thread[a.current].child = n], Child)
           f == IF HasRoom(a) THEN CreateFails(a) ELSE a
<1>1. LocalInv(k, u) /\ k.at = "run" /\ ~u.waiting /\ ~u.thread[u.current].spawned
  BY DEF Locally, Spawn, Running, Me
<1>2. (HasRoom(a) /\ Schedule(w, v)) \/ Schedule(w, f)
  BY DEF Spawn, Tried
<1>3. UNCHANGED <<main, next_worker, slot, client, made, refused, ran>>
  BY DEF Spawn, Others
<1>4. CASE HasRoom(a) /\ Schedule(w, v)
  <2>1. /\ LocalInv(Scheduled(k, v), v)
        /\ v.hurt = u.hurt /\ n \in Ids
        /\ v.thread[n] = Created(Child)
        /\ \A i \in Ids : i # n => /\ v.thread[i].routine = u.thread[i].routine
                                   /\ v.thread[i].state = u.thread[i].state
    BY <1>1, <1>4, SpawnKeeps
  <2> HIDE DEF v, n
  <2>2. v.thread[n].routine \notin Slots
    BY <2>1, ChildAssumption DEF Created, Blank
  <2>3. Careful(u, v)
    BY <2>1, <2>2 DEF Careful
  <2>. QED BY <1>1, <1>3, <1>4, <2>1, <2>3, ScheduleTurns
<1>5. CASE Schedule(w, f)
  <2>1. Stable(k, a) /\ Steady(u, a) /\ Routed(u, a)
    BY <1>1, TriedIs
  <2>2. k \in KernelThread /\ k.i <= Len(k.locals) + 1
    BY <1>1, LocalIsStable
  <2>3. /\ Stable(k, f) /\ f.current = a.current /\ (a.hurt => f.hurt)
        /\ \A i \in Ids : f.thread[i] = a.thread[i] \/ f.thread[i] = Blank
    <3>1. CASE HasRoom(a)
      <4> DEFINE y == CreateFails(a)
      <4>1. /\ Stable(k, y) /\ y.current = a.current /\ (a.hurt => y.hurt)
            /\ \A i \in Ids : y.thread[i] = IF i = NextId(a) THEN Blank ELSE a.thread[i]
        BY <2>1, <2>2, <3>1, CreateFailsKeeps
      <4> HIDE DEF y
      <4>2. \A i \in Ids : y.thread[i] = a.thread[i] \/ y.thread[i] = Blank
        BY <4>1
      <4>3. f = y
        BY <3>1 DEF y
      <4> HIDE DEF f
      <4>. QED BY <4>1, <4>2, <4>3
    <3>2. CASE ~HasRoom(a)
      BY <2>1, <3>2
    <3>. QED BY <3>1, <3>2
  <2> HIDE DEF f, a
  <2>4. LocalInv(Scheduled(k, f), f)
    BY <1>1, <2>1, <2>3, StaysRunning DEF Steady
  <2>5. Blank.routine \notin Slots
    BY MaxThreadsAssumption DEF Blank, Slots
  <2>6. Careful(u, f)
    BY <2>1, <2>3, <2>5 DEF Careful, Routed
  <2>. QED BY <1>1, <1>3, <1>5, <2>4, <2>6, ScheduleTurns
<1>. QED BY <1>2, <1>4, <1>5

(* The checks of uthread_join are a turn. *)
LEMMA CallJoinTurns ==
  ASSUME Typed, Locally, NEW w \in Workers, CallJoin(w)
  PROVE  UserTurn(w)
<1> DEFINE k == worker[w]
           u == sched[w]
           id == u.thread[u.current].child
           a == [u EXCEPT !.thread[u.current].child = Nil]
           v == IF CanJoin(u, id) THEN [MarkJoined(a, id) EXCEPT !.thread[u.current].joins = id] ELSE a
<1>1. LocalInv(k, u) /\ k.at = "run" /\ ~u.waiting /\ id # Nil
  BY DEF Locally, CallJoin, Running, Me
<1>2. Schedule(w, v)
  BY DEF CallJoin, Me
<1>3. UNCHANGED <<main, next_worker, slot, client, made, refused, ran>>
  BY DEF CallJoin, Others
<1>4. LocalInv(Scheduled(k, v), v) /\ Routed(u, v)
  BY <1>1, CallJoinKeeps
<1> HIDE DEF v
<1>5. Careful(u, v)
  BY <1>4, RoutedIsCareful
<1>. QED BY <1>1, <1>2, <1>3, <1>4, <1>5, ScheduleTurns

(* The loop of uthread_join and its end are turns. *)
LEMMA AwaitTurns ==
  ASSUME Typed, Locally, NEW w \in Workers, AwaitChild(w)
  PROVE  UserTurn(w)
<1> DEFINE k == worker[w]
           u == sched[w]
           id == u.thread[u.current].joins
           v == [Reclaim(u, id) EXCEPT !.thread[u.current].joins = Nil]
<1>1. LocalInv(k, u) /\ k.at = "run" /\ ~u.waiting /\ id # Nil
  BY DEF Locally, AwaitChild, Me
<1>3. UNCHANGED <<main, next_worker, slot, client, made, refused, ran>>
  BY DEF AwaitChild, Others
<1>4. CASE Ended(u, id)
  <2>1. Schedule(w, v)
    BY <1>4 DEF AwaitChild, Me
  <2>2. LocalInv(Scheduled(k, v), v) /\ Routed(u, v)
    BY <1>1, <1>4, AwaitedKeeps
  <2> HIDE DEF v
  <2>3. Careful(u, v)
    BY <2>2, RoutedIsCareful
  <2>. QED BY <1>1, <1>3, <2>1, <2>2, <2>3, ScheduleTurns
<1>5. CASE ~Ended(u, id)
  <2>1. PICK due \in SUBSET InState(u, "SLEEPING") : Schedule(w, Yield(u, due))
    BY <1>5, Zenon DEF AwaitChild, Me, Sleepers
  <2>2. LocalInv(Scheduled(k, Yield(u, due)), Yield(u, due)) /\ Careful(u, Yield(u, due))
    BY <1>1, YieldKeeps, RoutedIsCareful
  <2>. QED BY <1>1, <1>3, <2>1, <2>2, ScheduleTurns
<1>. QED BY <1>4, <1>5

(* The moves of a worker that are not steps of its user threads *)
LEMMA SpuriousTurns ==
  ASSUME Typed, Locally, NEW w \in Workers, SpuriousWakeup(w)
  PROVE  UserTurn(w)
<1> DEFINE k == worker[w]
           u == sched[w]
           x == [k EXCEPT !.at = "top"]
<1>1. LocalInv(k, u) /\ k.at = "asleep" /\ k \in KernelThread /\ u \in AnyScheduler
      /\ worker \in [Workers -> KernelThread] /\ sched \in [Workers -> AnyScheduler]
  BY DEF Typed, Locally, SpuriousWakeup, At
<1>2. UNCHANGED <<main, next_worker, slot, client, made, refused, ran>>
  BY DEF SpuriousWakeup, history
<1>3. worker' = [worker EXCEPT ![w] = x] /\ sched' = [sched EXCEPT ![w] = u]
  BY <1>1 DEF SpuriousWakeup, At
<1>4. x \in KernelThread /\ Carries(k, x) /\ x.at = "top" /\ x.stop = k.stop
  BY <1>1 DEF KernelThread, Carries
<1> HIDE DEF x
<1>5. Phase(x)
  BY <1>1, <1>4 DEF LocalInv, Phase, Carries
<1>6. LocalInv(x, u)
  BY <1>1, <1>4, <1>5, OtherPlace DEF Carries
<1>7. Careful(u, u) /\ Alive(k) /\ Alive(x)
  BY <1>1, <1>4 DEF Careful, Alive
<1> HIDE DEF k, u
<1>. QED BY <1>1, <1>2, <1>3, <1>4, <1>6, <1>7 DEF UserTurn, k, u

(* A worker that finds no task goes to sleep, or ends if it has been told to stop. *)
LEMMA LookTurns ==
  ASSUME Typed, Locally, NEW w \in Workers, Look(w), worker[w].queue = <<>>
  PROVE  UserTurn(w)
<1> DEFINE k == worker[w]
           u == sched[w]
           x == [k EXCEPT !.at = IF k.stop THEN "end" ELSE "asleep"]
<1>1. LocalInv(k, u) /\ k.at = "top" /\ k \in KernelThread /\ u \in AnyScheduler
      /\ worker \in [Workers -> KernelThread] /\ sched \in [Workers -> AnyScheduler]
  BY DEF Typed, Locally, Look
<1>2. UNCHANGED <<main, next_worker, slot, client, made, refused, ran>>
  BY DEF Look, history
<1>3. worker' = [worker EXCEPT ![w] = x] /\ sched' = [sched EXCEPT ![w] = u]
  BY <1>1 DEF Look, history
<1>4. x \in KernelThread /\ Carries(k, x) /\ x.at = (IF k.stop THEN "end" ELSE "asleep") /\ x.stop = k.stop
  BY <1>1 DEF KernelThread, Carries
<1> HIDE DEF x
<1>5. Phase(x)
  BY <1>1, <1>4 DEF LocalInv, Phase, Carries
<1>6. LocalInv(x, u)
  BY <1>1, <1>4, <1>5, OtherPlace DEF Carries
<1>7. Careful(u, u) /\ Alive(k) /\ (Alive(x) \/ x.stop)
  BY <1>1, <1>4 DEF Careful, Alive
<1> HIDE DEF k, u
<1>. QED BY <1>1, <1>2, <1>3, <1>4, <1>6, <1>7 DEF UserTurn, k, u

(* Taking the queue as the next batch *)
LEMMA LookMoves ==
  ASSUME Typed, Locally, NEW w \in Workers, Look(w), worker[w].queue # <<>>
  PROVE  LET x == [worker[w] EXCEPT !.at = "start", !.batch = worker[w].queue, !.queue = <<>>]
         IN /\ Moves(w) /\ worker' = [worker EXCEPT ![w] = x] /\ sched' = sched
            /\ x.queue = <<>> /\ x.batch = worker[w].queue /\ x.locals = worker[w].locals /\ x.i = worker[w].i
            /\ worker[w].batch = <<>> /\ worker[w].locals = <<>>
            /\ UNCHANGED <<slot, client, made, refused, ran>>
<1> DEFINE k == worker[w]
           u == sched[w]
           e == <<>>
           x == [k EXCEPT !.at = "start", !.batch = k.queue, !.queue = e]
<1>1. LocalInv(k, u) /\ k.at = "top" /\ k \in KernelThread /\ u \in AnyScheduler
      /\ worker \in [Workers -> KernelThread] /\ sched \in [Workers -> AnyScheduler]
  BY DEF Typed, Locally, Look
<1>2. UNCHANGED <<main, next_worker, slot, client, made, refused, ran>>
  BY DEF Look, history
<1>3. worker' = [worker EXCEPT ![w] = x] /\ sched' = [sched EXCEPT ![w] = u] /\ sched' = sched
  BY <1>1 DEF Look, history
<1>0. e \in Seq(Slots)
  BY EmptySeq
<1> HIDE DEF e
<1>4. /\ x \in KernelThread /\ x.at = "start" /\ x.stop = k.stop /\ x.queue = e /\ x.batch = k.queue
      /\ x.locals = k.locals /\ x.i = k.i
  BY <1>0, <1>1 DEF KernelThread
<1>9. k.batch = <<>> /\ k.locals = <<>>
  BY <1>1 DEF LocalInv, Phase
<1> HIDE DEF x
<1>5. Phase(x)
  BY <1>1, <1>4 DEF LocalInv, Phase
<1>6. LocalInv(x, u)
  BY <1>1, <1>4, <1>5, OtherPlace
<1>7. Alive(k) /\ Alive(x)
  BY <1>1, <1>4 DEF Alive
<1> HIDE DEF k, u
<1>8. Moves(w)
  BY <1>1, <1>2, <1>3, <1>4, <1>6, <1>7 DEF Moves, k, u
<1>. QED BY <1>2, <1>3, <1>4, <1>8, <1>9 DEF x, k, e

(* Starting a task *)
LEMMA StartTaskMoves ==
  ASSUME Typed, Locally, NEW w \in Workers, StartTask(w)
  PROVE  LET k == worker[w]
             s == Head(k.batch)
             n == NextId(sched[w])
             v == Create(sched[w], s)
             x == [k EXCEPT !.batch = Tail(@), !.locals = Append(@, [id |-> n, task |-> s])]
         IN /\ Moves(w) /\ worker' = [worker EXCEPT ![w] = x] /\ sched' = [sched EXCEPT ![w] = v]
            /\ n \in Ids /\ \A i \in Ids : v.thread[i] = IF i = n THEN Created(s) ELSE sched[w].thread[i]
            /\ v.hurt = sched[w].hurt
            /\ k.batch # <<>> /\ k.i = 1
            /\ UNCHANGED <<slot, client, made, refused, ran>>
<1> DEFINE k == worker[w]
           u == sched[w]
           s == Head(k.batch)
           n == NextId(u)
           v == Create(u, s)
           x == [k EXCEPT !.batch = Tail(@), !.locals = Append(@, [id |-> n, task |-> s])]
<1>1. LocalInv(k, u) /\ k.at = "start" /\ k.batch # <<>> /\ HasRoom(u) /\ k \in KernelThread /\ u \in AnyScheduler
      /\ worker \in [Workers -> KernelThread] /\ sched \in [Workers -> AnyScheduler]
  BY DEF Typed, Locally, StartTask
<1>2. UNCHANGED <<main, next_worker, slot, client, made, refused, ran>>
  BY DEF StartTask, history
<1>3. worker' = [worker EXCEPT ![w] = x] /\ sched' = [sched EXCEPT ![w] = v]
  BY <1>1 DEF StartTask
<1>4. /\ LocalInv(x, v) /\ v.hurt = u.hurt /\ n \in Ids
      /\ \A i \in Ids : v.thread[i] = IF i = n THEN Created(s) ELSE u.thread[i]
  BY <1>1, StartTaskKeeps
<1>5. k.i = 1
  BY <1>1 DEF LocalInv, Phase
<1> DEFINE q == Tail(k.batch)
           l == Append(k.locals, [id |-> n, task |-> s])
<1>6. x = [k EXCEPT !.batch = q, !.locals = l]
  OBVIOUS
<1> HIDE DEF q, l, x, v, n, s
<1>7. x.stop = k.stop /\ x.at = k.at
  BY <1>1, <1>6 DEF KernelThread
<1>8. x \in KernelThread /\ v \in AnyScheduler /\ Alive(k) /\ Alive(x)
  BY <1>1, <1>4, <1>7 DEF LocalInv, Alive
<1> HIDE DEF k, u
<1>9. Moves(w)
  BY <1>2, <1>3, <1>4, <1>7, <1>8 DEF Moves, k, u
<1>. QED BY <1>1, <1>2, <1>3, <1>4, <1>5, <1>9 DEF x, v, n, s, k, u

(* Failing to start one *)
LEMMA StartFailsMoves ==
  ASSUME Typed, Locally, NEW w \in Workers, StartFails(w)
  PROVE  LET k == worker[w]
             v == IF HasRoom(sched[w]) THEN CreateFails(sched[w]) ELSE sched[w]
             x == [k EXCEPT !.batch = Tail(@)]
         IN /\ Moves(w) /\ worker' = [worker EXCEPT ![w] = x] /\ sched' = [sched EXCEPT ![w] = v]
            /\ Careful(sched[w], v)
            /\ k.batch # <<>> /\ k.i = 1
            /\ Publish(Head(k.batch), Nil) /\ refused' = refused \cup {Head(k.batch)} /\ UNCHANGED <<made, ran>>
<1> DEFINE k == worker[w]
           u == sched[w]
           v == IF HasRoom(u) THEN CreateFails(u) ELSE u
           x == [k EXCEPT !.batch = Tail(@)]
<1>1. LocalInv(k, u) /\ k.at = "start" /\ k.batch # <<>> /\ k \in KernelThread /\ u \in AnyScheduler
      /\ worker \in [Workers -> KernelThread] /\ sched \in [Workers -> AnyScheduler]
  BY DEF Typed, Locally, StartFails
<1>2. /\ UNCHANGED <<main, next_worker, made, ran>>
      /\ Publish(Head(k.batch), Nil) /\ refused' = refused \cup {Head(k.batch)}
  BY DEF StartFails
<1>3. worker' = [worker EXCEPT ![w] = x] /\ sched' = [sched EXCEPT ![w] = v]
  BY <1>1 DEF StartFails
<1>4. /\ LocalInv(x, v) /\ (u.hurt => v.hurt)
      /\ \A i \in Ids : v.thread[i] = u.thread[i] \/ v.thread[i] = Blank
  BY <1>1, StartFailsKeeps
<1>5. k.i = 1
  BY <1>1 DEF LocalInv, Phase
<1> DEFINE q == Tail(k.batch)
<1>6. x = [k EXCEPT !.batch = q]
  OBVIOUS
<1> HIDE DEF q, x, v
<1>7. x.stop = k.stop /\ x.at = k.at
  BY <1>1, <1>6 DEF KernelThread
<1>8. x \in KernelThread /\ v \in AnyScheduler /\ Alive(k) /\ Alive(x)
  BY <1>1, <1>4, <1>7 DEF LocalInv, Alive
<1>10. Blank.routine \notin Slots
  BY MaxThreadsAssumption DEF Blank, Slots
<1>11. Careful(u, v)
  BY <1>4, <1>10 DEF Careful
<1> HIDE DEF k, u
<1>9. Moves(w)
  BY <1>2, <1>3, <1>4, <1>7, <1>8 DEF Moves, k, u
<1>. QED BY <1>1, <1>2, <1>3, <1>5, <1>9, <1>11 DEF x, v, k, u

(* Collecting a result *)
LEMMA CollectMoves ==
  ASSUME Typed, Locally, NEW w \in Workers, Collect(w), LocalTasks(worker[w])
  PROVE  LET k == worker[w]
             u == sched[w]
             id == k.locals[k.i].id
             v == IF CanJoin(u, id) THEN Reclaim(MarkJoined(u, id), id) ELSE u
             x == NextLocal(k)
         IN /\ Moves(w) /\ worker' = [worker EXCEPT ![w] = x] /\ sched' = [sched EXCEPT ![w] = v]
            /\ Careful(u, v)
            /\ k.at = "collect"
            /\ Publish(k.locals[k.i].task, IF CanJoin(u, id) THEN u.thread[id].retval ELSE Nil)
            /\ UNCHANGED <<made, refused, ran>>
<1> DEFINE k == worker[w]
           u == sched[w]
           id == k.locals[k.i].id
           v == IF CanJoin(u, id) THEN Reclaim(MarkJoined(u, id), id) ELSE u
           x == NextLocal(k)
<1>1. LocalInv(k, u) /\ k.at = "collect" /\ k \in KernelThread /\ u \in AnyScheduler
      /\ worker \in [Workers -> KernelThread] /\ sched \in [Workers -> AnyScheduler]
      /\ (CanJoin(u, id) => Ended(u, id))
  BY DEF Typed, Locally, Collect
<1>2. UNCHANGED <<main, next_worker, made, refused, ran>>
  BY DEF Collect, history
<1>3. worker' = [worker EXCEPT ![w] = x]
  BY <1>1 DEF Collect, NextLocal
<1>4. sched' = [sched EXCEPT ![w] = v]
  BY <1>1 DEF Collect
<1>5. Publish(k.locals[k.i].task, IF CanJoin(u, id) THEN u.thread[id].retval ELSE Nil)
  <2>1. CASE CanJoin(u, id)
    BY <2>1 DEF Collect
  <2>2. CASE ~CanJoin(u, id)
    BY <2>2 DEF Collect
  <2>. QED BY <2>1, <2>2
<1>6. LocalInv(x, v) /\ Routed(u, v)
  BY <1>1, CollectKeeps
<1>7. x \in KernelThread /\ x.at \in {"collect", "top"} /\ x.stop = k.stop
  BY <1>1, NextLocalIs
<1> HIDE DEF x, v
<1>8. v \in AnyScheduler /\ Alive(k) /\ Alive(x) /\ (u.hurt => v.hurt)
  BY <1>1, <1>6, <1>7 DEF LocalInv, Alive, Routed
<1>9. Moves(w)
  BY <1>2, <1>3, <1>4, <1>6, <1>7, <1>8 DEF Moves
<1>10. Careful(u, v)
  BY <1>6, RoutedIsCareful
<1>. QED BY <1>1, <1>2, <1>3, <1>4, <1>5, <1>9, <1>10 DEF x, v

(* The return of a routine *)
LEMMA ReturnsMoves ==
  ASSUME Typed, Locally, NEW w \in Workers, Returns(w)
  PROVE  /\ Moves(w)
         /\ \E x \in KernelThread, v \in AnyScheduler :
              LET k == worker[w]
                  u == sched[w]
                  r == u.thread[u.current].routine
              IN /\ worker' = [worker EXCEPT ![w] = x] /\ sched' = [sched EXCEPT ![w] = v]
                 /\ Carries(k, x) /\ v.hurt = u.hurt
                 /\ u.current \in Ids /\ u.thread[u.current].state # "FINISHED"
                 /\ \A i \in Ids : /\ v.thread[i].routine = u.thread[i].routine
                                   /\ v.thread[i].state = "FINISHED" <=> u.thread[i].state = "FINISHED" \/ i = u.current
                                   /\ v.thread[i].state = "NEW" => u.thread[i].state = "NEW"
                 /\ ran' = IF r \in Slots THEN [ran EXCEPT ![r] = @ + 1] ELSE ran
                 /\ UNCHANGED <<slot, client, made, refused>>
<1> DEFINE k == worker[w]
           u == sched[w]
           r == u.thread[u.current].routine
<1>1. LocalInv(k, u) /\ k.at = "run" /\ ~u.waiting /\ k \in KernelThread /\ worker \in [Workers -> KernelThread]
  BY DEF Typed, Locally, Returns, Running
<1>2. PICK due \in SUBSET InState(u, "SLEEPING") : Schedule(w, Finish(u, due))
  BY Zenon DEF Returns, Sleepers
<1> DEFINE v == Finish(u, due)
           x == Scheduled(k, v)
<1>3. /\ UNCHANGED <<main, next_worker, slot, client, made, refused>>
      /\ ran' = IF r \in Slots THEN [ran EXCEPT ![r] = @ + 1] ELSE ran
  BY DEF Returns, Others, Me
<1>4. /\ LocalInv(x, v) /\ v.hurt = u.hurt
      /\ \A i \in Ids : /\ v.thread[i].routine = u.thread[i].routine
                        /\ v.thread[i].state = "FINISHED" <=> u.thread[i].state = "FINISHED" \/ i = u.current
                        /\ v.thread[i].state = "NEW" => u.thread[i].state = "NEW"
  BY <1>1, FinishKeeps
<1>5. u.current \in Ids /\ u.thread[u.current].state # "FINISHED"
  BY <1>1, RunningFacts
<1>6. Schedule(w, v)
  BY <1>2
<1> HIDE DEF v
<1>7. /\ x \in KernelThread /\ Carries(k, x) /\ Alive(x) /\ x.stop = k.stop
      /\ x = [k EXCEPT !.at = IF v.current = Nil THEN "collect" ELSE "run"]
  BY <1>1, ScheduledIs
<1>8. worker' = [worker EXCEPT ![w] = x] /\ sched' = [sched EXCEPT ![w] = v]
  BY <1>1, <1>6, <1>7 DEF Schedule
<1>9. v \in AnyScheduler /\ Alive(k)
  BY <1>1, <1>4 DEF LocalInv, Alive
<1> HIDE DEF x
<1>10. Moves(w)
  BY <1>3, <1>4, <1>7, <1>8, <1>9 DEF Moves
<1>. QED BY <1>3, <1>4, <1>5, <1>7, <1>8, <1>9, <1>10

-----------------------------------------------------------------------------
(*****************************************************************************)
(* Starting and stopping the workers.                                        *)
(*****************************************************************************)

(* Starting and stopping *)
Stages ==
  /\ main.at \in {"init", "up", "stop", "join"} => main.n >= 1 /\ main.created <= main.n
                                                   /\ \A w \in Workers : w >= main.created => ~Alive(worker[w])
  /\ main.at = "init" => main.created < main.n
  /\ main.at = "up" => main.created = main.n
  /\ main.at \in {"init", "up"} => \A w \in Workers : w < main.created => Alive(worker[w]) /\ ~worker[w].stop
  /\ main.at \in {"stop", "join"} => main.created >= 1 /\ main.i < main.created
  /\ main.at \notin {"stop", "join"} => main.i = 0
  /\ main.at = "join" => \A w \in Workers : w < main.i => ~Alive(worker[w])
  /\ main.at = "down" => \A w \in Workers : ~Alive(worker[w])

(* The numbers of the workers *)
LEMMA WorkerIds ==
  /\ MaxWorkers \in Nat /\ MaxWorkers >= 1
  /\ \A w \in Workers : w \in Nat /\ w < MaxWorkers
  /\ \A w \in Nat : w < MaxWorkers => w \in Workers
BY BoundsAssumption DEF Workers

(* The types of what main counts *)
LEMMA MainType ==
  ASSUME Typed
  PROVE  /\ main.n \in 0 .. MaxWorkers /\ main.created \in 0 .. MaxWorkers /\ main.i \in 0 .. MaxWorkers
         /\ main.n \in Nat /\ main.created \in Nat /\ main.i \in Nat
         /\ main.at \in {"down", "init", "up", "stop", "join"} /\ main.inits \in 0 .. MaxInits
         /\ main.initialized \in BOOLEAN
         /\ worker \in [Workers -> KernelThread] /\ sched \in [Workers -> AnyScheduler]
BY WorkerIds DEF Typed, Mains

(* A worker ends only when it has been told to stop, so it does not disturb main. *)
LEMMA MovesKeep ==
  ASSUME Typed, Locally, Stages, NEW w \in Workers, Moves(w)
  PROVE  /\ worker' \in [Workers -> KernelThread] /\ sched' \in [Workers -> AnyScheduler]
         /\ Locally' /\ Stages'
<1>1. PICK x \in KernelThread, v \in AnyScheduler :
        /\ worker' = [worker EXCEPT ![w] = x] /\ sched' = [sched EXCEPT ![w] = v]
        /\ LocalInv(x, v)
        /\ x.stop = worker[w].stop
        /\ Alive(worker[w]) /\ (Alive(x) \/ x.stop)
        /\ UNCHANGED <<main, next_worker>>
  BY DEF Moves
<1>2. worker \in [Workers -> KernelThread] /\ sched \in [Workers -> AnyScheduler]
  BY DEF Typed
<1>3. /\ worker' \in [Workers -> KernelThread] /\ sched' \in [Workers -> AnyScheduler]
      /\ worker'[w] = x /\ sched'[w] = v
      /\ \A o \in Workers : o # w => worker'[o] = worker[o] /\ sched'[o] = sched[o]
  BY <1>1, <1>2
<1>4. Locally'
  <2>1. \A o \in Workers : LocalInv(worker'[o], sched'[o])
    BY <1>1, <1>3 DEF Locally
  <2>. QED BY <2>1 DEF Locally
<1>5. \A o \in Workers : /\ ~Alive(worker[o]) => ~Alive(worker'[o])
                         /\ worker'[o].stop = worker[o].stop
                         /\ Alive(worker[o]) /\ ~worker[o].stop => Alive(worker'[o])
  BY <1>1, <1>3
<1>6. main' = main
  BY <1>1
<1>7. Stages'
  BY <1>5, <1>6 DEF Stages
<1>. QED BY <1>3, <1>4, <1>7

(* The beginning of a start and of a shutdown, and the failure to create a worker *)
LEMMA StartKeeps ==
  ASSUME Typed, Locally, Stages, CallInit \/ CreateWorkerFails \/ CallShutdown
  PROVE  Locally' /\ Stages' /\ main' \in Mains
<1>0. /\ main.n \in 0 .. MaxWorkers /\ main.created \in 0 .. MaxWorkers /\ main.i \in 0 .. MaxWorkers
      /\ main.n \in Nat /\ main.created \in Nat /\ main.i \in Nat /\ main.inits \in 0 .. MaxInits
  BY MainType
<1>6. main \in Mains
  BY DEF Typed
<1>1. worker' = worker /\ sched' = sched
  BY DEF CallInit, CreateWorkerFails, CallShutdown
<1>2. Locally'
  BY <1>1 DEF Locally
<1>3. CASE CallInit
  <2>1. PICK n \in 1 .. MaxWorkers : main' = [main EXCEPT !.at = "init", !.n = n, !.created = 0, !.inits = @ + 1]
    BY <1>3 DEF CallInit
  <2>2. main.at = "down" /\ main.inits < MaxInits
    BY <1>3 DEF CallInit
  <2>7. main.inits + 1 \in 0 .. MaxInits /\ 0 \in 0 .. MaxWorkers /\ n \in 0 .. MaxWorkers /\ n \in Nat /\ n >= 1
    BY <1>0, <2>2, WorkerIds, BoundsAssumption
  <2> DEFINE m == main.inits + 1
  <2>8. main' = [main EXCEPT !.at = "init", !.n = n, !.created = 0, !.inits = m]
    BY <2>1
  <2> HIDE DEF m
  <2>9. m \in 0 .. MaxInits
    BY <2>7 DEF m
  <2>3. /\ main'.at = "init" /\ main'.n = n /\ main'.created = 0 /\ main'.i = main.i /\ n \in Nat /\ n >= 1
        /\ main' \in Mains
    BY <1>6, <2>7, <2>8, <2>9 DEF Mains
  <2>4. main.i = 0 /\ \A w \in Workers : ~Alive(worker[w])
    BY <2>2 DEF Stages
  <2>5. \A w \in Workers : ~ (w < 0)
    BY WorkerIds
  <2>6. Stages'
    BY <1>1, <2>3, <2>4, <2>5 DEF Stages
  <2>. QED BY <1>2, <2>3, <2>6
<1>4. CASE CreateWorkerFails
  <2>1. main.at = "init" /\ main' = [main EXCEPT !.at = IF main.created = 0 THEN "down" ELSE "stop"]
    BY <1>4 DEF CreateWorkerFails
  <2>2. /\ main'.at = (IF main.created = 0 THEN "down" ELSE "stop") /\ main'.n = main.n /\ main'.created = main.created /\ main'.i = main.i
        /\ main' \in Mains
    BY <1>6, <2>1 DEF Mains
  <2>3. main.i = 0 /\ main.n >= 1 /\ main.created <= main.n /\ \A w \in Workers : w >= main.created => ~Alive(worker[w])
    BY <2>1 DEF Stages
  <2>4. \A w \in Workers : main.created = 0 => w >= main.created
    BY WorkerIds
  <2>5. main.created = 0 \/ (main.created >= 1 /\ main.i < main.created)
    BY <1>0, <2>3
  <2>6. Stages'
    BY <1>0, <1>1, <2>2, <2>3, <2>4, <2>5 DEF Stages
  <2>. QED BY <1>2, <2>2, <2>6
<1>5. CASE CallShutdown
  <2>1. main.at = "up" /\ main' = [main EXCEPT !.at = "stop"]
    BY <1>5 DEF CallShutdown
  <2>2. /\ main'.at = "stop" /\ main'.n = main.n /\ main'.created = main.created /\ main'.i = main.i
        /\ main' \in Mains
    BY <1>6, <2>1 DEF Mains
  <2>3. /\ main.i = 0 /\ main.n >= 1 /\ main.created = main.n /\ \A w \in Workers : w >= main.created => ~Alive(worker[w])
    BY <2>1 DEF Stages
  <2>4. main.created >= 1 /\ main.i < main.created
    BY <1>0, <2>3
  <2>6. Stages'
    BY <1>0, <1>1, <2>2, <2>3, <2>4 DEF Stages
  <2>. QED BY <1>2, <2>2, <2>6
<1>. QED BY <1>3, <1>4, <1>5

(* The scheduler of a kernel thread that has just been created *)
New(h) == [Fresh EXCEPT !.hurt = h]

(* Such a scheduler satisfies the invariant. *)
LEMMA NewFacts ==
  ASSUME NEW h \in BOOLEAN, NEW k \in {NoWorker, [NoWorker EXCEPT !.at = "top"]}
  PROVE  /\ LocalInv(k, New(h)) /\ New(h).hurt = h /\ Fresh \in AnyScheduler
         /\ \A i \in Ids : New(h).thread[i].routine = Nil
         /\ k.queue = <<>> /\ k.batch = <<>> /\ k.locals = <<>> /\ k.i = 1 /\ ~k.stop
<1> DEFINE u == New(h)
           e == <<>>
<1>1. e \in Seq(Ids) /\ e \in Seq(Slots) /\ e \in Seq(Local) /\ Len(e) = 0 /\ DOMAIN e = {}
  BY EmptySeq
<1> HIDE DEF e
<1>2. Blank \in Thread
  BY DEF Blank, Thread, States
<1>3. 0 \in 0 .. MaxThreads
  BY MaxThreadsAssumption
<1>4. /\ u.free = e /\ u.count = 0 /\ u.current = Nil /\ u.waiting = FALSE /\ u.hurt = h /\ u.unfair = FALSE
      /\ \A i \in Ids : u.thread[i] = Blank
  BY DEF New, Fresh, e
<1>6. u \in AnyScheduler /\ Fresh \in AnyScheduler
  <2> DEFINE f == [i \in Ids |-> Blank]
  <2>1. f \in [Ids -> Thread]
    BY <1>2
  <2>2. Fresh = [thread |-> f, count |-> 0, free |-> e, current |-> Nil, waiting |-> FALSE,
                 hurt |-> FALSE, unfair |-> FALSE]
    BY DEF Fresh, e
  <2> HIDE DEF f
  <2>3. Fresh \in AnyScheduler
    BY <1>1, <1>3, <2>1, <2>2 DEF AnyScheduler
  <2>. QED BY <2>3 DEF AnyScheduler, New
<1> HIDE DEF u
<1>7. k.queue = e /\ k.batch = e /\ k.locals = e /\ k.i = 1 /\ k.stop = FALSE /\ k.at \in {"none", "top"}
  BY DEF NoWorker, e
<1>8. k \in KernelThread
  <2>1. NoWorker = [at |-> "none", stop |-> FALSE, queue |-> e, batch |-> e, locals |-> e, i |-> 1]
    BY DEF NoWorker, e
  <2>2. NoWorker \in KernelThread
    BY <1>1, <2>1 DEF KernelThread
  <2>3. [NoWorker EXCEPT !.at = "top"] \in KernelThread
    BY <2>2 DEF KernelThread
  <2>. QED BY <2>2, <2>3
<1>9. Phase(k)
  BY <1>7 DEF Phase, e
<1>10. Stands(u) /\ Kept(u)
  BY <1>4 DEF Stands, Kept, Blank
<1>11. Balanced(k, u)
  <2>1. Owners(u) = {}
    BY <1>4 DEF Owners, Blank
  <2>2. Cardinality(Owners(u)) = 0
    BY <2>1, FS_EmptySet
  <2>. QED BY <1>1, <1>4, <1>7, <2>2 DEF Balanced, Left
<1>12. \A i \in Ids : ~ (i < u.count)
  BY <1>4, Below, <1>6
<1>13. Placed(u)
  BY <1>4, <1>12 DEF Placed
<1>14. Ordered(u)
  BY <1>4, <1>12 DEF Ordered
<1>15. Reusable(u)
  BY <1>1, <1>4 DEF Reusable
<1>16. Parented(u)
  BY <1>4 DEF Parented, Blank
<1>17. LocalsNamed(k, u)
  BY <1>1, <1>7 DEF LocalsNamed
<1>18. k.at # "run" /\ k.at # "collect"
  BY <1>7
<1>19. LocalInv(k, u)
  BY <1>4, <1>6, <1>8, <1>9, <1>10, <1>11, <1>13, <1>14, <1>15, <1>16, <1>17, <1>18 DEF LocalInv, Ledger
<1>20. \A i \in Ids : u.thread[i].routine = Nil
  BY <1>4 DEF Blank
<1>. QED BY <1>4, <1>6, <1>7, <1>19, <1>20 DEF u, e

(* A step that leaves every task where it is *)
Quiet == /\ \A o \in Workers : Carries(worker[o], worker'[o]) /\ Careful(sched[o], sched'[o])
         /\ UNCHANGED <<made, refused, ran>>
         /\ \A s \in made : /\ slot'[s].worker = slot[s].worker
                            /\ slot'[s].finished = slot[s].finished /\ slot'[s].retval = slot[s].retval
         /\ \A s \in Slots : slot'[s].finished => slot[s].finished

(* A step that changes neither workers nor slots is quiet. *)
LEMMA SameIsQuiet ==
  ASSUME UNCHANGED <<worker, sched, slot, made, refused, ran>>
  PROVE  Quiet
BY DEF Quiet, Carries, Careful

(* A new worker takes the place of one that has ended with nothing in its hands. *)
LEMMA CreateWorkerKeeps ==
  ASSUME Typed, Locally, Stages, CreateWorker
  PROVE  Typed' /\ Locally' /\ Stages' /\ Quiet /\ UNCHANGED <<next_worker, slot, client>>
         /\ main'.n = main.n
<1> DEFINE c == main.created
           h == sched[c].hurt
           x == [NoWorker EXCEPT !.at = "top"]
           all == c + 1 = main.n
<1>1. /\ main.at = "init" /\ worker' = [worker EXCEPT ![c] = x] /\ sched' = [sched EXCEPT ![c] = New(h)]
      /\ main' = [main EXCEPT !.created = @ + 1, !.at = IF all THEN "up" ELSE @, !.initialized = all]
      /\ UNCHANGED <<next_worker, slot, client, made, refused, ran>>
  BY DEF CreateWorker, New, history
<1>2. /\ main.n \in 0 .. MaxWorkers /\ c \in 0 .. MaxWorkers /\ main.n \in Nat /\ c \in Nat
      /\ worker \in [Workers -> KernelThread] /\ sched \in [Workers -> AnyScheduler] /\ main \in Mains
  BY MainType DEF Typed
<1>3. /\ main.n >= 1 /\ c < main.n /\ main.i = 0
      /\ \A w \in Workers : w >= c => ~Alive(worker[w])
      /\ \A w \in Workers : w < c => Alive(worker[w]) /\ ~worker[w].stop
  BY <1>1 DEF Stages
<1>4. c \in Workers /\ c + 1 \in 0 .. MaxWorkers /\ c + 1 \in Nat
  BY <1>2, <1>3, WorkerIds
<1> DEFINE m == c + 1
<1>5. main' = [main EXCEPT !.created = m, !.at = IF all THEN "up" ELSE @, !.initialized = all]
  BY <1>1
<1> HIDE DEF m, all
<1>6. /\ main' \in Mains /\ main'.n = main.n /\ main'.created = m /\ main'.i = main.i
      /\ main'.at = IF all THEN "up" ELSE "init"
  <2>1. m \in 0 .. MaxWorkers /\ all \in BOOLEAN
    BY <1>4 DEF m, all
  <2>. QED BY <1>1, <1>2, <1>5, <2>1 DEF Mains
<1> HIDE DEF h, x
<1>7. /\ h \in BOOLEAN /\ x \in {NoWorker, [NoWorker EXCEPT !.at = "top"]} /\ x.at = "top"
  BY <1>2, <1>4 DEF h, x, AnyScheduler, NoWorker
<1>8. /\ LocalInv(x, New(h)) /\ New(h).hurt = h /\ \A i \in Ids : New(h).thread[i].routine = Nil
      /\ x.queue = <<>> /\ x.batch = <<>> /\ x.locals = <<>> /\ x.i = 1 /\ ~x.stop
  BY <1>7, NewFacts
<1>9. x \in KernelThread /\ New(h) \in AnyScheduler /\ Alive(x)
  BY <1>7, <1>8 DEF LocalInv, Alive
<1>10. /\ worker' \in [Workers -> KernelThread] /\ sched' \in [Workers -> AnyScheduler]
       /\ worker'[c] = x /\ sched'[c] = New(h)
       /\ \A o \in Workers : o # c => worker'[o] = worker[o] /\ sched'[o] = sched[o]
  BY <1>1, <1>2, <1>4, <1>9
<1>11. Typed'
  BY <1>1, <1>6, <1>10 DEF Typed
<1>12. Locally'
  <2>1. \A o \in Workers : LocalInv(worker'[o], sched'[o])
    BY <1>8, <1>10 DEF Locally
  <2>. QED BY <2>1 DEF Locally
<1>13. \A w \in Workers : w \in Nat
  BY WorkerIds
<1>14. \A w \in Workers : w < m => Alive(worker'[w]) /\ ~worker'[w].stop
  <2>1. \A w \in Workers : w < m => w < c \/ w = c
    BY <1>2, <1>13 DEF m
  <2>. QED BY <1>3, <1>8, <1>9, <1>10, <2>1
<1>15. \A w \in Workers : w >= m => ~Alive(worker'[w])
  <2>1. \A w \in Workers : w >= m => w >= c /\ w # c
    BY <1>2, <1>13 DEF m
  <2>. QED BY <1>3, <1>10, <2>1
<1>16. m <= main.n /\ (m = main.n <=> all)
  BY <1>2, <1>3 DEF m, all
<1>17. m \in Nat
  BY <1>4 DEF m
<1>18. Stages'
  BY <1>2, <1>3, <1>6, <1>14, <1>15, <1>16, <1>17 DEF Stages
<1>19. Quiet
  <2>1. Careful(sched[c], New(h))
    <3>1. Nil \notin Slots
      BY MaxThreadsAssumption DEF Slots
    <3>. QED BY <1>8, <3>1 DEF Careful, h
  <2>2. Carries(worker[c], x)
    <3>1. Phase(worker[c]) /\ worker[c].at \in {"none", "end"}
      BY <1>3, <1>2, <1>4 DEF Locally, LocalInv, Alive
    <3>2. worker[c].queue = <<>> /\ worker[c].batch = <<>> /\ worker[c].locals = <<>> /\ worker[c].i = 1
      BY <3>1 DEF Phase
    <3>. QED BY <1>8, <3>2 DEF Carries
  <2>3. \A o \in Workers : Carries(worker[o], worker[o]) /\ Careful(sched[o], sched[o])
    BY DEF Carries, Careful
  <2>4. \A o \in Workers : Carries(worker[o], worker'[o]) /\ Careful(sched[o], sched'[o])
    BY <1>10, <2>1, <2>2, <2>3
  <2>. QED BY <1>1, <2>4 DEF Quiet
<1>. QED BY <1>1, <1>6, <1>11, <1>12, <1>18, <1>19

(* Waking a worker, to stop it or with a task in its queue *)
LEMMA AwokenKeeps ==
  ASSUME NEW k, NEW u, LocalInv(k, u), NEW x \in KernelThread,
         x.batch = k.batch, x.locals = k.locals, x.i = k.i, x.at = (IF k.at = "asleep" THEN "top" ELSE k.at),
         k.stop => x.stop, x.queue = k.queue \/ Alive(k)
  PROVE  LocalInv(x, u) /\ (Alive(x) <=> Alive(k))
<1>1. Phase(x)
  BY DEF LocalInv, Phase, Alive
<1>2. Alive(x) <=> Alive(k)
  BY DEF Alive
<1>3. CASE k.at = "asleep"
  BY <1>1, <1>2, <1>3, OtherPlace
<1>4. CASE k.at # "asleep"
  BY <1>1, <1>2, <1>4 DEF LocalInv, Balanced, Left, Ledger, LocalsNamed
<1>. QED BY <1>3, <1>4

(* Telling a worker to stop *)
LEMMA StopKeeps ==
  ASSUME Typed, Locally, Stages, Stop
  PROVE  Typed' /\ Locally' /\ Stages' /\ Quiet /\ UNCHANGED <<next_worker, slot, client>>
         /\ main'.n = main.n
<1> DEFINE c == main.i
           k == worker[c]
           x == [k EXCEPT !.stop = TRUE, !.at = Awake(c)]
           at == IF LastTurn THEN "join" ELSE "stop"
           i == IF LastTurn THEN 0 ELSE c + 1
<1>1. /\ main.at = "stop" /\ main' = [main EXCEPT !.at = at, !.i = i]
      /\ UNCHANGED <<next_worker, slot, client, sched, made, refused, ran>>
      /\ worker' = [worker EXCEPT ![main.i].stop = TRUE, ![main.i].at = Awake(main.i)]
  BY DEF Stop, history
<1>2. /\ main.n \in 0 .. MaxWorkers /\ c \in 0 .. MaxWorkers /\ main.created \in 0 .. MaxWorkers /\ main.created \in Nat /\ c \in Nat
      /\ worker \in [Workers -> KernelThread] /\ sched \in [Workers -> AnyScheduler] /\ main \in Mains
  BY MainType DEF Typed
<1>3. /\ main.n >= 1 /\ main.created <= main.n /\ main.created >= 1 /\ c < main.created
      /\ \A w \in Workers : w >= main.created => ~Alive(worker[w])
  BY <1>1 DEF Stages
<1>4. c \in Workers
  BY <1>2, <1>3, WorkerIds
<1>5. worker' = [worker EXCEPT ![c] = x]
  BY <1>1, <1>2, <1>4
<1>6. /\ LocalInv(k, sched[c]) /\ k \in KernelThread
  BY <1>2, <1>4 DEF Locally
<1>7. /\ x \in KernelThread /\ x.batch = k.batch /\ x.locals = k.locals /\ x.i = k.i /\ x.stop /\ x.queue = k.queue
      /\ x.at = (IF k.at = "asleep" THEN "top" ELSE k.at)
  BY <1>6 DEF KernelThread, Awake
<1> HIDE DEF x, k, at, i
<1>8. LocalInv(x, sched[c]) /\ (Alive(x) <=> Alive(k))
  BY <1>6, <1>7, AwokenKeeps
<1>9. /\ worker' \in [Workers -> KernelThread] /\ worker'[c] = x
      /\ \A o \in Workers : o # c => worker'[o] = worker[o]
  BY <1>2, <1>4, <1>5, <1>7
<1>10. LastTurn <=> c + 1 = main.created
  BY DEF LastTurn
<1>11. i \in 0 .. MaxWorkers /\ (LastTurn => i = 0) /\ (~LastTurn => i < main.created)
       /\ at \in {"stop", "join"} /\ (at = "join" => i = 0)
  <2>1. 0 \in 0 .. MaxWorkers
    BY WorkerIds
  <2>2. ~LastTurn => c + 1 \in 0 .. MaxWorkers /\ c + 1 < main.created
    BY <1>2, <1>3, <1>10, WorkerIds
  <2>3. CASE LastTurn
    BY <2>1, <2>3 DEF i, at
  <2>4. CASE ~LastTurn
    BY <2>2, <2>4 DEF i, at
  <2>. QED BY <2>3, <2>4
<1>12. /\ main' \in Mains /\ main'.n = main.n /\ main'.created = main.created /\ main'.i = i /\ main'.at = at
  BY <1>1, <1>2, <1>11 DEF Mains
<1>13. Typed'
  BY <1>1, <1>9, <1>12 DEF Typed
<1>14. Locally'
  <2>1. \A o \in Workers : LocalInv(worker'[o], sched'[o])
    BY <1>1, <1>8, <1>9 DEF Locally
  <2>. QED BY <2>1 DEF Locally
<1>15. \A o \in Workers : ~Alive(worker[o]) => ~Alive(worker'[o])
  BY <1>8, <1>9 DEF k
<1>16. i < main.created
  BY <1>2, <1>3, <1>11
<1>17. Stages'
  <2>1. \A w \in Workers : ~ (w < 0)
    BY WorkerIds
  <2>. QED BY <1>3, <1>11, <1>12, <1>15, <1>16, <2>1 DEF Stages
<1>18. Quiet
  <2>1. \A o \in Workers : Carries(worker[o], worker'[o])
    BY <1>7, <1>9 DEF Carries, k
  <2>. QED BY <1>1, <2>1 DEF Quiet, Careful
<1>. QED BY <1>1, <1>12, <1>13, <1>14, <1>17, <1>18

(* Waiting for a worker; after the last one none is alive. *)
LEMMA JoinKeeps ==
  ASSUME Typed, Locally, Stages, Join
  PROVE  Typed' /\ Locally' /\ Stages' /\ Quiet /\ UNCHANGED <<next_worker, slot, client>>
         /\ main'.n = main.n
<1> DEFINE c == main.i
           at == IF LastTurn THEN "down" ELSE "join"
           i == IF LastTurn THEN 0 ELSE c + 1
           b == main.initialized /\ ~LastTurn
<1>1. /\ main.at = "join" /\ main' = [main EXCEPT !.at = at, !.i = i, !.initialized = b]
      /\ UNCHANGED <<next_worker, slot, client, worker, sched, made, refused, ran>>
      /\ worker[main.i].at = "end"
  BY DEF Join, history
<1>2. /\ main.n \in 0 .. MaxWorkers /\ c \in 0 .. MaxWorkers /\ main.created \in 0 .. MaxWorkers /\ main.created \in Nat /\ c \in Nat
      /\ main \in Mains
  BY MainType DEF Typed
<1>3. /\ main.n >= 1 /\ main.created <= main.n /\ main.created >= 1 /\ c < main.created
      /\ \A w \in Workers : w >= main.created => ~Alive(worker[w])
      /\ \A w \in Workers : w < c => ~Alive(worker[w])
  BY <1>1 DEF Stages
<1>4. c \in Workers /\ ~Alive(worker[c])
  BY <1>1, <1>2, <1>3, WorkerIds DEF Alive
<1> HIDE DEF at, i, b
<1>5. LastTurn <=> c + 1 = main.created
  BY DEF LastTurn
<1>6. i \in 0 .. MaxWorkers /\ (LastTurn => i = 0) /\ (~LastTurn => i = c + 1 /\ i < main.created)
      /\ at \in {"down", "join"} /\ (at = "down" <=> LastTurn) /\ b \in BOOLEAN
  <2>1. 0 \in 0 .. MaxWorkers
    BY WorkerIds
  <2>2. ~LastTurn => c + 1 \in 0 .. MaxWorkers /\ c + 1 < main.created
    BY <1>2, <1>3, <1>5, WorkerIds
  <2>3. CASE LastTurn
    BY <2>1, <2>3 DEF i, at, b
  <2>4. CASE ~LastTurn
    BY <1>2, <2>2, <2>4 DEF i, at, b, Mains
  <2>. QED BY <2>3, <2>4
<1>7. /\ main' \in Mains /\ main'.n = main.n /\ main'.created = main.created /\ main'.i = i /\ main'.at = at
  BY <1>1, <1>2, <1>6 DEF Mains
<1>8. Typed'
  BY <1>1, <1>7 DEF Typed
<1>9. Locally'
  BY <1>1 DEF Locally
<1>10. ASSUME LastTurn, NEW w \in Workers PROVE ~Alive(worker[w])
  <2>1. w < c \/ w = c \/ w >= main.created
    BY <1>2, <1>5, <1>10, WorkerIds
  <2>. QED BY <1>3, <1>4, <2>1
<1>11. ASSUME NEW w \in Workers, w < c + 1 PROVE ~Alive(worker[w])
  <2>1. w < c \/ w = c
    BY <1>2, <1>11, WorkerIds
  <2>. QED BY <1>3, <1>4, <2>1
<1>12. Stages'
  BY <1>1, <1>3, <1>6, <1>7, <1>10, <1>11 DEF Stages
<1>13. Quiet
  BY <1>1, SameIsQuiet
<1>. QED BY <1>1, <1>7, <1>8, <1>9, <1>12, <1>13

(* A task is queued only for a worker that is alive and has not been told to stop. *)
LEMMA QueueGrows ==
  ASSUME Typed, Locally, Stages, NEW w \in Workers, NEW s \in Slots,
         w < main.created, main.at = "up",
         worker' = [worker EXCEPT ![w].queue = Append(@, s), ![w].at = Awake(w)], UNCHANGED <<main, sched>>
  PROVE  /\ Locally' /\ Stages' /\ worker' \in [Workers -> KernelThread]
         /\ worker'[w].queue = Append(worker[w].queue, s) /\ worker'[w].batch = worker[w].batch
         /\ worker'[w].locals = worker[w].locals /\ worker'[w].i = worker[w].i
         /\ \A o \in Workers : o # w => worker'[o] = worker[o]
<1> DEFINE k == worker[w]
           q == Append(k.queue, s)
           x == [k EXCEPT !.queue = q, !.at = Awake(w)]
<1>1. worker \in [Workers -> KernelThread] /\ k \in KernelThread /\ LocalInv(k, sched[w])
  BY DEF Typed, Locally
<1>2. k.queue \in Seq(Slots)
  BY <1>1 DEF KernelThread
<1>3. q \in Seq(Slots)
  BY <1>2, AppendProperties
<1>4. worker' = [worker EXCEPT ![w] = x]
  BY <1>1
<1> HIDE DEF q
<1>5. /\ x \in KernelThread /\ x.batch = k.batch /\ x.locals = k.locals /\ x.i = k.i /\ x.stop = k.stop /\ x.queue = q
      /\ x.at = (IF k.at = "asleep" THEN "top" ELSE k.at)
  BY <1>1, <1>3 DEF KernelThread, Awake
<1> HIDE DEF x, k
<1>6. Alive(k) /\ ~k.stop
  BY DEF Stages, k
<1>7. LocalInv(x, sched[w]) /\ Alive(x)
  BY <1>1, <1>5, <1>6, AwokenKeeps
<1>8. /\ worker' \in [Workers -> KernelThread] /\ worker'[w] = x
      /\ \A o \in Workers : o # w => worker'[o] = worker[o]
  BY <1>1, <1>4, <1>5
<1>9. Locally'
  <2>1. \A o \in Workers : LocalInv(worker'[o], sched'[o])
    BY <1>7, <1>8 DEF Locally
  <2>. QED BY <2>1 DEF Locally
<1>10. Stages'
  BY <1>5, <1>6, <1>7, <1>8 DEF Stages, k
<1>. QED BY <1>5, <1>8, <1>9, <1>10 DEF k, q

-----------------------------------------------------------------------------
(*****************************************************************************)
(* The tasks: each one waits, or is started, or has its result.              *)
(*****************************************************************************)

(* Where a task is: it waits in a queue or a batch, or it is a local whose result is not collected *)
In(s, q) == \E j \in DOMAIN q : q[j] = s
Once(q) == \A j, l \in DOMAIN q : q[j] = q[l] => j = l

Pending(w, s) == In(s, worker[w].queue) \/ In(s, worker[w].batch)
Open(w, s) == \E j \in worker[w].i .. Len(worker[w].locals) : worker[w].locals[j].task = s

(* A task that worker w has to run, or has run *)
TaskOf(w, s) == s \in made /\ s \notin refused /\ slot[s].worker = w

(* It has no thread and is no local *)
Unseen(w, s) == /\ \A i \in Ids : sched[w].thread[i].routine # s
                /\ \A j \in DOMAIN worker[w].locals : worker[w].locals[j].task # s

(* The tasks that wait for worker w have not been started *)
Queued(w) ==
  /\ Once(worker[w].queue) /\ Once(worker[w].batch)
  /\ \A s \in Slots : ~ (In(s, worker[w].queue) /\ In(s, worker[w].batch))
  /\ \A s \in Slots : Pending(w, s) => TaskOf(w, s) /\ ~slot[s].finished /\ ran[s] = 0 /\ Unseen(w, s)

(* Its locals are tasks of its own, the ones behind i without a result *)
Taken(w) ==
  /\ LocalTasks(worker[w])
  /\ \A j \in DOMAIN worker[w].locals :
       /\ TaskOf(w, worker[w].locals[j].task)
       /\ j >= worker[w].i => ~slot[worker[w].locals[j].task].finished

(* A task is the routine of one thread, which has ended when the task has run *)
Threaded(w) == \A i \in Ids : sched[w].thread[i].routine \in Slots =>
  /\ TaskOf(w, sched[w].thread[i].routine)
  /\ sched[w].thread[i].state = "FINISHED" <=> ran[sched[w].thread[i].routine] = 1
  /\ sched[w].thread[i].state # "NEW"
  /\ \A j \in Ids : sched[w].thread[j].routine = sched[w].thread[i].routine => i = j

(* All that holds of the tasks of worker w *)
Tasked(w) == Queued(w) /\ Taken(w) /\ Threaded(w)

(* A task without a result is in the hands of its worker *)
Accounted(s) ==
  /\ s \in refused => s \in made /\ ran[s] = 0
  /\ ran[s] = 1 => s \in made
  /\ slot[s].finished => s \in made
  /\ s \in made /\ ~slot[s].finished => Pending(slot[s].worker, s) \/ Open(slot[s].worker, s)

(* All that holds of the tasks *)
Tasks == (\A w \in Workers : Tasked(w)) /\ (\A s \in Slots : Accounted(s))

(* What ResultsTrue says of a slot *)
TrueResult(s) == slot[s].finished =>
  \/ slot[s].retval = s /\ ran[s] = 1
  \/ slot[s].retval = Nil /\ ran[s] = 0 /\ s \in refused
  \/ sched[slot[s].worker].hurt

(* The types of the locals *)
LEMMA LocalsType ==
  ASSUME Typed, NEW w \in Workers
  PROVE  /\ DOMAIN worker[w].locals = 1 .. Len(worker[w].locals) /\ Len(worker[w].locals) \in Nat
         /\ \A j \in DOMAIN worker[w].locals : worker[w].locals[j] \in Local /\ worker[w].locals[j].task \in Slots
                                               /\ worker[w].locals[j].id \in Ids
         /\ worker[w].i \in Nat
<1>1. worker[w] \in KernelThread
  BY DEF Typed
<1>2. worker[w].locals \in Seq(Local) /\ worker[w].i \in Nat
  BY <1>1 DEF KernelThread
<1>3. \A j \in DOMAIN worker[w].locals : worker[w].locals[j] \in Local
  BY <1>2, ElementOfSeq, LenProperties
<1>. QED BY <1>2, <1>3, LenProperties DEF Local

(* A worker keeps its tasks if it does nothing with them, and nobody else does. *)
LEMMA TaskedKept ==
  ASSUME Typed, NEW w \in Workers, Tasked(w), Carries(worker[w], worker'[w]), Careful(sched[w], sched'[w]),
         \A s \in Slots : TaskOf(w, s) => /\ TaskOf(w, s)'
                                          /\ slot'[s].finished = slot[s].finished /\ ran'[s] = ran[s]
  PROVE  Tasked(w)'
<1>1. /\ worker'[w].queue = worker[w].queue /\ worker'[w].batch = worker[w].batch
      /\ worker'[w].locals = worker[w].locals /\ worker'[w].i = worker[w].i
  BY DEF Carries
<1>2. Queued(w)'
  <2>1. ASSUME NEW s \in Slots, Pending(w, s)'
        PROVE  TaskOf(w, s)' /\ ~slot'[s].finished /\ ran'[s] = 0 /\ Unseen(w, s)'
    <3>1. Pending(w, s)
      BY <1>1, <2>1 DEF Pending
    <3>2. TaskOf(w, s) /\ ~slot[s].finished /\ ran[s] = 0 /\ Unseen(w, s)
      BY <3>1 DEF Tasked, Queued
    <3>3. Unseen(w, s)'
      BY <1>1, <3>2 DEF Unseen, Careful
    <3>. QED BY <3>2, <3>3
  <2>. QED BY <1>1, <2>1 DEF Tasked, Queued
<1>3. Taken(w)'
  <2>1. LocalTasks(worker'[w])
    BY <1>1 DEF Tasked, Taken, LocalTasks
  <2>2. ASSUME NEW j \in DOMAIN worker'[w].locals
        PROVE  /\ TaskOf(w, worker[w].locals[j].task)'
               /\ j >= worker[w].i => ~slot'[worker[w].locals[j].task].finished
    <3>1. j \in DOMAIN worker[w].locals
      BY <1>1
    <3> DEFINE s == worker[w].locals[j].task
    <3>2. s \in Slots /\ TaskOf(w, s) /\ (j >= worker[w].i => ~slot[s].finished)
      BY <3>1, LocalsType DEF Tasked, Taken
    <3>3. /\ \A r \in Slots : TaskOf(w, r) => (r \in made' /\ r \notin refused' /\ slot'[r].worker = w)
      BY DEF TaskOf
    <3>. QED BY <1>1, <3>2, <3>3 DEF TaskOf
  <2>. QED BY <1>1, <2>1, <2>2 DEF Taken
<1>4. Threaded(w)'
  <2>1. ASSUME NEW i \in Ids, sched'[w].thread[i].routine \in Slots
        PROVE  /\ TaskOf(w, sched[w].thread[i].routine)'
               /\ sched'[w].thread[i].state = "FINISHED" <=> ran'[sched'[w].thread[i].routine] = 1
               /\ sched'[w].thread[i].state # "NEW"
               /\ \A j \in Ids : sched'[w].thread[j].routine = sched'[w].thread[i].routine => i = j
    BY <2>1 DEF Tasked, Threaded, Careful
  <2>. QED BY <2>1 DEF Threaded
<1>. QED BY <1>2, <1>3, <1>4 DEF Tasked

-----------------------------------------------------------------------------
(*****************************************************************************)
(* Steps that leave the tasks where they are, and steps of one worker.       *)
(*****************************************************************************)

(* The slots of the tasks *)
Owned == \A s \in made : slot[s].used /\ slot[s].worker \in Workers

(* A quiet step keeps what holds of the tasks and their results. *)
LEMMA QuietKeeps ==
  ASSUME Typed, Owned, Tasks, ResultsTrue, Quiet
  PROVE  Tasks' /\ ResultsTrue'
<1>1. made \subseteq Slots /\ made' = made /\ refused' = refused /\ ran' = ran
  BY DEF Typed, Quiet
<1>2. \A w \in Workers : Tasked(w)'
  <2>1. ASSUME NEW w \in Workers PROVE Tasked(w)'
    <3>1. Tasked(w) /\ Carries(worker[w], worker'[w]) /\ Careful(sched[w], sched'[w])
      BY DEF Tasks, Quiet
    <3>2. \A s \in Slots : TaskOf(w, s) => /\ TaskOf(w, s)'
                                           /\ slot'[s].finished = slot[s].finished /\ ran'[s] = ran[s]
      BY <1>1 DEF TaskOf, Quiet
    <3>. QED BY <3>1, <3>2, TaskedKept
  <2>. QED BY <2>1
<1>3. ASSUME NEW s \in Slots PROVE Accounted(s)'
  <2>1. Accounted(s)
    BY DEF Tasks
  <2>2. slot'[s].finished => slot[s].finished
    BY DEF Quiet
  <2>3. ASSUME s \in made, ~slot'[s].finished PROVE Pending(slot[s].worker, s)' \/ Open(slot[s].worker, s)'
    <3> DEFINE w == slot[s].worker
    <3>1. w \in Workers /\ slot'[s].worker = w /\ ~slot[s].finished
      BY <2>3 DEF Owned, Quiet
    <3>2. Pending(w, s) \/ Open(w, s)
      BY <2>1, <2>3, <3>1 DEF Accounted
    <3> HIDE DEF w
    <3>3. /\ worker'[w].queue = worker[w].queue /\ worker'[w].batch = worker[w].batch
          /\ worker'[w].locals = worker[w].locals /\ worker'[w].i = worker[w].i
      BY <3>1 DEF Quiet, Carries
    <3>. QED BY <3>1, <3>2, <3>3 DEF Pending, Open
  <2>. QED BY <1>1, <2>1, <2>2, <2>3 DEF Accounted
<1>4. ASSUME NEW s \in Slots PROVE TrueResult(s)'
  <2> SUFFICES ASSUME slot'[s].finished
               PROVE  \/ slot'[s].retval = s /\ ran'[s] = 1
                      \/ slot'[s].retval = Nil /\ ran'[s] = 0 /\ s \in refused'
                      \/ sched'[slot'[s].worker].hurt
    BY DEF TrueResult
  <2>1. slot[s].finished /\ s \in made
    BY DEF Quiet, Tasks, Accounted
  <2>2. slot[s].worker \in Workers /\ slot'[s].worker = slot[s].worker /\ slot'[s].retval = slot[s].retval
    BY <2>1 DEF Owned, Quiet
  <2>3. sched[slot[s].worker].hurt => sched'[slot[s].worker].hurt
    BY <2>2 DEF Quiet, Careful
  <2>. QED BY <1>1, <2>1, <2>2, <2>3 DEF ResultsTrue
<1>. QED BY <1>2, <1>3, <1>4 DEF Tasks, ResultsTrue, TrueResult

(* The locals that are not collected are locals. *)
LEMMA OpenAreLocals ==
  ASSUME Typed, Locally, NEW w \in Workers
  PROVE  /\ worker[w].i >= 1 /\ worker[w].i \in Nat
         /\ \A j \in worker[w].i .. Len(worker[w].locals) : j \in DOMAIN worker[w].locals
<1>1. /\ DOMAIN worker[w].locals = 1 .. Len(worker[w].locals) /\ Len(worker[w].locals) \in Nat /\ worker[w].i \in Nat
  BY LocalsType
<1>2. Phase(worker[w])
  BY DEF Locally, LocalInv
<1>3. worker[w].i >= 1
  BY <1>1, <1>2 DEF Phase
<1>. QED BY <1>1, <1>3

(* A step of worker w that concerns only its own tasks *)
Spares(w) ==
  /\ \A o \in Workers : o # w => worker'[o] = worker[o] /\ sched'[o] = sched[o]
  /\ sched[w].hurt => sched'[w].hurt
  /\ made' = made
  /\ \A s \in Slots : slot'[s].worker = slot[s].worker
  /\ \A s \in Slots : ~TaskOf(w, s) => /\ slot'[s].finished = slot[s].finished /\ slot'[s].retval = slot[s].retval
                                       /\ ran'[s] = ran[s] /\ (s \in refused' <=> s \in refused)

(* It keeps the tasks and the results of the other workers. *)
LEMMA Spared ==
  ASSUME Typed, Locally, Owned, Tasks, ResultsTrue, NEW w \in Workers, Spares(w),
         Tasked(w)', \A s \in Slots : TaskOf(w, s) => Accounted(s)' /\ TrueResult(s)'
  PROVE  Tasks' /\ ResultsTrue'
<1>1. made \subseteq Slots /\ made' = made
  BY DEF Typed, Spares
<1>2. ASSUME NEW o \in Workers, o # w PROVE Tasked(o)'
  <2>1. Tasked(o) /\ Carries(worker[o], worker'[o]) /\ Careful(sched[o], sched'[o])
    BY <1>2 DEF Tasks, Spares, Carries, Careful
  <2>2. \A s \in Slots : TaskOf(o, s) => ~TaskOf(w, s)
    BY <1>2 DEF TaskOf
  <2>3. \A s \in Slots : TaskOf(o, s) => /\ TaskOf(o, s)'
                                         /\ slot'[s].finished = slot[s].finished /\ ran'[s] = ran[s]
    BY <1>1, <2>2 DEF TaskOf, Spares
  <2>. QED BY <2>1, <2>3, TaskedKept
<1>3. ASSUME NEW s \in Slots, ~TaskOf(w, s) PROVE Accounted(s)' /\ TrueResult(s)'
  <2>1. /\ slot'[s].finished = slot[s].finished /\ slot'[s].retval = slot[s].retval
        /\ ran'[s] = ran[s] /\ (s \in refused' <=> s \in refused) /\ slot'[s].worker = slot[s].worker
    BY <1>3 DEF Spares
  <2>2. Accounted(s) /\ TrueResult(s)
    BY DEF Tasks, ResultsTrue, TrueResult
  <2>3. ASSUME s \in made, ~slot[s].finished
        PROVE  slot[s].worker # w /\ slot[s].worker \in Workers
    <3>1. slot[s].worker \in Workers
      BY <2>3 DEF Owned
    <3>2. ASSUME slot[s].worker = w PROVE FALSE
      <4>1. Pending(w, s) \/ Open(w, s)
        BY <2>2, <2>3, <3>2 DEF Accounted
      <4>2. ~Pending(w, s)
        BY <1>3 DEF Tasks, Tasked, Queued
      <4>3. PICK j \in worker[w].i .. Len(worker[w].locals) : worker[w].locals[j].task = s
        BY <4>1, <4>2 DEF Open
      <4>4. j \in DOMAIN worker[w].locals
        BY OpenAreLocals, <4>3
      <4>. QED BY <1>3, <4>3, <4>4 DEF Tasks, Tasked, Taken
    <3>. QED BY <3>1, <3>2
  <2>4. ASSUME s \in made, ~slot[s].finished PROVE Pending(slot[s].worker, s)' \/ Open(slot[s].worker, s)'
    <3> DEFINE o == slot[s].worker
    <3>1. o \in Workers /\ worker'[o] = worker[o] /\ slot'[s].worker = o
      BY <2>1, <2>3, <2>4 DEF Spares
    <3>2. Pending(o, s) \/ Open(o, s)
      BY <2>2, <2>4 DEF Accounted
    <3> HIDE DEF o
    <3>. QED BY <3>1, <3>2 DEF Pending, Open
  <2>5. Accounted(s)'
    BY <1>1, <2>1, <2>2, <2>4 DEF Accounted
  <2>6. TrueResult(s)'
    <3>1. ASSUME slot[s].finished PROVE sched[slot[s].worker].hurt => sched'[slot[s].worker].hurt
      <4>1. slot[s].worker \in Workers
        BY <2>2, <3>1 DEF Accounted, Owned
      <4>. QED BY <4>1 DEF Spares
    <3>. QED BY <2>1, <2>2, <3>1 DEF TrueResult
  <2>. QED BY <2>5, <2>6
<1>4. \A o \in Workers : Tasked(o)'
  BY <1>2
<1>5. \A s \in Slots : Accounted(s)' /\ TrueResult(s)'
  BY <1>3
<1>. QED BY <1>4, <1>5 DEF Tasks, ResultsTrue, TrueResult

(* The first task of a sequence, and the rest *)
LEMMA TailIs ==
  ASSUME NEW q \in Seq(Slots), q # <<>>
  PROVE  /\ Head(q) \in Slots /\ Tail(q) \in Seq(Slots)
         /\ \A s : In(s, q) <=> s = Head(q) \/ In(s, Tail(q))
         /\ Once(q) => Once(Tail(q)) /\ ~In(Head(q), Tail(q))
<1>1. /\ Head(q) \in Slots /\ Tail(q) \in Seq(Slots) /\ Len(Tail(q)) = Len(q) - 1
      /\ \A j \in 1 .. Len(Tail(q)) : Tail(q)[j] = q[j + 1]
      /\ Head(q) = q[1] /\ Len(q) \in Nat /\ Len(q) >= 1
  BY HeadTailProperties, LenProperties, EmptySeq
<1>2. DOMAIN q = 1 .. Len(q) /\ DOMAIN Tail(q) = 1 .. Len(q) - 1
  BY <1>1, LenProperties
<1>3. \A j \in DOMAIN Tail(q) : j + 1 \in DOMAIN q /\ j + 1 # 1 /\ Tail(q)[j] = q[j + 1] /\ j \in Int
  BY <1>1, <1>2
<1>4. \A j \in DOMAIN q : j = 1 \/ (j - 1 \in DOMAIN Tail(q) /\ Tail(q)[j - 1] = q[j])
  BY <1>1, <1>2
<1>5. 1 \in DOMAIN q
  BY <1>1, <1>2
<1>6. ASSUME NEW s PROVE In(s, q) <=> s = Head(q) \/ In(s, Tail(q))
  <2>1. In(s, Tail(q)) => In(s, q)
    BY <1>3 DEF In
  <2>2. s = Head(q) => In(s, q)
    BY <1>1, <1>5 DEF In
  <2>3. In(s, q) => s = Head(q) \/ In(s, Tail(q))
    BY <1>1, <1>4 DEF In
  <2>. QED BY <2>1, <2>2, <2>3
<1>7. Once(q) => Once(Tail(q)) /\ ~In(Head(q), Tail(q))
  BY <1>1, <1>3, <1>5 DEF Once, In
<1>. QED BY <1>1, <1>6, <1>7

(* A sequence with one task more *)
LEMMA AppendIs ==
  ASSUME NEW q \in Seq(Slots), NEW r \in Slots
  PROVE  /\ \A s : In(s, Append(q, r)) <=> s = r \/ In(s, q)
         /\ Once(q) /\ ~In(r, q) => Once(Append(q, r))
<1> DEFINE p == Append(q, r)
<1>1. /\ p \in Seq(Slots) /\ Len(p) = Len(q) + 1 /\ Len(q) \in Nat
      /\ p[Len(q) + 1] = r /\ \A j \in 1 .. Len(q) : p[j] = q[j]
  BY AppendProperties, LenProperties
<1>2. DOMAIN q = 1 .. Len(q) /\ DOMAIN p = 1 .. Len(q) + 1
  BY <1>1, LenProperties
<1> HIDE DEF p
<1>3. \A j \in DOMAIN p : (j = Len(q) + 1 /\ p[j] = r) \/ (j \in DOMAIN q /\ p[j] = q[j])
  BY <1>1, <1>2
<1>4. \A j \in DOMAIN q : j \in DOMAIN p /\ p[j] = q[j]
  BY <1>1, <1>2
<1>5. Len(q) + 1 \in DOMAIN p
  BY <1>1, <1>2
<1>6. ASSUME NEW s PROVE In(s, p) <=> s = r \/ In(s, q)
  BY <1>1, <1>3, <1>4, <1>5 DEF In
<1>7. Once(q) /\ ~In(r, q) => Once(p)
  BY <1>3 DEF Once, In
<1>. QED BY <1>6, <1>7 DEF p

-----------------------------------------------------------------------------
(*****************************************************************************)
(* The steps that move tasks.                                                *)
(*****************************************************************************)

(* The tasks of the queue are those of the batch. *)
LEMMA LookTasks ==
  ASSUME Typed, Locally, Owned, Tasks, ResultsTrue, NEW w \in Workers, Look(w), worker[w].queue # <<>>
  PROVE  Tasks' /\ ResultsTrue'
<1> DEFINE k == worker[w]
           e == <<>>
           x == [k EXCEPT !.at = "start", !.batch = k.queue, !.queue = e]
<1>1. /\ worker' = [worker EXCEPT ![w] = x] /\ sched' = sched
      /\ x.queue = e /\ x.batch = k.queue /\ x.locals = k.locals /\ x.i = k.i
      /\ k.batch = e /\ UNCHANGED <<slot, client, made, refused, ran>>
  BY LookMoves
<1>2. DOMAIN e = {}
  OBVIOUS
<1>3. /\ worker'[w] = x /\ \A o \in Workers : o # w => worker'[o] = worker[o]
  BY <1>1 DEF Typed
<1> HIDE DEF x, e, k
<1>4. \A s : ~In(s, e)
  BY <1>2 DEF In
<1>5. \A s : /\ Pending(w, s)' <=> Pending(w, s)
             /\ Open(w, s)' <=> Open(w, s)
             /\ Unseen(w, s)' <=> Unseen(w, s)
  BY <1>1, <1>3, <1>4 DEF Pending, Open, Unseen, k
<1>6. Tasked(w)
  BY DEF Tasks
<1>7. Queued(w)'
  <2>1. Once(k.queue) /\ Once(e)
    BY <1>2, <1>6 DEF Tasked, Queued, Once, k
  <2>2. \A s \in Slots : Pending(w, s)' => TaskOf(w, s)' /\ ~slot'[s].finished /\ ran'[s] = 0 /\ Unseen(w, s)'
    BY <1>1, <1>5, <1>6 DEF Tasked, Queued, TaskOf
  <2>. QED BY <1>1, <1>3, <1>4, <2>1, <2>2 DEF Queued
<1>8. Taken(w)'
  BY <1>1, <1>3, <1>6 DEF Tasked, Taken, TaskOf, LocalTasks, k
<1>9. Threaded(w)'
  BY <1>1, <1>6 DEF Tasked, Threaded, TaskOf
<1>10. Spares(w)
  BY <1>1, <1>3 DEF Spares
<1>11. ASSUME NEW s \in Slots, TaskOf(w, s) PROVE Accounted(s)' /\ TrueResult(s)'
  <2>1. Accounted(s) /\ TrueResult(s)
    BY DEF Tasks, ResultsTrue, TrueResult
  <2>2. slot[s].worker = w
    BY <1>11 DEF TaskOf
  <2>3. Accounted(s)'
    BY <1>1, <1>5, <2>1, <2>2 DEF Accounted
  <2>4. TrueResult(s)'
    BY <1>1, <2>1 DEF TrueResult
  <2>. QED BY <2>3, <2>4
<1>. QED BY <1>7, <1>8, <1>9, <1>10, <1>11, Spared DEF Tasked

(* The first task of a batch waits for this worker only, and has not been started. *)
LEMMA NextTask ==
  ASSUME Typed, Locally, Tasks, NEW w \in Workers, worker[w].batch # <<>>
  PROVE  LET s == Head(worker[w].batch)
         IN /\ s \in Slots /\ Pending(w, s) /\ TaskOf(w, s) /\ ~slot[s].finished /\ ran[s] = 0 /\ Unseen(w, s)
            /\ ~In(s, worker[w].queue) /\ ~In(s, Tail(worker[w].batch)) /\ Once(Tail(worker[w].batch))
            /\ \A r : In(r, worker[w].batch) <=> r = s \/ In(r, Tail(worker[w].batch))
<1>1. worker[w].batch \in Seq(Slots)
  BY DEF Typed, KernelThread
<1>2. Queued(w)
  BY DEF Tasks, Tasked
<1> DEFINE q == worker[w].batch
<1>3. /\ Head(q) \in Slots /\ (\A s : In(s, q) <=> s = Head(q) \/ In(s, Tail(q)))
      /\ (Once(q) => Once(Tail(q)) /\ ~In(Head(q), Tail(q)))
  BY <1>1, TailIs
<1>4. Once(q)
  BY <1>2 DEF Queued
<1>5. In(Head(q), q)
  BY <1>3
<1>. QED BY <1>2, <1>3, <1>4, <1>5 DEF Queued, Pending

(* A task that cannot be started has the result NULL, and is refused. *)
LEMMA StartFailsTasks ==
  ASSUME Typed, Locally, Owned, Tasks, ResultsTrue, NEW w \in Workers, StartFails(w)
  PROVE  Tasks' /\ ResultsTrue'
<1> DEFINE k == worker[w]
           h == Head(k.batch)
           q == Tail(k.batch)
           v == IF HasRoom(sched[w]) THEN CreateFails(sched[w]) ELSE sched[w]
           x == [k EXCEPT !.batch = q]
<1>1. /\ worker' = [worker EXCEPT ![w] = x] /\ sched' = [sched EXCEPT ![w] = v]
      /\ Careful(sched[w], v) /\ k.batch # <<>> /\ k.i = 1
      /\ Publish(h, Nil) /\ refused' = refused \cup {h} /\ UNCHANGED <<made, ran>>
  BY StartFailsMoves
<1>2. /\ h \in Slots /\ TaskOf(w, h) /\ ~slot[h].finished /\ ran[h] = 0 /\ Unseen(w, h)
      /\ ~In(h, k.queue) /\ ~In(h, q) /\ Once(q)
      /\ \A r : In(r, k.batch) <=> r = h \/ In(r, q)
  BY <1>1, NextTask
<1>3. /\ worker'[w] = x /\ sched'[w] = v /\ \A o \in Workers : o # w => worker'[o] = worker[o] /\ sched'[o] = sched[o]
  BY <1>1 DEF Typed
<1>4. /\ x.queue = k.queue /\ x.batch = q /\ x.locals = k.locals /\ x.i = k.i
  BY DEF Typed, KernelThread
<1>5. /\ slot'[h].finished /\ slot'[h].retval = Nil /\ slot'[h].worker = slot[h].worker
      /\ \A s \in Slots : s # h => slot'[s] = slot[s]
      /\ \A s \in Slots : slot'[s].worker = slot[s].worker
  BY <1>1, <1>2 DEF Publish, Typed
<1> HIDE DEF x, v, h, q, k
<1>6. Tasked(w)
  BY DEF Tasks
<1>7. \A s : /\ Pending(w, s)' => Pending(w, s) /\ s # h
             /\ Pending(w, s) => Pending(w, s)' \/ s = h
             /\ Open(w, s)' <=> Open(w, s)
  BY <1>2, <1>3, <1>4 DEF Pending, Open, k
<1>8. \A s \in Slots : Unseen(w, s) => Unseen(w, s)'
  BY <1>1, <1>3, <1>4 DEF Unseen, Careful, k
<1>9. \A s \in Slots : TaskOf(w, s) /\ s # h => /\ s \in made' /\ s \notin refused' /\ slot'[s].worker = w
                                                /\ TaskOf(w, s)' /\ slot'[s] = slot[s] /\ ran'[s] = ran[s]
  BY <1>1, <1>5 DEF TaskOf
<1>10. Queued(w)'
  <2>1. Once(worker'[w].queue) /\ Once(worker'[w].batch) /\ (\A s \in Slots : ~ (In(s, worker'[w].queue) /\ In(s, worker'[w].batch)))
    BY <1>2, <1>3, <1>4, <1>6 DEF Tasked, Queued, k
  <2>2. \A s \in Slots : Pending(w, s)' => TaskOf(w, s)' /\ ~slot'[s].finished /\ ran'[s] = 0 /\ Unseen(w, s)'
    BY <1>6, <1>7, <1>8, <1>9 DEF Tasked, Queued
  <2>. QED BY <2>1, <2>2 DEF Queued
<1>11. Taken(w)'
  <2>1. LocalTasks(worker'[w])
    BY <1>3, <1>4, <1>6 DEF Tasked, Taken, LocalTasks, k
  <2>2. ASSUME NEW j \in DOMAIN worker'[w].locals
        PROVE  /\ TaskOf(w, worker[w].locals[j].task)'
               /\ j >= worker'[w].i => ~slot'[worker'[w].locals[j].task].finished
    <3> DEFINE s == worker[w].locals[j].task
    <3>1. j \in DOMAIN worker[w].locals /\ worker'[w].locals[j].task = s /\ worker'[w].i = worker[w].i
      BY <1>3, <1>4, <2>2 DEF k
    <3>2. s \in Slots /\ s # h
      BY <1>2, <3>1, LocalsType DEF Unseen
    <3>3. TaskOf(w, s) /\ (j >= worker[w].i => ~slot[s].finished)
      BY <1>6, <3>1 DEF Tasked, Taken
    <3> HIDE DEF s
    <3>4. s \in made' /\ s \notin refused' /\ slot'[s].worker = w /\ slot'[s] = slot[s]
      BY <1>9, <3>2, <3>3
    <3>. QED BY <3>1, <3>3, <3>4 DEF TaskOf
  <2>. QED BY <2>1, <2>2 DEF Taken
<1>12. Threaded(w)'
  <2>1. ASSUME NEW i \in Ids, sched'[w].thread[i].routine \in Slots
        PROVE  /\ TaskOf(w, sched[w].thread[i].routine)'
               /\ sched'[w].thread[i].state = "FINISHED" <=> ran'[sched'[w].thread[i].routine] = 1
               /\ sched'[w].thread[i].state # "NEW"
               /\ \A j \in Ids : sched'[w].thread[j].routine = sched'[w].thread[i].routine => i = j
    <3> DEFINE r == sched'[w].thread[i].routine
    <3>1. r \in Slots /\ sched[w].thread[i].routine = r
      BY <1>1, <1>3, <2>1 DEF Careful
    <3>2. r # h
      BY <1>2, <3>1 DEF Unseen
    <3>3. TaskOf(w, r)
      BY <1>6, <3>1 DEF Tasked, Threaded
    <3>4. r \in made' /\ r \notin refused' /\ slot'[r].worker = w /\ ran'[r] = ran[r]
      BY <1>9, <3>1, <3>2, <3>3
    <3>5. TaskOf(w, sched[w].thread[i].routine)'
      BY <3>4 DEF TaskOf
    <3>. QED BY <1>1, <1>3, <1>6, <3>1, <3>4, <3>5 DEF Tasked, Threaded, Careful
  <2>. QED BY <2>1 DEF Threaded
<1>13. Spares(w)
  <2>1. \A s \in Slots : ~TaskOf(w, s) => s # h
    BY <1>2
  <2>. QED BY <1>1, <1>3, <1>5, <2>1 DEF Spares, Careful
<1>14. ASSUME NEW s \in Slots, TaskOf(w, s) PROVE Accounted(s)' /\ TrueResult(s)'
  <2>1. Accounted(s) /\ TrueResult(s)
    BY DEF Tasks, ResultsTrue, TrueResult
  <2>2. slot[s].worker = w /\ s \in made
    BY <1>14 DEF TaskOf
  <2>3. CASE s = h
    BY <1>1, <1>2, <1>5, <2>2, <2>3 DEF Accounted, TrueResult
  <2>4. CASE s # h
    <3>1. slot'[s] = slot[s] /\ (s \in refused' <=> s \in refused)
      BY <1>1, <1>5, <2>4
    <3>2. Accounted(s)'
      BY <1>1, <1>7, <2>1, <2>2, <2>4, <3>1 DEF Accounted
    <3>3. TrueResult(s)'
      BY <1>1, <1>3, <2>1, <2>2, <3>1 DEF TrueResult, Careful
    <3>. QED BY <3>2, <3>3
  <2>. QED BY <2>3, <2>4
<1>. QED BY <1>10, <1>11, <1>12, <1>13, <1>14, Spared DEF Tasked

(* A task that is started is a local, and the routine of one new thread. *)
LEMMA StartTaskTasks ==
  ASSUME Typed, Locally, Owned, Tasks, ResultsTrue, NEW w \in Workers, StartTask(w)
  PROVE  Tasks' /\ ResultsTrue'
<1> DEFINE k == worker[w]
           h == Head(k.batch)
           q == Tail(k.batch)
           n == NextId(sched[w])
           v == Create(sched[w], h)
           l == [id |-> n, task |-> h]
           p == Append(k.locals, l)
           x == [k EXCEPT !.batch = q, !.locals = p]
<1>1. /\ worker' = [worker EXCEPT ![w] = x] /\ sched' = [sched EXCEPT ![w] = v]
      /\ n \in Ids /\ (\A i \in Ids : v.thread[i] = IF i = n THEN Created(h) ELSE sched[w].thread[i])
      /\ v.hurt = sched[w].hurt /\ k.batch # <<>> /\ k.i = 1
      /\ UNCHANGED <<slot, client, made, refused, ran>>
  BY StartTaskMoves
<1>2. /\ h \in Slots /\ TaskOf(w, h) /\ ~slot[h].finished /\ ran[h] = 0 /\ Unseen(w, h)
      /\ ~In(h, k.queue) /\ ~In(h, q) /\ Once(q)
      /\ \A r : In(r, k.batch) <=> r = h \/ In(r, q)
  BY <1>1, NextTask
<1>3. /\ worker'[w] = x /\ sched'[w] = v /\ \A o \in Workers : o # w => worker'[o] = worker[o] /\ sched'[o] = sched[o]
  BY <1>1 DEF Typed
<1>4. /\ x.queue = k.queue /\ x.batch = q /\ x.locals = p /\ x.i = k.i
  BY DEF Typed, KernelThread
<1>5. Created(h).routine = h /\ Created(h).state = "READY"
  BY DEF Created, Blank
<1>6. /\ l.task = h /\ Len(k.locals) \in Nat /\ Len(p) = Len(k.locals) + 1
      /\ p[Len(k.locals) + 1] = l /\ \A j \in 1 .. Len(k.locals) : p[j] = k.locals[j]
  <2>1. k.locals \in Seq(Local) /\ l \in Local
    BY <1>1, <1>2 DEF Typed, KernelThread, Local
  <2>. QED BY <2>1, AppendProperties, LenProperties
<1>7. DOMAIN k.locals = 1 .. Len(k.locals) /\ DOMAIN p = 1 .. Len(k.locals) + 1
  <2>1. k.locals \in Seq(Local) /\ l \in Local
    BY <1>1, <1>2 DEF Typed, KernelThread, Local
  <2>. QED BY <2>1, AppendProperties, LenProperties
<1>8. \A j \in DOMAIN k.locals : k.locals[j].task \in Slots
  BY LocalsType
<1> HIDE DEF x, v, h, q, k, p, l, n
<1>9. \A j \in DOMAIN p : \/ (j = Len(k.locals) + 1 /\ p[j].task = h)
                          \/ (j \in DOMAIN k.locals /\ j # Len(k.locals) + 1 /\ p[j] = k.locals[j])
  BY <1>6, <1>7
<1>10. Tasked(w)
  BY DEF Tasks
<1>11. \A s : /\ Pending(w, s)' => Pending(w, s) /\ s # h
              /\ Pending(w, s) => Pending(w, s)' \/ s = h
  BY <1>2, <1>3, <1>4 DEF Pending, k
<1>12. \A s : Open(w, s) => Open(w, s)'
  BY <1>1, <1>3, <1>4, <1>6 DEF Open, k
<1>13. \A s : s = h => Open(w, s)'
  <2>1. Len(k.locals) + 1 \in worker'[w].i .. Len(worker'[w].locals)
    BY <1>1, <1>3, <1>4, <1>6
  <2>2. worker'[w].locals[Len(k.locals) + 1].task = h
    BY <1>3, <1>4, <1>6
  <2>. QED BY <2>1, <2>2 DEF Open
<1>14. \A s : s \in Slots /\ Unseen(w, s) /\ s # h => Unseen(w, s)'
  <2>1. \A s : Unseen(w, s) /\ s # h => \A i \in Ids : sched'[w].thread[i].routine # s
    BY <1>1, <1>3, <1>5 DEF Unseen
  <2>2. \A s : Unseen(w, s) /\ s # h => \A j \in DOMAIN worker'[w].locals : worker'[w].locals[j].task # s
    BY <1>3, <1>4, <1>9 DEF Unseen, k
  <2>. QED BY <2>1, <2>2 DEF Unseen
<1>15. \A s : TaskOf(w, s) => TaskOf(w, s)'
  BY <1>1 DEF TaskOf
<1>16. Queued(w)'
  <2>1. Once(worker'[w].queue) /\ Once(worker'[w].batch) /\ (\A s \in Slots : ~ (In(s, worker'[w].queue) /\ In(s, worker'[w].batch)))
    BY <1>2, <1>3, <1>4, <1>10 DEF Tasked, Queued, k
  <2>2. \A s \in Slots : Pending(w, s)' => TaskOf(w, s)' /\ ~slot'[s].finished /\ ran'[s] = 0 /\ Unseen(w, s)'
    BY <1>1, <1>10, <1>11, <1>14, <1>15 DEF Tasked, Queued
  <2>. QED BY <2>1, <2>2 DEF Queued
<1>17. Taken(w)'
  <2>1. LocalTasks(worker'[w])
    <3>1. \A j \in DOMAIN k.locals : k.locals[j].task # h
      BY <1>2 DEF Unseen, k
    <3>2. LocalTasks(k)
      BY <1>10 DEF Tasked, Taken, k
    <3>3. \A j, i \in DOMAIN p : p[j].task = p[i].task => j = i
      BY <1>9, <3>1, <3>2 DEF LocalTasks
    <3>. QED BY <1>3, <1>4, <3>3 DEF LocalTasks
  <2>2. \A j \in DOMAIN p : /\ p[j].task \in made /\ p[j].task \notin refused /\ slot[p[j].task].worker = w
                            /\ j >= k.i => ~slot[p[j].task].finished
    <3>1. \A j \in DOMAIN k.locals : /\ k.locals[j].task \in made /\ k.locals[j].task \notin refused /\ slot[k.locals[j].task].worker = w
                                     /\ j >= k.i => ~slot[k.locals[j].task].finished
      BY <1>10 DEF Tasked, Taken, TaskOf, k
    <3>2. h \in made /\ h \notin refused /\ slot[h].worker = w /\ ~slot[h].finished
      BY <1>2 DEF TaskOf
    <3>. QED BY <1>9, <3>1, <3>2
  <2>. QED BY <1>1, <1>3, <1>4, <2>1, <2>2 DEF Taken, TaskOf
<1>18. Threaded(w)'
  <2>1. \A i \in Ids : sched[w].thread[i].routine # h
    BY <1>2 DEF Unseen
  <2>2. Threaded(w)
    BY <1>10 DEF Tasked
  <2>3. ASSUME NEW i \in Ids, v.thread[i].routine \in Slots
        PROVE  /\ v.thread[i].routine \in made /\ v.thread[i].routine \notin refused /\ slot[v.thread[i].routine].worker = w
               /\ v.thread[i].state = "FINISHED" <=> ran[v.thread[i].routine] = 1
               /\ v.thread[i].state # "NEW"
               /\ \A j \in Ids : v.thread[j].routine = v.thread[i].routine => i = j
    <3>1. CASE i = n
      BY <1>1, <1>2, <1>5, <2>1, <3>1 DEF TaskOf
    <3>2. CASE i # n
      <4>1. v.thread[i] = sched[w].thread[i]
        BY <1>1, <3>2
      <4>2. \A j \in Ids : j # n => v.thread[j] = sched[w].thread[j]
        BY <1>1
      <4>3. v.thread[i].routine # h /\ v.thread[n].routine = h
        BY <1>1, <1>5, <2>1, <4>1
      <4>. QED BY <2>2, <2>3, <4>1, <4>2, <4>3 DEF Threaded, TaskOf
    <3>. QED BY <3>1, <3>2
  <2>. QED BY <1>1, <1>3, <2>3 DEF Threaded, TaskOf
<1>19. Spares(w)
  BY <1>1, <1>3 DEF Spares
<1>20. ASSUME NEW s \in Slots, TaskOf(w, s) PROVE Accounted(s)' /\ TrueResult(s)'
  <2>1. Accounted(s) /\ TrueResult(s)
    BY DEF Tasks, ResultsTrue, TrueResult
  <2>2. slot[s].worker = w
    BY <1>20 DEF TaskOf
  <2>3. Accounted(s)'
    BY <1>1, <1>11, <1>12, <1>13, <2>1, <2>2 DEF Accounted
  <2>4. TrueResult(s)'
    BY <1>1, <1>3, <2>1, <2>2 DEF TrueResult
  <2>. QED BY <2>3, <2>4
<1>. QED BY <1>16, <1>17, <1>18, <1>19, <1>20, Spared DEF Tasked

(* The routine that returns is a task that has not run before, or a child. *)
LEMMA ReturnsTasks ==
  ASSUME Typed, Locally, Owned, Tasks, ResultsTrue, NEW w \in Workers, Returns(w)
  PROVE  Tasks' /\ ResultsTrue' /\ ran' \in [Slots -> 0 .. 1]
<1>1. PICK x \in KernelThread, v \in AnyScheduler :
        LET k == worker[w]
            u == sched[w]
            r == u.thread[u.current].routine
        IN /\ worker' = [worker EXCEPT ![w] = x] /\ sched' = [sched EXCEPT ![w] = v]
           /\ Carries(k, x) /\ v.hurt = u.hurt
           /\ u.current \in Ids /\ u.thread[u.current].state # "FINISHED"
           /\ \A i \in Ids : /\ v.thread[i].routine = u.thread[i].routine
                             /\ v.thread[i].state = "FINISHED" <=> u.thread[i].state = "FINISHED" \/ i = u.current
                             /\ v.thread[i].state = "NEW" => u.thread[i].state = "NEW"
           /\ ran' = IF r \in Slots THEN [ran EXCEPT ![r] = @ + 1] ELSE ran
           /\ UNCHANGED <<slot, client, made, refused>>
  BY ReturnsMoves
<1> DEFINE u == sched[w]
           c == u.current
           r == u.thread[c].routine
<1>2. /\ worker'[w] = x /\ sched'[w] = v /\ \A o \in Workers : o # w => worker'[o] = worker[o] /\ sched'[o] = sched[o]
  BY <1>1 DEF Typed
<1>3. /\ x.queue = worker[w].queue /\ x.batch = worker[w].batch /\ x.locals = worker[w].locals /\ x.i = worker[w].i
  BY <1>1 DEF Carries
<1>4. /\ c \in Ids /\ u.thread[c].state # "FINISHED" /\ v.hurt = u.hurt
      /\ ran' = IF r \in Slots THEN [ran EXCEPT ![r] = @ + 1] ELSE ran
      /\ UNCHANGED <<slot, client, made, refused>>
  BY <1>1
<1>5. \A i \in Ids : /\ v.thread[i].routine = u.thread[i].routine
                     /\ v.thread[i].state = "FINISHED" <=> (u.thread[i].state = "FINISHED" \/ i = c)
                     /\ v.thread[i].state = "NEW" => u.thread[i].state = "NEW"
  BY <1>1
<1>6. ran \in [Slots -> 0 .. 1] /\ Tasked(w)
  BY DEF Typed, Tasks
<1>7. r \in Slots => TaskOf(w, r) /\ ran[r] = 0 /\ (\A i \in Ids : u.thread[i].routine = r => i = c)
  BY <1>4, <1>6 DEF Tasked, Threaded
<1> HIDE DEF u, c, r
<1>8. \A s \in Slots : ran'[s] = IF s = r THEN 1 ELSE ran[s]
  BY <1>4, <1>6, <1>7
<1>9. ran' \in [Slots -> 0 .. 1]
  BY <1>4, <1>6, <1>7
<1>10. \A s : /\ Pending(w, s)' <=> Pending(w, s)
              /\ Open(w, s)' <=> Open(w, s)
              /\ Unseen(w, s)' <=> Unseen(w, s)
              /\ TaskOf(w, s)' <=> TaskOf(w, s)
  BY <1>2, <1>3, <1>4, <1>5 DEF Pending, Open, Unseen, TaskOf, u
<1>11. Queued(w)'
  <2>1. \A s \in Slots : Pending(w, s) => s # r
    BY <1>4, <1>6 DEF Tasked, Queued, Unseen, u, c, r
  <2>2. \A s \in Slots : Pending(w, s)' => TaskOf(w, s)' /\ ~slot'[s].finished /\ ran'[s] = 0 /\ Unseen(w, s)'
    BY <1>4, <1>6, <1>8, <1>10, <2>1 DEF Tasked, Queued
  <2>. QED BY <1>2, <1>3, <1>6, <2>2 DEF Tasked, Queued
<1>12. Taken(w)'
  BY <1>2, <1>3, <1>4, <1>6 DEF Tasked, Taken, LocalTasks, TaskOf
<1>13. Threaded(w)'
  <2>1. ASSUME NEW i \in Ids, v.thread[i].routine \in Slots
        PROVE  /\ v.thread[i].routine \in made /\ v.thread[i].routine \notin refused /\ slot[v.thread[i].routine].worker = w
               /\ v.thread[i].state = "FINISHED" <=> ran'[v.thread[i].routine] = 1
               /\ v.thread[i].state # "NEW"
               /\ \A j \in Ids : v.thread[j].routine = v.thread[i].routine => i = j
    <3>1. /\ u.thread[i].routine \in Slots /\ u.thread[i].routine = v.thread[i].routine
      BY <1>5, <2>1
    <3>2. /\ u.thread[i].routine \in made /\ u.thread[i].routine \notin refused /\ slot[u.thread[i].routine].worker = w
          /\ u.thread[i].state = "FINISHED" <=> ran[u.thread[i].routine] = 1
          /\ u.thread[i].state # "NEW"
          /\ \A j \in Ids : u.thread[j].routine = u.thread[i].routine => i = j
      BY <1>6, <3>1 DEF Tasked, Threaded, TaskOf, u
    <3>3. v.thread[i].state = "FINISHED" <=> ran'[v.thread[i].routine] = 1
      <4>1. CASE i = c
        <5>1. u.thread[i].routine = r
          BY <4>1 DEF r
        <5>. QED BY <1>5, <1>8, <3>1, <4>1, <5>1
      <4>2. CASE i # c
        <5>1. u.thread[i].routine # r
          BY <1>7, <3>1, <4>2
        <5>. QED BY <1>5, <1>8, <3>1, <3>2, <4>2, <5>1
      <4>. QED BY <4>1, <4>2
    <3>. QED BY <1>5, <3>1, <3>2, <3>3
  <2>. QED BY <1>2, <1>4, <2>1 DEF Threaded, TaskOf
<1>14. Spares(w)
  <2>1. \A s \in Slots : ~TaskOf(w, s) => s # r
    BY <1>7
  <2>. QED BY <1>2, <1>4, <1>8, <2>1 DEF Spares, u
<1>15. ASSUME NEW s \in Slots, TaskOf(w, s) PROVE Accounted(s)' /\ TrueResult(s)'
  <2>1. Accounted(s) /\ TrueResult(s)
    BY DEF Tasks, ResultsTrue, TrueResult
  <2>2. slot[s].worker = w /\ s \in made /\ s \notin refused
    BY <1>15 DEF TaskOf
  <2>3. Accounted(s)'
    BY <1>4, <1>10, <2>1, <2>2 DEF Accounted
  <2>4. TrueResult(s)'
    <3>1. slot'[s] = slot[s] /\ sched'[slot[s].worker].hurt = sched[slot[s].worker].hurt
      BY <1>2, <1>4, <2>2 DEF u
    <3>. QED BY <1>8, <2>1, <2>2, <3>1 DEF TrueResult
  <2>. QED BY <2>3, <2>4
<1>. QED BY <1>9, <1>11, <1>12, <1>13, <1>14, <1>15, Spared DEF Tasked

(* The result that is collected is that of the task, unless the scheduler is hurt. *)
LEMMA CollectTasks ==
  ASSUME Typed, Locally, Owned, Tasks, ResultsTrue, NEW w \in Workers, Collect(w)
  PROVE  Tasks' /\ ResultsTrue'
<1> DEFINE k == worker[w]
           u == sched[w]
           id == k.locals[k.i].id
           h == k.locals[k.i].task
           can == CanJoin(u, id)
           v == IF CanJoin(u, id) THEN Reclaim(MarkJoined(u, id), id) ELSE u
           x == NextLocal(k)
           res == IF CanJoin(u, id) THEN u.thread[id].retval ELSE Nil
<1>1. Tasked(w) /\ LocalTasks(k) /\ LocalInv(k, u)
  BY DEF Tasks, Tasked, Taken, Locally
<1>2. /\ Moves(w) /\ worker' = [worker EXCEPT ![w] = x] /\ sched' = [sched EXCEPT ![w] = v]
      /\ Careful(u, v) /\ k.at = "collect"
      /\ Publish(h, res)
      /\ UNCHANGED <<made, refused, ran>>
  BY <1>1, CollectMoves
<1>3. /\ k.i \in Nat /\ k.i >= 1 /\ k.i <= Len(k.locals) /\ Len(k.locals) \in Nat
      /\ DOMAIN k.locals = 1 .. Len(k.locals) /\ id \in Ids /\ h \in Slots
      /\ ~u.hurt => /\ CanJoin(u, id) /\ Ended(u, id)
                    /\ u.thread[id].routine = h /\ u.thread[id].retval = h
  BY <1>1, <1>2, CollectFacts
<1>4. /\ x.queue = k.queue /\ x.batch = <<>>
      /\ \A j \in x.i .. Len(x.locals) : j \in k.i + 1 .. Len(k.locals) /\ x.locals[j] = k.locals[j]
      /\ x.at = "top" => k.i = Len(k.locals) /\ x.locals = <<>> /\ x.i = 1
      /\ x.at = "collect" => x.i = k.i + 1 /\ x.locals = k.locals
      /\ x.at \in {"collect", "top"}
  BY <1>1, <1>2, NextLocalIs
<1>5. k.batch = <<>>
  BY <1>1, <1>2 DEF LocalInv, Phase
<1>6. /\ worker'[w] = x /\ sched'[w] = v /\ \A o \in Workers : o # w => worker'[o] = worker[o] /\ sched'[o] = sched[o]
  BY <1>2 DEF Typed
<1>8. h = k.locals[k.i].task /\ k.i \in DOMAIN k.locals /\ TaskOf(w, h)
  BY <1>1, <1>3 DEF Tasked, Taken
<1>9. ~u.hurt => res = h /\ ran[h] = 1
  BY <1>1, <1>3 DEF Tasked, Threaded, Ended
<1> HIDE DEF k, u, id, h, v, x, res
<1>7. /\ slot'[h].finished /\ slot'[h].retval = res /\ slot'[h].worker = slot[h].worker
      /\ \A s \in Slots : s # h => slot'[s] = slot[s]
      /\ \A s \in Slots : slot'[s].worker = slot[s].worker
  BY <1>2, <1>3 DEF Publish, Typed
<1>10. x.locals = k.locals \/ x.locals = <<>>
  BY <1>4
<1>11. DOMAIN x.locals \subseteq DOMAIN k.locals /\ \A j \in DOMAIN x.locals : x.locals[j] = k.locals[j]
  <2>1. CASE x.locals = k.locals
    BY <2>1
  <2>2. CASE x.locals = <<>>
    BY <2>2
  <2>. QED BY <1>10, <2>1, <2>2
<1>12. \A s : Pending(w, s)' <=> Pending(w, s)
  BY <1>4, <1>5, <1>6 DEF Pending, k
<1>13. \A s : Open(w, s) /\ s # h => Open(w, s)'
  <2>1. ASSUME NEW j \in k.i .. Len(k.locals), k.locals[j].task # h
        PROVE  j \in x.i .. Len(x.locals) /\ x.locals[j] = k.locals[j]
    <3>1. j # k.i
      BY <1>8, <2>1
    <3>2. j \in k.i + 1 .. Len(k.locals)
      BY <1>3, <2>1, <3>1
    <3>3. x.at # "top"
      BY <1>3, <1>4, <3>2
    <3>. QED BY <1>4, <3>2, <3>3
  <2>. QED BY <1>6, <2>1 DEF Open, k
<1>14. \A s : Unseen(w, s) => Unseen(w, s)' \/ s \notin Slots
  BY <1>2, <1>6, <1>11 DEF Unseen, Careful, k, u
<1>15. \A s \in Slots : Pending(w, s) => s # h
  BY <1>1, <1>8 DEF Tasked, Queued, Unseen, k
<1>16. Queued(w)'
  <2>1. Once(worker'[w].queue) /\ Once(worker'[w].batch) /\ (\A s \in Slots : ~ (In(s, worker'[w].queue) /\ In(s, worker'[w].batch)))
    BY <1>1, <1>4, <1>5, <1>6 DEF Tasked, Queued, k
  <2>2. \A s \in Slots : Pending(w, s)' => TaskOf(w, s)' /\ ~slot'[s].finished /\ ran'[s] = 0 /\ Unseen(w, s)'
    BY <1>1, <1>2, <1>7, <1>12, <1>14, <1>15 DEF Tasked, Queued, TaskOf
  <2>. QED BY <2>1, <2>2 DEF Queued
<1>17. Taken(w)'
  <2>1. LocalTasks(x)
    BY <1>1, <1>11 DEF LocalTasks
  <2>2. ASSUME NEW j \in DOMAIN x.locals
        PROVE  /\ x.locals[j].task \in made' /\ x.locals[j].task \notin refused' /\ slot'[x.locals[j].task].worker = w
               /\ j >= x.i => ~slot'[x.locals[j].task].finished
    <3> DEFINE s == k.locals[j].task
    <3>1. j \in DOMAIN k.locals /\ x.locals[j] = k.locals[j]
      BY <1>11, <2>2
    <3>2. s \in Slots /\ s \in made /\ s \notin refused /\ slot[s].worker = w /\ (j >= k.i => ~slot[s].finished)
      BY <1>1, <3>1, LocalsType DEF Tasked, Taken, TaskOf, k
    <3>3. ASSUME j >= x.i PROVE j >= k.i /\ s # h
      <4>1. x.locals = k.locals
        BY <1>10, <2>2
      <4>2. x.at = "collect" /\ x.i = k.i + 1
        BY <1>3, <1>4, <1>8, <4>1
      <4>3. j # k.i /\ j >= k.i /\ j \in Int
        BY <1>3, <3>1, <3>3, <4>2
      <4>. QED BY <1>1, <1>8, <3>1, <4>3 DEF LocalTasks
    <3>. QED BY <1>2, <1>7, <3>1, <3>2, <3>3
  <2>. QED BY <1>6, <2>1, <2>2 DEF Taken, TaskOf
<1>18. Threaded(w)'
  <2>1. ASSUME NEW i \in Ids, v.thread[i].routine \in Slots
        PROVE  /\ v.thread[i].routine \in made /\ v.thread[i].routine \notin refused /\ slot[v.thread[i].routine].worker = w
               /\ v.thread[i].state = "FINISHED" <=> ran[v.thread[i].routine] = 1
               /\ v.thread[i].state # "NEW"
               /\ \A j \in Ids : v.thread[j].routine = v.thread[i].routine => i = j
    BY <1>1, <1>2, <2>1 DEF Tasked, Threaded, TaskOf, Careful, u
  <2>. QED BY <1>2, <1>6, <1>7, <2>1 DEF Threaded, TaskOf
<1>19. Spares(w)
  BY <1>2, <1>6, <1>7, <1>8 DEF Spares, Careful, u
<1>20. ASSUME NEW s \in Slots, TaskOf(w, s) PROVE Accounted(s)' /\ TrueResult(s)'
  <2>1. Accounted(s) /\ TrueResult(s)
    BY DEF Tasks, ResultsTrue, TrueResult
  <2>2. slot[s].worker = w /\ s \in made /\ s \notin refused
    BY <1>20 DEF TaskOf
  <2>3. Accounted(s)'
    <3>1. CASE s = h
      BY <1>2, <1>7, <2>1, <2>2, <3>1 DEF Accounted
    <3>2. CASE s # h
      BY <1>2, <1>7, <1>12, <1>13, <2>1, <2>2, <3>2 DEF Accounted
    <3>. QED BY <3>1, <3>2
  <2>4. u.hurt => v.hurt
    BY <1>2 DEF Careful
  <2>5. TrueResult(s)'
    <3>1. CASE s = h
      BY <1>2, <1>6, <1>7, <1>9, <2>2, <2>4, <3>1 DEF TrueResult
    <3>2. CASE s # h
      BY <1>2, <1>6, <1>7, <2>1, <2>2, <2>4, <3>2 DEF TrueResult, u
    <3>. QED BY <3>1, <3>2
  <2>. QED BY <2>3, <2>5
<1>. QED BY <1>16, <1>17, <1>18, <1>19, <1>20, Spared DEF Tasked

-----------------------------------------------------------------------------
(*****************************************************************************)
(* Slots and clients, and the inductive invariant.                           *)
(*****************************************************************************)

(* Slots are handed out in turn, and a client that creates has one of its own *)
Creating(c) ==
  /\ main.at = "up" /\ client[c].slot \in Slots /\ client[c].slot \notin made
  /\ slot[client[c].slot].used /\ slot[client[c].slot].worker \in 0 .. main.n - 1
  /\ \A d \in Clients : client[d].at = "create" /\ client[d].slot = client[c].slot => c = d

Handed ==
  /\ \A s \in Slots : slot[s].used <=> s < next_worker
  /\ Owned
  /\ \A c \in Clients : client[c].at = "create" => Creating(c)

(* Nobody but the clients hands out slots. *)
LEMMA HandedKept ==
  ASSUME Typed, Handed, UNCHANGED <<next_worker, made>>,
         \A s \in Slots : slot'[s].used = slot[s].used /\ slot'[s].worker = slot[s].worker,
         \A c \in Clients : client'[c].at = "create" => /\ client'[c] = client[c]
                                                        /\ main'.at = "up" /\ main'.n = main.n
  PROVE  Handed'
<1>1. made \subseteq Slots
  BY DEF Typed
<1>2. Owned'
  BY <1>1 DEF Handed, Owned
<1>3. ASSUME NEW c \in Clients, client'[c].at = "create" PROVE Creating(c)'
  <2>1. /\ client'[c] = client[c] /\ main'.at = "up" /\ main'.n = main.n /\ Creating(c)
    BY <1>3 DEF Handed
  <2>2. \A d \in Clients : client'[d].at = "create" => client'[d] = client[d]
    OBVIOUS
  <2>. QED BY <1>3, <2>1, <2>2 DEF Creating
<1>. QED BY <1>2, <1>3 DEF Handed

(* Publishing a result concerns nobody who creates. *)
LEMMA PublishFacts ==
  ASSUME Typed, NEW s \in Slots, NEW r \in Routines \cup {Nil}, Publish(s, r)
  PROVE  /\ slot' \in [Slots -> MappedThread] /\ client' \in [Clients -> Caller]
         /\ \A q \in Slots : slot'[q].used = slot[q].used /\ slot'[q].worker = slot[q].worker
         /\ \A c \in Clients : client'[c].at = "create" => client'[c] = client[c]
<1>1. slot \in [Slots -> MappedThread] /\ client \in [Clients -> Caller]
  BY DEF Typed
<1>2. /\ slot' = [slot EXCEPT ![s].finished = TRUE, ![s].retval = r]
      /\ client' = [c \in Clients |-> IF client[c] = [at |-> "join", slot |-> s] THEN Idle ELSE client[c]]
  BY DEF Publish
<1>3. Idle \in Caller /\ Idle.at = "idle"
  BY DEF Idle, Caller
<1>4. client' \in [Clients -> Caller] /\ \A c \in Clients : client'[c].at = "create" => client'[c] = client[c]
  <2>1. \A c \in Clients : client'[c] = Idle \/ client'[c] = client[c]
    BY <1>2
  <2>2. client' \in [Clients -> Caller]
    BY <1>1, <1>2, <1>3
  <2>. QED BY <1>3, <2>1, <2>2
<1> DEFINE t == [slot[s] EXCEPT !.finished = TRUE, !.retval = r]
<1>5. t \in MappedThread /\ t.used = slot[s].used /\ t.worker = slot[s].worker
  BY <1>1 DEF MappedThread
<1>6. slot' = [slot EXCEPT ![s] = t]
  BY <1>1, <1>2
<1> HIDE DEF t
<1>7. slot' \in [Slots -> MappedThread]
  BY <1>1, <1>5, <1>6
<1>8. \A q \in Slots : slot'[q].used = slot[q].used /\ slot'[q].worker = slot[q].worker
  BY <1>1, <1>5, <1>6
<1>. QED BY <1>4, <1>7, <1>8

(* The inductive invariant *)
IInv == Typed /\ Locally /\ Stages /\ Handed /\ Tasks /\ ResultsTrue

(* It holds initially. *)
LEMMA InitIInv == Init => IInv
<1> SUFFICES ASSUME Init PROVE IInv
  OBVIOUS
<1>1. /\ \A w \in Workers : worker[w] = NoWorker /\ sched[w] = Fresh
      /\ worker = [w \in Workers |-> NoWorker] /\ sched = [w \in Workers |-> Fresh]
      /\ \A s \in Slots : slot[s] = Free /\ ran[s] = 0
      /\ \A c \in Clients : client[c] = Idle
      /\ next_worker = 0 /\ made = {} /\ refused = {}
      /\ main = [at |-> "down", n |-> 0, created |-> 0, i |-> 0, inits |-> 0, initialized |-> FALSE]
      /\ slot = [s \in Slots |-> Free] /\ client = [c \in Clients |-> Idle] /\ ran = [s \in Slots |-> 0]
  BY DEF Init
<1>2. Fresh = New(FALSE)
  <2>1. Fresh \in AnyScheduler /\ Fresh.hurt = FALSE
    <3>1. Fresh \in AnyScheduler
      BY NewFacts DEF NoWorker
    <3>. QED BY <3>1 DEF Fresh
  <2>2. \A r \in AnyScheduler : r.hurt = FALSE => [r EXCEPT !.hurt = FALSE] = r
    BY DEF AnyScheduler
  <2>. QED BY <2>1, <2>2 DEF New
<1>3. /\ LocalInv(NoWorker, Fresh)
      /\ \A i \in Ids : Fresh.thread[i].routine = Nil
      /\ NoWorker.queue = <<>> /\ NoWorker.batch = <<>> /\ NoWorker.locals = <<>> /\ NoWorker.i = 1
  BY <1>2, NewFacts
<1>4. Typed
  <2>1. NoWorker \in KernelThread /\ Fresh \in AnyScheduler
    BY <1>3 DEF LocalInv
  <2>2. main \in Mains
    <3>1. 0 \in 0 .. MaxWorkers /\ 0 \in 0 .. MaxInits
      BY BoundsAssumption
    <3>. QED BY <1>1, <3>1 DEF Mains
  <2>3. 0 \in 0 .. MaxThreads
    BY MaxThreadsAssumption
  <2>4. Free \in MappedThread /\ Idle \in Caller
    BY DEF Free, MappedThread, Idle, Caller
  <2>. QED BY <1>1, <2>1, <2>2, <2>3, <2>4 DEF Typed
<1>5. Locally
  BY <1>1, <1>3 DEF Locally
<1>6. Stages
  BY <1>1 DEF Stages, Alive, NoWorker
<1>7. Handed
  <2>1. \A s \in Slots : ~ (s < 0)
    BY MaxThreadsAssumption DEF Slots, Ids
  <2>. QED BY <1>1, <2>1 DEF Handed, Owned, Free, Idle
<1>8. Tasks
  <2>1. ASSUME NEW w \in Workers PROVE Tasked(w)
    <3>1. /\ worker[w].queue = <<>> /\ worker[w].batch = <<>> /\ worker[w].locals = <<>>
          /\ \A i \in Ids : sched[w].thread[i].routine = Nil
      BY <1>1, <1>3
    <3> DEFINE e == <<>>
    <3>2. DOMAIN e = {} /\ worker[w].queue = e /\ worker[w].batch = e /\ worker[w].locals = e
      BY <3>1
    <3> HIDE DEF e
    <3>3. Queued(w)
      BY <3>2 DEF Queued, Once, Pending, In
    <3>4. Taken(w)
      BY <3>2 DEF Taken, LocalTasks
    <3>5. Nil \notin Slots
      BY MaxThreadsAssumption DEF Slots
    <3>6. Threaded(w)
      BY <3>1, <3>5 DEF Threaded
    <3>. QED BY <3>3, <3>4, <3>6 DEF Tasked
  <2>2. ASSUME NEW s \in Slots PROVE Accounted(s)
    BY <1>1 DEF Accounted, Free
  <2>. QED BY <2>1, <2>2 DEF Tasks
<1>9. ResultsTrue
  BY <1>1 DEF ResultsTrue, Free
<1>. QED BY <1>4, <1>5, <1>6, <1>7, <1>8, <1>9 DEF IInv

-----------------------------------------------------------------------------
(*****************************************************************************)
(* Every action keeps it.                                                    *)
(*****************************************************************************)

(* main keeps it. *)
LEMMA MainKeeps ==
  ASSUME IInv, Main
  PROVE  IInv'
<1>1. Typed /\ Locally /\ Stages /\ Handed /\ Owned /\ Tasks /\ ResultsTrue
  BY DEF IInv, Handed
<1>2. Typed' /\ Locally' /\ Stages' /\ Quiet /\ UNCHANGED <<next_worker, slot, client>>
  <2>1. CASE CallInit \/ CreateWorkerFails \/ CallShutdown
    <3>1. Locally' /\ Stages' /\ main' \in Mains
      BY <1>1, <2>1, StartKeeps
    <3>2. UNCHANGED <<next_worker, slot, client, worker, sched, made, refused, ran>>
      BY <2>1 DEF CallInit, CreateWorkerFails, CallShutdown, history
    <3>3. Typed'
      BY <1>1, <3>1, <3>2 DEF Typed
    <3>4. Quiet
      BY <3>2, SameIsQuiet
    <3>. QED BY <3>1, <3>2, <3>3, <3>4
  <2>2. CASE CreateWorker
    BY <1>1, <2>2, CreateWorkerKeeps
  <2>3. CASE Stop
    BY <1>1, <2>3, StopKeeps
  <2>4. CASE Join
    BY <1>1, <2>4, JoinKeeps
  <2>. QED BY <2>1, <2>2, <2>3, <2>4 DEF Main
<1>3. Tasks' /\ ResultsTrue'
  BY <1>1, <1>2, QuietKeeps
<1>4. main.at = "up" => \A c \in Clients : client[c].at # "create"
  BY DEF Main, CallInit, CreateWorker, CreateWorkerFails, CallShutdown, Stop, Join
<1>5. \A c \in Clients : client[c].at # "create"
  BY <1>1, <1>4 DEF Handed, Creating
<1>6. made' = made
  BY <1>2 DEF Quiet
<1>7. Handed'
  BY <1>1, <1>2, <1>5, <1>6, HandedKept
<1>. QED BY <1>2, <1>3, <1>7 DEF IInv

(* The lowest unused slot is the next one. *)
LEMMA TakeSlotKeeps ==
  ASSUME IInv, NEW c \in Clients, TakeSlot(c)
  PROVE  IInv'
<1>1. Typed /\ Locally /\ Stages /\ Handed /\ Owned /\ Tasks /\ ResultsTrue
  BY DEF IInv, Handed
<1>2. PICK s \in Slots :
        /\ ~slot[s].used
        /\ \A r \in Slots : r < s => slot[r].used
        /\ slot' = [slot EXCEPT ![s] = [Free EXCEPT !.used = TRUE, !.worker = next_worker % main.n]]
        /\ client' = [client EXCEPT ![c] = [at |-> "create", slot |-> s]]
  BY DEF TakeSlot
<1>3. /\ main.at = "up" /\ client[c] = Idle /\ next_worker' = next_worker + 1
      /\ UNCHANGED <<main, worker, sched, made, refused, ran>>
  BY DEF TakeSlot, history
<1> DEFINE t == [Free EXCEPT !.used = TRUE, !.worker = next_worker % main.n]
           d == [at |-> "create", slot |-> s]
<1>4. s = next_worker /\ next_worker \in Nat /\ MaxThreads \in Nat /\ next_worker < MaxThreads
  <2>1. next_worker \in 0 .. MaxThreads /\ MaxThreads \in Nat /\ \A r : r \in Slots <=> r \in Nat /\ r < MaxThreads
    BY <1>1, MaxThreadsAssumption DEF Typed, Slots, Ids
  <2>2. \A r \in Slots : slot[r].used <=> r < next_worker
    BY <1>1 DEF Handed
  <2>3. s >= next_worker
    BY <1>2, <2>1, <2>2
  <2>4. ASSUME s > next_worker PROVE FALSE
    <3>1. next_worker \in Slots
      BY <2>1, <2>4
    <3>. QED BY <1>2, <2>1, <2>2, <2>4, <3>1
  <2>. QED BY <2>1, <2>3, <2>4
<1>5. main.n \in Nat /\ main.n >= 1 /\ main.n <= MaxWorkers /\ main.created = main.n
  BY <1>1, <1>3, MainType, WorkerIds DEF Stages
<1>6. next_worker % main.n \in 0 .. main.n - 1 /\ next_worker % main.n \in Workers
  <2>1. next_worker % main.n \in 0 .. main.n - 1
    BY <1>4, <1>5
  <2> DEFINE x == next_worker % main.n
  <2> HIDE DEF x
  <2>2. x \in 0 .. main.n - 1 => x \in Workers
    BY <1>5, WorkerIds
  <2>. QED BY <2>1, <2>2 DEF x
<1>7. t \in MappedThread /\ t.used /\ t.worker = next_worker % main.n /\ ~t.finished
  BY <1>6 DEF Free, MappedThread
<1>8. d \in Caller /\ d.at = "create" /\ d.slot = s
  BY DEF Caller
<1> HIDE DEF t, d
<1>9. /\ slot' \in [Slots -> MappedThread] /\ slot'[s] = t /\ \A q \in Slots : q # s => slot'[q] = slot[q]
      /\ client' \in [Clients -> Caller] /\ client'[c] = d /\ \A q \in Clients : q # c => client'[q] = client[q]
  BY <1>1, <1>2, <1>7, <1>8 DEF Typed, t, d
<1>10. Typed'
  <2>1. next_worker' \in 0 .. MaxThreads
    BY <1>3, <1>4
  <2>. QED BY <1>1, <1>3, <1>9, <2>1 DEF Typed
<1>11. Locally' /\ Stages'
  BY <1>1, <1>3 DEF Locally, Stages
<1>12. s \notin made
  BY <1>1, <1>2 DEF Owned
<1>13. made \subseteq Slots
  BY <1>1 DEF Typed
<1>14. Quiet
  <2>1. \A q \in made : q \in Slots /\ q # s
    BY <1>12, <1>13
  <2>2. \A o \in Workers : Carries(worker[o], worker'[o]) /\ Careful(sched[o], sched'[o])
    BY <1>3 DEF Carries, Careful
  <2>. QED BY <1>3, <1>7, <1>9, <2>1, <2>2 DEF Quiet
<1>15. Tasks' /\ ResultsTrue'
  BY <1>1, <1>14, QuietKeeps
<1>16. \A q \in Slots : slot'[q].used <=> q < next_worker'
  <2>1. \A q \in Slots : q \in Nat
    BY MaxThreadsAssumption DEF Slots, Ids
  <2>2. ASSUME NEW q \in Slots PROVE slot'[q].used <=> q < next_worker'
    <3>1. CASE q = s
      BY <1>3, <1>4, <1>7, <1>9, <3>1
    <3>2. CASE q # s
      <4>1. slot[q].used <=> q < next_worker
        BY <1>1 DEF Handed
      <4>2. q < next_worker + 1 <=> q < next_worker
        BY <1>4, <2>1, <3>2
      <4>. QED BY <1>3, <1>9, <3>2, <4>1, <4>2
    <3>. QED BY <3>1, <3>2
  <2>. QED BY <2>2
<1>17. Owned'
  <2>1. \A q \in made : q \in Slots /\ q # s
    BY <1>12, <1>13
  <2>. QED BY <1>1, <1>3, <1>9, <2>1 DEF Owned
<1>18. ASSUME NEW q \in Clients, client'[q].at = "create" PROVE Creating(q)'
  <2>1. \A e \in Clients : e # c /\ client[e].at = "create" => client[e].slot \in Slots /\ client[e].slot # s
    BY <1>1, <1>2 DEF Handed, Creating
  <2>2. CASE q = c
    <3>1. \A e \in Clients : client'[e].at = "create" /\ client'[e].slot = s => e = c
      BY <1>8, <1>9, <2>1
    <3>. QED BY <1>3, <1>6, <1>7, <1>8, <1>9, <1>12, <2>2, <3>1 DEF Creating
  <2>3. CASE q # c
    <3>1. client'[q] = client[q] /\ client[q].slot # s
      BY <1>9, <1>18, <2>1, <2>3
    <3>2. Creating(q)
      BY <1>1, <1>18, <3>1 DEF Handed
    <3>3. \A e \in Clients : client'[e].at = "create" /\ client'[e].slot = client[q].slot => q = e
      BY <1>8, <1>9, <3>1, <3>2 DEF Creating
    <3>. QED BY <1>3, <1>9, <3>1, <3>2, <3>3 DEF Creating
  <2>. QED BY <2>2, <2>3
<1>19. Handed'
  BY <1>16, <1>17, <1>18 DEF Handed
<1>. QED BY <1>10, <1>11, <1>15, <1>19 DEF IInv

(* A task that is queued is in the hands of its worker from then on. *)
LEMMA EnqueueKeeps ==
  ASSUME IInv, NEW c \in Clients, Enqueue(c)
  PROVE  IInv'
<1>1. Typed /\ Locally /\ Stages /\ Handed /\ Owned /\ Tasks /\ ResultsTrue
  BY DEF IInv, Handed
<1> DEFINE s == client[c].slot
           w == slot[s].worker
<1>2. client[c].at = "create" /\ Creating(c)
  BY <1>1 DEF Enqueue, Handed
<1>3. /\ main.at = "up" /\ s \in Slots /\ s \notin made /\ slot[s].used /\ w \in 0 .. main.n - 1
      /\ \A d \in Clients : client[d].at = "create" /\ client[d].slot = s => c = d
  BY <1>2 DEF Creating
<1>4. main.created = main.n /\ main.n \in Nat /\ main.n <= MaxWorkers
  BY <1>1, <1>3, MainType, WorkerIds DEF Stages
<1>5. w \in Workers /\ w < main.created
  BY <1>3, <1>4, WorkerIds
<1>6. /\ worker' = [worker EXCEPT ![w].queue = Append(@, s), ![w].at = Awake(w)]
      /\ made' = made \cup {s} /\ client' = [client EXCEPT ![c] = Idle]
      /\ UNCHANGED <<main, next_worker, slot, sched, refused, ran>>
  BY DEF Enqueue
<1>7. PICK o \in Workers : o = w
  BY <1>5
<1>8. PICK h \in Slots : h = s
  BY <1>3
<1>9. /\ main.at = "up" /\ o < main.created /\ h \notin made /\ slot[h].used /\ slot[h].worker = o
      /\ (\A d \in Clients : client[d].at = "create" /\ client[d].slot = h => c = d)
      /\ worker' = [worker EXCEPT ![o].queue = Append(@, h), ![o].at = Awake(o)]
      /\ made' = made \cup {h} /\ client' = [client EXCEPT ![c] = Idle]
      /\ UNCHANGED <<main, next_worker, slot, sched, refused, ran>>
  BY <1>3, <1>5, <1>6, <1>7, <1>8
<1> HIDE DEF s, w
<1>10. /\ Locally' /\ Stages' /\ worker' \in [Workers -> KernelThread]
       /\ worker'[o].queue = Append(worker[o].queue, h) /\ worker'[o].batch = worker[o].batch
       /\ worker'[o].locals = worker[o].locals /\ worker'[o].i = worker[o].i
       /\ \A p \in Workers : p # o => worker'[p] = worker[p]
  BY <1>1, <1>9, QueueGrows
<1>11. Typed'
  <2>1. Idle \in Caller
    BY DEF Idle, Caller
  <2>. QED BY <1>1, <1>9, <1>10, <2>1 DEF Typed
<1>12. /\ (\A q : In(q, worker'[o].queue) <=> q = h \/ In(q, worker[o].queue))
       /\ (Once(worker[o].queue) /\ ~In(h, worker[o].queue) => Once(worker'[o].queue))
  <2>1. worker[o].queue \in Seq(Slots)
    BY <1>1 DEF Typed, KernelThread
  <2>. QED BY <1>10, <2>1, AppendIs
<1>13. Tasked(o) /\ Accounted(h)
  BY <1>1 DEF Tasks
<1>14. /\ ~Pending(o, h) /\ Unseen(o, h) /\ ~slot[h].finished /\ ran[h] = 0 /\ h \notin refused
  <2>1. ran[h] \in 0 .. 1
    BY <1>1 DEF Typed
  <2>2. ~slot[h].finished /\ ran[h] = 0 /\ h \notin refused
    BY <1>9, <1>13, <2>1 DEF Accounted
  <2>3. ~Pending(o, h)
    BY <1>9, <1>13 DEF Tasked, Queued, TaskOf
  <2>4. Unseen(o, h)
    BY <1>9, <1>13 DEF Tasked, Taken, Threaded, TaskOf, Unseen
  <2>. QED BY <2>2, <2>3, <2>4
<1>15. /\ \A q : /\ Pending(o, q)' <=> Pending(o, q) \/ q = h
                 /\ Open(o, q)' <=> Open(o, q)
                 /\ Unseen(o, q)' <=> Unseen(o, q)
       /\ \A p \in Workers, q \in Slots : TaskOf(p, q) => TaskOf(p, q)'
       /\ \A q : q = h => TaskOf(o, q)'
  <2>1. \A q : Pending(o, q)' <=> Pending(o, q) \/ q = h
    BY <1>10, <1>12 DEF Pending
  <2>2. \A q : (Open(o, q)' <=> Open(o, q)) /\ (Unseen(o, q)' <=> Unseen(o, q))
    BY <1>9, <1>10 DEF Open, Unseen
  <2>3. \A p \in Workers, q \in Slots : TaskOf(p, q) => TaskOf(p, q)'
    BY <1>9 DEF TaskOf
  <2>4. \A q : q = h => TaskOf(o, q)'
    BY <1>9, <1>14 DEF TaskOf
  <2>. QED BY <2>1, <2>2, <2>3, <2>4
<1>16. Tasked(o)'
  <2>1. Queued(o)'
    <3>1. Once(worker'[o].queue) /\ Once(worker'[o].batch)
      BY <1>10, <1>12, <1>13, <1>14 DEF Tasked, Queued, Pending
    <3>2. \A q \in Slots : ~ (In(q, worker'[o].queue) /\ In(q, worker'[o].batch))
      BY <1>10, <1>12, <1>13, <1>14 DEF Tasked, Queued, Pending
    <3>3. \A q \in Slots : Pending(o, q)' => TaskOf(o, q)' /\ ~slot'[q].finished /\ ran'[q] = 0 /\ Unseen(o, q)'
      BY <1>9, <1>13, <1>14, <1>15 DEF Tasked, Queued
    <3>. QED BY <3>1, <3>2, <3>3 DEF Queued
  <2>2. Taken(o)'
    <3>1. LocalTasks(worker'[o])
      BY <1>10, <1>13 DEF Tasked, Taken, LocalTasks
    <3>. QED BY <1>9, <1>10, <1>13, <3>1 DEF Tasked, Taken, TaskOf
  <2>3. Threaded(o)'
    BY <1>9, <1>13 DEF Tasked, Threaded, TaskOf
  <2>. QED BY <2>1, <2>2, <2>3 DEF Tasked
<1>17. ASSUME NEW p \in Workers PROVE Tasked(p)'
  <2>1. CASE p = o
    BY <1>16, <2>1
  <2>2. CASE p # o
    <3>1. Tasked(p) /\ Carries(worker[p], worker'[p]) /\ Careful(sched[p], sched'[p])
      BY <1>1, <1>9, <1>10, <2>2 DEF Tasks, Carries, Careful
    <3>2. \A q \in Slots : TaskOf(p, q) => /\ TaskOf(p, q)'
                                           /\ slot'[q].finished = slot[q].finished /\ ran'[q] = ran[q]
      BY <1>9, <1>15
    <3>. QED BY <1>1, <3>1, <3>2, TaskedKept
  <2>. QED BY <2>1, <2>2
<1>18. ASSUME NEW q \in Slots PROVE Accounted(q)'
  <2>1. Accounted(q)
    BY <1>1 DEF Tasks
  <2>2. CASE q = h
    BY <1>9, <1>14, <1>15, <2>2 DEF Accounted
  <2>3. CASE q # h
    <3>1. ASSUME q \in made, ~slot[q].finished PROVE Pending(slot[q].worker, q)' \/ Open(slot[q].worker, q)'
      <4>1. PICK p \in Workers : p = slot[q].worker
        BY <1>1, <3>1 DEF Owned
      <4>2. Pending(p, q) \/ Open(p, q)
        BY <2>1, <3>1, <4>1 DEF Accounted
      <4>3. slot'[q].worker = p
        BY <1>9, <4>1
      <4>4. CASE p = o
        BY <1>15, <4>2, <4>3, <4>4 DEF Pending, Open
      <4>5. CASE p # o
        BY <1>10, <4>2, <4>3, <4>5 DEF Pending, Open
      <4>. QED BY <4>4, <4>5
    <3>. QED BY <1>9, <2>1, <2>3, <3>1 DEF Accounted
  <2>. QED BY <2>2, <2>3
<1>19. Tasks'
  BY <1>17, <1>18 DEF Tasks
<1>20. ResultsTrue'
  BY <1>1, <1>9 DEF ResultsTrue
<1>21. Owned'
  BY <1>1, <1>7, <1>9 DEF Owned
<1>22. \A d \in Clients : client'[d].at = "create" => d # c /\ client'[d] = client[d]
  BY <1>1, <1>9 DEF Typed, Idle
<1>23. ASSUME NEW d \in Clients, client'[d].at = "create" PROVE Creating(d)'
  <2>1. d # c /\ client'[d] = client[d] /\ client[d].at = "create"
    BY <1>22, <1>23
  <2>2. Creating(d)
    BY <1>1, <2>1 DEF Handed
  <2>3. client[d].slot # h
    BY <1>9, <2>1
  <2>. QED BY <1>9, <1>22, <2>1, <2>2, <2>3 DEF Creating
<1>24. Handed'
  BY <1>1, <1>9, <1>21, <1>23 DEF Handed
<1>. QED BY <1>10, <1>11, <1>19, <1>20, <1>24 DEF IInv

(* A slot that is lost concerns nobody. *)
LEMMA TaskFailsKeeps ==
  ASSUME IInv, NEW c \in Clients, TaskFails(c)
  PROVE  IInv'
<1>1. Typed /\ Locally /\ Stages /\ Handed /\ Owned /\ Tasks /\ ResultsTrue
  BY DEF IInv, Handed
<1>2. /\ client' = [client EXCEPT ![c] = Idle] /\ UNCHANGED <<main, next_worker, slot, worker, sched, made, refused, ran>>
  BY DEF TaskFails, history
<1>3. Typed'
  <2>1. Idle \in Caller
    BY DEF Idle, Caller
  <2>. QED BY <1>1, <1>2, <2>1 DEF Typed
<1>4. Locally' /\ Stages'
  BY <1>1, <1>2 DEF Locally, Stages
<1>5. Tasks' /\ ResultsTrue'
  BY <1>1, <1>2, SameIsQuiet, QuietKeeps
<1>6. \A d \in Clients : client'[d].at = "create" => client'[d] = client[d]
  BY <1>1, <1>2 DEF Typed, Idle
<1>7. \A d \in Clients : client[d].at = "create" => main.at = "up"
  BY <1>1 DEF Handed, Creating
<1>8. Handed'
  BY <1>1, <1>2, <1>6, <1>7, HandedKept
<1>. QED BY <1>3, <1>4, <1>5, <1>8 DEF IInv

(* Neither does a join. *)
LEMMA MapJoinKeeps ==
  ASSUME IInv, NEW c \in Clients, MapJoin(c)
  PROVE  IInv'
<1>1. Typed /\ Locally /\ Stages /\ Handed /\ Owned /\ Tasks /\ ResultsTrue
  BY DEF IInv, Handed
<1>2. PICK s \in made :
        /\ slot' = [slot EXCEPT ![s].joined = TRUE]
        /\ client' = [client EXCEPT ![c] = IF slot[s].finished THEN Idle ELSE [at |-> "join", slot |-> s]]
  BY DEF MapJoin
<1>3. UNCHANGED <<main, next_worker, worker, sched, made, refused, ran>>
  BY DEF MapJoin, history
<1>4. s \in Slots
  BY <1>1 DEF Typed
<1> DEFINE d == IF slot[s].finished THEN Idle ELSE [at |-> "join", slot |-> s]
           t == [slot[s] EXCEPT !.joined = TRUE]
<1>5. d \in Caller /\ d.at # "create"
  BY <1>4 DEF Idle, Caller
<1>6. /\ t \in MappedThread /\ t.used = slot[s].used /\ t.worker = slot[s].worker
      /\ t.finished = slot[s].finished /\ t.retval = slot[s].retval
  BY <1>1, <1>4 DEF Typed, MappedThread
<1>7. slot' = [slot EXCEPT ![s] = t] /\ client' = [client EXCEPT ![c] = d]
  BY <1>1, <1>2, <1>4 DEF Typed
<1> HIDE DEF d, t
<1>8. /\ slot' \in [Slots -> MappedThread] /\ client' \in [Clients -> Caller]
      /\ \A q \in Slots : /\ slot'[q].used = slot[q].used /\ slot'[q].worker = slot[q].worker
                          /\ slot'[q].finished = slot[q].finished /\ slot'[q].retval = slot[q].retval
      /\ \A q \in Clients : client'[q].at = "create" => client'[q] = client[q]
  BY <1>1, <1>4, <1>5, <1>6, <1>7 DEF Typed
<1>9. Typed'
  BY <1>1, <1>3, <1>8 DEF Typed
<1>10. Locally' /\ Stages'
  BY <1>1, <1>3 DEF Locally, Stages
<1>11. Quiet
  <2>1. made \subseteq Slots
    BY <1>1 DEF Typed
  <2>2. \A o \in Workers : Carries(worker[o], worker'[o]) /\ Careful(sched[o], sched'[o])
    BY <1>3 DEF Carries, Careful
  <2>. QED BY <1>3, <1>8, <2>1, <2>2 DEF Quiet
<1>12. Tasks' /\ ResultsTrue'
  BY <1>1, <1>11, QuietKeeps
<1>13. \A q \in Clients : client[q].at = "create" => main.at = "up"
  BY <1>1 DEF Handed, Creating
<1>14. Handed'
  BY <1>1, <1>3, <1>8, <1>13, HandedKept
<1>. QED BY <1>9, <1>10, <1>12, <1>14 DEF IInv

(* A turn of the user threads keeps the invariant. *)
LEMMA UserTurnKeeps ==
  ASSUME IInv, NEW w \in Workers, UserTurn(w)
  PROVE  IInv'
<1>1. Typed /\ Locally /\ Stages /\ Handed /\ Owned /\ Tasks /\ ResultsTrue
  BY DEF IInv, Handed
<1>2. PICK x \in KernelThread, v \in AnyScheduler :
        /\ worker' = [worker EXCEPT ![w] = x] /\ sched' = [sched EXCEPT ![w] = v]
        /\ Careful(sched[w], v) /\ Carries(worker[w], x)
        /\ UNCHANGED <<main, next_worker, slot, client, made, refused, ran>>
  BY DEF UserTurn
<1>3. /\ worker' \in [Workers -> KernelThread] /\ sched' \in [Workers -> AnyScheduler] /\ Locally' /\ Stages'
  BY <1>1, UserTurnMoves, MovesKeep
<1>4. Typed'
  BY <1>1, <1>2, <1>3 DEF Typed
<1>5. /\ worker'[w] = x /\ sched'[w] = v
      /\ \A o \in Workers : o # w => worker'[o] = worker[o] /\ sched'[o] = sched[o]
  BY <1>1, <1>2 DEF Typed
<1>6. Quiet
  <2>1. ASSUME NEW o \in Workers PROVE Carries(worker[o], worker'[o]) /\ Careful(sched[o], sched'[o])
    <3>1. CASE o = w
      BY <1>2, <1>5, <3>1
    <3>2. CASE o # w
      BY <1>5, <3>2 DEF Carries, Careful
    <3>. QED BY <3>1, <3>2
  <2>. QED BY <1>2, <2>1 DEF Quiet
<1>7. Tasks' /\ ResultsTrue'
  BY <1>1, <1>6, QuietKeeps
<1>8. \A c \in Clients : client[c].at = "create" => main.at = "up"
  BY <1>1 DEF Handed, Creating
<1>9. Handed'
  BY <1>1, <1>2, <1>8, HandedKept
<1>. QED BY <1>3, <1>4, <1>7, <1>9 DEF IInv

(* The other steps of a worker *)
LEMMA WorkKeeps ==
  ASSUME IInv, NEW w \in Workers, Moves(w), Tasks', ResultsTrue', made' = made, refused' \subseteq Slots,
         ran' \in [Slots -> 0 .. 1],
         UNCHANGED <<slot, client>> \/ \E s \in Slots, r \in Routines \cup {Nil} : Publish(s, r)
  PROVE  IInv'
<1>1. Typed /\ Locally /\ Stages /\ Handed
  BY DEF IInv
<1>2. UNCHANGED <<main, next_worker>>
  BY DEF Moves
<1>3. /\ worker' \in [Workers -> KernelThread] /\ sched' \in [Workers -> AnyScheduler] /\ Locally' /\ Stages'
  BY <1>1, MovesKeep
<1>4. /\ slot' \in [Slots -> MappedThread] /\ client' \in [Clients -> Caller]
      /\ \A q \in Slots : slot'[q].used = slot[q].used /\ slot'[q].worker = slot[q].worker
      /\ \A c \in Clients : client'[c].at = "create" => client'[c] = client[c]
  <2>1. CASE UNCHANGED <<slot, client>>
    BY <1>1, <2>1 DEF Typed
  <2>2. CASE \E s \in Slots, r \in Routines \cup {Nil} : Publish(s, r)
    BY <1>1, <2>2, PublishFacts
  <2>. QED BY <2>1, <2>2
<1>5. Typed'
  BY <1>1, <1>2, <1>3, <1>4 DEF Typed
<1>6. \A c \in Clients : client[c].at = "create" => main.at = "up"
  BY <1>1 DEF Handed, Creating
<1>7. Handed'
  BY <1>1, <1>2, <1>4, <1>6, HandedKept
<1>. QED BY <1>3, <1>5, <1>7 DEF IInv

(* Every action of a worker keeps the invariant. *)
LEMMA WorkerKeeps ==
  ASSUME IInv, NEW w \in Workers, Worker(w) \/ Routine(w) \/ SpuriousWakeup(w) \/ Returns(w)
  PROVE  IInv'
<1>1. Typed /\ Locally /\ Stages /\ Handed /\ Owned /\ Tasks /\ ResultsTrue
  BY DEF IInv, Handed
<1>2. /\ made \subseteq Slots /\ refused \subseteq Slots /\ ran \in [Slots -> 0 .. 1]
      /\ Slots \subseteq Routines
  BY <1>1 DEF Typed, Routines
<1>3. CASE Look(w)
  <2>1. CASE worker[w].queue = <<>>
    BY <1>1, <1>3, <2>1, LookTurns, UserTurnKeeps
  <2>2. CASE worker[w].queue # <<>>
    <3>1. Tasks' /\ ResultsTrue'
      BY <1>1, <1>3, <2>2, LookTasks
    <3>2. Moves(w) /\ UNCHANGED <<slot, client, made, refused, ran>>
      BY <1>1, <1>3, <2>2, LookMoves
    <3>. QED BY <1>2, <3>1, <3>2, WorkKeeps
  <2>. QED BY <2>1, <2>2
<1>4. CASE StartTask(w)
  <2>1. Tasks' /\ ResultsTrue'
    BY <1>1, <1>4, StartTaskTasks
  <2>2. Moves(w) /\ UNCHANGED <<slot, client, made, refused, ran>>
    BY <1>1, <1>4, StartTaskMoves
  <2>. QED BY <1>2, <2>1, <2>2, WorkKeeps
<1>5. CASE StartFails(w)
  <2>1. Tasks' /\ ResultsTrue'
    BY <1>1, <1>5, StartFailsTasks
  <2>2. /\ Moves(w) /\ UNCHANGED <<made, ran>> /\ worker[w].batch # <<>>
        /\ Publish(Head(worker[w].batch), Nil) /\ refused' = refused \cup {Head(worker[w].batch)}
    BY <1>1, <1>5, StartFailsMoves
  <2>3. Head(worker[w].batch) \in Slots
    BY <1>1, <2>2, NextTask
  <2>4. \E s \in Slots, r \in Routines \cup {Nil} : Publish(s, r)
    BY <2>2, <2>3
  <2>. QED BY <1>2, <2>1, <2>2, <2>3, <2>4, WorkKeeps
<1>6. CASE StartRun(w)
  BY <1>1, <1>6, StartRunTurns, UserTurnKeeps
<1>7. CASE Collect(w)
  <2> DEFINE k == worker[w]
             u == sched[w]
             id == k.locals[k.i].id
             res == IF CanJoin(u, id) THEN u.thread[id].retval ELSE Nil
  <2>1. Tasks' /\ ResultsTrue'
    BY <1>1, <1>7, CollectTasks
  <2>2. LocalTasks(k) /\ LocalInv(k, u)
    BY <1>1 DEF Tasks, Tasked, Taken, Locally
  <2>3. /\ Moves(w) /\ UNCHANGED <<made, refused, ran>> /\ k.at = "collect"
        /\ Publish(k.locals[k.i].task, res)
    BY <1>1, <1>7, <2>2, CollectMoves
  <2>4. id \in Ids /\ k.locals[k.i].task \in Slots /\ u \in AnyScheduler
    BY <2>2, <2>3, CollectFacts
  <2>5. res \in Routines \cup {Nil}
    BY <2>4 DEF AnyScheduler, Thread
  <2>6. \E s \in Slots, r \in Routines \cup {Nil} : Publish(s, r)
    BY <2>3, <2>4, <2>5
  <2>. QED BY <1>2, <2>1, <2>3, <2>6, WorkKeeps
<1>8. CASE Wakes(w)
  BY <1>1, <1>8, WakeTurns, UserTurnKeeps
<1>9. CASE AwaitChild(w)
  BY <1>1, <1>9, AwaitTurns, UserTurnKeeps
<1>10. CASE Yields(w)
  BY <1>1, <1>10, YieldTurns, UserTurnKeeps
<1>11. CASE Sleeps(w)
  BY <1>1, <1>11, SleepTurns, UserTurnKeeps
<1>12. CASE Spawn(w)
  BY <1>1, <1>12, SpawnTurns, UserTurnKeeps
<1>13. CASE CallJoin(w)
  BY <1>1, <1>13, CallJoinTurns, UserTurnKeeps
<1>14. CASE SpuriousWakeup(w)
  BY <1>1, <1>14, SpuriousTurns, UserTurnKeeps
<1>15. CASE Returns(w)
  <2>1. Tasks' /\ ResultsTrue' /\ ran' \in [Slots -> 0 .. 1]
    BY <1>1, <1>15, ReturnsTasks
  <2>2. Moves(w)
    BY <1>1, <1>15, ReturnsMoves
  <2>3. UNCHANGED <<slot, client, made, refused>>
    BY <1>15 DEF Returns, Others
  <2>. QED BY <1>2, <2>1, <2>2, <2>3, WorkKeeps
<1>. QED BY <1>3, <1>4, <1>5, <1>6, <1>7, <1>8, <1>9, <1>10, <1>11, <1>12, <1>13, <1>14, <1>15 DEF Worker, Routine

(* Every step keeps it. *)
LEMMA NextIInv == IInv /\ [Next]_vars => IInv'
<1> SUFFICES ASSUME IInv, [Next]_vars PROVE IInv'
  OBVIOUS
<1>1. CASE Main
  BY <1>1, MainKeeps
<1>2. ASSUME NEW c \in Clients, Client(c) PROVE IInv'
  BY <1>2, TakeSlotKeeps, EnqueueKeeps, TaskFailsKeeps, MapJoinKeeps DEF Client
<1>3. ASSUME NEW w \in Workers, Worker(w) \/ Routine(w) \/ SpuriousWakeup(w) \/ Returns(w) PROVE IInv'
  BY <1>3, WorkerKeeps
<1>4. CASE UNCHANGED vars
  <2>1. UNCHANGED <<main, next_worker, slot, client, worker, sched, made, refused, ran>>
    BY <1>4 DEF vars
  <2>2. Typed /\ Locally /\ Stages /\ Handed /\ Owned /\ Tasks /\ ResultsTrue
    BY DEF IInv, Handed
  <2>3. Typed' /\ Locally' /\ Stages'
    BY <2>1, <2>2 DEF Typed, Locally, Stages
  <2>4. Tasks' /\ ResultsTrue'
    BY <2>1, <2>2, SameIsQuiet, QuietKeeps
  <2>5. \A c \in Clients : client[c].at = "create" => main.at = "up"
    BY <2>2 DEF Handed, Creating
  <2>6. Handed'
    BY <2>1, <2>2, <2>5, HandedKept
  <2>. QED BY <2>3, <2>4, <2>6 DEF IInv
<1>. QED BY <1>1, <1>2, <1>3, <1>4 DEF Next

(* The invariant is one. *)
THEOREM Invariance == Spec => []IInv
<1>1. Init => IInv
  BY InitIInv
<1>2. IInv /\ [Next]_vars => IInv'
  BY NextIInv
<1>. QED BY <1>1, <1>2, PTL DEF Spec

-----------------------------------------------------------------------------
(*****************************************************************************)
(* What follows from it.                                                     *)
(*****************************************************************************)

(* free_ids has no more than MaxThreads elements, because of Balanced. *)
LEMMA ImpliesTypeOK == IInv => TypeOK
<1> SUFFICES ASSUME IInv PROVE TypeOK
  OBVIOUS
<1>1. Typed /\ Locally
  BY DEF IInv
<1>2. ASSUME NEW w \in Workers PROVE sched[w] \in Scheduler(Slots \cup {Child})
  <2> DEFINE u == sched[w]
             k == worker[w]
  <2>1. u \in AnyScheduler /\ k \in KernelThread /\ LocalInv(k, u)
    BY <1>1 DEF Typed, Locally
  <2>2. k.i <= Len(k.locals) + 1
    <3>1. k.i \in Nat /\ Len(k.locals) \in Nat /\ k.locals \in Seq(Local)
      BY <2>1, LenProperties DEF KernelThread
    <3>2. k.i = 1 \/ k.i \in 1 .. Len(k.locals)
      BY <2>1 DEF LocalInv, Phase
    <3>. QED BY <3>1, <3>2
  <2> HIDE DEF k, u
  <2>3. Len(u.free) <= u.count /\ u.count \in 0 .. MaxThreads /\ Len(u.free) \in Nat
    BY <2>1, <2>2, Counts DEF LocalInv
  <2>4. u.free \in BoundedSeq(Ids, MaxThreads)
    <3>1. u.free \in [1 .. Len(u.free) -> Ids]
      BY <2>1, LenProperties DEF AnyScheduler
    <3>2. Len(u.free) \in 0 .. MaxThreads
      BY <2>3, MaxThreadsAssumption
    <3>. QED BY <3>1, <3>2 DEF BoundedSeq, SeqOf
  <2>5. Routines = Slots \cup {Child}
    BY DEF Routines
  <2>. QED BY <2>1, <2>4, <2>5 DEF Scheduler, AnyScheduler, Thread, u
<1>3. sched \in [Workers -> Scheduler(Slots \cup {Child})]
  BY <1>1, <1>2 DEF Typed
<1>4. Routines \cup {Nil} = Slots \cup {Child, Nil}
  BY DEF Routines
<1>. QED BY <1>1, <1>3, <1>4 DEF TypeOK, Typed, Mains, MappedThread, Caller, KernelThread, Local

(* What IdsHold says is part of Parented and of LocalsNamed. *)
LEMMA ImpliesIdsHold == IInv => IdsHold
<1> SUFFICES ASSUME IInv, NEW w \in Workers, ~sched[w].hurt
             PROVE  LET k == worker[w]  u == sched[w] IN
                    /\ \A j \in k.i .. Len(k.locals) :
                         /\ Names(u, k.locals[j].id, k.locals[j].task) /\ CanJoin(u, k.locals[j].id)
                         /\ k.at = "collect" => Ended(u, k.locals[j].id)
                    /\ \A id \in Ids : LET t == u.thread[id] IN t.state # "FINISHED" =>
                         /\ t.child # Nil => Names(u, t.child, Child) /\ CanJoin(u, t.child)
                         /\ t.joins # Nil => Names(u, t.joins, Child)
  BY DEF IdsHold
<1> DEFINE k == worker[w]
           u == sched[w]
<1>1. LocalInv(k, u) /\ u \in AnyScheduler /\ ~u.hurt
  BY DEF IInv, Locally, LocalInv
<1>2. Parented(u) /\ LocalsNamed(k, u) /\ (k.at = "collect" => AllEnded(u))
  BY <1>1 DEF LocalInv, Ledger
<1> HIDE DEF k, u
<1>3. ASSUME NEW j \in k.i .. Len(k.locals)
      PROVE  /\ Names(u, k.locals[j].id, k.locals[j].task) /\ CanJoin(u, k.locals[j].id)
             /\ k.at = "collect" => Ended(u, k.locals[j].id)
  <2>1. Names(u, k.locals[j].id, k.locals[j].task) /\ ~u.thread[k.locals[j].id].joined
    BY <1>2 DEF LocalsNamed
  <2>2. k.locals[j].id \in 0 .. u.count - 1 /\ k.locals[j].id \in Ids /\ k.locals[j].id < u.count
    BY <1>1, <2>1, Below DEF Names
  <2>. QED BY <1>2, <2>1, <2>2 DEF CanJoin, AllEnded, Ended
<1>4. ASSUME NEW id \in Ids, u.thread[id].state # "FINISHED"
      PROVE  /\ u.thread[id].child # Nil => Names(u, u.thread[id].child, Child) /\ CanJoin(u, u.thread[id].child)
             /\ u.thread[id].joins # Nil => Names(u, u.thread[id].joins, Child)
  <2>1. ASSUME u.thread[id].child # Nil
        PROVE  Names(u, u.thread[id].child, Child) /\ CanJoin(u, u.thread[id].child)
    <3>1. Names(u, u.thread[id].child, Child) /\ ~u.thread[u.thread[id].child].joined
      BY <1>2, <1>4, <2>1 DEF Parented
    <3>. QED BY <3>1 DEF CanJoin, Names
  <2>2. ASSUME u.thread[id].joins # Nil PROVE Names(u, u.thread[id].joins, Child)
    BY <1>2, <1>4, <2>2 DEF Parented
  <2>. QED BY <2>1, <2>2
<1>. QED BY <1>3, <1>4 DEF k, u

(* Ordered says that nobody got two turns. *)
LEMMA ImpliesTurns == IInv => Turns
<1> SUFFICES ASSUME IInv, NEW w \in Workers, ~sched[w].hurt PROVE ~sched[w].unfair
  BY DEF Turns
<1>1. LocalInv(worker[w], sched[w])
  BY DEF IInv, Locally
<1>. QED BY <1>1 DEF LocalInv, Ordered

(* When main is down, nobody is alive. *)
LEMMA ImpliesOutlived == IInv => WorkersOutlived
BY DEF IInv, Stages, Alive, WorkersOutlived

(* A worker that has ended has nothing in its hands, so no task is without a result. *)
LEMMA ImpliesDrained == IInv => Drained
<1> SUFFICES ASSUME IInv, main.at = "down", NEW s \in made, ~slot[s].finished PROVE FALSE
  BY DEF Drained
<1>1. s \in Slots /\ Owned /\ Accounted(s)
  BY DEF IInv, Typed, Handed, Tasks
<1>2. PICK w \in Workers : w = slot[s].worker
  BY <1>1 DEF Owned
<1>3. Pending(w, s) \/ Open(w, s)
  BY <1>1, <1>2 DEF Accounted
<1>4. worker[w].at \in {"none", "end"} /\ Phase(worker[w])
  BY DEF IInv, Stages, Alive, Locally, LocalInv
<1> DEFINE e == <<>>
<1>5. DOMAIN e = {} /\ Len(e) = 0
  OBVIOUS
<1>6. worker[w].queue = e /\ worker[w].batch = e /\ worker[w].locals = e /\ worker[w].i = 1
  BY <1>4 DEF Phase
<1> HIDE DEF e
<1>7. ~ \E j \in 1 .. 0 : TRUE
  OBVIOUS
<1>. QED BY <1>3, <1>5, <1>6, <1>7 DEF Pending, Open, In

(* TypeOK: the state is well formed, for every number of threads, workers and clients.  In particular *)
(* free_ids never grows beyond MAX_THREADS (uthread.c:186).                                           *)
THEOREM TypeCorrect == Spec => []TypeOK
BY Invariance, ImpliesTypeOK, PTL

(* ResultsTrue: the result of a task is its own, and only a task that could not be started has the     *)
(* result NULL, as long as no failing uthread_create has taken back a thread_count (uthread.c:48, 54). *)
THEOREM ResultsAreTrue == Spec => []ResultsTrue
<1>1. IInv => ResultsTrue
  BY DEF IInv
<1>. QED BY <1>1, Invariance, PTL

(* IdsHold: an id names its thread until the thread is joined, and the worker that joins from outside *)
(* of the scheduler finds every thread ended (uthread_map.c:152-157).                                 *)
THEOREM IdsAreSound == Spec => []IdsHold
BY Invariance, ImpliesIdsHold, PTL

(* Turns: no thread gets two turns while another one is READY, as long as no failing uthread_create *)
(* has taken back the thread_count that the search goes round (uthread.c:112-121).                    *)
THEOREM RoundRobin == Spec => []Turns
BY Invariance, ImpliesTurns, PTL

(* Drained: a shutdown drops no task that was created before it was called, also one queued behind a running batch. *)
THEOREM ShutdownDrains == Spec => []Drained
BY Invariance, ImpliesDrained, PTL

(* WorkersOutlived: the array of workers is freed only when no worker uses it any more. *)
THEOREM ShutdownWaits == Spec => []WorkersOutlived
BY Invariance, ImpliesOutlived, PTL
=============================================================================
