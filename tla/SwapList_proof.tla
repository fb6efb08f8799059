---------------------------- MODULE SwapList_proof ----------------------------
(***************************************************************************)
(* SwapList for lists of any size and any number of threads: the pointers  *)
(* spell one path, every thread has the window it believes to have, nobody *)
(* waits in a circle, and nothing is freed under a thread.                 *)
(***************************************************************************)
EXTENDS SwapList, WellFoundedInduction, TLAPS

(* The locks that a thread holds are those of its window. *)
Grip(t, s) == IF s.at = "second" THEN {First}
              ELSE IF s.at = "next" THEN IF t \in Searchers THEN {s.curr} ELSE {s.prev, s.curr}
              ELSE IF s.at = "decide" THEN {s.prev, s.curr, s.nxt}
              ELSE {}

Gripped == \A t \in Threads : \A n \in Nodes : t \in lock[n] <=> n \in Grip(t, thread[t])

(* Only swap threads decide, and before the second lock nothing is passed. *)
Kind(t, s) == /\ s.at = "decide" => t \in Swappers
              /\ s.at = "second" => s.k = 0

Kinds == \A t \in Threads : Kind(t, thread[t])

(* The threads that main has created, and joined *)
Phases == /\ main.at = "create" => main.created < Len(Order) /\ main.i = 0
          /\ main.at = "sleep" => main.i = 0
          /\ main.at \in {"sleep", "cancel", "join"} => main.i < main.created
          /\ \A j \in 1 .. Len(Order) : thread[Order[j]].at = "none" <=> main.created < j
          /\ main.at = "join" => \A j \in 1 .. main.i : thread[Order[j]].at = "end"
          /\ main.at \in {"free", "freed"} => \A t \in Threads : thread[t].at \in {"none", "end"}

Inv == TypeOK /\ ListIntact /\ WindowValid /\ Gripped /\ Kinds /\ Phases

Record == [at : Places, prev : Nodes \cup {Nil}, curr : Nodes \cup {Nil}, nxt : Nodes \cup {Nil}, k : 0 .. MaxSize]

Exclusive == \A n \in Nodes : \A t, u \in lock[n] : t = u \/ (shared /\ {t, u} \subseteq Searchers)

USE NilAssumption

(* What the type invariant says, in parts *)
LEMMA Types ==
  ASSUME TypeOK
  PROVE  /\ size \in Nat /\ size <= MaxSize /\ MaxSize \in Nat
         /\ next \in [Nodes -> Nodes \cup {Nil}] /\ path \in [Nodes -> Nodes]
         /\ lock \in [Nodes -> SUBSET Threads] /\ Exclusive
         /\ thread \in [Threads -> Record]
         /\ First \in Nodes /\ Nil \notin Nodes
         /\ \A i \in 0 .. size : i \in Nodes
BY DEF TypeOK, Nodes, First, Record, Exclusive

(* An idle thread has no window and holds nothing. *)
LEMMA Idles ==
  ASSUME NEW pc \in {"none", "top", "first", "end"}, NEW t \in Threads
  PROVE  /\ Idle(pc) \in Record /\ Idle(pc).at = pc
         /\ Grip(t, Idle(pc)) = {} /\ Window(t, Idle(pc)) /\ Kind(t, Idle(pc))
BY DEF Idle, Record, Places, Grip, Window, Kind, Nodes

(* Before the first thread is created the list is in the order it was      *)
(* filled in, and nobody holds a lock.                                     *)
LEMMA InitInv == Init => Inv
<1> SUFFICES ASSUME Init PROVE Inv
  OBVIOUS
<1>1. \A t \in Threads : thread[t] = Idle("none") /\ thread[t] \in Record /\ thread[t].at = "none"
  BY Idles DEF Init
<1>2. TypeOK
  <2>1. size \in 0 .. MaxSize /\ next \in [Nodes -> Nodes \cup {Nil}] /\ path \in [Nodes -> Nodes]
    BY DEF Init, Nodes
  <2>2. main \in [at : {"create", "sleep", "cancel", "join", "free", "freed"},
                  created : 0 .. Len(Order), i : 0 .. Len(Order)]
    BY OrderAssumption DEF Init
  <2>3. lock \in [Nodes -> SUBSET Threads] /\ Exclusive
    BY DEF Init, Exclusive
  <2>4. thread \in [Threads -> Record]
    BY <1>1 DEF Init
  <2>. QED BY <2>1, <2>2, <2>3, <2>4 DEF Init, TypeOK, Record, Exclusive
<1>3. ListIntact
  <2>1. \A i \in 0 .. size : i \in Nodes /\ path[i] = i
    BY DEF Init, Nodes
  <2>2. \A i \in 0 .. size : next[i] = IF i < size THEN i + 1 ELSE Nil
    BY <2>1 DEF Init
  <2>3. \A i \in 0 .. size : i < size => i + 1 \in 0 .. size
    BY DEF Init
  <2>4. {path[i] : i \in 0 .. size} = 0 .. size
    BY <2>1
  <2>5. 0 \in 0 .. size
    BY DEF Init
  <2>. QED BY <2>1, <2>2, <2>3, <2>4, <2>5 DEF ListIntact, First
<1>4. WindowValid /\ Gripped /\ Kinds
  BY <1>1, Idles DEF WindowValid, Gripped, Kinds, Init
<1>5. Phases
  <2>1. \A j \in 1 .. Len(Order) : Order[j] \in Threads /\ 0 < j
    BY OrderAssumption
  <2>2. main.at = "create" /\ main.created = 0 /\ main.i = 0 /\ Len(Order) \in Nat /\ Len(Order) > 0
    BY OrderAssumption DEF Init
  <2>3. \A j \in 1 .. Len(Order) : thread[Order[j]].at = "none" <=> main.created < j
    BY <1>1, <2>1, <2>2
  <2>. QED BY <2>2, <2>3 DEF Phases
<1>. QED BY <1>2, <1>3, <1>4, <1>5 DEF Inv

(* Steps of main *)
LEMMA MainKeeps ==
  ASSUME Inv, Main
  PROVE  Inv'
<1>1. UNCHANGED <<shared, size, next, path, lock>>
  BY DEF Main, Create, WakeUp, Cancel, Join, Free
<1>2. \/ thread' = thread
      \/ /\ main.at = "create"
         /\ thread' = [thread EXCEPT ![Order[main.created + 1]] = Idle("top")]
         /\ main' = [main EXCEPT !.created = @ + 1, !.at = IF main.created + 1 = Len(Order) THEN "sleep" ELSE @]
  BY DEF Main, Create, WakeUp, Cancel, Join, Free
<1>3. \A j \in 1 .. Len(Order) : Order[j] \in Threads
  BY OrderAssumption
<1>4. /\ main.at = "create" => main.created + 1 \in 1 .. Len(Order)
      /\ main.at \in {"cancel", "join"} => main.i + 1 \in 1 .. Len(Order)
  BY OrderAssumption DEF Inv, TypeOK, Phases
<1>5. /\ main \in [at : {"create", "sleep", "cancel", "join", "free", "freed"},
                   created : 0 .. Len(Order), i : 0 .. Len(Order)]
      /\ cancelled \subseteq Threads /\ Len(Order) \in Nat
  BY OrderAssumption DEF Inv, TypeOK
<1>6. main' \in [at : {"create", "sleep", "cancel", "join", "free", "freed"},
                 created : 0 .. Len(Order), i : 0 .. Len(Order)]
      /\ cancelled' \subseteq Threads
  <2>1. CASE Create
    <3>1. \/ main' = [main EXCEPT !.created = main.created + 1, !.at = "sleep"]
          \/ main' = [main EXCEPT !.created = main.created + 1]
          \/ main' = [main EXCEPT !.at = "free"] \/ main' = [main EXCEPT !.at = "cancel"]
      BY <2>1, <1>5 DEF Create
    <3>2. main.created + 1 \in 0 .. Len(Order) /\ cancelled' = cancelled
      BY <2>1, <1>4, <1>5 DEF Create
    <3>. QED BY <3>1, <3>2, <1>5
  <2>2. CASE WakeUp BY <2>2, <1>5 DEF WakeUp
  <2>3. CASE Cancel
    <3>1. \/ main' = [main EXCEPT !.at = "join", !.i = 0]
          \/ main' = [main EXCEPT !.i = main.i + 1]
      BY <2>3, <1>5 DEF Cancel, Turn
    <3>2. main.i + 1 \in 0 .. Len(Order) /\ 0 \in 0 .. Len(Order) /\ cancelled' \subseteq Threads
      BY <2>3, <1>3, <1>4, <1>5 DEF Cancel
    <3>3. CASE main' = [main EXCEPT !.at = "join", !.i = 0] BY <3>2, <3>3, <1>5
    <3>4. CASE main' = [main EXCEPT !.i = main.i + 1] BY <3>2, <3>4, <1>5
    <3>. QED BY <3>1, <3>3, <3>4
  <2>4. CASE Join
    <3>1. \/ main' = [main EXCEPT !.at = "free", !.i = 0]
          \/ main' = [main EXCEPT !.i = main.i + 1]
      BY <2>4, <1>5 DEF Join, Turn
    <3>2. main.i + 1 \in 0 .. Len(Order) /\ 0 \in 0 .. Len(Order) /\ cancelled' = cancelled
      BY <2>4, <1>4, <1>5 DEF Join
    <3>3. CASE main' = [main EXCEPT !.at = "free", !.i = 0] BY <3>2, <3>3, <1>5
    <3>4. CASE main' = [main EXCEPT !.i = main.i + 1] BY <3>2, <3>4, <1>5
    <3>. QED BY <3>1, <3>3, <3>4
  <2>5. CASE Free BY <2>5, <1>5 DEF Free
  <2>. QED BY <2>1, <2>2, <2>3, <2>4, <2>5 DEF Main
<1>7. CASE thread' = thread
  <2>1. TypeOK' /\ ListIntact' /\ WindowValid' /\ Gripped' /\ Kinds'
    BY <1>1, <1>6, <1>7 DEF Inv, TypeOK, ListIntact, WindowValid, Window, Follow, Gripped, Kinds
  <2>2. Phases'
    <3> USE <1>4, <1>5, <1>7 DEF Inv, Phases
    <3>1. CASE Create
      <4>1. main.created = 0 => \A t \in Threads : thread[t].at = "none"
        BY OrderAssumption
      <4>2. /\ main' = [main EXCEPT !.at = IF main.created = 0 THEN "free" ELSE "cancel"]
        <5>1. Order[main.created + 1] \in Threads /\ thread[Order[main.created + 1]].at = "none"
          BY <3>1, <1>3 DEF Create
        <5>2. thread' # [thread EXCEPT ![Order[main.created + 1]] = Idle("top")]
          BY <5>1, Types DEF Idle
        <5>. QED BY <3>1, <5>2 DEF Create
      <4>. QED BY <3>1, <4>1, <4>2 DEF Create
    <3>2. CASE WakeUp BY <3>2 DEF WakeUp
    <3>3. CASE Cancel BY <3>3 DEF Cancel, Turn
    <3>4. CASE Join
      <4>1. \A j \in 1 .. main.i + 1 : thread[Order[j]].at = "end"
        BY <3>4 DEF Join
      <4>2. main.i + 1 = main.created => \A t \in Threads : thread[t].at \in {"none", "end"}
        BY <4>1, OrderAssumption
      <4>. QED BY <3>4, <4>1, <4>2 DEF Join, Turn
    <3>5. CASE Free BY <3>5 DEF Free
    <3>. QED BY <3>1, <3>2, <3>3, <3>4, <3>5 DEF Main
  <2>. QED BY <2>1, <2>2 DEF Inv
<1>8. CASE thread' # thread
  <2>0. PICK t : t = Order[main.created + 1]
    OBVIOUS
  <2>1. /\ main.at = "create"
        /\ thread' = [thread EXCEPT ![t] = Idle("top")]
        /\ main' = [main EXCEPT !.created = @ + 1, !.at = IF main.created + 1 = Len(Order) THEN "sleep" ELSE @]
    BY <1>2, <1>8, <2>0
  <2>2. t \in Threads /\ thread[t].at = "none"
    BY <1>3, <1>4, <1>5, <2>0, <2>1 DEF Inv, Phases
  <2>3. /\ thread' \in [Threads -> Record] /\ thread'[t] = Idle("top")
        /\ \A u \in Threads : u # t => thread'[u] = thread[u]
    BY <2>1, <2>2, Idles, Types DEF Inv
  <2>4. TypeOK' /\ ListIntact'
    BY <1>1, <1>6, <2>3 DEF Inv, TypeOK, ListIntact, Record
  <2>5. WindowValid' /\ Gripped' /\ Kinds'
    <3>1. \A u \in Threads : u # t => Window(u, thread[u])' /\ Kind(u, thread[u])'
      BY <1>1, <2>3 DEF Inv, WindowValid, Window, Follow, Kinds, Kind
    <3>2. Window(t, thread[t])' /\ Kind(t, thread[t])'
      BY <2>2, <2>3, Idles DEF Window, Follow, Kind
    <3>3. Grip(t, thread[t]) = {} /\ Grip(t, thread'[t]) = {}
      BY <2>2, <2>3, Idles DEF Grip
    <3>4. Gripped'
      BY <1>1, <2>3, <3>3 DEF Inv, Gripped, Grip
    <3>. QED BY <3>1, <3>2, <3>4 DEF WindowValid, Window, Follow, Kinds, Kind
  <2>6. Phases'
    <3>1. main'.created = main.created + 1 /\ main'.i = main.i /\ main.i = 0
          /\ main'.at = IF main.created + 1 = Len(Order) THEN "sleep" ELSE "create"
      BY <1>5, <2>1 DEF Inv, Phases
    <3>2. \A j \in 1 .. Len(Order) : j # main.created + 1 => Order[j] # t
      BY <1>4, <2>0, <2>1, OrderAssumption
    <3>3. \A j \in 1 .. Len(Order) : thread'[Order[j]].at = "none" <=> main'.created < j
      BY <1>3, <1>5, <2>0, <2>2, <2>3, <3>1, <3>2, Idles DEF Inv, Phases
    <3>. QED BY <1>4, <1>5, <2>1, <3>1, <3>3 DEF Inv, Phases
  <2>. QED BY <2>4, <2>5, <2>6 DEF Inv
<1>. QED BY <1>7, <1>8

(* What a thread may lock, it may hold together with those that hold it. *)
LEMMA Locked ==
  ASSUME TypeOK, NEW t \in Threads, NEW held \in SUBSET Nodes,
         \A n \in held : t \in lock[n] \/ CanLock(t, n),
         lock' = Holding(t, held), shared' = shared
  PROVE  /\ lock' \in [Nodes -> SUBSET Threads] /\ Exclusive'
         /\ \A n \in Nodes : t \in lock'[n] <=> n \in held
         /\ \A n \in Nodes : \A u \in Threads : u # t => (u \in lock'[n] <=> u \in lock[n])
<1>1. \A n \in Nodes : lock'[n] = IF n \in held THEN lock[n] \cup {t} ELSE lock[n] \ {t}
  BY DEF Holding
<1>2. lock' \in [Nodes -> SUBSET Threads]
  BY Types DEF Holding
<1>3. \A n \in Nodes : \A u \in Threads : u # t => (u \in lock'[n] <=> u \in lock[n])
  BY <1>1
<1>4. Exclusive'
  <2> SUFFICES ASSUME NEW n \in Nodes, NEW u \in lock'[n], NEW v \in lock'[n], u # v
               PROVE  shared /\ {u, v} \subseteq Searchers
    BY DEF Exclusive
  <2>1. u \in Threads /\ v \in Threads
    BY <1>2
  <2>2. \A x, y \in lock[n] : x = y \/ (shared /\ {x, y} \subseteq Searchers)
    BY Types DEF Exclusive
  <2>3. CASE u # t /\ v # t
    BY <1>3, <2>1, <2>2, <2>3
  <2>4. CASE u = t
    <3>1. n \in held /\ v \in lock[n]
      BY <1>1, <1>3, <2>1, <2>4
    <3>. QED BY <2>2, <2>4, <3>1 DEF CanLock
  <2>5. CASE v = t
    <3>1. n \in held /\ u \in lock[n]
      BY <1>1, <1>3, <2>1, <2>5
    <3>. QED BY <2>2, <2>5, <3>1 DEF CanLock
  <2>. QED BY <2>3, <2>4, <2>5
<1>. QED BY <1>1, <1>2, <1>3, <1>4

(* A step in which a thread gets a valid window, and the locks it needs *)
LEMMA Stepped ==
  ASSUME Inv, List, NEW t \in Threads, NEW s \in Record,
         thread' = [thread EXCEPT ![t] = s],
         thread[t].at \notin {"none", "end"}, s.at # "none",
         Window(t, s), Kind(t, s),
         lock' \in [Nodes -> SUBSET Threads], Exclusive',
         \A n \in Nodes : t \in lock'[n] <=> n \in Grip(t, s),
         \A n \in Nodes : \A u \in Threads : u # t => (u \in lock'[n] <=> u \in lock[n])
  PROVE  Inv'
<1>1. UNCHANGED <<shared, size, next, path, main, cancelled>>
  BY DEF List
<1>2. /\ thread' \in [Threads -> Record] /\ thread'[t] = s
      /\ \A u \in Threads : u # t => thread'[u] = thread[u]
  BY Types DEF Inv
<1>3. TypeOK'
  BY <1>1, <1>2 DEF Inv, TypeOK, Record, Exclusive
<1>4. ListIntact'
  BY <1>1 DEF Inv, ListIntact
<1>5. WindowValid' /\ Kinds'
  BY <1>1, <1>2 DEF Inv, WindowValid, Window, Follow, Kinds, Kind
<1>6. Gripped'
  <2>1. \A u \in Threads : u # t => \A n \in Nodes : u \in lock[n] <=> n \in Grip(u, thread[u])
    BY DEF Inv, Gripped
  <2>. QED BY <1>2, <2>1 DEF Gripped, Grip
<1>7. Phases'
  <2>1. \A j \in 1 .. Len(Order) : Order[j] \in Threads
    BY OrderAssumption
  <2>2. \A j \in 1 .. Len(Order) : thread'[Order[j]].at = "none" <=> thread[Order[j]].at = "none"
    BY <1>2, <2>1
  <2>3. main.at = "join" => \A j \in 1 .. main.i : j \in 1 .. Len(Order)
    BY OrderAssumption DEF Inv, TypeOK
  <2>4. \A j \in 1 .. Len(Order) : thread[Order[j]].at = "end" => thread'[Order[j]].at = "end"
    BY <1>2, <2>1
  <2>. QED BY <1>1, <2>2, <2>3, <2>4 DEF Inv, Phases
<1>. QED BY <1>3, <1>4, <1>5, <1>6, <1>7 DEF Inv

(* Looking behind the node that has been reached *)
Reaching(t, held, prev, curr, k) ==
  /\ held \in SUBSET Nodes /\ \A n \in held : t \in lock[n] \/ CanLock(t, n)
  /\ k \in Nat /\ k < size /\ curr = path[k + 1]
  /\ IF t \in Searchers THEN prev = Nil /\ held = {curr}
     ELSE prev = path[k] /\ next[prev] = curr /\ held = {prev, curr}

LEMMA Proceeds ==
  ASSUME Inv, List, NEW t \in Threads, thread[t].at \notin {"none", "end"},
         NEW held, NEW prev, NEW curr, NEW k,
         Reaching(t, held, prev, curr, k), Proceed(t, held, prev, curr, k)
  PROVE  Inv'
<1> USE DEF Reaching
<1>0. TypeOK /\ shared' = shared
  BY DEF Inv, List
<1>1. /\ curr \in Nodes /\ next[curr] \in Nodes \cup {Nil} /\ prev \in Nodes \cup {Nil} /\ k \in 0 .. MaxSize
      /\ lock \in [Nodes -> SUBSET Threads]
  <2>1. k \in Nodes /\ k + 1 \in Nodes /\ k \in 0 .. MaxSize
    BY <1>0, Types DEF Nodes
  <2>. QED BY <1>0, <2>1, Types
<1>2. CASE next[curr] = Nil
  <2>1. thread' = [thread EXCEPT ![t] = Idle("top")] /\ lock' = Holding(t, {})
    BY <1>2 DEF Proceed
  <2>2. /\ lock' \in [Nodes -> SUBSET Threads] /\ Exclusive'
        /\ \A n \in Nodes : t \in lock'[n] <=> n \in {}
        /\ \A n \in Nodes : \A u \in Threads : u # t => (u \in lock'[n] <=> u \in lock[n])
    BY <1>0, <2>1, Locked
  <2>. QED BY <2>1, <2>2, Idles, Stepped
<1>3. CASE next[curr] # Nil
  <2> DEFINE s == [at |-> "next", prev |-> prev, curr |-> curr, nxt |-> next[curr], k |-> k]
  <2>1. thread' = [thread EXCEPT ![t] = s] /\ lock' = Holding(t, held)
    BY <1>3 DEF Proceed
  <2>2. s \in Record /\ s.at = "next"
    BY <1>1 DEF Record, Places
  <2>3. Window(t, s) /\ Kind(t, s)
    BY <1>3, OrderAssumption DEF Window, Kind, Follow
  <2>4. Grip(t, s) = held
    BY DEF Grip
  <2>5. /\ lock' \in [Nodes -> SUBSET Threads] /\ Exclusive'
        /\ \A n \in Nodes : t \in lock'[n] <=> n \in held
        /\ \A n \in Nodes : \A u \in Threads : u # t => (u \in lock'[n] <=> u \in lock[n])
    BY <1>0, <2>1, Locked
  <2> HIDE DEF s
  <2>. QED BY <2>1, <2>2, <2>3, <2>4, <2>5, Stepped
<1>. QED BY <1>2, <1>3

(* The node behind the one at a position *)
LEMMA Behind ==
  ASSUME Inv, NEW i \in 0 .. size, next[path[i]] # Nil
  PROVE  i + 1 \in 0 .. size /\ i < size /\ next[path[i]] = path[i + 1]
BY Types DEF Inv, ListIntact

(* Where the nodes of a window are in the list *)
LEMMA Placed ==
  ASSUME Inv, NEW t \in Threads, thread[t].at \in {"second", "next", "decide"}
  PROVE  LET s == thread[t]
         IN /\ s.k \in Nat /\ s.k < size /\ s.curr = path[s.k + 1] /\ s.curr \in Nodes /\ s.k + 1 \in 0 .. size
            /\ s.at \in {"next", "decide"} =>
                 /\ s.k + 1 < size /\ s.nxt = path[s.k + 2] /\ s.nxt \in Nodes /\ s.nxt = next[s.curr]
                 /\ t \in Swappers => s.prev = path[s.k] /\ s.prev \in Nodes /\ next[s.prev] = s.curr
<1> DEFINE s == thread[t]
<1>1. s \in Record /\ Window(t, s)
  BY Types DEF Inv, WindowValid
<1>2. TypeOK
  BY DEF Inv
<1>5. s.k \in Nat /\ s.k < size /\ s.curr = path[s.k + 1] /\ s.curr \in Nodes /\ s.k + 1 \in 0 .. size
  <2>1. s.k \in Nat /\ s.k < size /\ s.curr = path[s.k + 1]
    BY <1>1 DEF Window, Record
  <2>2. s.k + 1 \in 0 .. size /\ s.k + 1 \in Nodes
    BY <1>2, <2>1, Types
  <2>. QED BY <1>2, <2>1, <2>2, Types
<1>6. s.at \in {"next", "decide"} =>
        /\ s.k + 1 < size /\ s.nxt = path[s.k + 2] /\ s.nxt \in Nodes /\ s.nxt = next[s.curr]
        /\ t \in Swappers => s.prev = path[s.k] /\ s.prev \in Nodes /\ next[s.prev] = s.curr
  <2> SUFFICES ASSUME s.at \in {"next", "decide"}
               PROVE  /\ s.k + 1 < size /\ s.nxt = path[s.k + 2] /\ s.nxt \in Nodes /\ s.nxt = next[s.curr]
                      /\ t \in Swappers => s.prev = path[s.k] /\ s.prev \in Nodes /\ next[s.prev] = s.curr
    OBVIOUS
  <2>1. s.nxt # Nil /\ s.nxt = next[s.curr]
    BY <1>1 DEF Window
  <2>2. s.k + 1 < size /\ next[s.curr] = path[s.k + 1 + 1]
    BY <1>5, <2>1, Behind
  <2>3. s.k + 1 + 1 = s.k + 2 /\ s.k \in 0 .. size /\ s.k + 2 \in 0 .. size
    BY <1>2, <1>5, <2>2, Types
  <2>4. t \in Swappers => s.prev = path[s.k] /\ next[s.prev] = s.curr
    BY <1>1 DEF Window, Follow
  <2>. QED BY <1>2, <2>1, <2>2, <2>3, <2>4, Types
<1>. QED BY <1>5, <1>6

(* Steps before the first pair of nodes *)
LEMMA StartKeeps ==
  ASSUME Inv, NEW t \in Threads, TestCancel(t) \/ LockFirst(t)
  PROVE  Inv'
<1>1. thread[t].at \in {"top", "first"} /\ Grip(t, thread[t]) = {}
  BY DEF TestCancel, LockFirst, Grip
<1>2. TypeOK /\ List /\ shared' = shared /\ First \in Nodes
  BY Types DEF Inv, TestCancel, LockFirst, List
<1>3. ASSUME NEW pc \in {"none", "top", "first", "end"}, pc # "none",
             thread' = [thread EXCEPT ![t] = Idle(pc)], UNCHANGED lock
      PROVE  Inv'
  <2>1. lock' \in [Nodes -> SUBSET Threads] /\ Exclusive'
    BY <1>2, <1>3, Types DEF Exclusive
  <2>2. \A n \in Nodes : t \in lock'[n] <=> n \in Grip(t, Idle(pc))
    BY <1>1, <1>3, Idles DEF Inv, Gripped
  <2>. QED BY <1>1, <1>2, <1>3, <2>1, <2>2, Idles, Stepped
<1>4. CASE TestCancel(t)
  <2>1. \E pc \in {"first", "end"} : thread' = [thread EXCEPT ![t] = Idle(pc)]
    BY <1>4 DEF TestCancel
  <2>. QED BY <1>3, <1>4, <2>1 DEF TestCancel
<1>5. CASE LockFirst(t)
  <2>1. CASE next[First] = Nil
    BY <1>3, <1>5, <2>1 DEF LockFirst
  <2>2. CASE next[First] # Nil
    <3> DEFINE s == [Idle("second") EXCEPT !.curr = next[First]]
    <3>1. thread' = [thread EXCEPT ![t] = s] /\ lock' = Holding(t, {First}) /\ CanLock(t, First)
      BY <1>5, <2>2 DEF LockFirst
    <3>2. path[0] = First /\ 0 \in 0 .. size
      BY Types DEF Inv, ListIntact
    <3>3. 0 < size /\ next[First] = path[0 + 1]
      BY <2>2, <3>2, Behind
    <3>4. next[First] \in Nodes
      BY <1>2, <2>2, Types
    <3>5. s \in Record /\ s.at = "second" /\ s.k = 0 /\ s.curr = next[First]
      BY <3>4 DEF Idle, Record, Places, Nodes
    <3> HIDE DEF s
    <3>6. Window(t, s) /\ Kind(t, s) /\ Grip(t, s) = {First}
      BY <3>3, <3>5 DEF Window, Kind, Grip
    <3>7. /\ lock' \in [Nodes -> SUBSET Threads] /\ Exclusive'
          /\ \A n \in Nodes : t \in lock'[n] <=> n \in {First}
          /\ \A n \in Nodes : \A u \in Threads : u # t => (u \in lock'[n] <=> u \in lock[n])
      <4>1. {First} \in SUBSET Nodes /\ \A n \in {First} : t \in lock[n] \/ CanLock(t, n)
        BY <1>2, <3>1
      <4>. QED BY <1>2, <3>1, <4>1, Locked
    <3>. QED BY <1>1, <1>2, <3>1, <3>5, <3>6, <3>7, Stepped
  <2>. QED BY <2>1, <2>2
<1>. QED BY <1>4, <1>5

(* Steps from one pair of nodes to the next *)
LEMMA WalkKeeps ==
  ASSUME Inv, NEW t \in Threads, LockSecond(t) \/ SearchNext(t) \/ LockThird(t) \/ Advance(t)
  PROVE  Inv'
<1> DEFINE s == thread[t]
<1>1. s \in Record /\ Window(t, s) /\ Kind(t, s) /\ \A n \in Nodes : t \in lock[n] <=> n \in Grip(t, s)
  BY Types DEF Inv, WindowValid, Kinds, Gripped
<1>2. List /\ shared' = shared /\ TypeOK /\ s.at \notin {"none", "end"}
  BY DEF Inv, LockSecond, SearchNext, LockThird, Advance, List
<1>3. t \in Swappers <=> t \notin Searchers
  BY OrderAssumption DEF Threads
<1>4. s.at \in {"second", "next", "decide"}
  BY DEF LockSecond, SearchNext, LockThird, Advance
<1>5. s.k \in Nat /\ s.k < size /\ s.curr = path[s.k + 1] /\ s.curr \in Nodes /\ s.k + 1 \in 0 .. size
  BY <1>4, Placed
<1>6. s.at \in {"next", "decide"} =>
        /\ s.k + 1 < size /\ s.nxt = path[s.k + 2] /\ s.nxt \in Nodes /\ s.nxt = next[s.curr]
        /\ t \in Swappers => s.prev = path[s.k] /\ s.prev \in Nodes /\ next[s.prev] = s.curr
  BY <1>4, Placed
<1> HIDE DEF s
<1>7. CASE LockSecond(t)
  <2>1. s.at = "second" /\ s.k = 0 /\ CanLock(t, s.curr) /\ t \in lock[First] /\ First \in Nodes
    BY <1>1, <1>2, <1>7, Types DEF LockSecond, Kind, Grip, s
  <2>2. path[0] = First /\ s.curr = path[0 + 1] /\ next[First] = s.curr
    BY <1>5, <2>1, Types DEF Inv, ListIntact
  <2>3. CASE t \in Searchers
    <3>1. Proceed(t, {s.curr}, Nil, s.curr, 0)
      BY <1>7, <2>3 DEF LockSecond, s
    <3>2. Reaching(t, {s.curr}, Nil, s.curr, 0)
      BY <1>5, <2>1, <2>2, <2>3 DEF Reaching
    <3>. QED BY <1>2, <3>1, <3>2, Proceeds DEF s
  <2>4. CASE t \notin Searchers
    <3>1. Proceed(t, {First, s.curr}, First, s.curr, 0)
      BY <1>7, <2>4 DEF LockSecond, s
    <3>2. Reaching(t, {First, s.curr}, First, s.curr, 0)
      BY <1>5, <2>1, <2>2, <2>4 DEF Reaching
    <3>. QED BY <1>2, <3>1, <3>2, Proceeds DEF s
  <2>. QED BY <2>3, <2>4
<1>8. CASE SearchNext(t)
  <2>1. PICK k \in Nat : k = s.k + 1
    BY <1>5
  <2>2. s.at = "next" /\ t \in Searchers /\ CanLock(t, s.nxt) /\ Proceed(t, {s.nxt}, Nil, s.nxt, k)
    BY <1>8, <2>1 DEF SearchNext, s
  <2>3. k < size /\ s.nxt = path[k + 1] /\ s.nxt \in Nodes
    <3>1. k + 1 = s.k + 2
      BY <1>5, <2>1
    <3>. QED BY <1>6, <2>1, <2>2, <3>1
  <2>4. Reaching(t, {s.nxt}, Nil, s.nxt, k)
    BY <2>2, <2>3 DEF Reaching
  <2>. QED BY <1>2, <2>2, <2>4, Proceeds DEF s
<1>9. CASE LockThird(t)
  <2> DEFINE r == [s EXCEPT !.at = "decide"]
  <2>1. s.at = "next" /\ t \in Swappers /\ CanLock(t, s.nxt) /\ thread' = [thread EXCEPT ![t] = r]
        /\ lock' = [lock EXCEPT ![s.nxt] = @ \cup {t}]
    BY <1>2, <1>9, Types DEF LockThird, s
  <2>2. r \in Record /\ r.at = "decide" /\ r.k = s.k /\ r.prev = s.prev /\ r.curr = s.curr /\ r.nxt = s.nxt
    BY <1>1 DEF Record, Places
  <2>3. Window(t, r) /\ Kind(t, r) /\ Grip(t, r) = {s.prev, s.curr, s.nxt}
    BY <1>1, <2>1, <2>2 DEF Window, Kind, Grip
  <2>4. \A n \in Nodes : t \in lock[n] <=> n \in {s.prev, s.curr}
    BY <1>1, <1>3, <2>1 DEF Grip
  <2>5. lock' = Holding(t, {s.prev, s.curr, s.nxt})
    <3>1. lock \in [Nodes -> SUBSET Threads]
      BY <1>2, Types
    <3>2. \A n \in Nodes : lock'[n] = IF n \in {s.prev, s.curr, s.nxt} THEN lock[n] \cup {t} ELSE lock[n] \ {t}
      BY <1>6, <2>1, <2>4, <3>1
    <3>. QED BY <2>1, <3>1, <3>2 DEF Holding
  <2>6. {s.prev, s.curr, s.nxt} \in SUBSET Nodes
    BY <1>5, <1>6, <2>1
  <2>7. /\ lock' \in [Nodes -> SUBSET Threads] /\ Exclusive'
        /\ \A n \in Nodes : t \in lock'[n] <=> n \in {s.prev, s.curr, s.nxt}
        /\ \A n \in Nodes : \A u \in Threads : u # t => (u \in lock'[n] <=> u \in lock[n])
    <3>1. \A n \in {s.prev, s.curr, s.nxt} : t \in lock[n] \/ CanLock(t, n)
      BY <2>1, <2>4, <2>6
    <3>. QED BY <1>2, <2>5, <2>6, <3>1, Locked
  <2> HIDE DEF r
  <2>. QED BY <1>2, <2>1, <2>2, <2>3, <2>7, Stepped DEF s
<1>10. CASE Advance(t)
  <2>1. PICK k \in Nat : k = s.k + 1
    BY <1>5
  <2>2. s.at = "decide" /\ t \in Swappers /\ t \notin Searchers
        /\ Proceed(t, {s.curr, s.nxt}, s.curr, s.nxt, k)
    BY <1>1, <1>3, <1>10, <2>1 DEF Advance, Kind, s
  <2>3. k < size /\ s.nxt = path[k + 1] /\ s.nxt \in Nodes /\ s.curr \in Nodes
        /\ s.curr = path[k] /\ next[s.curr] = s.nxt
    <3>1. k + 1 = s.k + 2
      BY <1>5, <2>1
    <3>. QED BY <1>5, <1>6, <2>1, <2>2, <3>1
  <2>4. t \in lock[s.curr] /\ t \in lock[s.nxt]
    BY <1>1, <2>2, <2>3 DEF Grip
  <2>5. Reaching(t, {s.curr, s.nxt}, s.curr, s.nxt, k)
    BY <2>2, <2>3, <2>4 DEF Reaching
  <2>. QED BY <1>2, <2>2, <2>5, Proceeds DEF s
<1>. QED BY <1>7, <1>8, <1>9, <1>10

(* A swap exchanges the nodes at two neighbouring positions, and no thread *)
(* that has stopped in its walk notices.                                   *)
LEMMA SwapKeeps ==
  ASSUME Inv, NEW t \in Threads, Swap(t)
  PROVE  Inv'
<1> DEFINE s == thread[t]
<1>1. s \in Record /\ Window(t, s) /\ Kind(t, s) /\ \A n \in Nodes : t \in lock[n] <=> n \in Grip(t, s)
  BY Types DEF Inv, WindowValid, Kinds, Gripped
<1>2. UNCHANGED <<shared, size, main, cancelled>> /\ TypeOK /\ s.at = "decide" /\ t \in Swappers
      /\ thread' = [thread EXCEPT ![t] = Idle("top")] /\ lock' = Holding(t, {})
  BY <1>1 DEF Inv, Swap, Kind
<1> DEFINE k == s.k
           a == s.prev
           b == s.curr
           c == s.nxt
<1>3. k \in Nat /\ k < size /\ b = path[k + 1] /\ c # Nil /\ c = next[b] /\ a = path[k] /\ Follow(a, b, c)
  BY <1>1, <1>2 DEF Window, Record
<1>4. k + 1 < size /\ c = path[k + 2] /\ k \in 0 .. size /\ k + 1 \in 0 .. size /\ k + 2 \in 0 .. size
  <2>1. k + 1 \in 0 .. size /\ next[path[k + 1]] # Nil
    BY <1>2, <1>3, Types
  <2>2. k + 1 < size /\ next[b] = path[k + 1 + 1]
    BY <1>3, <2>1, Behind
  <2>3. k + 1 + 1 = k + 2
    BY <1>3
  <2>. QED BY <1>2, <1>3, <2>2, <2>3, Types
<1>5. a \in Nodes /\ b \in Nodes /\ c \in Nodes /\ a # b /\ b # c /\ a # c
  <2>1. \A i, j \in 0 .. size : path[i] = path[j] => i = j
    BY DEF Inv, ListIntact
  <2>2. k # k + 1 /\ k + 1 # k + 2 /\ k # k + 2
    BY <1>3
  <2>3. path[k] \in Nodes /\ path[k + 1] \in Nodes /\ path[k + 2] \in Nodes
    BY <1>2, <1>4, Types
  <2>. QED BY <1>3, <1>4, <2>1, <2>2, <2>3
<1>6. /\ next' = Swapped(a, b, c)
      /\ path' = [path EXCEPT ![k + 1] = path[k + 2], ![k + 2] = path[k + 1]]
  BY <1>3 DEF Swap
<1> HIDE DEF s, k, a, b, c
<1>7. /\ next' \in [Nodes -> Nodes \cup {Nil}]
      /\ next'[a] = c /\ next'[c] = b /\ next'[b] = next[c]
      /\ \A n \in Nodes : n \notin {a, b, c} => next'[n] = next[n]
  BY <1>2, <1>5, <1>6, Types DEF Swapped
<1>8. /\ path' \in [Nodes -> Nodes]
      /\ path'[k + 1] = c /\ path'[k + 2] = b
      /\ \A i \in Nodes : i \notin {k + 1, k + 2} => path'[i] = path[i]
  <2>1. path \in [Nodes -> Nodes] /\ k + 1 \in Nodes /\ k + 2 \in Nodes /\ k + 1 # k + 2
    BY <1>2, <1>3, <1>4, Types
  <2>. QED BY <1>3, <1>4, <1>5, <1>6, <2>1
<1>9. /\ thread' \in [Threads -> Record] /\ thread'[t] = Idle("top")
      /\ \A u \in Threads : u # t => thread'[u] = thread[u]
  BY <1>2, Idles, Types
<1>10. /\ lock' \in [Nodes -> SUBSET Threads] /\ Exclusive'
       /\ \A n \in Nodes : t \in lock'[n] <=> n \in {}
       /\ \A n \in Nodes : \A u \in Threads : u # t => (u \in lock'[n] <=> u \in lock[n])
  <2>1. {} \in SUBSET Nodes /\ \A n \in {} : t \in lock[n] \/ CanLock(t, n)
    OBVIOUS
  <2>. QED BY <1>2, <2>1, Locked
<1>11. TypeOK'
  BY <1>2, <1>7, <1>8, <1>9, <1>10 DEF TypeOK, Record, Exclusive
(* the list *)
<1>12. ListIntact'
  <2>1. /\ path[0] = First /\ {path[i] : i \in 0 .. size} = 0 .. size
        /\ \A i, j \in 0 .. size : path[i] = path[j] => i = j
        /\ \A i \in 0 .. size : next[path[i]] = IF i < size THEN path[i + 1] ELSE Nil
        /\ size \in Nat /\ size' = size /\ \A i \in 0 .. size : i \in Nodes /\ path[i] \in Nodes
    BY <1>2, Types DEF Inv, ListIntact
  <2>2. path'[0] = First
    BY <1>3, <1>8, <2>1
  <2> DEFINE sw(i) == IF i = k + 1 THEN k + 2 ELSE IF i = k + 2 THEN k + 1 ELSE i
  <2>3. \A i \in 0 .. size : sw(i) \in 0 .. size /\ sw(sw(i)) = i /\ path'[i] = path[sw(i)]
    BY <1>3, <1>4, <1>8, <2>1
  <2> HIDE DEF sw
  <2>4. \A i, j \in 0 .. size : path'[i] = path'[j] => i = j
    BY <2>1, <2>3
  <2>5. {path'[i] : i \in 0 .. size} = 0 .. size
    <3>1. \A i \in 0 .. size : path'[i] \in {path[j] : j \in 0 .. size}
      BY <2>3
    <3>2. \A i \in 0 .. size : path[i] \in {path'[j] : j \in 0 .. size}
      <4> SUFFICES ASSUME NEW i \in 0 .. size PROVE \E j \in 0 .. size : path[i] = path'[j]
        OBVIOUS
      <4>1. sw(i) \in 0 .. size /\ path'[sw(i)] = path[i]
        BY <2>3
      <4>. QED BY <4>1
    <3>. QED BY <2>1, <3>1, <3>2
  <2>6. \A i \in 0 .. size : next'[path'[i]] = IF i < size THEN path'[i + 1] ELSE Nil
    <3> SUFFICES ASSUME NEW i \in 0 .. size
                 PROVE  next'[path'[i]] = IF i < size THEN path'[i + 1] ELSE Nil
      OBVIOUS
    <3>1. CASE i = k
      BY <1>3, <1>4, <1>7, <1>8, <2>1, <3>1
    <3>2. CASE i = k + 1
      <4>1. i + 1 = k + 2
        BY <1>3, <3>2
      <4>. QED BY <1>4, <1>7, <1>8, <3>2, <4>1
    <3>3. CASE i = k + 2
      <4>1. path'[i] = b /\ next'[b] = next[path[i]]
        BY <1>4, <1>7, <1>8, <3>3
      <4>2. i < size => i + 1 \in Nodes /\ i + 1 \notin {k + 1, k + 2}
        BY <1>3, <2>1, <3>3
      <4>. QED BY <1>8, <2>1, <4>1, <4>2
    <3>4. CASE i \notin {k, k + 1, k + 2}
      <4>1. path'[i] = path[i]
        BY <1>8, <2>1, <3>4
      <4>2. path[i] \notin {a, b, c}
        BY <1>3, <1>4, <2>1, <3>4
      <4>3. next'[path'[i]] = next[path[i]]
        BY <1>7, <2>1, <4>1, <4>2
      <4>4. i < size => i + 1 \in Nodes
        BY <2>1
      <4>5. i < size => i + 1 \notin {k + 1, k + 2}
        BY <1>3, <2>1, <3>4
      <4>. QED BY <1>8, <2>1, <4>3, <4>4, <4>5
    <3>. QED BY <3>1, <3>2, <3>3, <3>4
  <2>. QED BY <2>1, <2>2, <2>4, <2>5, <2>6 DEF ListIntact
(* the other threads *)
<1>13. ASSUME NEW u \in Threads, u # t, NEW n \in Nodes, n \in Grip(u, thread[u])
       PROVE  n \notin {a, b, c}
  <2>1. u \in lock[n]
    BY <1>13 DEF Inv, Gripped
  <2>2. t \notin Searchers
    BY <1>2, OrderAssumption
  <2>3. t \notin lock[n]
    BY <1>2, <1>13, <2>1, <2>2, Types DEF Exclusive
  <2>. QED BY <1>1, <1>2, <1>13, <2>3 DEF Grip, s, a, b, c
<1>14. ASSUME NEW u \in Threads, u # t
       PROVE  Window(u, thread[u])'
  <2> DEFINE r == thread[u]
  <2>1. r \in Record /\ Window(u, r) /\ Kind(u, r) /\ thread'[u] = r /\ u \in Searchers \cup Swappers
    BY <1>2, <1>9, <1>14, Types DEF Inv, WindowValid, Kinds, Threads
  <2> HIDE DEF r
  <2>2. CASE r.at \notin {"second", "next", "decide"}
    BY <2>1, <2>2 DEF Window
  <2>3. CASE r.at = "second"
    <3>1. r.k = 0 /\ r.k < size /\ r.curr = path[r.k + 1]
      BY <2>1, <2>3 DEF Window, Kind
    <3>2. First \notin {a, b, c} /\ path[0] = First
      BY <1>2, <1>13, <1>14, <2>3, Types DEF Grip, r, Inv, ListIntact
    <3>3. k # 0
      BY <1>3, <3>2
    <3>4. 1 \in Nodes /\ 1 \notin {k + 1, k + 2}
      BY <1>2, <1>3, <3>1, <3>3, Types
    <3>5. path'[r.k + 1] = path[r.k + 1]
      BY <1>8, <3>1, <3>4
    <3>. QED BY <1>2, <2>1, <2>3, <3>1, <3>5 DEF Window
  <2>4. CASE r.at \in {"next", "decide"}
    <3>1. /\ r.k \in Nat /\ r.k < size /\ r.curr = path[r.k + 1] /\ r.nxt # Nil /\ r.nxt = next[r.curr]
          /\ u \in Swappers => r.prev = path[r.k] /\ Follow(r.prev, r.curr, r.nxt)
      BY <2>1, <2>4 DEF Window, Record
    <3>2. r.k \in Nodes /\ r.k + 1 \in Nodes /\ r.curr \in Nodes
      <4>1. r.k \in 0 .. size /\ r.k + 1 \in 0 .. size
        BY <1>2, <3>1, Types
      <4>. QED BY <1>2, <3>1, <4>1, Types
    <3>3. r.curr \in Grip(u, thread[u]) /\ (u \in Swappers => r.prev \in Grip(u, thread[u]) /\ u \notin Searchers)
      BY <2>1, <2>4, OrderAssumption DEF Grip, Kind, r
    <3>4. r.curr \notin {a, b, c} /\ next'[r.curr] = next[r.curr]
      BY <1>7, <1>13, <1>14, <3>2, <3>3
    <3>5. r.k + 1 \notin {k + 1, k + 2} /\ path'[r.k + 1] = path[r.k + 1]
      <4>1. path[r.k + 1] # path[k + 1] /\ path[r.k + 1] # path[k + 2]
        BY <1>3, <1>4, <3>1, <3>4
      <4>2. r.k + 1 # k + 1 /\ r.k + 1 # k + 2
        BY <4>1
      <4>. QED BY <1>8, <3>2, <4>2
    <3>6. u \in Swappers => r.prev \in Nodes /\ r.prev \notin {a, b, c} /\ next'[r.prev] = next[r.prev]
      <4>1. u \in Swappers => r.prev \in Nodes
        BY <1>2, <3>1, <3>2, Types
      <4>2. u \in Swappers => r.prev \notin {a, b, c}
        BY <1>13, <1>14, <3>3, <4>1
      <4>. QED BY <1>7, <4>1, <4>2
    <3>7. u \in Swappers => r.k \notin {k + 1, k + 2} /\ path'[r.k] = path[r.k]
      <4>1. u \in Swappers => path[r.k] # path[k + 1] /\ path[r.k] # path[k + 2]
        BY <1>3, <1>4, <3>1, <3>6
      <4>2. u \in Swappers => r.k # k + 1 /\ r.k # k + 2
        BY <4>1
      <4>. QED BY <1>8, <3>2, <4>2
    <3>. QED BY <1>2, <2>1, <2>4, <3>1, <3>4, <3>5, <3>6, <3>7 DEF Window, Follow
  <2>. QED BY <2>2, <2>3, <2>4
<1>15. Window(t, thread[t])' /\ Kind(t, thread[t])' /\ thread'[t].at = "top" /\ Grip(t, thread'[t]) = {}
  BY <1>9, Idles DEF Window, Kind, Grip
<1>16. WindowValid'
  BY <1>14, <1>15 DEF WindowValid
<1>17. Kinds'
  BY <1>9, <1>15 DEF Inv, Kinds, Kind
<1>18. Gripped'
  <2>1. \A u \in Threads : u # t => \A n \in Nodes : u \in lock[n] <=> n \in Grip(u, thread[u])
    BY DEF Inv, Gripped
  <2>. QED BY <1>9, <1>10, <1>15, <2>1 DEF Gripped, Grip
<1>19. Phases'
  <2>1. \A j \in 1 .. Len(Order) : Order[j] \in Threads
    BY OrderAssumption
  <2>2. \A j \in 1 .. Len(Order) : thread'[Order[j]].at = "none" <=> thread[Order[j]].at = "none"
    BY <1>2, <1>9, <1>15, <2>1 DEF s
  <2>3. main.at = "join" => \A j \in 1 .. main.i : j \in 1 .. Len(Order)
    BY OrderAssumption DEF Inv, TypeOK
  <2>4. \A j \in 1 .. Len(Order) : thread[Order[j]].at = "end" => thread'[Order[j]].at = "end"
    BY <1>2, <1>9, <2>1 DEF s
  <2>5. main.at \notin {"free", "freed"}
    BY <1>2 DEF Inv, Phases, s
  <2>. QED BY <1>2, <2>2, <2>3, <2>4, <2>5 DEF Inv, Phases
<1>. QED BY <1>11, <1>12, <1>16, <1>17, <1>18, <1>19 DEF Inv

(* Every step, of main or of a walk, keeps the invariant. *)
LEMMA NextInv == Inv /\ [Next]_vars => Inv'
<1> SUFFICES ASSUME Inv, [Next]_vars PROVE Inv'
  OBVIOUS
<1>1. CASE Main
  BY <1>1, MainKeeps
<1>2. ASSUME NEW t \in Threads, Walk(t) PROVE Inv'
  BY <1>2, StartKeeps, WalkKeeps, SwapKeeps DEF Walk
<1>3. CASE UNCHANGED vars
  BY <1>3 DEF vars, Inv, TypeOK, ListIntact, WindowValid, Window, Follow, Gripped, Kinds, Phases
<1>. QED BY <1>1, <1>2, <1>3 DEF Next

(* Every reachable state has the inductive invariant: the walks of the      *)
(* searching and swapping threads keep windows, locks and list together.   *)
THEOREM Invariance == Spec => []Inv
BY InitInv, NextInv, PTL DEF Spec

(* No lock of a node ever has two holders, except searchers that share it. *)
THEOREM TypeCorrect == Spec => []TypeOK
BY Invariance, PTL DEF Inv

(* However many perform_swap_locked interleave, the pointers are one path  *)
(* through all nodes: none is lost or repeated, and there is no cycle.     *)
THEOREM Intact == Spec => []ListIntact
BY Invariance, PTL DEF Inv

(* The pointers that a walk took before it waited for a lock are still     *)
(* those of the list when it has the lock.                                 *)
THEOREM Windows == Spec => []WindowValid
BY Invariance, PTL DEF Inv

(* Once main has freed the list, nobody holds or wants a lock. *)
LEMMA NoneLeft == Inv => UnusedWhenFreed
<1> SUFFICES ASSUME Inv, main.at = "freed"
             PROVE  /\ \A t \in Threads : thread[t].at \in {"none", "end"}
                    /\ \A n \in Nodes : lock[n] = {}
  BY DEF UnusedWhenFreed
<1>1. \A t \in Threads : thread[t].at \in {"none", "end"}
  BY DEF Inv, Phases
<1>2. \A n \in Nodes : \A t \in Threads : t \notin lock[n]
  BY <1>1 DEF Inv, Gripped, Grip
<1>. QED BY <1>1, <1>2, Types DEF Inv

(* free_storage runs when no thread can use the list any more.             *)
THEOREM Unused == Spec => []UnusedWhenFreed
BY Invariance, NoneLeft, PTL

(* A set of natural numbers has a least one. *)
Less == {ss \in Nat \X Nat : ss[1] < ss[2]}

LEMMA Least ==
  ASSUME NEW S, S \subseteq Nat, S # {}
  PROVE  \E m \in S : \A n \in S : m <= n
<1>1. IsWellFoundedOn(Less, Nat)
  BY NatLessThanWellFounded, Zenon DEF OpToRel, Less
<1>2. PICK m \in S : \A n \in S : ~ (<<n, m>> \in Less)
  <2> HIDE DEF Less
  <2>. QED BY <1>1, WFMin
<1>3. \A n \in S : ~ (n < m)
  BY <1>2 DEF Less
<1>. QED BY <1>3

(* How far a waiting thread looks down the list *)
Reach(s) == IF s.at = "first" THEN 0 ELSE IF s.at = "second" THEN 1 ELSE s.k + 2

(* A waiting thread wants the node at the position it looks at. *)
LEMMA Reached ==
  ASSUME Inv, NEW t \in Threads, Waiting(t)
  PROVE  Reach(thread[t]) \in 0 .. size /\ path[Reach(thread[t])] = Wanted(t)
<1> DEFINE s == thread[t]
<1>1. CASE s.at = "first"
  BY <1>1, Types DEF Inv, Reach, Wanted, ListIntact
<1>2. CASE s.at = "second"
  <2>1. s.k = 0 /\ s.k < size /\ s.curr = path[s.k + 1]
    BY <1>2, Placed DEF Inv, Kinds, Kind
  <2>. QED BY <1>2, <2>1, Types DEF Inv, Reach, Wanted
<1>3. CASE s.at = "next"
  <2>1. s.k \in Nat /\ s.k + 1 < size /\ s.nxt = path[s.k + 2]
    BY <1>3, Placed
  <2>2. s.k + 2 \in 0 .. size
    BY <2>1, Types DEF Inv
  <2>. QED BY <1>3, <2>1, <2>2 DEF Reach, Wanted
<1>. QED BY <1>1, <1>2, <1>3 DEF Waiting

(* It holds only nodes that come before that. *)
LEMMA HeldBefore ==
  ASSUME Inv, NEW t \in Threads, Waiting(t), NEW j \in 0 .. size, path[j] \in Grip(t, thread[t])
  PROVE  j < Reach(thread[t])
<1> DEFINE s == thread[t]
<1>1. path[0] = First /\ (\A i, l \in 0 .. size : path[i] = path[l] => i = l) /\ size \in Nat
  BY Types DEF Inv, ListIntact
<1>2. CASE s.at = "first"
  BY <1>2 DEF Grip
<1>3. CASE s.at = "second"
  <2>1. path[j] = path[0] /\ 0 \in 0 .. size
    BY <1>1, <1>3 DEF Grip
  <2>. QED BY <1>1, <1>3, <2>1 DEF Reach
<1>4. CASE s.at = "next"
  <2>1. s.k \in Nat /\ s.k < size /\ s.curr = path[s.k + 1] /\ s.k + 1 \in 0 .. size /\ s.k \in 0 .. size
    BY <1>1, <1>4, Placed
  <2>2. t \notin Searchers => s.prev = path[s.k]
    BY <1>4, Placed DEF Threads
  <2>3. path[j] = path[s.k + 1] \/ path[j] = path[s.k]
    BY <1>4, <2>1, <2>2 DEF Grip
  <2>4. j = s.k + 1 \/ j = s.k
    BY <1>1, <2>1, <2>3
  <2>. QED BY <1>4, <2>1, <2>4 DEF Reach
<1>. QED BY <1>2, <1>3, <1>4 DEF Waiting

(* The thread that looks furthest can go on: one that held the node it     *)
(* wants would look further still.                                         *)
LEMMA Furthest == Inv => NoCircle
<1> SUFFICES ASSUME Inv, NEW t0 \in Threads, Waiting(t0),
                    \A t \in Threads : thread[t].at # "decide" /\ (Waiting(t) => ~CanLock(t, Wanted(t)))
             PROVE  FALSE
  BY DEF NoCircle
<1>1. ASSUME NEW t \in Threads, Waiting(t)
      PROVE  \E u \in Threads : Waiting(u) /\ Reach(thread[t]) < Reach(thread[u])
  <2>1. PICK j \in 0 .. size : j = Reach(thread[t]) /\ path[j] = Wanted(t)
    BY <1>1, Reached
  <2>2. path[j] \in Nodes /\ lock[path[j]] \subseteq Threads /\ lock[path[j]] # {}
    <3>1. path[j] \in Nodes /\ lock[path[j]] \subseteq Threads
      BY Types DEF Inv
    <3>. QED BY <1>1, <2>1, <3>1 DEF CanLock
  <2>3. PICK u \in Threads : u \in lock[path[j]]
    BY <2>2
  <2>4. path[j] \in Grip(u, thread[u])
    BY <2>2, <2>3 DEF Inv, Gripped
  <2>5. Waiting(u)
    BY <2>4 DEF Grip, Waiting
  <2>6. j < Reach(thread[u])
    BY <2>4, <2>5, HeldBefore
  <2>. QED BY <2>1, <2>5, <2>6
<1> DEFINE Left == {size - Reach(thread[t]) : t \in {u \in Threads : Waiting(u)}}
<1>2. \A t \in Threads : Waiting(t) => Reach(thread[t]) \in Int /\ size - Reach(thread[t]) \in Nat
  <2> SUFFICES ASSUME NEW t \in Threads, Waiting(t)
               PROVE  Reach(thread[t]) \in Int /\ size - Reach(thread[t]) \in Nat
    OBVIOUS
  <2>1. Reach(thread[t]) \in 0 .. size /\ size \in Nat
    BY Reached, Types DEF Inv
  <2>. QED BY <2>1
<1>3. Left \subseteq Nat /\ Left # {}
  BY <1>2
<1>4. PICK m \in Left : \A x \in Left : m <= x
  <2> HIDE DEF Left
  <2>. QED BY <1>3, Least
<1>5. PICK t \in Threads : Waiting(t) /\ m = size - Reach(thread[t])
  BY <1>4
<1>6. PICK u \in Threads : Waiting(u) /\ Reach(thread[t]) < Reach(thread[u])
  BY <1>1, <1>5
<1>7. m <= size - Reach(thread[u])
  BY <1>4, <1>6
<1>8. size \in Nat
  BY Types DEF Inv
<1>. QED BY <1>2, <1>5, <1>6, <1>7, <1>8

(* Hand over hand locking from the head never ends in a circle of waiting  *)
(* threads, although swaps change which node comes first.                  *)
THEOREM NoDeadlock == Spec => []NoCircle
BY Invariance, Furthest, PTL
=============================================================================
