-------------------------- MODULE ThreadQueue_proof --------------------------
(***************************************************************************)
(* ThreadQueue for a queue of any size: order, the accounting of the       *)
(* semaphores, no lost wake-up, and nothing is freed under a thread.       *)
(***************************************************************************)
EXTENDS ThreadQueue, TLAPS

(* Where the threads of each of the four queues can be. *)
Kinds == /\ writer.at \in {"slots", "access", "post"} => kind = "sem"
         /\ reader.at \in {"items", "access", "post"} => kind = "sem"
         /\ "asleep" \in {writer.at, reader.at} => kind = "cond"
         /\ "enter" \in {writer.at, reader.at} => kind # "sem"
         /\ writer.at = "oom" => Trying

(* What main has created and joined when it is somewhere. *)
Phases == /\ main = "create" => writer.at = "none" /\ reader.at = "none"
          /\ main = "create2" => IF kind = "spin" THEN reader.at = "none" ELSE writer.at = "none"
          /\ main \in {"cancelW", "joinW"} => reader.at = "end"
          /\ main \in {"destroy", "joinM", "freed"} =>
               /\ Gone(reader.at)
               /\ Gone(writer.at) \/ (kind = "spin" /\ reader.at = "none")
          /\ main = "freed" => monitor = "end"

Inv == TypeOK /\ InOrder /\ TokensKept /\ NoLostWakeup /\ Kinds /\ Phases

(* Counting goes round at most once. *)
LEMMA Round ==
  \A x \in Nat : x < Values + Values => x % Values = IF x < Values THEN x ELSE x - Values
BY ValuesAssumption, CountAssumption

USE CountAssumption, ValuesAssumption

(* Neighbouring values and counts differ. *)
LEMMA Steps ==
  ASSUME NEW a \in 0 .. Values - 1, NEW n \in 0 .. Values
  PROVE  (a + n) % Values = IF a + n < Values THEN a + n ELSE a + n - Values
<1>1. a + n \in Nat /\ a + n < Values + Values
  OBVIOUS
<1>. QED BY <1>1, Round

(* What TypeOK says of the counters. *)
LEMMA Counters ==
  ASSUME TypeOK
  PROVE  /\ writer.n \in 0 .. Values - 1 /\ reader.n \in 0 .. Values - 1
         /\ Len(q) \in 0 .. MaxCount /\ Len(q) + 1 \in 0 .. Values
         /\ \A k \in 1 .. Len(q) : k \in 0 .. Values
         /\ Len(q) \in 0 .. Values /\ 0 \in 0 .. Values /\ 1 \in 0 .. Values
BY CountAssumption DEF TypeOK

(* A value that is added is the next one. *)
LEMMA Linked ==
  ASSUME TypeOK, InOrder, Len(q) < MaxCount, NEW pc, Link(pc), reader'.n = reader.n, wrong' = wrong
  PROVE  /\ q' \in Seq(0 .. Values - 1) /\ Len(q') = Len(q) + 1
         /\ writer'.n \in 0 .. Values - 1
         /\ InOrder'
<1>1. /\ q' = Append(q, writer.n)
      /\ writer'.n = (writer.n + 1) % Values
      /\ reader'.n = reader.n /\ wrong' = wrong
  BY DEF Link, After
<1>2. q' \in Seq(0 .. Values - 1) /\ Len(q') = Len(q) + 1
  BY <1>1, Counters DEF TypeOK
<1>3. (writer.n + 1) % Values = IF writer.n + 1 < Values THEN writer.n + 1 ELSE writer.n + 1 - Values
  BY Counters, Steps
<1>4. writer'.n \in 0 .. Values - 1
  BY <1>1, <1>3, Counters
<1>5. writer'.n = (reader'.n + Len(q')) % Values
  <2>1. (reader.n + Len(q)) % Values = IF reader.n + Len(q) < Values THEN reader.n + Len(q) ELSE reader.n + Len(q) - Values
    BY Counters, Steps
  <2>2. (reader.n + (Len(q) + 1)) % Values
          = IF reader.n + (Len(q) + 1) < Values THEN reader.n + (Len(q) + 1) ELSE reader.n + (Len(q) + 1) - Values
    BY Counters, Steps
  <2>3. writer.n = (reader.n + Len(q)) % Values
    BY DEF InOrder
  <2>4. writer'.n = (reader.n + (Len(q) + 1)) % Values
    <3>1. CASE reader.n + Len(q) < Values
      <4>1. writer.n = reader.n + Len(q)
        BY <3>1, <2>1, <2>3
      <4>2. writer.n + 1 = reader.n + (Len(q) + 1)
        BY <4>1, Counters
      <4>. QED BY <4>2, <1>1
    <3>2. CASE ~(reader.n + Len(q) < Values)
      <4>1. writer.n = reader.n + Len(q) - Values /\ writer.n + 1 < Values /\ ~(reader.n + (Len(q) + 1) < Values)
        BY <3>2, <2>1, <2>3, Counters
      <4>. QED BY <4>1, <1>1, <1>3, <2>2, Counters
    <3>. QED BY <3>1, <3>2
  <2>. QED BY <2>4, <1>1, <1>2
<1>6. \A k \in 1 .. Len(q') : q'[k] = (reader'.n + k - 1) % Values
  <2>1. \A k \in 1 .. Len(q) : q'[k] = q[k]
    BY <1>1, Counters DEF TypeOK
  <2>2. q'[Len(q) + 1] = writer.n
    BY <1>1, Counters DEF TypeOK
  <2>3. reader.n + Len(q) = reader.n + (Len(q) + 1) - 1
    BY Counters
  <2>4. reader'.n = reader.n
    BY <1>1
  <2>5. writer.n = (reader.n + Len(q)) % Values /\ \A k \in 1 .. Len(q) : q[k] = (reader.n + k - 1) % Values
    BY DEF InOrder
  <2>6. q'[Len(q) + 1] = (reader.n + (Len(q) + 1) - 1) % Values
    BY <2>2, <2>3, <2>5
  <2>7. \A k \in 1 .. Len(q) + 1 : k \in 1 .. Len(q) \/ k = Len(q) + 1
    BY Counters
  <2>. QED BY <1>2, <2>1, <2>4, <2>5, <2>6, <2>7
<1>. QED BY <1>2, <1>4, <1>5, <1>6 DEF InOrder

(* The value that is taken out is the expected one. *)
LEMMA Unlinked ==
  ASSUME TypeOK, InOrder, q # <<>>, NEW pc, Unlink(pc), writer'.n = writer.n
  PROVE  /\ q' \in Seq(0 .. Values - 1) /\ Len(q') = Len(q) - 1 /\ Len(q) \in Nat \ {0}
         /\ reader'.n \in 0 .. Values - 1
         /\ wrong' = wrong
         /\ InOrder'
<1>1. /\ q' = Tail(q)
      /\ reader'.n = (Head(q) + 1) % Values
      /\ wrong' = (wrong \/ Head(q) # reader.n)
  BY DEF Unlink, After
<1>2. /\ q' \in Seq(0 .. Values - 1) /\ Len(q') = Len(q) - 1 /\ Len(q) \in Nat \ {0}
      /\ \A k \in 1 .. Len(q') : q'[k] = q[k + 1]
      /\ Head(q) = q[1]
  BY <1>1 DEF TypeOK
<1>3. Head(q) = reader.n
  <2>1. (reader.n + 0) % Values = IF reader.n + 0 < Values THEN reader.n + 0 ELSE reader.n + 0 - Values
    BY Counters, Steps
  <2>2. q[1] = (reader.n + 1 - 1) % Values
    BY <1>2 DEF InOrder
  <2>. QED BY <1>2, <2>1, <2>2, Counters
<1>4. reader'.n = IF reader.n + 1 < Values THEN reader.n + 1 ELSE reader.n + 1 - Values
  BY <1>1, <1>3, Counters, Steps
<1>5. reader'.n \in 0 .. Values - 1
  BY <1>4, Counters
<1>6. ASSUME NEW n \in 1 .. Len(q)
      PROVE  (reader'.n + (n - 1)) % Values = (reader.n + n) % Values
  <2>1. (reader.n + n) % Values = IF reader.n + n < Values THEN reader.n + n ELSE reader.n + n - Values
    BY Counters, Steps
  <2>2. n - 1 \in 0 .. Values
    BY Counters
  <2>3. (reader'.n + (n - 1)) % Values
          = IF reader'.n + (n - 1) < Values THEN reader'.n + (n - 1) ELSE reader'.n + (n - 1) - Values
    BY <1>5, <2>2, Steps
  <2>. QED BY <1>4, <2>1, <2>3, Counters
<1>7. \A k \in 1 .. Len(q') : q'[k] = (reader'.n + k - 1) % Values
  <2> SUFFICES ASSUME NEW k \in 1 .. Len(q') PROVE q'[k] = (reader'.n + k - 1) % Values
    OBVIOUS
  <2>1. k \in 1 .. Len(q) /\ k + 1 \in 1 .. Len(q) /\ q'[k] = q[k + 1]
    BY <1>2
  <2>2. q[k + 1] = (reader.n + (k + 1) - 1) % Values
    BY <2>1 DEF InOrder
  <2>3. reader.n + (k + 1) - 1 = reader.n + k /\ reader'.n + k - 1 = reader'.n + (k - 1)
    BY <1>5, <2>1, Counters
  <2>. QED BY <1>6, <2>1, <2>2, <2>3
<1>8. writer'.n = (reader'.n + Len(q')) % Values
  BY <1>2, <1>6 DEF InOrder
<1>9. wrong' = wrong
  BY <1>1, <1>3 DEF InOrder, TypeOK
<1>. QED BY <1>2, <1>5, <1>7, <1>8, <1>9 DEF InOrder

(* main starts with an empty queue and all its tokens. *)
LEMMA InitInv == Init => Inv
<1> SUFFICES ASSUME Init PROVE Inv
  OBVIOUS
<1>1. TypeOK
  <2>1. q \in Seq(0 .. Values - 1) /\ Len(q) = 0
    BY DEF Init
  <2>2. 0 \in 0 .. Values - 1 /\ 0 <= MaxCount /\ 0 \in 0 .. MaxCount /\ MaxCount \in 0 .. MaxCount
    OBVIOUS
  <2>. QED BY <2>1, <2>2 DEF Init, TypeOK
<1>2. InOrder
  <2>1. (reader.n + 0) % Values = 0
    BY <1>1, Counters, Steps DEF Init
  <2>. QED BY <2>1 DEF Init, InOrder
<1>3. TokensKept /\ NoLostWakeup /\ Kinds /\ Phases
  BY DEF Init, TokensKept, At, NoLostWakeup, Kinds, Phases
<1>. QED BY <1>1, <1>2, <1>3 DEF Inv

(* The steps of main move no value and no token. *)
LEMMA MainKeeps ==
  ASSUME Inv, MainStep
  PROVE  Inv'
<1> USE DEF Inv, TypeOK, Kinds, Trying, Phases, Gone, Main, Threads, semVars
<1>1. UNCHANGED <<kind, q, monitor, lock, slots, items, wrong>> /\ reader'.n = reader.n /\ writer'.n = writer.n
  BY DEF MainStep, CreateReader, CreateWriter, CreateWriterFirst, CreateReaderLast, Cancel, Join
<1>2. InOrder'
  BY <1>1 DEF InOrder
<1>3. \/ reader' = reader
      \/ reader.at = "none" /\ reader' = [reader EXCEPT !.at = "top"]
  BY DEF MainStep, CreateReader, CreateWriter, CreateWriterFirst, CreateReaderLast, Cancel, Join
<1>4. \/ writer' = writer
      \/ writer.at = "none" /\ writer' = [writer EXCEPT !.at = "top"]
  BY DEF MainStep, CreateReader, CreateWriter, CreateWriterFirst, CreateReaderLast, Cancel, Join
<1>5. TokensKept' /\ NoLostWakeup' /\ Kinds'
  BY <1>1, <1>3, <1>4 DEF TokensKept, At, NoLostWakeup
<1>6. TypeOK'
  <2>1. main' \in {"create", "create2", "sleep", "cancelR", "joinR", "cancelW", "joinW",
                   "destroy", "joinM", "freed", "crashed"}
        /\ cancelled' \subseteq {"reader", "writer", "monitor"}
    BY DEF MainStep, CreateReader, CreateWriter, CreateWriterFirst, CreateReaderLast, Cancel, Join
  <2>. QED BY <2>1, <1>1, <1>3, <1>4
<1>7. Phases'
  BY <1>1 DEF MainStep, CreateReader, CreateWriter, CreateWriterFirst, CreateReaderLast, Cancel, Join
<1>. QED BY <1>2, <1>5, <1>6, <1>7

(* Steps that move no value *)
LEMMA ThreadKeeps ==
  ASSUME Inv, \/ EnterAdd \/ EndWriter \/ ReportOom \/ TakeSlot \/ PostItem \/ OutOfMemory
              \/ EnterGet \/ EndReader \/ TakeItem \/ PostSlot \/ SpuriousWakeup
  PROVE  Inv'
<1> USE DEF Inv, TypeOK, Kinds, Trying, Phases, Gone, Write, Read, World, semVars, TokensKept, At, NoLostWakeup
<1>1. UNCHANGED <<kind, main, cancelled, q, monitor, wrong>> /\ reader'.n = reader.n /\ writer'.n = writer.n
  BY DEF EnterAdd, EndWriter, ReportOom, TakeSlot, PostItem, OutOfMemory, EnterGet, EndReader, TakeItem, PostSlot,
         SpuriousWakeup
<1>2. InOrder'
  BY <1>1 DEF InOrder
<1>3. CASE EnterAdd BY <1>1, <1>2, <1>3 DEF EnterAdd
<1>4. CASE EndWriter BY <1>1, <1>2, <1>4 DEF EndWriter
<1>5. CASE ReportOom BY <1>1, <1>2, <1>5 DEF ReportOom
<1>6. CASE TakeSlot BY <1>1, <1>2, <1>6 DEF TakeSlot
<1>7. CASE PostItem BY <1>1, <1>2, <1>7 DEF PostItem
<1>8. CASE OutOfMemory
  <2>1. reader' = reader /\ items' = items
    BY <1>8 DEF OutOfMemory
  <2>2. \/ Trying /\ Write("enter", "oom") /\ lock' = "writer" /\ slots' = slots
        \/ kind = "cond" /\ Write("enter", "top") /\ UNCHANGED <<lock, slots>>
        \/ Write("access", "top") /\ slots' = slots + 1 /\ lock' = lock
    BY <1>8 DEF OutOfMemory
  <2>3. TypeOK'
    BY <1>1, <2>1, <2>2
  <2>4. Kinds' /\ Phases'
    BY <1>1, <2>1, <2>2
  <2>5. TokensKept'
    <3>1. CASE kind # "sem"
      BY <1>1, <3>1
    <3>2. CASE kind = "sem"
      <4>1. writer.at = "access" /\ writer' = [writer EXCEPT !.at = "top"] /\ slots' = slots + 1
        BY <2>2, <3>2
      <4>. QED BY <1>1, <2>1, <4>1, Counters
    <3>. QED BY <3>1, <3>2
  <2>6. NoLostWakeup'
    BY <1>1, <2>1, <2>2
  <2>. QED BY <1>2, <2>3, <2>4, <2>5, <2>6
<1>9. CASE EnterGet BY <1>1, <1>2, <1>9 DEF EnterGet
<1>10. CASE EndReader BY <1>1, <1>2, <1>10 DEF EndReader
<1>11. CASE TakeItem BY <1>1, <1>2, <1>11 DEF TakeItem
<1>12. CASE PostSlot
  <2>1. reader.at = "post" /\ reader' = [reader EXCEPT !.at = "top"] /\ slots' = slots + 1
        /\ UNCHANGED <<writer, lock, items>>
    BY <1>12 DEF PostSlot
  <2>2. slots + 1 <= MaxCount
    BY <2>1, Counters
  <2>3. TypeOK'
    <3>1. reader' \in [at : {"none", "top", "enter", "asleep", "items", "access", "post", "end"}, n : 0 .. Values - 1]
      BY <2>1
    <3>2. slots' \in 0 .. MaxCount
      BY <2>1, <2>2
    <3>. QED BY <1>1, <2>1, <3>1, <3>2
  <2>4. TokensKept'
    BY <1>1, <2>1, Counters
  <2>. QED BY <1>1, <1>2, <2>1, <2>3, <2>4
<1>13. CASE SpuriousWakeup BY <1>1, <1>2, <1>13 DEF SpuriousWakeup
<1>. QED BY <1>3, <1>4, <1>5, <1>6, <1>7, <1>8, <1>9, <1>10, <1>11, <1>12, <1>13

(* Steps of the monitor *)
LEMMA MonitorKeeps ==
  ASSUME Inv, Monitoring
  PROVE  Inv'
<1> USE DEF Inv, TypeOK, Kinds, Trying, Phases, Gone, Monitor, Watch, semVars, TokensKept, At, NoLostWakeup
<1>1. UNCHANGED <<kind, main, cancelled, q, writer, reader, slots, items, wrong>>
  BY DEF Monitoring, MonitorStart, MonitorLock, MonitorPrint, MonitorSleep
<1>2. InOrder'
  BY <1>1 DEF InOrder
<1>3. /\ monitor' \in {"start", "want", "print", "sleep", "end"}
      /\ lock' \in {"free", "writer", "monitor"}
      /\ monitor # "end"
  BY DEF Monitoring, MonitorStart, MonitorLock, MonitorPrint, MonitorSleep
<1>. QED BY <1>1, <1>2, <1>3

(* Steps that add a value, or find no room *)
LEMMA AddingKeeps ==
  ASSUME Inv, Adding
  PROVE  Inv'
<1> USE DEF Inv, Kinds, Trying, Phases, Gone, Write, World, semVars, TokensKept, At, NoLostWakeup, Woken
<1>0. writer.at \in {"none", "top", "enter", "oom", "asleep", "slots", "access", "post", "end"}
      /\ reader.at \in {"none", "top", "enter", "asleep", "items", "access", "post", "end"}
      /\ Len(q) \in 0 .. MaxCount
      /\ slots \in 0 .. MaxCount /\ items \in 0 .. MaxCount
  BY Counters DEF TypeOK
<1>1. UNCHANGED <<kind, main, cancelled, monitor, lock, slots, items, wrong>> /\ reader'.n = reader.n
  BY DEF Adding, TryAdd, WaitAdd, SemAdd, TypeOK
<1>2. ASSUME UNCHANGED q, writer'.n = writer.n
      PROVE  InOrder'
  BY <1>1, <1>2 DEF InOrder
<1>3. CASE TryAdd
  <2>1. CASE Len(q) = MaxCount
    BY <1>0, <1>1, <1>2, <1>3, <2>1 DEF TryAdd, TypeOK
  <2>2. CASE Len(q) # MaxCount
    <3>1. Link("top") /\ reader' = reader /\ Len(q) < MaxCount
      BY <1>0, <1>3, <2>2 DEF TryAdd
    <3>2. writer'.at = "top" /\ writer' = [at |-> "top", n |-> writer'.n]
      BY <3>1 DEF Link
    <3>3. q' \in Seq(0 .. Values - 1) /\ Len(q') = Len(q) + 1 /\ writer'.n \in 0 .. Values - 1 /\ InOrder'
      BY <1>1, <3>1, Linked
    <3>. QED BY <1>0, <1>1, <1>3, <3>1, <3>2, <3>3 DEF TryAdd, TypeOK
  <2>. QED BY <2>1, <2>2
<1>4. CASE WaitAdd
  <2>1. CASE Len(q) = MaxCount
    BY <1>0, <1>1, <1>2, <1>4, <2>1 DEF WaitAdd, TypeOK
  <2>2. CASE Len(q) # MaxCount
    <3>1. Link("top") /\ reader' = Woken(reader) /\ Len(q) < MaxCount
      BY <1>0, <1>4, <2>2 DEF WaitAdd
    <3>2. writer'.at = "top" /\ writer' = [at |-> "top", n |-> writer'.n]
      BY <3>1 DEF Link
    <3>3. /\ reader' \in [at : {"none", "top", "enter", "items", "access", "post", "end"}, n : 0 .. Values - 1]
          /\ reader'.at = (IF reader.at = "asleep" THEN "enter" ELSE reader.at)
      BY <1>0, <3>1 DEF TypeOK
    <3>4. q' \in Seq(0 .. Values - 1) /\ Len(q') = Len(q) + 1 /\ writer'.n \in 0 .. Values - 1 /\ InOrder'
      BY <1>1, <3>1, Linked
    <3>5. TypeOK'
      BY <1>0, <1>1, <3>1, <3>2, <3>3, <3>4 DEF TypeOK
    <3>. QED BY <1>1, <1>4, <3>2, <3>3, <3>4, <3>5 DEF WaitAdd
  <2>. QED BY <2>1, <2>2
<1>5. CASE SemAdd
  <2>1. Link("post") /\ reader' = reader /\ writer.at = "access" /\ kind = "sem"
    BY <1>5 DEF SemAdd
  <2>2. Len(q) < MaxCount
    BY <1>0, <2>1
  <2>3. writer'.at = "post" /\ writer' = [at |-> "post", n |-> writer'.n]
    BY <2>1 DEF Link
  <2>4. q' \in Seq(0 .. Values - 1) /\ Len(q') = Len(q) + 1 /\ writer'.n \in 0 .. Values - 1 /\ InOrder'
    BY <1>1, <2>1, <2>2, Linked
  <2>5. TypeOK'
    BY <1>0, <1>1, <2>1, <2>2, <2>3, <2>4 DEF TypeOK
  <2>. QED BY <1>0, <1>1, <2>1, <2>3, <2>4, <2>5
<1>. QED BY <1>3, <1>4, <1>5 DEF Adding

(* Steps that take a value, or find none *)
LEMMA GettingKeeps ==
  ASSUME Inv, TryGet \/ WaitGet \/ SemGet
  PROVE  Inv'
<1> USE DEF Inv, Kinds, Trying, Phases, Gone, Read, World, semVars, TokensKept, At, NoLostWakeup, Woken
<1>0. writer.at \in {"none", "top", "enter", "oom", "asleep", "slots", "access", "post", "end"}
      /\ reader.at \in {"none", "top", "enter", "asleep", "items", "access", "post", "end"}
      /\ Len(q) \in 0 .. MaxCount
      /\ slots \in 0 .. MaxCount /\ items \in 0 .. MaxCount
  BY Counters DEF TypeOK
<1>1. UNCHANGED <<kind, main, cancelled, monitor, lock, slots, items>> /\ writer'.n = writer.n
  BY DEF TryGet, WaitGet, SemGet, TypeOK
<1>2. ASSUME UNCHANGED <<q, wrong>>, reader'.n = reader.n
      PROVE  InOrder'
  BY <1>1, <1>2 DEF InOrder
<1>3. ASSUME NEW pc, q # <<>>, Unlink(pc)
      PROVE  /\ reader' = [at |-> pc, n |-> reader'.n] /\ reader'.at = pc
             /\ q' \in Seq(0 .. Values - 1) /\ Len(q') = Len(q) - 1 /\ Len(q) \in Nat \ {0}
             /\ reader'.n \in 0 .. Values - 1 /\ wrong' = wrong /\ InOrder'
  BY <1>1, <1>3, Unlinked DEF Unlink
<1>4. CASE TryGet
  <2>1. CASE q = <<>>
    BY <1>0, <1>1, <1>2, <1>4, <2>1 DEF TryGet, TypeOK
  <2>2. CASE q # <<>>
    <3>1. Unlink("top") /\ writer' = writer
      BY <1>4, <2>2 DEF TryGet
    <3>. QED BY <1>0, <1>1, <1>3, <1>4, <2>2, <3>1 DEF TryGet, TypeOK
  <2>. QED BY <2>1, <2>2
<1>5. CASE WaitGet
  <2>1. CASE q = <<>>
    BY <1>0, <1>1, <1>2, <1>5, <2>1 DEF WaitGet, TypeOK
  <2>2. CASE q # <<>>
    <3>1. Unlink("top") /\ writer' = Woken(writer)
      BY <1>5, <2>2 DEF WaitGet
    <3>2. /\ writer' \in [at : {"none", "top", "enter", "oom", "slots", "access", "post", "end"}, n : 0 .. Values - 1]
          /\ writer'.at = (IF writer.at = "asleep" THEN "enter" ELSE writer.at)
      BY <1>0, <3>1 DEF TypeOK
    <3>3. TypeOK'
      BY <1>0, <1>1, <1>3, <2>2, <3>1, <3>2 DEF TypeOK
    <3>. QED BY <1>1, <1>3, <1>5, <2>2, <3>1, <3>2, <3>3 DEF WaitGet
  <2>. QED BY <2>1, <2>2
<1>6. CASE SemGet
  <2>1. Unlink("post") /\ writer' = writer /\ reader.at = "access" /\ kind = "sem" /\ q # <<>>
    BY <1>6 DEF SemGet
  <2>2. TypeOK'
    BY <1>0, <1>1, <1>3, <2>1 DEF TypeOK
  <2>3. TokensKept'
    <3>1. /\ At(reader, "access") = 1 /\ At(reader, "post") = 0
          /\ At(reader', "access") = 0 /\ At(reader', "post") = 1
          /\ At(writer, "access") \in {0, 1} /\ At(writer, "post") \in {0, 1}
      BY <1>3, <2>1
    <3>2. /\ slots + Len(q) + At(writer, "access") + At(reader, "post") = MaxCount
          /\ items + At(writer, "post") + At(reader, "access") = Len(q)
      BY <2>1
    <3>3. /\ slots + (Len(q) - 1) + At(writer, "access") + 1 = MaxCount
          /\ items + At(writer, "post") + 0 = Len(q) - 1
      BY <1>0, <3>1, <3>2
    <3>4. UNCHANGED <<kind, slots, items, writer>> /\ Len(q') = Len(q) - 1
      BY <1>1, <1>3, <2>1
    <3>. QED BY <3>1, <3>3, <3>4
  <2>4. NoLostWakeup' /\ Kinds' /\ Phases'
    BY <1>1, <1>3, <2>1
  <2>. QED BY <1>3, <2>1, <2>2, <2>3, <2>4
<1>. QED BY <1>4, <1>5, <1>6

(* Every step, of main, the monitor, the writer or the reader, keeps the invariant. *)
LEMMA NextInv == Inv /\ [Next]_vars => Inv'
<1> SUFFICES ASSUME Inv, [Next]_vars PROVE Inv'
  OBVIOUS
<1>1. CASE UNCHANGED vars
  BY <1>1 DEF vars, semVars, Inv, TypeOK, InOrder, TokensKept, At, NoLostWakeup, Kinds, Trying, Phases, Gone
<1>2. CASE Next
  BY <1>2, MainKeeps, ThreadKeeps, MonitorKeeps, AddingKeeps, GettingKeeps
     DEF Next, Writing, Reading
<1>. QED BY <1>1, <1>2

(* Every reachable state of the queue and its threads has the inductive    *)
(* invariant, in each version, for every bound of the queue.               *)
THEOREM Invariance == Spec => []Inv
BY InitInv, NextInv, PTL DEF Spec

(* Types, with the bounds of the queue and of the semaphores. *)
THEOREM TypeCorrect == Spec => []TypeOK
<1>1. Inv => TypeOK
  BY DEF Inv
<1>. QED BY <1>1, Invariance, PTL

(* The reader gets the writer's values in order, none lost, none twice. *)
THEOREM Order == Spec => []InOrder
<1>1. Inv => InOrder
  BY DEF Inv
<1>. QED BY <1>1, Invariance, PTL

(* No slot and no item of the semaphores is lost, whoever is cancelled. *)
THEOREM Tokens == Spec => []TokensKept
<1>1. Inv => TokensKept
  BY DEF Inv
<1>. QED BY <1>1, Invariance, PTL

(* Nobody sleeps on when what it waits for has come. *)
THEOREM Wakeups == Spec => []NoLostWakeup
<1>1. Inv => NoLostWakeup
  BY DEF Inv
<1>. QED BY <1>1, Invariance, PTL

(* The queue is freed only when no thread can use it any more. *)
THEOREM Unused == Spec => []UnusedWhenFreed
<1>1. Inv => UnusedWhenFreed
  BY DEF Inv, Phases, UnusedWhenFreed
<1>. QED BY <1>1, Invariance, PTL
=============================================================================
