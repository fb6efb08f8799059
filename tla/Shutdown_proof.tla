--------------------------- MODULE Shutdown_proof ---------------------------
(***************************************************************************)
(* Shutdown for any number of downloader threads, any queue, any number of *)
(* tasks and addresses: types, and the safety of stopping (no wait is      *)
(* forgotten, nobody sleeps through the end, nothing is destroyed under a  *)
(* thread that uses it); and that a shutdown with a full cache, which      *)
(* ShutdownEnds excepts, never ends.                                       *)
(***************************************************************************)
EXTENDS Shutdown, TLAPS

(* A wait is entered only for an address that is left. *)
AddressLeft == \A w \in Workers :
                  work[w].at \in {"enter", "register", "send", "await"} => work[w].left > 0

(* A chunk is stored only if the answer with it does not outgrow the cache. *)
RoomLeft == \A w \in Workers : work[w].at \in {"append", "full", "store"} => work[w].n < MaxSize

(* The mutex of a flag is held from its test to the wait. *)
Locked == /\ \A w \in Workers : work[w].at \in {"test", "towait"} => qlock = w
          /\ gc \in {"test", "towait"} => gcLocked

(* The flags and the loop, as main has got on. *)
Phases == /\ main \in {"run", "cancel", "breaking", "cancel2", "free"} => loop = "up"
          /\ main = "join" => flag
          /\ main \in {"gcreq", "joingc"} => gcExit
          /\ main \in {"workers", "failcast", "failjoin", "gc"} => gc = "none"
          /\ main \in {"gcexit", "gcreq", "joingc"} => \A w \in Workers : At(w, "exit")

(* A wait is in good hands from the moment it is registered: RequestTracked *)
(* without the event that its thread is about to send.                      *)
Handled(w) == \/ req[w] \in {"ok", "fail"}
              \/ req[w] = "taken" /\ main \in {"cancel", "cancel2"}
              \/ main \in {"run", "cancel", "breaking"} /\ req[w] \in {"active", "queued"}

Registered == \A w \in Workers : At(w, "send") /\ w \notin late => Handled(w)

Inv == /\ TypeOK /\ AddressLeft /\ RoomLeft /\ Locked /\ Phases /\ Registered
       /\ RequestTracked /\ NoSleeperLeft /\ ResourcesOutlive

(* The invariant holds initially. *)
LEMMA InitInv == Init => Inv
<1> SUFFICES ASSUME Init PROVE Inv
  OBVIOUS
<1>1. \A w \in Workers : work[w].at = "none"
  BY DEF Init, None
<1>2. TypeOK
  <2>1. work \in [Workers -> [at : {"none"}, left : 0..MaxAddresses, n : 0..MaxSize, last : BOOLEAN]]
    BY BoundsAssumption DEF Init, None
  <2>2. req \in [Workers -> {"none"}] /\ late \subseteq Workers
    BY DEF Init
  <2>3. tasks \in 0..TaskSlots /\ asked \in 0..MaxTasks
    BY BoundsAssumption DEF Init
  <2>4. used \in Int /\ used <= MaxSize /\ failed \in Nat
    BY BoundsAssumption DEF Init
  <2>. QED BY <2>1, <2>2, <2>3, <2>4 DEF Init, TypeOK
<1>3. AddressLeft /\ RoomLeft /\ Locked /\ Phases /\ Registered
  BY <1>1 DEF Init, AddressLeft, RoomLeft, Locked, Phases, Registered, At
<1>4. RequestTracked /\ NoSleeperLeft /\ ResourcesOutlive
  BY <1>1 DEF Init, RequestTracked, NoSleeperLeft, ResourcesOutlive, At
<1>. QED BY <1>2, <1>3, <1>4 DEF Inv

(* Steps of the main thread: starting, and the callbacks of the loop. *)
LEMMA StartStep ==
  ASSUME Inv,
         CreateWorker \/ CreateFails \/ FailCast \/ FailJoin \/ CreateGc \/
         CreateLoop \/ Request \/ StartWatchers \/ GiveBack
  PROVE  Inv'
<1> USE NobodyAssumption, BoundsAssumption
        DEF Inv, TypeOK, AddressLeft, RoomLeft, Locked, Phases, Handled, Registered, RequestTracked,
            NoSleeperLeft, ResourcesOutlive, At, Main, Go, loopVars, queueVars, gcVars, cacheVars, None
<1>1. CASE CreateWorker BY <1>1 DEF CreateWorker
<1>2. CASE CreateFails BY <1>2 DEF CreateFails
<1>3. CASE FailCast BY <1>3 DEF FailCast, Awake
<1>4. CASE FailJoin BY <1>4 DEF FailJoin
<1>5. CASE CreateGc BY <1>5 DEF CreateGc
<1>6. CASE CreateLoop BY <1>6 DEF CreateLoop
<1>7. CASE Request BY <1>7 DEF Request, Running
<1>8. CASE StartWatchers
  <2>1. TypeOK'
    <3>1. UNCHANGED <<main, loop, shutting, late, queueVars, work, gcVars, cacheVars, crashed>>
      BY <1>8 DEF StartWatchers, Running
    <3>2. req' \in [Workers -> {"none", "queued", "active", "taken", "ok", "fail"}] /\ async' \in BOOLEAN
      BY <1>8 DEF StartWatchers, Running
    <3>. QED BY <3>1, <3>2
  <2>2. AddressLeft' /\ RoomLeft' /\ Locked' /\ Phases' BY <1>8 DEF StartWatchers, Running
  <2>3. Registered' /\ RequestTracked' BY <1>8 DEF StartWatchers, Running
  <2>4. NoSleeperLeft' /\ ResourcesOutlive' BY <1>8 DEF StartWatchers, Running
  <2>. QED BY <2>1, <2>2, <2>3, <2>4
<1>9. CASE GiveBack
  <2>1. PICK k \in 1..failed : /\ failed' = failed - k
                               /\ used' = IF used >= k THEN used - k ELSE 0
    BY <1>9 DEF GiveBack
  <2>2. used' \in Int /\ used' <= MaxSize /\ failed' \in Nat BY <2>1
  <2>3. UNCHANGED <<main, loopVars, queueVars, work, gcVars, crashed>> BY <1>9 DEF GiveBack
  <2>. QED BY <2>2, <2>3
<1>. QED BY <1>1, <1>2, <1>3, <1>4, <1>5, <1>6, <1>7, <1>8, <1>9

(* Steps of the main thread: stopping. *)
LEMMA StopStep ==
  ASSUME Inv,
         Signal \/ Cancelled \/ Destroy \/ FreeLoop \/ RaiseFlag \/ Join \/
         SetGcExit \/ SetGcReq \/ JoinGc \/ Release
  PROVE  Inv'
<1> USE NobodyAssumption, BoundsAssumption
        DEF Inv, TypeOK, AddressLeft, RoomLeft, Locked, Phases, Handled, Registered, RequestTracked,
            NoSleeperLeft, ResourcesOutlive, At, Main, Go, loopVars, queueVars, gcVars, cacheVars, None
<1>1. CASE Signal BY <1>1 DEF Signal, TakeWaits
<1>2. CASE Cancelled BY <1>2 DEF Cancelled
<1>3. CASE Destroy BY <1>3 DEF Destroy, TakeWaits
<1>4. CASE FreeLoop
  <2>1. TypeOK'
    <3>1. UNCHANGED <<shutting, req, late, queueVars, work, gcVars, cacheVars, crashed>>
      BY <1>4 DEF FreeLoop
    <3>2. main' \in {"null", "flag"} /\ loop' \in {"freed", "null"} /\ async' \in BOOLEAN
      BY <1>4 DEF FreeLoop
    <3>. QED BY <3>1, <3>2
  <2>2. AddressLeft' /\ RoomLeft' /\ Locked' /\ Phases' BY <1>4 DEF FreeLoop
  <2>3. Registered' /\ RequestTracked' BY <1>4 DEF FreeLoop
  <2>4. NoSleeperLeft' /\ ResourcesOutlive' BY <1>4 DEF FreeLoop
  <2>. QED BY <2>1, <2>2, <2>3, <2>4
<1>5. CASE RaiseFlag BY <1>5 DEF RaiseFlag, Awake
<1>6. CASE Join BY <1>6 DEF Join
<1>7. CASE SetGcExit BY <1>7 DEF SetGcExit
<1>8. CASE SetGcReq BY <1>8 DEF SetGcReq
<1>9. CASE JoinGc BY <1>9 DEF JoinGc
<1>10. CASE Release BY <1>10 DEF Release
<1>. QED BY <1>1, <1>2, <1>3, <1>4, <1>5, <1>6, <1>7, <1>8, <1>9, <1>10

(* Steps of the main thread that end a wait. *)
LEMMA WaitStep ==
  ASSUME Inv, NEW w \in Workers,
         FinishWait(w) \/ Cancel(w)
  PROVE  Inv'
<1> USE NobodyAssumption, BoundsAssumption
        DEF Inv, TypeOK, AddressLeft, RoomLeft, Locked, Phases, Handled, Registered, RequestTracked,
            NoSleeperLeft, ResourcesOutlive, At, Main, Go, loopVars, queueVars, gcVars, cacheVars, None
<1>1. CASE FinishWait(w) BY <1>1 DEF FinishWait, Running
<1>2. CASE Cancel(w) BY <1>2 DEF Cancel
<1>. QED BY <1>1, <1>2

(* The record of a downloader thread, as in TypeOK. *)
WorkerState == [at : {"none", "lock", "test", "towait", "asleep", "task", "connect", "enter",
                      "register", "send", "await", "recv", "append", "full", "store",
                      "notify", "nsend", "exit"},
                left : 0..MaxAddresses, n : 0..MaxSize, last : BOOLEAN]

(* Giving one thread a new record disturbs no other. *)
LEMMA Assigned ==
  ASSUME TypeOK, NEW w \in Workers, NEW s \in WorkerState, work' = [work EXCEPT ![w] = s]
  PROVE  /\ work' \in [Workers -> WorkerState]
         /\ work'[w] = s
         /\ \A u \in Workers : u # w => work'[u] = work[u]
BY DEF TypeOK, WorkerState

(* The records of a thread that starts over, ends, or begins a download. *)
LEMMA Fresh ==
  /\ None \in WorkerState
  /\ \A pc \in {"lock", "exit"} :
        [None EXCEPT !.at = pc] \in WorkerState /\ [None EXCEPT !.at = pc].at = pc
  /\ [None EXCEPT !.at = "connect", !.left = MaxAddresses] \in WorkerState
  /\ [None EXCEPT !.at = "connect", !.left = MaxAddresses].at = "connect"
<1>1. None \in WorkerState /\ None.at = "none"
  BY BoundsAssumption DEF WorkerState, None
<1>2. MaxAddresses \in 0..MaxAddresses
  BY BoundsAssumption
<1>3. \A pc \in {"lock", "exit"} :
        [None EXCEPT !.at = pc] \in WorkerState /\ [None EXCEPT !.at = pc].at = pc
  BY <1>1 DEF WorkerState
<1>4. /\ [None EXCEPT !.at = "connect", !.left = MaxAddresses] \in WorkerState
      /\ [None EXCEPT !.at = "connect", !.left = MaxAddresses].at = "connect"
  BY <1>1, <1>2 DEF WorkerState
<1>. QED BY <1>1, <1>3, <1>4

(* The records of a thread that has received or stored something. *)
LEMMA Noted ==
  ASSUME NEW s \in WorkerState, NEW end \in BOOLEAN, NEW k \in 0..MaxSize
  PROVE  /\ [s EXCEPT !.at = "notify", !.last = end] \in WorkerState
         /\ [s EXCEPT !.at = "notify", !.last = end].at = "notify"
         /\ [s EXCEPT !.at = "notify", !.n = k, !.last = end] \in WorkerState
         /\ [s EXCEPT !.at = "notify", !.n = k, !.last = end].at = "notify"
BY DEF WorkerState

(* The same for the steps in between. *)
LEMMA Stepped ==
  ASSUME NEW s \in WorkerState, NEW pc \in {"recv", "append", "full", "store"}
  PROVE  /\ [s EXCEPT !.at = pc] \in WorkerState
         /\ [s EXCEPT !.at = pc].at = pc /\ [s EXCEPT !.at = pc].n = s.n
BY DEF WorkerState

(* The record of a thread whose connection is up. *)
LEMMA Joined ==
  ASSUME NEW s \in WorkerState
  PROVE  [s EXCEPT !.at = "recv", !.left = 0] \in WorkerState
<1>1. 0 \in 0..MaxAddresses
  BY BoundsAssumption
<1>. QED BY <1>1 DEF WorkerState

(* Sending to the loop leaves an event, or has killed the process. *)
LEMMA Sent ==
  ASSUME TypeOK, AsyncSend
  PROVE  crashed' \in BOOLEAN /\ async' \in BOOLEAN /\ (async => async')
BY DEF TypeOK, AsyncSend

(* After a notification the thread receives on, or waits for a task. *)
LEMMA Continued ==
  ASSUME TypeOK, NEW w \in Workers, Continue(w)
  PROVE  \E s \in WorkerState : work' = [work EXCEPT ![w] = s] /\ s.at \in {"lock", "recv"}
<1>1. work[w] \in WorkerState
  BY DEF TypeOK, WorkerState
<1>2. CASE work[w].last
  <2>1. work' = [work EXCEPT ![w] = [None EXCEPT !.at = "lock"]]
    BY <1>2 DEF Continue, TypeOK
  <2>. QED BY <2>1, Fresh
<1>3. CASE ~work[w].last
  <2>1. work' = [work EXCEPT ![w] = [work[w] EXCEPT !.at = "recv"]]
    BY <1>3 DEF Continue, TypeOK
  <2>2. [work[w] EXCEPT !.at = "recv"] \in WorkerState /\ [work[w] EXCEPT !.at = "recv"].at = "recv"
    BY <1>1 DEF WorkerState
  <2>. QED BY <2>1, <2>2
<1>. QED BY <1>2, <1>3

(* A thread that receives, stores, notifies or goes on after it keeps the  *)
(* invariant, whatever it does to the space of the cache and to the        *)
(* request of the collector.                                               *)
LEMMA MoveStep ==
  ASSUME Inv, NEW w \in Workers, NEW s \in WorkerState, work' = [work EXCEPT ![w] = s],
         work[w].at \in {"recv", "append", "full", "store", "notify", "nsend"},
         s.at \in {"lock", "recv", "append", "full", "store", "notify"},
         s.at \in {"append", "full", "store"} => s.n < MaxSize,
         used' \in Int, used' <= MaxSize, failed' \in Nat,
         gc' = gc \/ (gc = "asleep" /\ gc' = "lock"), gcReq' \in BOOLEAN,
         crashed' \in BOOLEAN, async' \in BOOLEAN, async => async',
         UNCHANGED <<main, loop, shutting, req, late, queueVars, gcLocked, gcExit>>
  PROVE  Inv'
<1> USE DEF Inv, TypeOK, AddressLeft, RoomLeft, Locked, Phases, Handled, Registered, RequestTracked,
            NoSleeperLeft, ResourcesOutlive, At, queueVars
<1>1. /\ work' \in [Workers -> WorkerState]
      /\ work'[w] = s
      /\ \A u \in Workers : u # w => work'[u] = work[u]
  BY Assigned
<1>2. TypeOK'
  <2>1. gc' \in {"none", "top", "lock", "test", "towait", "asleep", "check", "exit"}
    OBVIOUS
  <2>. QED BY <1>1, <2>1 DEF WorkerState
<1>3. AddressLeft' /\ RoomLeft' BY <1>1
<1>4. Locked' /\ Phases' BY <1>1
<1>5. Registered' /\ RequestTracked' BY <1>1
<1>6. NoSleeperLeft' /\ ResourcesOutlive' BY <1>1
<1>. QED BY <1>2, <1>3, <1>4, <1>5, <1>6

(* Going on after a notification keeps the invariant. *)
LEMMA ContinueStep ==
  ASSUME Inv, NEW w \in Workers, Continue(w), At(w, "notify") \/ At(w, "nsend"),
         crashed' \in BOOLEAN, async' \in BOOLEAN, async => async',
         UNCHANGED <<main, loop, shutting, req, late, queueVars, gcVars, cacheVars>>
  PROVE  Inv'
<1>1. PICK s \in WorkerState : work' = [work EXCEPT ![w] = s] /\ s.at \in {"lock", "recv"}
  BY Continued DEF Inv
<1>2. used' \in Int /\ used' <= MaxSize /\ failed' \in Nat /\ gc' = gc /\ gcReq' \in BOOLEAN
  BY DEF Inv, TypeOK, gcVars, cacheVars
<1>. QED BY <1>1, <1>2, MoveStep DEF At, gcVars

(* Steps of a downloader thread between the answer and its notification. *)
LEMMA StoreStep ==
  ASSUME Inv, NEW w \in Workers,
         Receive(w) \/ Reserve(w) \/ Pressure(w) \/ TimedOut(w) \/ Store(w)
  PROVE  Inv'
<1>1. /\ work[w] \in WorkerState /\ work[w].n \in 0..MaxSize
      /\ used \in Int /\ used <= MaxSize /\ failed \in Nat /\ MaxSize \in Nat
      /\ gcReq \in BOOLEAN /\ crashed \in BOOLEAN /\ async \in BOOLEAN
  BY BoundsAssumption DEF Inv, TypeOK, WorkerState
<1>2. ASSUME NEW end \in BOOLEAN, Note(w, end)
      PROVE  \E s \in WorkerState : work' = [work EXCEPT ![w] = s] /\ s.at = "notify"
  <2>1. work' = [work EXCEPT ![w] = [work[w] EXCEPT !.at = "notify", !.last = end]]
    BY <1>2 DEF Note, Inv, TypeOK
  <2>. QED BY <1>1, <2>1, Noted
<1>3. ASSUME NEW from, NEW pc \in {"recv", "append", "full", "store"}, Go(w, from, pc)
      PROVE  \E s \in WorkerState : work' = [work EXCEPT ![w] = s] /\ s.at = pc /\ s.n = work[w].n
  <2>1. work' = [work EXCEPT ![w] = [work[w] EXCEPT !.at = pc]]
    BY <1>3 DEF Go, Inv, TypeOK
  <2>. QED BY <1>1, <2>1, Stepped
<1>4. ASSUME GiveUp(w) PROVE Note(w, TRUE) /\ failed' \in Nat
  <2>1. Note(w, TRUE) /\ failed' = failed + work[w].n BY <1>4 DEF GiveUp
  <2>2. failed + work[w].n \in Nat BY <1>1
  <2>. QED BY <2>1, <2>2
<1>5. CASE Receive(w)
  <2>1. At(w, "recv") /\ UNCHANGED <<main, loopVars, queueVars, gcVars, used, crashed>>
    BY <1>5 DEF Receive
  <2>2. failed' \in Nat
    BY <1>1, <1>4, <1>5 DEF Receive
  <2>3. (\E end \in BOOLEAN : Note(w, end)) \/ (work[w].n < MaxSize /\ Go(w, "recv", "append"))
    BY <1>4, <1>5 DEF Receive
  <2>4. PICK s \in WorkerState : /\ work' = [work EXCEPT ![w] = s]
                                 /\ s.at = "notify" \/ (s.at = "append" /\ s.n < MaxSize)
    <3>1. CASE \E end \in BOOLEAN : Note(w, end) BY <1>2, <3>1
    <3>2. CASE work[w].n < MaxSize /\ Go(w, "recv", "append") BY <1>3, <3>2
    <3>. QED BY <2>3, <3>1, <3>2
  <2>. QED BY <1>1, <2>1, <2>2, <2>4, MoveStep DEF At, loopVars, gcVars
<1>6. CASE Reserve(w)
  <2>1. /\ Go(w, "append", "store") /\ used < MaxSize /\ used' = used + 1
        /\ UNCHANGED <<main, loopVars, queueVars, gcVars, failed, crashed>>
    BY <1>6 DEF Reserve
  <2>2. PICK s \in WorkerState : work' = [work EXCEPT ![w] = s] /\ s.at = "store" /\ s.n = work[w].n
    BY <1>3, <2>1
  <2>3. work[w].n < MaxSize BY <2>1 DEF Inv, RoomLeft, Go, At
  <2>4. used' \in Int /\ used' <= MaxSize BY <1>1, <2>1
  <2>. QED BY <1>1, <2>1, <2>2, <2>3, <2>4, MoveStep DEF Go, At, loopVars, gcVars
<1>7. CASE Pressure(w)
  <2>1. /\ Go(w, "append", "full") /\ gcReq' = TRUE /\ gc' = IF gc = "asleep" THEN "lock" ELSE gc
        /\ UNCHANGED <<main, loopVars, queueVars, gcLocked, gcExit, cacheVars, crashed>>
    BY <1>7 DEF Pressure
  <2>2. PICK s \in WorkerState : work' = [work EXCEPT ![w] = s] /\ s.at = "full" /\ s.n = work[w].n
    BY <1>3, <2>1
  <2>3. work[w].n < MaxSize BY <2>1 DEF Inv, RoomLeft, Go, At
  <2>4. gc' = gc \/ (gc = "asleep" /\ gc' = "lock") BY <2>1
  <2>. QED BY <1>1, <2>1, <2>2, <2>3, <2>4, MoveStep DEF Go, At, loopVars, cacheVars
<1>8. CASE TimedOut(w)
  <2>1. Go(w, "full", "append") /\ UNCHANGED <<main, loopVars, queueVars, gcVars, cacheVars, crashed>>
    BY <1>8 DEF TimedOut
  <2>2. PICK s \in WorkerState : work' = [work EXCEPT ![w] = s] /\ s.at = "append" /\ s.n = work[w].n
    BY <1>3, <2>1
  <2>3. work[w].n < MaxSize BY <2>1 DEF Inv, RoomLeft, Go, At
  <2>. QED BY <1>1, <2>1, <2>2, <2>3, MoveStep DEF Go, At, loopVars, gcVars, cacheVars
<1>9. CASE Store(w)
  <2>1. At(w, "store") /\ UNCHANGED <<main, loopVars, queueVars, gcVars, crashed>>
    BY <1>9 DEF Store
  <2>2. work[w].n + 1 \in 0..MaxSize
    BY <1>1, <2>1 DEF Inv, RoomLeft, At
  <2>3. CASE work' = [work EXCEPT ![w].at = "notify", ![w].n = @ + 1, ![w].last = FALSE] /\ UNCHANGED cacheVars
    <3>1. work' = [work EXCEPT ![w] = [work[w] EXCEPT !.at = "notify", !.n = work[w].n + 1, !.last = FALSE]]
      BY <2>3 DEF Inv, TypeOK
    <3>2. PICK s \in WorkerState : work' = [work EXCEPT ![w] = s] /\ s.at = "notify"
      BY <1>1, <2>2, <3>1, Noted
    <3>. QED BY <1>1, <2>1, <2>3, <3>2, MoveStep DEF At, loopVars, gcVars, cacheVars
  <2>4. CASE GiveUp(w) /\ used' \in {used - 1, used}
    <3>1. used' \in Int /\ used' <= MaxSize BY <1>1, <2>4
    <3>2. Note(w, TRUE) /\ failed' \in Nat BY <1>4, <2>4
    <3>3. PICK s \in WorkerState : work' = [work EXCEPT ![w] = s] /\ s.at = "notify"
      BY <1>2, <3>2
    <3>. QED BY <1>1, <2>1, <3>1, <3>2, <3>3, MoveStep DEF At, loopVars, gcVars
  <2>. QED BY <1>9, <2>3, <2>4 DEF Store
<1>. QED BY <1>5, <1>6, <1>7, <1>8, <1>9

(* Steps of a downloader thread. *)
LEMMA WorkerStep ==
  ASSUME Inv, NEW w \in Workers,
         Lock(w) \/ NothingToDo(w) \/ Wait(w) \/ SpuriousWakeup(w) \/
         Dequeue(w) \/ CheckShutdown(w) \/ Connect(w) \/ EnterWait(w) \/
         Register(w) \/ SendWait(w) \/ WaitEnds(w) \/ Notify(w) \/ SendNotify(w)
  PROVE  Inv'
<1> USE NobodyAssumption, BoundsAssumption
        DEF Inv, TypeOK, AddressLeft, RoomLeft, Locked, Phases, Handled, Registered, RequestTracked,
            NoSleeperLeft, ResourcesOutlive, At, Main, Go, loopVars, queueVars, gcVars, cacheVars, None
<1>1. CASE Lock(w) BY <1>1 DEF Lock
<1>2. CASE NothingToDo(w) BY <1>2 DEF NothingToDo
<1>3. CASE Wait(w) BY <1>3 DEF Wait
<1>4. CASE SpuriousWakeup(w) BY <1>4 DEF SpuriousWakeup
<1>5. CASE Dequeue(w) BY <1>5 DEF Dequeue
<1>6. CASE CheckShutdown(w)
  <2>1. At(w, "task") /\ UNCHANGED <<main, loopVars, queueVars, gcVars, cacheVars, crashed>>
    BY <1>6 DEF CheckShutdown
  <2>2. PICK s \in WorkerState : work' = [work EXCEPT ![w] = s] /\ s.at \in {"exit", "connect"}
    BY <1>6, Fresh DEF CheckShutdown
  <2>3. /\ work' \in [Workers -> WorkerState]
        /\ work'[w] = s
        /\ \A u \in Workers : u # w => work'[u] = work[u]
    BY <2>2, Assigned
  <2>4. TypeOK' BY <2>1, <2>3 DEF WorkerState
  <2>5. AddressLeft' /\ RoomLeft' /\ Locked' /\ Phases' BY <2>1, <2>2, <2>3
  <2>6. Registered' /\ RequestTracked' BY <2>1, <2>2, <2>3
  <2>7. NoSleeperLeft' /\ ResourcesOutlive' BY <2>1, <2>2, <2>3
  <2>. QED BY <2>4, <2>5, <2>6, <2>7
<1>7. CASE Connect(w)
  <2>1. At(w, "connect") /\ UNCHANGED <<main, loopVars, queueVars, gcVars, cacheVars, crashed>>
    BY <1>7 DEF Connect
  <2>2. CASE work[w].left = 0
    <3>1. work' = [work EXCEPT ![w].at = "notify", ![w].last = TRUE] BY <1>7, <2>2 DEF Connect
    <3>2. TypeOK'
      <4>1. work' = [work EXCEPT ![w] = [work[w] EXCEPT !.at = "notify", !.last = TRUE]] BY <3>1
      <4>2. work[w] \in WorkerState BY DEF WorkerState
      <4>3. [work[w] EXCEPT !.at = "notify", !.last = TRUE] \in WorkerState
        BY <4>2 DEF WorkerState
      <4>4. work' \in [Workers -> WorkerState] BY <4>1, <4>3, Assigned
      <4>. QED BY <2>1, <4>4 DEF WorkerState
    <3>3. AddressLeft' /\ RoomLeft' /\ Locked' /\ Phases' BY <2>1, <3>1
    <3>4. Registered' /\ RequestTracked' BY <2>1, <3>1
    <3>5. NoSleeperLeft' /\ ResourcesOutlive' BY <2>1, <3>1
    <3>. QED BY <3>2, <3>3, <3>4, <3>5
  <2>3. CASE work[w].left # 0
    <3>1. Connected(w) \/ NextAddress(w) \/ Go(w, "connect", "enter")
      BY <1>7, <2>3 DEF Connect
    <3>2. CASE Connected(w)
      <4>1. work' = [work EXCEPT ![w].at = "recv", ![w].left = 0] BY <3>2 DEF Connected
      <4>2. TypeOK'
        <5>1. work' = [work EXCEPT ![w] = [work[w] EXCEPT !.at = "recv", !.left = 0]] BY <4>1
        <5>2. work[w] \in WorkerState BY DEF WorkerState
        <5>3. work' \in [Workers -> WorkerState] BY <5>1, <5>2, Joined, Assigned
        <5>. QED BY <2>1, <5>3 DEF WorkerState
      <4>3. AddressLeft' /\ RoomLeft' /\ Locked' /\ Phases' BY <2>1, <4>1
      <4>4. Registered' /\ RequestTracked' BY <2>1, <4>1
      <4>5. NoSleeperLeft' /\ ResourcesOutlive' BY <2>1, <4>1
      <4>. QED BY <4>2, <4>3, <4>4, <4>5
    <3>3. CASE NextAddress(w) BY <2>1, <2>3, <3>3 DEF NextAddress
    <3>4. CASE Go(w, "connect", "enter") BY <2>1, <2>3, <3>4
    <3>. QED BY <3>1, <3>2, <3>3, <3>4
  <2>. QED BY <2>2, <2>3
<1>8. CASE EnterWait(w)
  <2>1. At(w, "enter") /\ UNCHANGED <<main, loopVars, queueVars, gcVars, cacheVars, crashed>>
    BY <1>8 DEF EnterWait
  <2>2. CASE NextAddress(w) BY <2>1, <2>2 DEF NextAddress
  <2>3. CASE Go(w, "enter", "register") BY <2>1, <2>3
  <2>. QED BY <1>8, <2>2, <2>3 DEF EnterWait
<1>9. CASE Register(w) BY <1>9 DEF Register
<1>10. CASE SendWait(w)
  <2>1. Go(w, "send", "await") /\ UNCHANGED <<main, loop, shutting, req, late, queueVars, gcVars, cacheVars>>
    BY <1>10 DEF SendWait
  <2>2. crashed' \in BOOLEAN /\ async' \in BOOLEAN
    BY <1>10, Sent DEF SendWait
  <2>3. TypeOK' /\ AddressLeft' /\ RoomLeft' BY <2>1, <2>2
  <2>4. Locked' /\ Phases' BY <2>1
  <2>5. Registered' /\ RequestTracked' BY <1>10 DEF SendWait, AsyncSend
  <2>6. NoSleeperLeft' /\ ResourcesOutlive' BY <2>1
  <2>. QED BY <2>3, <2>4, <2>5, <2>6
<1>11. CASE WaitEnds(w) BY <1>11 DEF WaitEnds, NextAddress, Connected
<1>12. CASE Notify(w)
  <2>1. CASE loop # "null" BY <1>12, <2>1 DEF Notify
  <2>2. CASE loop = "null"
    <3>1. UNCHANGED <<main, loopVars, queueVars, gcVars, cacheVars, crashed>> /\ Continue(w) /\ At(w, "notify")
      BY <1>12, <2>2 DEF Notify
    <3>. QED BY <3>1, ContinueStep
  <2>. QED BY <2>1, <2>2
<1>13. CASE SendNotify(w)
  <2>1. /\ UNCHANGED <<main, loop, shutting, req, late, queueVars, gcVars, cacheVars>>
        /\ At(w, "nsend") /\ Continue(w)
    BY <1>13 DEF SendNotify
  <2>2. crashed' \in BOOLEAN /\ async' \in BOOLEAN /\ (async => async')
    BY <1>13, Sent DEF SendNotify
  <2>. QED BY <2>1, <2>2, ContinueStep
<1>. QED BY <1>1, <1>2, <1>3, <1>4, <1>5, <1>6, <1>7, <1>8, <1>9, <1>10, <1>11, <1>12, <1>13

(* Steps of the collector. *)
LEMMA CollectorStep ==
  ASSUME Inv,
         GcTop \/ GcLock \/ GcTest \/ GcWait \/ GcSpurious \/ GcCheck
  PROVE  Inv'
<1> USE NobodyAssumption, BoundsAssumption
        DEF Inv, TypeOK, AddressLeft, RoomLeft, Locked, Phases, Handled, Registered, RequestTracked,
            NoSleeperLeft, ResourcesOutlive, At, Main, Go, loopVars, queueVars, gcVars, cacheVars, None
<1>1. CASE GcTop BY <1>1 DEF GcTop
<1>2. CASE GcLock BY <1>2 DEF GcLock
<1>3. CASE GcTest
  <2>1. TypeOK'
    <3>1. UNCHANGED <<main, loopVars, queueVars, work, gcExit, cacheVars, crashed>>
      BY <1>3 DEF GcTest
    <3>2. gc' \in {"towait", "check"} /\ gcLocked' \in BOOLEAN /\ gcReq' \in BOOLEAN
      BY <1>3 DEF GcTest
    <3>. QED BY <3>1, <3>2
  <2>2. AddressLeft' /\ RoomLeft' /\ Locked' /\ Phases' BY <1>3 DEF GcTest
  <2>3. Registered' /\ RequestTracked' BY <1>3 DEF GcTest
  <2>4. NoSleeperLeft' /\ ResourcesOutlive' BY <1>3 DEF GcTest
  <2>. QED BY <2>1, <2>2, <2>3, <2>4
<1>4. CASE GcWait
  <2>1. TypeOK'
    <3>1. UNCHANGED <<main, loopVars, queueVars, work, gcExit, gcReq, cacheVars, crashed>>
      BY <1>4 DEF GcWait
    <3>2. gc' = "asleep" /\ gcLocked' \in BOOLEAN
      BY <1>4 DEF GcWait
    <3>. QED BY <3>1, <3>2
  <2>2. AddressLeft' /\ RoomLeft' /\ Locked' /\ Phases' BY <1>4 DEF GcWait
  <2>3. Registered' /\ RequestTracked' BY <1>4 DEF GcWait
  <2>4. NoSleeperLeft' /\ ResourcesOutlive' BY <1>4 DEF GcWait
  <2>. QED BY <2>1, <2>2, <2>3, <2>4
<1>5. CASE GcSpurious BY <1>5 DEF GcSpurious
<1>6. CASE GcCheck BY <1>6 DEF GcCheck
<1>. QED BY <1>1, <1>2, <1>3, <1>4, <1>5, <1>6

(* Every step keeps the invariant. *)
LEMMA InvStep == ASSUME Inv, [Next]_vars PROVE Inv'
<1>1. CASE UNCHANGED vars
  BY <1>1 DEF vars, loopVars, queueVars, gcVars, cacheVars, Inv, TypeOK, AddressLeft, RoomLeft, Locked, Phases, Handled,
     Registered, RequestTracked, NoSleeperLeft, ResourcesOutlive, At
<1>2. CASE CreateFails \/ Request \/ Signal \/ StartWatchers \/ GiveBack
  BY <1>2, StartStep, StopStep
<1>3. CASE Stopping
  <2>1. CASE CreateWorker \/ CreateGc \/ CreateLoop \/ FailCast \/ FailJoin
    BY <2>1, StartStep
  <2>2. CASE Cancelled \/ Destroy \/ FreeLoop \/ RaiseFlag \/ Join \/ SetGcExit \/ SetGcReq
             \/ JoinGc \/ Release
    BY <2>2, StopStep
  <2>3. ASSUME NEW w \in Workers, Cancel(w) PROVE Inv'
    BY <2>3, WaitStep
  <2>. QED BY <1>3, <2>1, <2>2, <2>3 DEF Stopping
<1>4. CASE Collect \/ GcSpurious
  BY <1>4, CollectorStep DEF Collect
<1>5. ASSUME NEW w \in Workers, Download(w) \/ Lock(w) \/ SpuriousWakeup(w)
      PROVE Inv'
  BY <1>5, WorkerStep, StoreStep DEF Download
<1>6. ASSUME NEW w \in Workers, FinishWait(w) PROVE Inv'
  BY <1>6, WaitStep
<1>. QED BY <1>1, <1>2, <1>3, <1>4, <1>5, <1>6 DEF Next, Callback

(* The inductive invariant holds throughout. *)
THEOREM InvCorrect == Spec => []Inv
BY InitInv, InvStep, PTL DEF Spec

(* Every variable keeps its type: the queue is never overfilled, no more   *)
(* addresses are tried than there are.                                     *)
THEOREM TypeCorrect == Spec => []TypeOK
BY InvCorrect, PTL DEF Inv

(* A connect-wait registered before the last cancelling is never forgotten. *)
THEOREM Tracked == Spec => []RequestTracked
BY InvCorrect, PTL DEF Inv

(* Nobody sleeps through downloader_destroy or gc_destroy. *)
THEOREM Sleepers == Spec => []NoSleeperLeft
BY InvCorrect, PTL DEF Inv

(* A thread other than the one that waits may take any step but Reserve,   *)
(* which needs space, and Store, for nobody has reserved any.              *)
LEMMA StarvedWorker ==
  ASSUME Inv, Starved, NEW w \in Workers, Download(w) \/ Lock(w) \/ SpuriousWakeup(w)
  PROVE  Starved'
<1> DEFINE Waits(u) == work[u].at \in {"append", "full"}
<1>1. /\ work \in [Workers -> WorkerState] /\ main = "join" /\ used >= MaxSize /\ ~(used < MaxSize)
      /\ \A u \in Workers : work[u].at # "store"
  BY BoundsAssumption DEF Starved, At, Inv, TypeOK, WorkerState
<1>2. PICK v \in Workers : Waits(v)
  BY DEF Starved
<1>3. SUFFICES /\ UNCHANGED <<main, used>>
               /\ \A u \in Workers : u # w => work'[u] = work[u]
               /\ work'[w].at # "store"
               /\ Waits(w) => work'[w].at \in {"append", "full"}
  <2>1. \E u \in Workers : work'[u].at \in {"append", "full"}
    BY <1>2, <1>3
  <2>2. \A u \in Workers : work'[u].at # "store"
    BY <1>1, <1>3
  <2>. QED BY <1>1, <1>3, <2>1, <2>2 DEF Starved, At
<1> USE DEF Go, At, WorkerState, loopVars, queueVars, gcVars, cacheVars
<1>4. CASE Lock(w) \/ NothingToDo(w) \/ Wait(w) \/ SpuriousWakeup(w)
  BY <1>1, <1>4 DEF Lock, NothingToDo, Wait, SpuriousWakeup
<1>5. CASE Dequeue(w) \/ EnterWait(w) \/ Register(w)
  BY <1>1, <1>5 DEF Dequeue, EnterWait, Register, NextAddress
<1>6. CASE CheckShutdown(w)
  BY <1>1, <1>6 DEF CheckShutdown, None
<1>7. CASE Connect(w)
  BY <1>1, <1>7 DEF Connect, NextAddress, Connected
<1>8. CASE SendWait(w)
  BY <1>1, <1>8 DEF SendWait
<1>9. CASE WaitEnds(w)
  BY <1>1, <1>9 DEF WaitEnds, NextAddress, Connected
<1>10. CASE Receive(w)
  <2>1. At(w, "recv") /\ UNCHANGED <<main, used>> BY <1>10 DEF Receive
  <2>2. (\E end \in BOOLEAN : Note(w, end)) \/ Go(w, "recv", "append")
    BY <1>10 DEF Receive, GiveUp
  <2>. QED BY <1>1, <2>1, <2>2 DEF Note
<1>11. CASE Pressure(w) \/ TimedOut(w)
  BY <1>1, <1>11 DEF Pressure, TimedOut
<1>12. CASE Reserve(w) \/ Store(w)
  BY <1>1, <1>12 DEF Reserve, Store
<1>13. CASE Notify(w) \/ SendNotify(w)
  <2>1. At(w, "notify") \/ At(w, "nsend") BY <1>13 DEF Notify, SendNotify
  <2>2. UNCHANGED <<main, used>> BY <1>13 DEF Notify, SendNotify
  <2>3. Continue(w) \/ Go(w, "notify", "nsend") BY <1>13 DEF Notify, SendNotify
  <2>4. CASE Continue(w)
    <3>1. PICK s \in WorkerState : work' = [work EXCEPT ![w] = s] /\ s.at \in {"lock", "recv"}
      BY <2>4, Continued DEF Inv
    <3>. QED BY <1>1, <2>1, <2>2, <3>1
  <2>5. CASE Go(w, "notify", "nsend") BY <1>1, <2>2, <2>5
  <2>. QED BY <2>3, <2>4, <2>5
<1>. QED BY <1>4, <1>5, <1>6, <1>7, <1>8, <1>9, <1>10, <1>11, <1>12, <1>13 DEF Download

(* No step of anybody frees the joined thread. *)
LEMMA StarvedStep == ASSUME Inv, Starved, [Next]_vars PROVE Starved'
<1>1. main = "join" /\ \E v \in Workers : ~At(v, "exit")
  BY DEF Starved, At
<1>2. CASE UNCHANGED vars
  BY <1>2 DEF vars, cacheVars, Starved, At
<1>3. CASE CreateFails \/ Request \/ Signal \/ Callback \/ Stopping
  BY <1>1, <1>3 DEF CreateFails, Request, Signal, Callback, StartWatchers, GiveBack, FinishWait, Running,
     Stopping, CreateWorker, CreateGc, CreateLoop, FailCast, FailJoin, Cancelled, Destroy, FreeLoop,
     RaiseFlag, Join, SetGcExit, SetGcReq, JoinGc, Release, Cancel, Main
<1>4. CASE Collect \/ GcSpurious
  BY <1>4 DEF Collect, GcTop, GcLock, GcTest, GcWait, GcCheck, GcSpurious, cacheVars, Starved, At
<1>5. ASSUME NEW w \in Workers, Download(w) \/ Lock(w) \/ SpuriousWakeup(w) PROVE Starved'
  BY <1>5, StarvedWorker
<1>. QED BY <1>2, <1>3, <1>4, <1>5 DEF Next

(* The hang that ShutdownEnds excepts is one: once main has joined a thread *)
(* that waits for space in a full cache, and no reserved space can come     *)
(* back, it never gets on (cache.c:398, downloader.c:687-696).              *)
THEOREM StarvedForEver == Spec => [](Starved => []Starved)
<1>1. Spec => [][Starved => Starved']_vars
  <2>1. Inv /\ [Next]_vars => [Starved => Starved']_vars
    BY StarvedStep
  <2>. QED BY <2>1, InvCorrect, PTL DEF Spec
<1>2. Starved /\ [Starved => Starved']_vars => Starved'
  BY DEF vars, cacheVars, Starved, At
<1>. QED BY <1>1, <1>2, PTL

(* The dirty queue and the cache outlive the threads that use them. *)
THEOREM Outlive == Spec => []ResourcesOutlive
BY InvCorrect, PTL DEF Inv
=============================================================================
