-------------------------- MODULE OwnerLock_proof ---------------------------
(***************************************************************************)
(* OwnerLock, in both its kinds, for any number of threads, any            *)
(* NUM_TRY_LOCK and any number of calls: mutual exclusion, no lost update, no lost wake-up, and the    *)
(* refinement of AbstractLock.                                             *)
(***************************************************************************)
EXTENDS OwnerLock, TLAPS

(* The owner field follows the holder, one store behind. *)
OwnerFollows == \A t \in Threads :
                   /\ pc[t] \in {"read", "write", "recheck", "clear"} => owner = t
                   /\ owner = t => pc[t] \in {"read", "write", "check", "recheck", "clear"}

(* Nobody sleeps on a spin lock, so nobody has to be woken. *)
SpinAwake == Spin => \A t \in Threads : pc[t] \notin {"slow", "wait", "asleep", "wake"}

Inv == TypeOK /\ OwnerFollows /\ SpinAwake /\ MutualExclusion /\ NoLostUpdate /\ NoLostWakeup

LEMMA InitInv == Init => Inv
<1> SUFFICES ASSUME Init PROVE Inv
  OBVIOUS
<1> USE DEF Init
<1>1. TypeOK
  <2>1. kind \in {"futex", "spin"} /\ lock \in BOOLEAN /\ owner \in Threads \cup {NoThread}
    OBVIOUS
  <2>2. pc \in [Threads -> Steps]
    BY DEF Steps
  <2>3. tries \in [Threads -> 0..NumTryLock] /\ calls \in [Threads -> 0..MaxCalls]
    BY NumTryAssumption, MaxCallsAssumption
  <2>4. counter \in Nat /\ seen \in [Threads -> Nat]
    OBVIOUS
  <2>5. \A t \in Threads : pc[t] = "try" => tries[t] < NumTryLock
    OBVIOUS
  <2>. QED BY <2>1, <2>2, <2>3, <2>4, <2>5 DEF TypeOK
<1>2. OwnerFollows
  BY NoThreadAssumption DEF OwnerFollows
<1>3. \A t \in Threads : pc[t] = "idle"
  OBVIOUS
<1>4. MutualExclusion
  BY <1>3 DEF MutualExclusion, Holds
<1>5. NoLostUpdate /\ NoLostWakeup /\ SpinAwake
  BY <1>3 DEF NoLostUpdate, NoLostWakeup, SpinAwake
<1>. QED
  BY <1>1, <1>2, <1>4, <1>5 DEF Inv

(* Every action keeps the variables in their types. *)
LEMMA TypeStep == ASSUME TypeOK, [Next]_vars PROVE TypeOK'
<1> USE NumTryAssumption, MaxCallsAssumption, NoThreadAssumption DEF TypeOK, Steps, Goto
<1>1. CASE UNCHANGED vars
  BY <1>1 DEF vars
<1>2. ASSUME NEW t \in Threads, Step(t) PROVE TypeOK'
  <2>1. CASE CallLock(t) BY <2>1 DEF CallLock
  <2>2. CASE Swap(t) BY <2>2 DEF Swap
  <2>3. CASE TryAgain(t) BY <2>3 DEF TryAgain
  <2>4. CASE SlowFails(t) BY <2>4 DEF SlowFails
  <2>5. CASE FutexWait(t) BY <2>5 DEF FutexWait
  <2>6. CASE Interrupted(t) BY <2>6 DEF Interrupted
  <2>7. CASE FutexFails(t) BY <2>7 DEF FutexFails
  <2>8. CASE StoreOwner(t) BY <2>8 DEF StoreOwner
  <2>9. CASE ReadCounter(t) BY <2>9 DEF ReadCounter
  <2>10. CASE WriteCounter(t) BY <2>10 DEF WriteCounter
  <2>11. CASE StrayUnlock(t) BY <2>11 DEF StrayUnlock
  <2>12. CASE CheckOwner(t) BY <2>12 DEF CheckOwner
  <2>13. CASE ClearOwner(t) BY <2>13 DEF ClearOwner
  <2>14. CASE StoreUnlocked(t) BY <2>14 DEF StoreUnlocked
  <2>15. CASE FutexWake(t) BY <2>15 DEF FutexWake
  <2>16. CASE SpinSwap(t) BY <2>16 DEF SpinSwap
  <2>17. CASE CheckLocked(t) BY <2>17 DEF CheckLocked
  <2>18. CASE SpinRelease(t) BY <2>18 DEF SpinRelease
  <2>. QED BY <1>2, <2>1, <2>2, <2>3, <2>4, <2>5, <2>6, <2>7, <2>8, <2>9, <2>10, <2>11,
              <2>12, <2>13, <2>14, <2>15, <2>16, <2>17, <2>18 DEF Step, Work
<1>. QED BY <1>1, <1>2 DEF Next

(* Every action keeps the invariant: TypeStep gives the types, and each   *)
(* case argues about the conjuncts that its action disturbs.              *)
LEMMA InvStep == ASSUME Inv, [Next]_vars PROVE Inv'
<1>1. TypeOK /\ TypeOK'
  BY TypeStep DEF Inv
<1> USE <1>1, NoThreadAssumption
        DEF Inv, OwnerFollows, SpinAwake, Spin, Futex, MutualExclusion, Holds, NoLostUpdate, NoLostWakeup,
            Coming, TypeOK, Steps, Goto
<1>2. CASE UNCHANGED vars
  BY <1>2 DEF vars
<1>3. ASSUME NEW t \in Threads, Step(t) PROVE Inv'
  <2>1. CASE CallLock(t) BY <2>1 DEF CallLock
  <2>2. CASE Swap(t) BY <2>2 DEF Swap
  <2>3. CASE TryAgain(t) BY <2>3 DEF TryAgain
  <2>4. CASE SlowFails(t) BY <2>4 DEF SlowFails
  <2>5. CASE FutexWait(t) BY <2>5 DEF FutexWait
  <2>6. CASE Interrupted(t) BY <2>6 DEF Interrupted
  <2>7. CASE FutexFails(t) BY <2>7 DEF FutexFails
  <2>8. CASE StoreOwner(t) BY <2>8 DEF StoreOwner
  <2>9. CASE ReadCounter(t) BY <2>9 DEF ReadCounter
  <2>10. CASE WriteCounter(t) BY <2>10 DEF WriteCounter
  <2>11. CASE StrayUnlock(t) BY <2>11 DEF StrayUnlock
  <2>12. CASE CheckOwner(t) BY <2>12 DEF CheckOwner
  <2>13. CASE ClearOwner(t) BY <2>13 DEF ClearOwner
  <2>14. CASE StoreUnlocked(t) BY <2>14 DEF StoreUnlocked
  <2>15. CASE FutexWake(t) BY <2>15 DEF FutexWake
  <2>16. CASE SpinSwap(t) BY <2>16 DEF SpinSwap
  <2>17. CASE CheckLocked(t) BY <2>17 DEF CheckLocked
  <2>18. CASE SpinRelease(t) BY <2>18 DEF SpinRelease
  <2>. QED BY <1>3, <2>1, <2>2, <2>3, <2>4, <2>5, <2>6, <2>7, <2>8, <2>9, <2>10, <2>11,
              <2>12, <2>13, <2>14, <2>15, <2>16, <2>17, <2>18 DEF Step, Work
<1>. QED BY <1>2, <1>3 DEF Next

(* The inductive invariant holds throughout. *)
THEOREM InvCorrect == Spec => []Inv
BY InitInv, InvStep, PTL DEF Spec

(* Every variable keeps its type, and mutex_lock stays within its tries. *)
THEOREM TypeCorrect == Spec => []TypeOK
BY InvCorrect, PTL DEF Inv

(* Mutual exclusion of both locks for every number of threads, with stray unlock calls *)
(* and failing futex calls allowed.                                       *)
THEOREM Exclusion == Spec => []MutualExclusion
BY InvCorrect, PTL DEF Inv

(* No increment of the shared counter is lost. *)
THEOREM Updates == Spec => []NoLostUpdate
BY InvCorrect, PTL DEF Inv

(* No wake-up is lost, as long as the futex calls fail only with EAGAIN   *)
(* and EINTR.                                                             *)
THEOREM Wakeups == Spec => []NoLostWakeup
BY InvCorrect, PTL DEF Inv
-----------------------------------------------------------------------------
(* The holder of the abstract lock is the one thread that Holds. *)
LEMMA HolderIs == ASSUME Inv, NEW t \in Threads, Holds(t) PROVE lock /\ holder = t
BY DEF Inv, MutualExclusion, holder

(* A step of the lock is a step of the abstract lock, or none. *)
LEMMA RefinesStep == ASSUME Inv, Inv', [Next]_vars PROVE [Abstract!Next]_holder
<1> USE NoThreadAssumption DEF Inv, MutualExclusion, TypeOK
<1>1. ASSUME \A t \in Threads : Holds(t)' <=> Holds(t), lock' = lock PROVE holder' = holder
  <2>1. CASE lock
    <3>1. PICK t \in Threads : Holds(t) BY <2>1
    <3>2. Holds(t)' BY <3>1, <1>1
    <3>. QED BY <2>1, <3>1, <3>2, <1>1 DEF holder
  <2>2. CASE ~lock BY <2>2, <1>1 DEF holder
  <2>. QED BY <2>1, <2>2
<1>2. CASE UNCHANGED vars
  BY <1>2, <1>1 DEF vars, Holds
<1>3. ASSUME NEW t \in Threads, Swap(t) \/ SpinSwap(t) PROVE Abstract!Acquire(t)
  <2>1. holder = NoThread BY <1>3 DEF Swap, SpinSwap, holder
  <2>2. Holds(t)' BY <1>3 DEF Swap, SpinSwap, Goto, Holds
  <2>3. holder' = t BY <2>2 DEF holder
  <2>. QED BY <2>1, <2>3 DEF Abstract!Acquire
<1>4. ASSUME NEW t \in Threads, StoreUnlocked(t) \/ SpinRelease(t) PROVE Abstract!Release(t)
  <2>1. Holds(t) BY <1>4 DEF StoreUnlocked, SpinRelease, Goto, Holds
  <2>2. holder = t BY <2>1, HolderIs
  <2>3. holder' = NoThread BY <1>4 DEF StoreUnlocked, SpinRelease, holder
  <2>. QED BY <2>2, <2>3 DEF Abstract!Release
<1>5. ASSUME NEW t \in Threads, Step(t), ~Swap(t), ~SpinSwap(t), ~StoreUnlocked(t), ~SpinRelease(t)
      PROVE holder' = holder
  <2>1. lock' = lock
    BY <1>5 DEF Step, Work, CallLock, TryAgain, SlowFails, FutexWait, Interrupted, FutexFails,
       StoreOwner, ReadCounter, WriteCounter, StrayUnlock, CheckOwner, CheckLocked, ClearOwner, FutexWake
  <2>2. ASSUME NEW u \in Threads PROVE Holds(u)' <=> Holds(u)
    <3> USE <1>5 DEF Holds, Goto, Steps, OwnerFollows
    <3>1. CASE CallLock(t) BY <3>1 DEF CallLock
    <3>2. CASE TryAgain(t) BY <3>2 DEF TryAgain
    <3>3. CASE SlowFails(t) BY <3>3 DEF SlowFails
    <3>4. CASE FutexWait(t) BY <3>4 DEF FutexWait
    <3>5. CASE Interrupted(t) BY <3>5 DEF Interrupted
    <3>6. CASE FutexFails(t) BY <3>6 DEF FutexFails
    <3>7. CASE StoreOwner(t) BY <3>7 DEF StoreOwner
    <3>8. CASE ReadCounter(t) BY <3>8 DEF ReadCounter
    <3>9. CASE WriteCounter(t) BY <3>9 DEF WriteCounter
    <3>10. CASE StrayUnlock(t) BY <3>10 DEF StrayUnlock
    <3>11. CASE CheckOwner(t) BY <3>11 DEF CheckOwner
    <3>12. CASE ClearOwner(t) BY <3>12 DEF ClearOwner
    <3>13. CASE FutexWake(t) BY <3>13 DEF FutexWake
    <3>14. CASE CheckLocked(t) BY <3>14 DEF CheckLocked
    <3>. QED BY <1>5, <3>1, <3>2, <3>3, <3>4, <3>5, <3>6, <3>7, <3>8, <3>9, <3>10, <3>11,
                <3>12, <3>13, <3>14 DEF Step, Work
  <2>. QED BY <1>1, <2>1, <2>2
<1>. QED BY <1>2, <1>3, <1>4, <1>5 DEF Next, Abstract!Next

(* Both locks implement the abstract lock. *)
THEOREM Refinement == Spec => ImplementsLock
<1>1. Init => Abstract!Init
  BY DEF Init, Abstract!Init, holder
<1>. QED
  BY <1>1, InvCorrect, RefinesStep, PTL DEF Spec, ImplementsLock, Abstract!Spec
=============================================================================
