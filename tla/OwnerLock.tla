------------------------------ MODULE OwnerLock ------------------------------
(***************************************************************************)
(* The two locks of src/task2/task2_4 that record their owner:             *)
(*   "futex"  mutex/mutex.c: some tries, then sleeping in the kernel       *)
(*   "spin"   spinlock/spinlock.c: tries without end                       *)
(* under the load of worker_increment in their test.c: threads that lock,  *)
(* increment a shared counter and unlock.  A thread may also unlock        *)
(* without holding the lock, as test_error_handling does.                  *)
(*                                                                         *)
(* One action per atomic access.  The relaxed loads and stores of owner    *)
(* are modelled in program order: the only question asked of owner is "is  *)
(* it me?", and per-location coherence answers that question for the       *)
(* asking thread as sequential consistency does.                           *)
(***************************************************************************)
EXTENDS Integers

CONSTANTS Threads,
          NoThread,      \* the pid stored in owner by init: 0, or -1 in the spin lock
          NumTryLock,    \* NUM_TRY_LOCK, 32 in the code
          MaxCalls       \* bound: calls of lock per thread

ASSUME NoThreadAssumption == NoThread \notin Threads
ASSUME NumTryAssumption   == NumTryLock \in Nat \ {0}
ASSUME MaxCallsAssumption == MaxCalls \in Nat

VARIABLES kind,     \* which of the two
          lock,     \* the lock word: TRUE is LOCKED
          owner,    \* the owner field
          pc,       \* what each thread is about to do
          tries,    \* the loop counter i of mutex_lock
          calls,    \* calls of lock started by each thread
          counter,  \* g_counter of test.c
          seen,     \* the value of g_counter a thread has read for g_counter++
          failed    \* history: has a futex call failed, EAGAIN and EINTR apart?

vars == <<kind, lock, owner, pc, tries, calls, counter, seen, failed>>

Steps == {"idle", "try", "slow", "wait", "asleep", "own", "read", "write",
          "check", "recheck", "clear", "release", "wake"}

Init == /\ kind \in {"futex", "spin"}
        /\ lock = FALSE
        /\ owner = NoThread
        /\ pc = [t \in Threads |-> "idle"]
        /\ tries = [t \in Threads |-> 0]
        /\ calls = [t \in Threads |-> 0]
        /\ counter = 0
        /\ seen = [t \in Threads |-> 0]
        /\ failed = FALSE

Futex == kind = "futex"
Spin == kind = "spin"

Goto(t, from, to) == pc[t] = from /\ pc' = [pc EXCEPT ![t] = to]
-----------------------------------------------------------------------------
(* mutex_lock and spinlock_lock *)

CallLock(t) == /\ Goto(t, "idle", "try")
               /\ calls[t] < MaxCalls
               /\ calls' = [calls EXCEPT ![t] = @ + 1]
               /\ tries' = [tries EXCEPT ![t] = 0]
               /\ UNCHANGED <<kind, lock, owner, counter, seen, failed>>

(* Seeded fault: the lock is taken without looking at it. *)
SwapBlindly(t) == /\ lock' = TRUE
                  /\ \/ Goto(t, "try", "own")
                     \/ Goto(t, "slow", "own")
                  /\ UNCHANGED <<kind, owner, tries, calls, counter, seen, failed>>

(* mutex_lock: a compare-and-swap that finds the lock free, in either loop. *)
Swap(t) == /\ Futex
           /\ ~lock
           /\ lock' = TRUE
           /\ \/ Goto(t, "try", "own")
              \/ Goto(t, "slow", "own")
           /\ UNCHANGED <<kind, owner, tries, calls, counter, seen, failed>>

(* spinlock_lock: the winning compare-and-swap; a losing one changes nothing. *)
SpinSwap(t) == /\ Spin
               /\ ~lock
               /\ lock' = TRUE
               /\ Goto(t, "try", "own")
               /\ UNCHANGED <<kind, owner, tries, calls, counter, seen, failed>>

(* Seeded fault: one turn too many, i <= NUM_TRY_LOCK. *)
TryOnceMore(t) == /\ Futex
                  /\ lock
                  /\ Goto(t, "try", IF tries[t] < NumTryLock THEN "try" ELSE "slow")
                  /\ tries' = [tries EXCEPT ![t] = @ + 1]
                  /\ UNCHANGED <<kind, lock, owner, calls, counter, seen, failed>>

(* A failed compare-and-swap of the bounded loop. *)
TryAgain(t) == /\ Futex
               /\ lock
               /\ Goto(t, "try", IF tries[t] + 1 < NumTryLock THEN "try" ELSE "slow")
               /\ tries' = [tries EXCEPT ![t] = @ + 1]
               /\ UNCHANGED <<kind, lock, owner, calls, counter, seen, failed>>

(* A failed compare-and-swap of the endless loop: on to futex_wait. *)
SlowFails(t) == /\ lock
                /\ Goto(t, "slow", "wait")
                /\ UNCHANGED <<kind, lock, owner, tries, calls, counter, seen, failed>>

(* Seeded fault: sleep without comparing the lock word. *)
SleepBlindly(t) == /\ Goto(t, "wait", "asleep")
                   /\ UNCHANGED <<kind, lock, owner, tries, calls, counter, seen, failed>>

(* futex_wait compares and sleeps atomically; a changed word is EAGAIN. *)
FutexWait(t) == /\ Goto(t, "wait", IF lock THEN "asleep" ELSE "slow")
                /\ UNCHANGED <<kind, lock, owner, tries, calls, counter, seen, failed>>

(* A signal or a spurious wake-up: EINTR. *)
Interrupted(t) == /\ Goto(t, "asleep", "slow")
                  /\ UNCHANGED <<kind, lock, owner, tries, calls, counter, seen, failed>>

(* futex_wait fails otherwise: mutex_lock returns 1 without the mutex. *)
FutexFails(t) == /\ Goto(t, "wait", "idle")
                 /\ failed' = TRUE
                 /\ UNCHANGED <<kind, lock, owner, tries, calls, counter, seen>>

StoreOwner(t) == /\ Goto(t, "own", "read")
                 /\ owner' = t
                 /\ UNCHANGED <<kind, lock, tries, calls, counter, seen, failed>>
-----------------------------------------------------------------------------
(* g_counter++ of worker_increment *)

ReadCounter(t) == /\ Goto(t, "read", "write")
                  /\ seen' = [seen EXCEPT ![t] = counter]
                  /\ UNCHANGED <<kind, lock, owner, tries, calls, counter, failed>>

WriteCounter(t) == /\ Goto(t, "write", "check")
                   /\ counter' = seen[t] + 1
                   /\ UNCHANGED <<kind, lock, owner, tries, calls, seen, failed>>
-----------------------------------------------------------------------------
(* mutex_unlock and spinlock_unlock *)

(* An unlock by a thread that does not hold the lock. *)
StrayUnlock(t) == /\ Goto(t, "idle", "check")
                  /\ UNCHANGED <<kind, lock, owner, tries, calls, counter, seen, failed>>

(* Seeded fault: anybody may unlock. *)
TrustCaller(t) == /\ Goto(t, "check", "clear")
                  /\ UNCHANGED <<kind, lock, owner, tries, calls, counter, seen, failed>>

CheckOwner(t) == /\ Goto(t, "check", IF owner # t THEN "idle" ELSE IF Spin THEN "recheck" ELSE "clear")
                 /\ UNCHANGED <<kind, lock, owner, tries, calls, counter, seen, failed>>

(* spinlock_unlock also wants the lock word to be LOCKED. *)
CheckLocked(t) == /\ Goto(t, "recheck", IF lock THEN "clear" ELSE "idle")
                  /\ UNCHANGED <<kind, lock, owner, tries, calls, counter, seen, failed>>

(* Seeded fault: the two stores of unlock in the other order. *)
ReleaseBeforeClear(t) == /\ Goto(t, "clear", "release")
                         /\ lock' = FALSE
                         /\ UNCHANGED <<kind, owner, tries, calls, counter, seen, failed>>

ClearOwner(t) == /\ Goto(t, "clear", "release")
                 /\ owner' = NoThread
                 /\ UNCHANGED <<kind, lock, tries, calls, counter, seen, failed>>

StoreUnlocked(t) == /\ Futex
                    /\ Goto(t, "release", "wake")
                    /\ lock' = FALSE
                    /\ UNCHANGED <<kind, owner, tries, calls, counter, seen, failed>>

SpinRelease(t) == /\ Spin
                  /\ Goto(t, "release", "idle")
                  /\ lock' = FALSE
                  /\ UNCHANGED <<kind, owner, tries, calls, counter, seen, failed>>

(* Seeded fault: mutex_unlock wakes nobody. *)
NoWake(t) == /\ Goto(t, "wake", "idle")
             /\ UNCHANGED <<kind, lock, owner, tries, calls, counter, seen, failed>>

(* futex_wake(1) resumes one sleeper, if there is one, or fails. *)
FutexWake(t) == /\ pc[t] = "wake"
                /\ \/ /\ \A u \in Threads : pc[u] # "asleep"
                      /\ pc' = [pc EXCEPT ![t] = "idle"]
                      /\ UNCHANGED failed
                   \/ \E u \in Threads :
                         /\ pc[u] = "asleep"
                         /\ pc' = [pc EXCEPT ![t] = "idle", ![u] = "slow"]
                         /\ UNCHANGED failed
                   \/ /\ pc' = [pc EXCEPT ![t] = "idle"]
                      /\ failed' = TRUE
                /\ UNCHANGED <<kind, lock, owner, tries, calls, counter, seen>>
-----------------------------------------------------------------------------
(* What a thread does on its own, once it has called. *)
Work(t) == \/ Swap(t) \/ SpinSwap(t) \/ TryAgain(t) \/ SlowFails(t) \/ FutexWait(t)
           \/ StoreOwner(t) \/ ReadCounter(t) \/ WriteCounter(t)
           \/ CheckOwner(t) \/ CheckLocked(t) \/ ClearOwner(t)
           \/ StoreUnlocked(t) \/ SpinRelease(t) \/ FutexWake(t)

Step(t) == Work(t) \/ CallLock(t) \/ StrayUnlock(t) \/ Interrupted(t) \/ FutexFails(t)

Next == \E t \in Threads : Step(t)

Spec == Init /\ [][Next]_vars

(* The scheduler runs every runnable thread; nobody has to call lock. *)
FairSpec == Spec /\ \A t \in Threads : WF_vars(Work(t))
-----------------------------------------------------------------------------
(* Properties *)

TypeOK == /\ kind \in {"futex", "spin"}
          /\ lock \in BOOLEAN
          /\ owner \in Threads \cup {NoThread}
          /\ pc \in [Threads -> Steps]
          /\ tries \in [Threads -> 0..NumTryLock]
          /\ \A t \in Threads : pc[t] = "try" => tries[t] < NumTryLock
          /\ calls \in [Threads -> 0..MaxCalls]
          /\ counter \in Nat
          /\ seen \in [Threads -> Nat]
          /\ failed \in BOOLEAN

(* From the winning compare-and-swap to the store of UNLOCKED; a stray *)
(* unlock passes through "check" too, but does not own the lock.       *)
Holds(t) == \/ pc[t] \in {"own", "read", "write", "recheck", "clear", "release"}
            \/ pc[t] = "check" /\ owner = t

(* No two threads are between a successful lock and the release in        *)
(* unlock, stray unlock calls included; the lock word says LOCKED exactly *)
(* while somebody is (mutex.c:35-48, 62-67; spinlock.c:23-27, 35-40).     *)
MutualExclusion == /\ \A t, u \in Threads : Holds(t) /\ Holds(u) => t = u
                   /\ lock <=> \E t \in Threads : Holds(t)

(* An increment in the critical section works on the value it read: the   *)
(* counter comparisons of mutex/test.c:53 and spinlock/test.c:51 cannot   *)
(* fail by a lost update.                                                 *)
NoLostUpdate == \A t \in Threads : pc[t] = "write" => seen[t] = counter

(* No lost wake-up: while the lock is free and a thread sleeps in         *)
(* futex_wait, an unlock is about to wake it or another thread is awake   *)
(* and on its way to the compare-and-swap (mutex.c:43-53, 67-69).         *)
Coming(t) == pc[t] \in {"wake", "try", "slow", "wait"}

NoLostWakeup == /\ ~failed
                /\ ~lock
                /\ \E t \in Threads : pc[t] = "asleep"
                => \E t \in Threads : Coming(t)

(* Every call of lock returns, as long as the futex calls work: with      *)
(* finitely many calls (both test.c join their threads) no thread is left *)
(* spinning or asleep.                                                    *)
AllReturn == <>[](failed \/ \A t \in Threads : pc[t] \in {"idle", "check"})

(* Both locks implement the abstract lock: only its holder gives it back. *)
holder == IF lock THEN CHOOSE t \in Threads : Holds(t) ELSE NoThread

Abstract == INSTANCE AbstractLock
ImplementsLock == Abstract!Spec
=============================================================================
