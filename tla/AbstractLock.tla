---------------------------- MODULE AbstractLock ----------------------------
(***************************************************************************)
(* What a lock of task2_4 promises to its users: at any time at most one   *)
(* thread holds it, only a free lock is taken, and only the holder gives   *)
(* it back.  OwnerLock implements this specification.                      *)
(***************************************************************************)
CONSTANTS Threads,   \* the threads that call lock and unlock
          NoThread   \* "nobody"

VARIABLE holder

Init == holder = NoThread

Acquire(t) == holder = NoThread /\ holder' = t

Release(t) == holder = t /\ holder' = NoThread

Next == \E t \in Threads : Acquire(t) \/ Release(t)

Spec == Init /\ [][Next]_holder
=============================================================================
