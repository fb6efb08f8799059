------------------------------- MODULE UThread -------------------------------
(***************************************************************************)
(* The cooperative scheduler of src/task1/task1_7/src/uthread.c.  All its  *)
(* variables are __thread, so every kernel thread has a scheduler of its   *)
(* own: a record u, and an operation of uthread.c is the record it leaves. *)
(*                                                                         *)
(* current = Nil is current_thread == -1: the kernel thread is outside of  *)
(* uthread_run, where scheduler_running is 0 and uthread_yield returns at  *)
(* once.  Times are abstracted to the set of sleepers that are due when    *)
(* the clock is read.  The getcontext of uthread_run is taken to succeed.  *)
(***************************************************************************)
EXTENDS Integers, SequencesExt

CONSTANTS MaxThreads,   \* MAX_THREADS, 64 in the code
          Nil           \* NULL, or no thread

Ids == 0 .. MaxThreads - 1

ASSUME MaxThreadsAssumption == MaxThreads \in Nat \ {0} /\ Nil \notin Ids

(* A slot of threads[].  joins is where the routine is: in uthread_join of *)
(* that thread; child is the thread it has created.  passed is a history   *)
(* variable: the threads that got a turn while this one has been READY.    *)
Blank == [state |-> "NEW", joined |-> FALSE, routine |-> Nil, retval |-> Nil,
          joins |-> Nil, child |-> Nil, spawned |-> FALSE, passed |-> {}]

(* hurt and unfair are history variables: has a failing uthread_create     *)
(* taken back a count it had not added, and did a thread get two turns     *)
(* while another one was READY?                                            *)
Fresh == [thread |-> [i \in Ids |-> Blank], count |-> 0, free |-> <<>>,
          current |-> Nil, waiting |-> FALSE, hurt |-> FALSE, unfair |-> FALSE]

InState(u, state) == {i \in 0 .. u.count - 1 : u.thread[i].state = state}
-----------------------------------------------------------------------------
(* uthread_create *)

HasRoom(u) == u.free # <<>> \/ u.count < MaxThreads
NextId(u) == IF u.free # <<>> THEN Last(u.free) ELSE u.count

(* Seeded fault: the id stays in free_ids. *)
CreateKeepingId(u, routine) ==
  [u EXCEPT !.thread[NextId(u)] = [Blank EXCEPT !.state = "READY", !.routine = routine],
            !.count = IF u.free = <<>> THEN @ + 1 ELSE @]

Create(u, routine) ==
  [u EXCEPT !.thread[NextId(u)] = [Blank EXCEPT !.state = "READY", !.routine = routine],
            !.free  = IF @ # <<>> THEN Front(@) ELSE @,
            !.count = IF u.free = <<>> THEN @ + 1 ELSE @]

(* No stack or no context: thread_count-- also when the id was recycled. *)
CreateFails(u) ==
  [u EXCEPT !.thread[NextId(u)] = Blank,
            !.free  = IF @ # <<>> THEN Front(@) ELSE @,
            !.count = IF u.free # <<>> THEN @ - 1 ELSE @,
            !.hurt  = @ \/ u.free # <<>>]
-----------------------------------------------------------------------------
(* uthread_run and uthread_yield *)

(* Thread i gets the processor; next was READY, or RUNNING somewhere else.  *)
(* A thread that was asleep and chooses itself stays READY while it runs.   *)
Dispatch(u, i) ==
  LET old == u.current
      After(j, t) == CASE j = i /\ j # old -> [t EXCEPT !.state = "RUNNING", !.passed = {}]
                       [] j = i /\ j = old -> [t EXCEPT !.passed = {}]
                       [] j # i /\ j = old /\ t.state = "RUNNING" -> [t EXCEPT !.state = "READY", !.passed = {i}]
                       [] j # i /\ t.state = "READY" -> [t EXCEPT !.passed = @ \cup {i}]
                       [] OTHER -> t
  IN [u EXCEPT !.thread  = [j \in Ids |-> After(j, u.thread[j])],
               !.current = i,
               !.waiting = FALSE,
               !.unfair  = @ \/ \E j \in InState(u, "READY") \ {i} : i \in u.thread[j].passed]

Lowest(S) == CHOOSE i \in S : \A j \in S : i <= j

Run(u) == LET ready == InState(u, "READY") IN IF ready = {} THEN u ELSE Dispatch(u, Lowest(ready))

(* Seeded fault: the search starts with the first thread. *)
NextFromStart(u, candidates) == Lowest(candidates)

(* The first candidate behind the current thread, which itself comes last. *)
NextReady(u, candidates) ==
  LET Distance(i) == (i - u.current - 1) % u.count
  IN CHOOSE i \in candidates : \A j \in candidates : Distance(i) <= Distance(j)

Wake(u, due) == [u EXCEPT !.thread = [i \in Ids |-> IF i \in due THEN [u.thread[i] EXCEPT !.state = "READY"]
                                                   ELSE u.thread[i]]]

Candidates(u) == InState(u, "READY") \cup (InState(u, "RUNNING") \ {u.current})

(* Seeded fault: the sleepers are forgotten when nobody is READY. *)
YieldForgetting(u, due) ==
  LET v == Wake(u, due)
  IN IF Candidates(v) # {} THEN Dispatch(v, NextReady(v, Candidates(v)))
     ELSE IF v.thread[v.current].state = "FINISHED" THEN Run([v EXCEPT !.current = Nil])
     ELSE v

(* With nobody to run, the caller waits for a sleeper; with no sleepers    *)
(* either it goes on, or back to uthread_run when it has finished.         *)
Yield(u, due) ==
  LET v == Wake(u, due)
  IN IF Candidates(v) # {} THEN Dispatch(v, NextReady(v, Candidates(v)))
     ELSE IF InState(v, "SLEEPING") # {} THEN [v EXCEPT !.waiting = TRUE]
     ELSE IF v.thread[v.current].state = "FINISHED" THEN Run([v EXCEPT !.current = Nil])
     ELSE v

(* uthread_wait_for_wakeup has found a sleeper that is due. *)
WakeUp(u, i) == LET v == Wake(u, {i}) IN Dispatch(v, NextReady(v, Candidates(v)))

Sleep(u, due) == Yield([u EXCEPT !.thread[u.current].state = "SLEEPING"], due)

(* thread_wrapper after the routine, whose result the model calls by the routine's name *)
Finish(u, due) ==
  Yield([u EXCEPT !.thread[u.current].state = "FINISHED",
                  !.thread[u.current].retval = u.thread[u.current].routine], due)
-----------------------------------------------------------------------------
(* uthread_join: the checks, the mark, and the end; in between it yields. *)

CanJoin(u, i) == i \in 0 .. u.count - 1 /\ ~u.thread[i].joined

MarkJoined(u, i) == [u EXCEPT !.thread[i].joined = TRUE]

Ended(u, i) == u.thread[i].state = "FINISHED"

Reclaim(u, i) == [u EXCEPT !.free = Append(@, i)]
-----------------------------------------------------------------------------
(* The type of a scheduler, with at most MaxThreads ids to hand out again *)
States == {"NEW", "READY", "RUNNING", "SLEEPING", "FINISHED"}

Scheduler(Routines) ==
  [thread : [Ids -> [state : States, joined : BOOLEAN, routine : Routines \cup {Nil}, retval : Routines \cup {Nil},
                     joins : Ids \cup {Nil}, child : Ids \cup {Nil}, spawned : BOOLEAN, passed : SUBSET Ids]],
   count : 0 .. MaxThreads, free : BoundedSeq(Ids, MaxThreads), current : Ids \cup {Nil},
   waiting : BOOLEAN, hurt : BOOLEAN, unfair : BOOLEAN]
=============================================================================
