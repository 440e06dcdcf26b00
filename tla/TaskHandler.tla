---------------------------- MODULE TaskHandler ----------------------------
(***************************************************************************)
(* AnyioTaskHandler: the background tasks of a process                     *)
(* (pkg/concurrency/manager.py).  A table of tasks by identifier, a task   *)
(* group that a shutdown waits for, slots for the tasks that execute, and  *)
(* capacity for the threads that they call.                                *)
(*                                                                         *)
(* Everything but the threads runs in one event loop, so the code between  *)
(* two awaits is one action; the lock of the handler is held across none   *)
(* of its own and needs no variable.  A thread synchronizes with its       *)
(* waiter by a lock of its own (state_lock) and by calls into the loop.    *)
(***************************************************************************)
EXTENDS Naturals, FiniteSets

CONSTANTS
  Task,        \* submissions of background coroutines, each with one thread to call
  Id,          \* identifiers of tasks
  IdOf,        \* the identifier each submission uses
  Abandonable, \* the tasks whose thread call is cancellable or has a timeout
  GlobalMax,   \* the tokens of _global_limiter
  ThreadMax,   \* the tokens of _thread_limiter
  MaxQueue,    \* max_queue
  None         \* no value

ASSUME TaskAssumption ==
  /\ IdOf \in [Task -> Id] /\ Abandonable \subseteq Task /\ None \notin Task
ASSUME LimitAssumption == {GlobalMax, ThreadMax, MaxQueue} \subseteq Nat

VARIABLES
  phase,     \* what the handler does: it is stopped, accepts tasks, or shuts down
  table,     \* the tasks by identifier
  cancelled, \* the tasks whose scope is cancelled
  pc,        \* where each submission is
  borrowers, \* who holds thread capacity
  thread,    \* the work function of each task
  barred     \* the work functions that must not start any more (cancelled_before_start)

vars    == <<phase, table, cancelled, pc, borrowers, thread, barred>>
tasks   == <<phase, table, cancelled>>
threads == <<borrowers, thread, barred>>

-----------------------------------------------------------------------------
(* Types *)

\* A coroutine executes, or waits for capacity, or for its thread.
Executing == {"executing", "acquiring", "awaiting"}
Active    == Executing \cup {"queued", "leaving"}
Place     == Active \cup {"new", "adding", "refused", "gone"}

Init ==
  /\ phase = "stopped" /\ table = [i \in Id |-> None] /\ cancelled = {}
  /\ pc = [t \in Task |-> "new"]
  /\ borrowers = {} /\ thread = [t \in Task |-> "none"] /\ barred = {}

Goto(t, place) == pc' = [pc EXCEPT ![t] = place]

Listed    == {i \in Id : table[i] # None}
Occupants == {t \in Task : pc[t] \in Executing}

-----------------------------------------------------------------------------
(* The handler *)

Start ==
  /\ phase = "stopped"
  /\ phase' = "open"
  /\ UNCHANGED <<table, cancelled, pc, threads>>

Shutdown_OnlyStopsAccepting ==
  /\ phase = "open"
  /\ phase' = "closing"
  /\ UNCHANGED <<table, cancelled, pc, threads>>

\* No task is accepted any more, and every task in the table is cancelled.
Shutdown ==
  /\ phase = "open"
  /\ phase' = "closing"
  /\ cancelled' = cancelled \cup {table[i] : i \in Listed}
  /\ UNCHANGED <<table, pc, threads>>

\* The task group has waited for its tasks.
Stop ==
  /\ phase = "closing"
  /\ \A t \in Task : pc[t] \notin Active
  /\ phase' = "stopped"
  /\ UNCHANGED <<table, cancelled, pc, threads>>

CancelTask(i) ==
  /\ i \in Listed
  /\ cancelled' = cancelled \cup {table[i]}
  /\ UNCHANGED <<phase, table, pc, threads>>

\* add_task, up to its wait for the lock.
Submit(t) ==
  /\ pc[t] = "new"
  /\ Goto(t, IF phase = "open" THEN "adding" ELSE "refused")
  /\ UNCHANGED <<tasks, threads>>

AddTask_NoRecheck(t) ==
  /\ pc[t] = "adding"
  /\ IF Cardinality(Listed) < MaxQueue /\ table[IdOf[t]] = None
       THEN table' = [table EXCEPT ![IdOf[t]] = t] /\ Goto(t, "queued")
       ELSE UNCHANGED table /\ Goto(t, "refused")
  /\ UNCHANGED <<phase, cancelled, threads>>

\* The rest of it, under the lock.
AddTask(t) ==
  /\ pc[t] = "adding"
  /\ IF phase = "open" /\ Cardinality(Listed) < MaxQueue /\ table[IdOf[t]] = None
       THEN table' = [table EXCEPT ![IdOf[t]] = t] /\ Goto(t, "queued")
       ELSE UNCHANGED table /\ Goto(t, "refused")
  /\ UNCHANGED <<phase, cancelled, threads>>

\* The caller is cancelled while it waits for the lock.
AddCancelled(t) ==
  /\ pc[t] = "adding"
  /\ Goto(t, "refused")
  /\ UNCHANGED <<tasks, threads>>

-----------------------------------------------------------------------------
(* A task: _run_task_inner *)

\* A cancelled task that has just been given a slot still gets as far as its first wait.
TakeSlot(t) ==
  /\ pc[t] = "queued"
  /\ Cardinality(Occupants) < GlobalMax
  /\ Goto(t, "executing")
  /\ UNCHANGED <<tasks, threads>>

\* The coroutine returns, raises, or is timed out.
End(t) ==
  /\ pc[t] = "executing"
  /\ Goto(t, "leaving")
  /\ UNCHANGED <<tasks, threads>>

\* Cancellation reaches a task where it waits, outside of a thread call.
EndCancelled(t) ==
  /\ t \in cancelled /\ pc[t] \in {"queued", "executing"}
  /\ Goto(t, "leaving")
  /\ UNCHANGED <<tasks, threads>>

Pop(t) ==
  /\ pc[t] = "leaving"
  /\ Goto(t, "gone")
  /\ table' = [table EXCEPT ![IdOf[t]] = None]
  /\ UNCHANGED <<phase, cancelled, threads>>

-----------------------------------------------------------------------------
(* A thread call: _run_thread_with_capacity *)

CallThread(t) ==
  /\ pc[t] = "executing" /\ thread[t] = "none"
  /\ Goto(t, "acquiring")
  /\ UNCHANGED <<tasks, threads>>

\* The capacity is taken and the work handed to a worker thread.
Acquire(t) ==
  /\ pc[t] = "acquiring"
  /\ Cardinality(borrowers) < ThreadMax
  /\ borrowers' = borrowers \cup {t}
  /\ thread' = [thread EXCEPT ![t] = "queued"]
  /\ Goto(t, "awaiting")
  /\ UNCHANGED <<tasks, barred>>

StartThread(t) ==
  /\ thread[t] = "queued"
  /\ thread' = [thread EXCEPT ![t] = IF t \in barred THEN "skipped" ELSE "running"]
  /\ UNCHANGED <<tasks, pc, borrowers, barred>>

\* The work function returns or raises, in its thread.
FinishWork(t) ==
  /\ thread[t] = "running"
  /\ thread' = [thread EXCEPT ![t] = "returning"]
  /\ UNCHANGED <<tasks, pc, borrowers, barred>>

\* The thread returns its capacity, by a call into the loop.
ReturnCapacity(t) ==
  /\ thread[t] = "returning"
  /\ thread' = [thread EXCEPT ![t] = "done"]
  /\ borrowers' = borrowers \ {t}
  /\ UNCHANGED <<tasks, pc, barred>>

\* Its result or its error reaches the waiter, if there still is one.
Resume(t) ==
  /\ pc[t] = "awaiting" /\ thread[t] = "done"
  /\ Goto(t, "executing")
  /\ UNCHANGED <<tasks, threads>>

\* The wait for capacity ends without any.
StopWaiting(t) ==
  /\ pc[t] = "acquiring"
  /\ t \in Abandonable
  /\ thread' = [thread EXCEPT ![t] = "skipped"]
  /\ Goto(t, "executing")
  /\ UNCHANGED <<tasks, borrowers, barred>>

Abandon_Releases(t) ==
  /\ pc[t] = "awaiting"
  /\ t \in Abandonable \/ thread[t] = "queued"
  /\ barred' = barred \cup {t} /\ borrowers' = borrowers \ {t}
  /\ Goto(t, "executing")
  /\ UNCHANGED <<tasks, thread>>

\* A timeout or a cancellation ends the wait, or the work could not be handed over: work
\* that has not started never will, and its capacity is returned here.
Abandon(t) ==
  /\ pc[t] = "awaiting"
  /\ t \in Abandonable \/ thread[t] = "queued"
  /\ IF thread[t] = "queued"
       THEN barred' = barred \cup {t} /\ borrowers' = borrowers \ {t}
       ELSE UNCHANGED <<barred, borrowers>>
  /\ Goto(t, "executing")
  /\ UNCHANGED <<tasks, thread>>

-----------------------------------------------------------------------------

Leave(t)  == StopWaiting(t) \/ Abandon(t)
Run(t)    == Submit(t) \/ AddTask(t) \/ AddCancelled(t) \/ TakeSlot(t) \/ End(t)
             \/ EndCancelled(t) \/ Pop(t)
Thread(t) == CallThread(t) \/ Acquire(t) \/ StartThread(t) \/ FinishWork(t)
             \/ ReturnCapacity(t) \/ Resume(t) \/ Leave(t)

Next ==
  \/ Start \/ Shutdown \/ Stop
  \/ \E i \in Id : CancelTask(i)
  \/ \E t \in Task : Run(t) \/ Thread(t)

Spec == Init /\ [][Next]_vars

\* The loop and the threads make progress, a cancelled coroutine lets its cancellation
\* end it, and the work of a task that cannot leave it ends.  Other work may go on forever.
Fairness ==
  /\ WF_vars(Stop)
  /\ \A t \in Task :
       /\ WF_vars(EndCancelled(t)) /\ WF_vars(Pop(t))
       /\ WF_vars(Acquire(t)) /\ WF_vars(StartThread(t)) /\ WF_vars(ReturnCapacity(t))
       /\ WF_vars(Resume(t)) /\ WF_vars(t \in cancelled /\ Leave(t))
       /\ t \notin Abandonable => WF_vars(FinishWork(t))

FairSpec == Spec /\ Fairness

\* As above, and every work function ends sooner or later.
AllWorkEnds == FairSpec /\ \A t \in Task : WF_vars(FinishWork(t))

-----------------------------------------------------------------------------
(* Properties *)

TypeOK ==
  /\ phase \in {"stopped", "open", "closing"}
  /\ table \in [Id -> Task \cup {None}] /\ cancelled \subseteq Task
  /\ pc \in [Task -> Place]
  /\ borrowers \subseteq Task /\ barred \subseteq Task
  /\ thread \in [Task -> {"none", "queued", "running", "returning", "done", "skipped"}]

\* The table names the tasks of the group that have not ended, so that an identifier is
\* free exactly when its task has ended, and a shutdown cancels all of them.
TableIsExact ==
  \A t \in Task : pc[t] \in Active <=> table[IdOf[t]] = t

\* Whoever a shutdown waits for was cancelled, and nobody outlives it.
ShutdownReachesAll ==
  \A t \in Task : pc[t] \in Active =>
    phase = "open" \/ (phase = "closing" /\ t \in cancelled)

\* Capacity is held for work that runs, or still may run, and for nothing else: however
\* waiters and threads race, it is returned once and not before the work ends.
CapacityIsHeld ==
  borrowers = {t \in Task : \/ thread[t] \in {"running", "returning"}
                            \/ thread[t] = "queued" /\ t \notin barred}

\* No more threads work than the handler admits, even if nobody waits for them any more.
ThreadsAreBounded ==
  Cardinality({t \in Task : thread[t] \in {"running", "returning"}}) <= ThreadMax

\* Work that its waiter abandoned before it started never starts.
AbandonedNeverStarts ==
  [][\A t \in Task : thread[t] = "queued" /\ thread'[t] = "running" => pc[t] = "awaiting"]_vars

\* A shutdown ends, and does not wait for threads that were abandoned
\* (pkg/concurrency/README.md:33).
ShutdownEnds == phase = "closing" ~> phase = "stopped"
=============================================================================
