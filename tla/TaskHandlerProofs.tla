------------------------- MODULE TaskHandlerProofs -------------------------
(***************************************************************************)
(* Proofs about TaskHandler, for every set of tasks and every limit.       *)
(*                                                                         *)
(*   TypeCorrect      Spec => []TypeOK                                     *)
(*   TableCorrect     Spec => []TableIsExact                               *)
(*   ShutdownCorrect  Spec => []ShutdownReachesAll                         *)
(*   CapacityCorrect  Spec => []CapacityIsHeld                             *)
(*   ThreadsCorrect   Spec => []ThreadsAreBounded                          *)
(*   BarredCorrect    Spec => AbandonedNeverStarts                         *)
(***************************************************************************)
EXTENDS TaskHandler, FiniteSetTheorems, TLAPS

USE TaskAssumption, LimitAssumption

-----------------------------------------------------------------------------
(* The inductive invariant, in parts *)

\* Somebody waits for work that may still start, nothing is handed over before the
\* capacity is there, and only work that has not started is barred.
Waiting ==
  \A t \in Task :
    /\ thread[t] = "queued" /\ t \notin barred => pc[t] = "awaiting"
    /\ pc[t] = "acquiring" => thread[t] = "none"
    /\ t \in barred => thread[t] \in {"queued", "skipped"}

\* The limiter lends no more than it has.
Lent == IsFiniteSet(borrowers) /\ Cardinality(borrowers) <= ThreadMax

IInv == TypeOK /\ TableIsExact /\ ShutdownReachesAll /\ CapacityIsHeld /\ Waiting /\ Lent

-----------------------------------------------------------------------------
(* Kinds of steps *)

\* A step of a task that takes it from one place to another, and changes nothing else.
Moves(t) ==
  \/ Submit(t) \/ AddCancelled(t) \/ TakeSlot(t) \/ End(t) \/ EndCancelled(t)
  \/ CallThread(t) \/ Resume(t)

\* Every step is of one of these kinds.
LEMMA StepKinds ==
  ASSUME [Next]_vars
  PROVE  \/ Start \/ Shutdown \/ Stop
         \/ \E i \in Id : CancelTask(i)
         \/ \E t \in Task : \/ Moves(t) \/ AddTask(t) \/ Pop(t)
                            \/ Acquire(t) \/ StartThread(t) \/ FinishWork(t)
                            \/ ReturnCapacity(t) \/ StopWaiting(t) \/ Abandon(t)
         \/ UNCHANGED vars
BY DEF Next, Run, Thread, Leave, Moves

\* A move leads into or out of the table only through the queue and the pop.
LEMMA MovesKeepActive ==
  ASSUME TypeOK, NEW t \in Task, Moves(t)
  PROVE  /\ UNCHANGED <<tasks, threads>>
         /\ \A u \in Task : pc'[u] \in Active <=> pc[u] \in Active
BY DEF TypeOK, Moves, Submit, AddCancelled, TakeSlot, End, EndCancelled, CallThread, Resume,
       Goto, Active, Executing

-----------------------------------------------------------------------------
(* Every step preserves every part *)

\* Values stay of their type.
LEMMA TypeStep ==
  ASSUME TypeOK, [Next]_vars
  PROVE  TypeOK'
<1> USE DEF TypeOK, Goto, tasks, threads
<1>1. CASE Start \/ Shutdown \/ Stop
  BY <1>1 DEF Start, Shutdown, Stop, Listed
<1>2. ASSUME NEW i \in Id, CancelTask(i)
      PROVE  TypeOK'
  BY <1>2 DEF CancelTask, Listed
<1>3. ASSUME NEW t \in Task, Moves(t)
      PROVE  TypeOK'
  BY <1>3 DEF Moves, Submit, AddCancelled, TakeSlot, End, EndCancelled, CallThread, Resume,
              Place, Active, Executing
<1>4. ASSUME NEW t \in Task, AddTask(t) \/ Pop(t)
      PROVE  TypeOK'
  BY <1>4 DEF AddTask, Pop, Place, Active
<1>5. ASSUME NEW t \in Task, Acquire(t) \/ StopWaiting(t) \/ Abandon(t)
      PROVE  TypeOK'
  BY <1>5 DEF Acquire, StopWaiting, Abandon, Place, Active, Executing
<1>6. ASSUME NEW t \in Task, StartThread(t) \/ FinishWork(t) \/ ReturnCapacity(t)
      PROVE  TypeOK'
  BY <1>6 DEF StartThread, FinishWork, ReturnCapacity
<1>7. CASE UNCHANGED vars
  BY <1>7 DEF vars
<1>. QED BY StepKinds, <1>1, <1>2, <1>3, <1>4, <1>5, <1>6, <1>7

\* The table stays exact, and a shutdown reaches all of it.
LEMMA TableStep ==
  ASSUME TypeOK, TableIsExact, ShutdownReachesAll, [Next]_vars
  PROVE  TableIsExact' /\ ShutdownReachesAll'
<1> USE DEF TypeOK, TableIsExact, ShutdownReachesAll
<1> DEFINE Goal == TableIsExact' /\ ShutdownReachesAll'
<1>1. CASE Start \/ Stop
  BY <1>1 DEF Start, Stop, threads
<1>2. CASE Shutdown
  BY <1>2 DEF Shutdown, Listed, threads
<1>3. ASSUME NEW i \in Id, CancelTask(i)
      PROVE  Goal
  BY <1>3 DEF CancelTask, threads
<1>4. ASSUME NEW t \in Task, Moves(t)
      PROVE  Goal
  BY <1>4, MovesKeepActive DEF tasks
<1>5. ASSUME NEW t \in Task, AddTask(t)
      PROVE  Goal
  <2>1. CASE /\ phase = "open" /\ table[IdOf[t]] = None
             /\ table' = [table EXCEPT ![IdOf[t]] = t] /\ Goto(t, "queued")
    BY <1>5, <2>1 DEF AddTask, Goto, Active
  <2>2. CASE UNCHANGED table /\ Goto(t, "refused")
    BY <1>5, <2>2 DEF AddTask, Goto, Active, Executing
  <2>. QED BY <1>5, <2>1, <2>2 DEF AddTask
<1>6. ASSUME NEW t \in Task, Pop(t)
      PROVE  Goal
  BY <1>6 DEF Pop, Goto, Active, Executing
<1>7. ASSUME NEW t \in Task, Acquire(t) \/ StopWaiting(t) \/ Abandon(t)
      PROVE  Goal
  <2>1. UNCHANGED tasks /\ \A u \in Task : pc'[u] \in Active <=> pc[u] \in Active
    BY <1>7 DEF Acquire, StopWaiting, Abandon, Goto, Active, Executing
  <2>. QED BY <2>1 DEF tasks
<1>8. ASSUME NEW t \in Task, StartThread(t) \/ FinishWork(t) \/ ReturnCapacity(t)
      PROVE  Goal
  BY <1>8 DEF StartThread, FinishWork, ReturnCapacity, tasks
<1>9. CASE UNCHANGED vars
  BY <1>9 DEF vars
<1>. QED BY StepKinds, <1>1, <1>2, <1>3, <1>4, <1>5, <1>6, <1>7, <1>8, <1>9

\* Waiters and threads agree on who may start and who returns the capacity.
LEMMA CapacityStep ==
  ASSUME TypeOK, CapacityIsHeld, Waiting, [Next]_vars
  PROVE  CapacityIsHeld' /\ Waiting'
<1> USE DEF TypeOK, CapacityIsHeld, Waiting
<1> DEFINE Goal == CapacityIsHeld' /\ Waiting'
<1>1. CASE Start \/ Shutdown \/ Stop
  BY <1>1 DEF Start, Shutdown, Stop, threads
<1>2. ASSUME NEW i \in Id, CancelTask(i)
      PROVE  Goal
  BY <1>2 DEF CancelTask, threads
<1>3. ASSUME NEW t \in Task, Moves(t)
      PROVE  Goal
  BY <1>3 DEF Moves, Submit, AddCancelled, TakeSlot, End, EndCancelled, CallThread, Resume,
              Goto, threads
<1>4. ASSUME NEW t \in Task, AddTask(t) \/ Pop(t)
      PROVE  Goal
  BY <1>4 DEF AddTask, Pop, Goto, threads
<1>5. ASSUME NEW t \in Task, Acquire(t)
      PROVE  Goal
  BY <1>5 DEF Acquire, Goto
<1>6. ASSUME NEW t \in Task, StopWaiting(t)
      PROVE  Goal
  BY <1>6 DEF StopWaiting, Goto
<1>7. ASSUME NEW t \in Task, Abandon(t)
      PROVE  Goal
  BY <1>7 DEF Abandon, Goto
<1>8. ASSUME NEW t \in Task, StartThread(t)
      PROVE  Goal
  BY <1>8 DEF StartThread, tasks
<1>9. ASSUME NEW t \in Task, FinishWork(t) \/ ReturnCapacity(t)
      PROVE  Goal
  BY <1>9 DEF FinishWork, ReturnCapacity, tasks
<1>10. CASE UNCHANGED vars
  BY <1>10 DEF vars
<1>. QED BY StepKinds, <1>1, <1>2, <1>3, <1>4, <1>5, <1>6, <1>7, <1>8, <1>9, <1>10

\* The limiter stays within its tokens.
LEMMA LentStep ==
  ASSUME TypeOK, Lent, [Next]_vars
  PROVE  Lent'
<1> USE DEF Lent
<1>1. ASSUME NEW t \in Task, Acquire(t)
      PROVE  Lent'
  <2>1. borrowers' = borrowers \cup {t} /\ Cardinality(borrowers) < ThreadMax
    BY <1>1 DEF Acquire
  <2>2. IsFiniteSet(borrowers) /\ Cardinality(borrowers) \in Nat
    BY FS_CardinalityType
  <2>3. /\ IsFiniteSet(borrowers \cup {t})
        /\ Cardinality(borrowers \cup {t}) =
             IF t \in borrowers THEN Cardinality(borrowers) ELSE Cardinality(borrowers) + 1
    BY <2>2, FS_AddElement
  <2>4. Cardinality(borrowers \cup {t}) <= ThreadMax
    BY <2>1, <2>2, <2>3
  <2>. QED BY <2>1, <2>3, <2>4
<1>2. ASSUME borrowers' \subseteq borrowers
      PROVE  Lent'
  BY <1>2, FS_Subset, FS_CardinalityType
<1>3. ASSUME NEW t \in Task, ReturnCapacity(t) \/ Abandon(t)
      PROVE  borrowers' \subseteq borrowers
  BY <1>3 DEF ReturnCapacity, Abandon
<1>4. ASSUME NEW t \in Task, \/ Moves(t) \/ AddTask(t) \/ Pop(t) \/ StartThread(t)
                             \/ FinishWork(t) \/ StopWaiting(t)
      PROVE  borrowers' = borrowers
  BY <1>4, MovesKeepActive DEF AddTask, Pop, StartThread, FinishWork, StopWaiting, threads
<1>5. ASSUME \/ Start \/ Shutdown \/ Stop \/ (\E i \in Id : CancelTask(i))
             \/ UNCHANGED vars
      PROVE  borrowers' = borrowers
  BY <1>5 DEF Start, Shutdown, Stop, CancelTask, threads, vars
<1>. QED BY StepKinds, <1>1, <1>2, <1>3, <1>4, <1>5

-----------------------------------------------------------------------------
(* Theorems *)

LEMMA Initially == Init => IInv
<1> SUFFICES ASSUME Init
             PROVE  IInv
  OBVIOUS
<1>1. TypeOK /\ TableIsExact /\ ShutdownReachesAll /\ CapacityIsHeld /\ Waiting
  BY DEF Init, TypeOK, TableIsExact, ShutdownReachesAll, CapacityIsHeld, Waiting, Place,
         Active, Executing
<1>2. Lent
  BY FS_EmptySet DEF Init, Lent
<1>. QED BY <1>1, <1>2 DEF IInv

LEMMA Invariant == Spec => []IInv
<1>1. IInv /\ [Next]_vars => IInv'
  BY TypeStep, TableStep, CapacityStep, LentStep DEF IInv
<1>. QED BY Initially, <1>1, PTL DEF Spec

\* Every value of the handler stays in its type.
THEOREM TypeCorrect == Spec => []TypeOK
<1>1. IInv => TypeOK
  BY DEF IInv
<1>. QED BY Invariant, <1>1, PTL

\* The table names the tasks of the group that have not ended.
THEOREM TableCorrect == Spec => []TableIsExact
<1>1. IInv => TableIsExact
  BY DEF IInv
<1>. QED BY Invariant, <1>1, PTL

\* Whoever a shutdown waits for was cancelled.
THEOREM ShutdownCorrect == Spec => []ShutdownReachesAll
<1>1. IInv => ShutdownReachesAll
  BY DEF IInv
<1>. QED BY Invariant, <1>1, PTL

\* Capacity is held for work that runs, or still may run, and for nothing else.
THEOREM CapacityCorrect == Spec => []CapacityIsHeld
<1>1. IInv => CapacityIsHeld
  BY DEF IInv
<1>. QED BY Invariant, <1>1, PTL

\* No more threads work than the handler admits.
THEOREM ThreadsCorrect == Spec => []ThreadsAreBounded
<1>1. ASSUME IInv
      PROVE  ThreadsAreBounded
  <2> DEFINE Working == {t \in Task : thread[t] \in {"running", "returning"}}
  <2>1. Working \subseteq borrowers
    BY <1>1 DEF IInv, CapacityIsHeld
  <2>2. Cardinality(Working) <= Cardinality(borrowers) /\ IsFiniteSet(Working)
    BY <1>1, <2>1, FS_Subset DEF IInv, Lent
  <2>3. Cardinality(Working) \in Nat /\ Cardinality(borrowers) \in Nat
    BY <1>1, <2>2, FS_CardinalityType DEF IInv, Lent
  <2>4. Cardinality(borrowers) <= ThreadMax
    BY <1>1 DEF IInv, Lent
  <2>5. Cardinality(Working) <= ThreadMax
    BY <2>2, <2>3, <2>4
  <2>. QED BY <2>5 DEF ThreadsAreBounded
<1>. QED BY Invariant, <1>1, PTL

\* Work that its waiter abandoned before it started never starts.
THEOREM BarredCorrect == Spec => AbandonedNeverStarts
<1>1. IInv /\ [Next]_vars =>
        [\A t \in Task : thread[t] = "queued" /\ thread'[t] = "running" => pc[t] = "awaiting"]_vars
  <2> SUFFICES ASSUME IInv, [Next]_vars, NEW t \in Task,
                      thread[t] = "queued", thread'[t] = "running"
               PROVE  t \notin barred
    BY DEF IInv, Waiting
  <2>1. ASSUME NEW u \in Task, StartThread(u)
        PROVE  t \notin barred
    BY <2>1 DEF StartThread, IInv, TypeOK
  <2>2. ASSUME NEW u \in Task, \/ Acquire(u) \/ FinishWork(u) \/ ReturnCapacity(u)
                               \/ StopWaiting(u)
        PROVE  FALSE
    BY <2>2 DEF Acquire, FinishWork, ReturnCapacity, StopWaiting, IInv, TypeOK
  <2>3. ASSUME NEW u \in Task, Moves(u) \/ AddTask(u) \/ Pop(u) \/ Abandon(u)
        PROVE  FALSE
    BY <2>3, MovesKeepActive DEF AddTask, Pop, Abandon, threads, IInv
  <2>4. ASSUME \/ Start \/ Shutdown \/ Stop \/ (\E i \in Id : CancelTask(i))
               \/ UNCHANGED vars
        PROVE  FALSE
    BY <2>4 DEF Start, Shutdown, Stop, CancelTask, threads, vars
  <2>. QED BY StepKinds, <2>1, <2>2, <2>3, <2>4
<1>. QED BY Invariant, <1>1, PTL DEF Spec, AbandonedNeverStarts
=============================================================================
