-------------------------- MODULE CeleryTaskProofs --------------------------
(***************************************************************************)
(* Proofs about CeleryTask, for every set of callers, payloads and         *)
(* deliveries and every timing.                                            *)
(*                                                                         *)
(*   TypeCorrect          Spec => []TypeOK                                 *)
(*   ExecutionCorrect     Spec => []AtMostOneExecution                     *)
(*   RefusalCorrect       Spec => []RefusalIsDefinitive                    *)
(*   CancellationCorrect  Spec => []CancellationIsHonoured                 *)
(*   ResultCorrect        Spec => []ResultIsRecorded                       *)
(*   PayloadCorrect       Spec => []SameKeySamePayload                     *)
(*   GateCorrect          Spec => []GateStaysClosed                        *)
(*   FenceCorrect         Spec => OrphanIsFenced                           *)
(*   PromiseCorrect       Spec => ImplementsPromise                        *)
(***************************************************************************)
EXTENDS CeleryTask, TLAPS

USE CallerAssumption, WorkerAssumption, TimeAssumption

-----------------------------------------------------------------------------
(* The inductive invariant, in parts *)

\* The task is given away once: until a delivery claims it nobody has the token, and from
\* then on it cannot be claimed, and only the owner executes it.
Ownership ==
  /\ attempts <= 1
  /\ status \in Startable \cup {"none"} => token = None
  /\ status \in {"RUNNING", "CANCELLING", "ORPHANED", "SUCCEEDED"} => token # None
  /\ \A w \in Worker : worker[w] \in Executing \cup {"returned"} => token = w

\* What was answered, to whom, stays true.
Answers ==
  /\ \A c \in Caller : answer[c] = "unavailable" => status = "FAILED" /\ token = None
  /\ \A c \in Caller : submitter[c] \in Submitting \/ answer[c] \in Status =>
                         payload = PayloadOf[c]
  /\ accepted => status \in {"CANCELLING", "CANCELLED", "ORPHANED", "FAILED"}
  /\ \A w \in Worker : worker[w] = "returned" => status = "SUCCEEDED"

IInv == TypeOK /\ Ownership /\ Answers /\ GateStaysClosed

-----------------------------------------------------------------------------
(* Kinds of steps *)

\* A step of a submission that changes neither the task nor what was answered.
Quiet(c) == Publish(c) \/ PublishRaises(c) \/ SubmitterLost(c)

\* A step of a worker that leaves the record as it is.
Stops(w) == ClaimRefused(w) \/ WorkRaises(w) \/ WorkerLost(w)


\* An update of a worker, from one status to another.
Updates(w) ==
  \E from \in {"RUNNING", "CANCELLING"}, to \in Terminal,
     done, refused, broken \in Executing \cup Ended :
    /\ worker[w] \in Executing
    /\ from = "CANCELLING" => to # "SUCCEEDED"
    /\ done = "returned" => to = "SUCCEEDED"
    /\ refused # "returned" /\ broken # "returned"
    /\ Update(w, from, to, done, refused, broken)

\* Every update of a worker (service acknowledge_cancellation, succeed and fail) is of
\* that kind.
LEMMA WorkerUpdates ==
  ASSUME NEW w \in Worker,
         \/ CheckBefore(w) \/ CheckAfter(w)
         \/ Succeed(w) \/ SucceedRefused(w) \/ Fail(w) \/ FailRefused(w)
  PROVE  Updates(w)
<1> USE DEF Executing, Ended, Terminal
<1>1. CASE CheckBefore(w)
  BY <1>1 DEF CheckBefore, Acknowledge, Updates
<1>2. CASE CheckAfter(w)
  BY <1>2 DEF CheckAfter, Acknowledge, Updates
<1>3. CASE Succeed(w)
  BY <1>3 DEF Succeed, Updates
<1>4. CASE SucceedRefused(w)
  BY <1>4 DEF SucceedRefused, Acknowledge, Updates
<1>5. CASE Fail(w)
  BY <1>5 DEF Fail, Updates
<1>6. CASE FailRefused(w)
  BY <1>6 DEF FailRefused, Acknowledge, Updates
<1>. QED BY <1>1, <1>2, <1>3, <1>4, <1>5, <1>6

\* Every step is of one of these kinds.
LEMMA StepKinds ==
  ASSUME [Next]_vars
  PROVE  \/ \E c \in Caller : \/ ReserveNew(c) \/ FindExisting(c) \/ Quiet(c)
                              \/ MarkQueued(c) \/ MarkDispatchFailed(c)
         \/ \E w \in Worker : Claim(w) \/ Stops(w) \/ Updates(w) \/ DisallowCancellation(w)
         \/ RequestCancellation \/ Tick \/ Reconcile \/ ResolveOrphaned
         \/ UNCHANGED vars
<1>1. ASSUME NEW c \in Caller, Submit(c)
      PROVE  \/ ReserveNew(c) \/ FindExisting(c) \/ Quiet(c)
             \/ MarkQueued(c) \/ MarkDispatchFailed(c)
  BY <1>1 DEF Submit, Quiet
<1>2. ASSUME NEW w \in Worker, Execute(w)
      PROVE  Claim(w) \/ Stops(w) \/ Updates(w) \/ DisallowCancellation(w)
  BY <1>2, WorkerUpdates DEF Execute, Stops
<1>. QED BY <1>1, <1>2 DEF Next

-----------------------------------------------------------------------------
(* Every step preserves every part *)

\* Values stay of their type.
LEMMA TypeStep ==
  ASSUME TypeOK, Answers, [Next]_vars
  PROVE  TypeOK'
<1> USE DEF TypeOK, Startable, Terminal, Unfinished, Status, Submitting, Executing, Ended,
        SubmitterAt, WorkerAt, Answer, record, vars
<1>1. ASSUME NEW c \in Caller, ReserveNew(c)
      PROVE  TypeOK'
  BY <1>1 DEF ReserveNew
<1>2. ASSUME NEW c \in Caller, FindExisting(c)
      PROVE  TypeOK'
  BY <1>2 DEF FindExisting
<1>3. ASSUME NEW c \in Caller, Quiet(c)
      PROVE  TypeOK'
  BY <1>3 DEF Quiet, Publish, PublishRaises, SubmitterLost
<1>4. ASSUME NEW c \in Caller, MarkQueued(c)
      PROVE  TypeOK'
  <2>1. status # "none"
    BY <1>4 DEF MarkQueued, Answers
  <2>. QED BY <2>1, <1>4 DEF MarkQueued
<1>5. ASSUME NEW c \in Caller, MarkDispatchFailed(c)
      PROVE  TypeOK'
  <2>1. status # "none"
    BY <1>5 DEF MarkDispatchFailed, Answers
  <2>. QED BY <2>1, <1>5 DEF MarkDispatchFailed
<1>6. ASSUME NEW w \in Worker, Claim(w)
      PROVE  TypeOK'
  BY <1>6 DEF Claim
<1>7. ASSUME NEW w \in Worker, Stops(w)
      PROVE  TypeOK'
  BY <1>7 DEF Stops, ClaimRefused, WorkRaises, WorkerLost
<1>8. ASSUME NEW w \in Worker, Updates(w)
      PROVE  TypeOK'
  BY <1>8 DEF Updates, Update, Owns
<1>9. ASSUME NEW w \in Worker, DisallowCancellation(w)
      PROVE  TypeOK'
  BY <1>9 DEF DisallowCancellation, Owns
<1>10. CASE RequestCancellation
  BY <1>10 DEF RequestCancellation
<1>11. CASE Tick
  BY <1>11 DEF Tick
<1>12. CASE Reconcile
  BY <1>12 DEF Reconcile, FailStaleSubmitting, FailExpiredQueued, ReconcileExpiredExecution, Expire
<1>13. CASE ResolveOrphaned
  BY <1>13 DEF ResolveOrphaned, Expire
<1>14. CASE UNCHANGED vars
  BY <1>14 DEF vars
<1>. QED BY <1>1, <1>2, <1>3, <1>4, <1>5, <1>6, <1>7, <1>8, <1>9, <1>10, <1>11, <1>12, <1>13, <1>14, StepKinds

\* The task is given away once and executed by its owner only.
LEMMA OwnershipStep ==
  ASSUME TypeOK, Ownership, [Next]_vars
  PROVE  Ownership'
<1> USE DEF TypeOK, Ownership, Startable, Terminal, Unfinished, Status, Submitting, Executing, Ended,
        SubmitterAt, WorkerAt, Answer, record, vars
<1>1. ASSUME NEW c \in Caller, ReserveNew(c)
      PROVE  Ownership'
  BY <1>1 DEF ReserveNew
<1>2. ASSUME NEW c \in Caller, FindExisting(c)
      PROVE  Ownership'
  BY <1>2 DEF FindExisting
<1>3. ASSUME NEW c \in Caller, Quiet(c)
      PROVE  Ownership'
  BY <1>3 DEF Quiet, Publish, PublishRaises, SubmitterLost
<1>4. ASSUME NEW c \in Caller, MarkQueued(c)
      PROVE  Ownership'
  BY <1>4 DEF MarkQueued
<1>5. ASSUME NEW c \in Caller, MarkDispatchFailed(c)
      PROVE  Ownership'
  BY <1>5 DEF MarkDispatchFailed
<1>6. ASSUME NEW w \in Worker, Claim(w)
      PROVE  Ownership'
  BY <1>6 DEF Claim
<1>7. ASSUME NEW w \in Worker, Stops(w)
      PROVE  Ownership'
  BY <1>7 DEF Stops, ClaimRefused, WorkRaises, WorkerLost
<1>8. ASSUME NEW w \in Worker, Updates(w)
      PROVE  Ownership'
  BY <1>8 DEF Updates, Update, Owns
<1>9. ASSUME NEW w \in Worker, DisallowCancellation(w)
      PROVE  Ownership'
  BY <1>9 DEF DisallowCancellation, Owns
<1>10. CASE RequestCancellation
  BY <1>10 DEF RequestCancellation
<1>11. CASE Tick
  BY <1>11 DEF Tick
<1>12. CASE Reconcile
  BY <1>12 DEF Reconcile, FailStaleSubmitting, FailExpiredQueued, ReconcileExpiredExecution, Expire
<1>13. CASE ResolveOrphaned
  BY <1>13 DEF ResolveOrphaned, Expire
<1>14. CASE UNCHANGED vars
  BY <1>14 DEF vars
<1>. QED BY <1>1, <1>2, <1>3, <1>4, <1>5, <1>6, <1>7, <1>8, <1>9, <1>10, <1>11, <1>12, <1>13, <1>14, StepKinds

\* What was answered stays true.
LEMMA AnswersStep ==
  ASSUME TypeOK, Ownership, Answers, [Next]_vars
  PROVE  Answers'
<1> USE DEF TypeOK, Ownership, Answers, Startable, Terminal, Unfinished, Status, Submitting, Executing, Ended,
        SubmitterAt, WorkerAt, Answer, record, vars
<1>1. ASSUME NEW c \in Caller, ReserveNew(c)
      PROVE  Answers'
  BY <1>1 DEF ReserveNew
<1>2. ASSUME NEW c \in Caller, FindExisting(c)
      PROVE  Answers'
  BY <1>2 DEF FindExisting
<1>3. ASSUME NEW c \in Caller, Quiet(c)
      PROVE  Answers'
  BY <1>3 DEF Quiet, Publish, PublishRaises, SubmitterLost
<1>4. ASSUME NEW c \in Caller, MarkQueued(c)
      PROVE  Answers'
  BY <1>4 DEF MarkQueued
<1>5. ASSUME NEW c \in Caller, MarkDispatchFailed(c)
      PROVE  Answers'
  BY <1>5 DEF MarkDispatchFailed
<1>6. ASSUME NEW w \in Worker, Claim(w)
      PROVE  Answers'
  BY <1>6 DEF Claim
<1>7. ASSUME NEW w \in Worker, Stops(w)
      PROVE  Answers'
  BY <1>7 DEF Stops, ClaimRefused, WorkRaises, WorkerLost
<1>8. ASSUME NEW w \in Worker, Updates(w)
      PROVE  Answers'
  BY <1>8 DEF Updates, Update, Owns
<1>9. ASSUME NEW w \in Worker, DisallowCancellation(w)
      PROVE  Answers'
  BY <1>9 DEF DisallowCancellation, Owns
<1>10. CASE RequestCancellation
  BY <1>10 DEF RequestCancellation
<1>11. CASE Tick
  BY <1>11 DEF Tick
<1>12. CASE Reconcile
  BY <1>12 DEF Reconcile, FailStaleSubmitting, FailExpiredQueued, ReconcileExpiredExecution, Expire
<1>13. CASE ResolveOrphaned
  BY <1>13 DEF ResolveOrphaned, Expire
<1>14. CASE UNCHANGED vars
  BY <1>14 DEF vars
<1>. QED BY <1>1, <1>2, <1>3, <1>4, <1>5, <1>6, <1>7, <1>8, <1>9, <1>10, <1>11, <1>12, <1>13, <1>14, StepKinds

\* A closed gate keeps cancellations out.
LEMMA GateStep ==
  ASSUME TypeOK, GateStaysClosed, [Next]_vars
  PROVE  GateStaysClosed'
<1> USE DEF TypeOK, GateStaysClosed, Startable, Terminal, Unfinished, Status, Submitting, Executing, Ended,
        SubmitterAt, WorkerAt, Answer, record, vars
<1>1. ASSUME NEW c \in Caller, ReserveNew(c)
      PROVE  GateStaysClosed'
  BY <1>1 DEF ReserveNew
<1>2. ASSUME NEW c \in Caller, FindExisting(c)
      PROVE  GateStaysClosed'
  BY <1>2 DEF FindExisting
<1>3. ASSUME NEW c \in Caller, Quiet(c)
      PROVE  GateStaysClosed'
  BY <1>3 DEF Quiet, Publish, PublishRaises, SubmitterLost
<1>4. ASSUME NEW c \in Caller, MarkQueued(c)
      PROVE  GateStaysClosed'
  BY <1>4 DEF MarkQueued
<1>5. ASSUME NEW c \in Caller, MarkDispatchFailed(c)
      PROVE  GateStaysClosed'
  BY <1>5 DEF MarkDispatchFailed
<1>6. ASSUME NEW w \in Worker, Claim(w)
      PROVE  GateStaysClosed'
  BY <1>6 DEF Claim
<1>7. ASSUME NEW w \in Worker, Stops(w)
      PROVE  GateStaysClosed'
  BY <1>7 DEF Stops, ClaimRefused, WorkRaises, WorkerLost
<1>8. ASSUME NEW w \in Worker, Updates(w)
      PROVE  GateStaysClosed'
  BY <1>8 DEF Updates, Update, Owns
<1>9. ASSUME NEW w \in Worker, DisallowCancellation(w)
      PROVE  GateStaysClosed'
  BY <1>9 DEF DisallowCancellation, Owns
<1>10. CASE RequestCancellation
  BY <1>10 DEF RequestCancellation
<1>11. CASE Tick
  BY <1>11 DEF Tick
<1>12. CASE Reconcile
  BY <1>12 DEF Reconcile, FailStaleSubmitting, FailExpiredQueued, ReconcileExpiredExecution, Expire
<1>13. CASE ResolveOrphaned
  BY <1>13 DEF ResolveOrphaned, Expire
<1>14. CASE UNCHANGED vars
  BY <1>14 DEF vars
<1>. QED BY <1>1, <1>2, <1>3, <1>4, <1>5, <1>6, <1>7, <1>8, <1>9, <1>10, <1>11, <1>12, <1>13, <1>14, StepKinds

-----------------------------------------------------------------------------
(* The theorems *)

\* The initial states satisfy the invariant.
LEMMA InitInvariant == Init => IInv
<1> SUFFICES ASSUME Init PROVE IInv
  OBVIOUS
<1> USE DEF Init, Startable, Terminal, Unfinished, Status, Submitting, Executing, Ended
<1>1. TypeOK
  BY DEF TypeOK
<1>2. Ownership
  BY DEF Ownership
<1>3. Answers
  BY NoneAssumption DEF Answers
<1>4. GateStaysClosed
  BY DEF GateStaysClosed
<1>. QED BY <1>1, <1>2, <1>3, <1>4 DEF IInv

\* Every step preserves it.
LEMMA StepInvariant == IInv /\ [Next]_vars => IInv'
BY TypeStep, OwnershipStep, AnswersStep, GateStep DEF IInv

\* The inductive invariant holds of every behaviour of a task.
THEOREM Invariant == Spec => []IInv
BY InitInvariant, StepInvariant, PTL DEF Spec

\* Every field of the record, and every process, is always in a state of its own; a
\* reserved task has a payload and a claimed one a token.
THEOREM TypeCorrect == Spec => []TypeOK
<1>1. IInv => TypeOK
  BY DEF IInv
<1>. QED BY <1>1, Invariant, PTL

\* Whatever the broker delivers and whichever of confirmation and claim comes first
\* (mark_queued, claim_execution), a task is executed once, by the owner of its token.
THEOREM ExecutionCorrect == Spec => []AtMostOneExecution
<1>1. IInv => AtMostOneExecution
  BY DEF IInv, Ownership, AtMostOneExecution
<1>. QED BY <1>1, Invariant, PTL

\* A submission that was answered "unavailable" (mark_dispatch_failed) is never executed.
THEOREM RefusalCorrect == Spec => []RefusalIsDefinitive
<1>1. IInv => RefusalIsDefinitive
  BY DEF IInv, TypeOK, Answers, RefusalIsDefinitive
<1>. QED BY <1>1, Invariant, PTL

\* After request_cancellation accepted, finish_execution never records a success.
THEOREM CancellationCorrect == Spec => []CancellationIsHonoured
<1>1. IInv => CancellationIsHonoured
  BY DEF IInv, Answers, CancellationIsHonoured
<1>. QED BY <1>1, Invariant, PTL

\* A worker that returned a result has recorded it (succeed).
THEOREM ResultCorrect == Spec => []ResultIsRecorded
<1>1. IInv => ResultIsRecorded
  BY DEF IInv, Answers, ResultIsRecorded
<1>. QED BY <1>1, Invariant, PTL

\* Callers that share a task asked for the same one (reserve_task's payload_hash).
THEOREM PayloadCorrect == Spec => []SameKeySamePayload
<1>1. IInv => SameKeySamePayload
  BY DEF IInv, Answers, SameKeySamePayload
<1>. QED BY <1>1, Invariant, PTL

\* disallow_cancellation and request_cancellation exclude each other.
THEOREM GateCorrect == Spec => []GateStaysClosed
<1>1. IInv => GateStaysClosed
  BY DEF IInv
<1>. QED BY <1>1, Invariant, PTL

\* Nobody gives a quarantined task an outcome before its fence (resolve_orphaned), not
\* even the worker that owns its token (finish_execution, acknowledge_cancellation).
THEOREM FenceCorrect == Spec => OrphanIsFenced
<1>1. IInv /\ [Next]_vars => [(status = "ORPHANED" /\ due > 0) => status' = "ORPHANED"]_vars
  <2> SUFFICES ASSUME IInv, [Next]_vars, status = "ORPHANED", due > 0
               PROVE  status' = "ORPHANED"
    OBVIOUS
  <2> USE DEF IInv, TypeOK, Answers, Startable, Terminal, Submitting, record, vars
  <2>1. ASSUME NEW c \in Caller,
               ReserveNew(c) \/ FindExisting(c) \/ Quiet(c) \/ MarkQueued(c) \/ MarkDispatchFailed(c)
        PROVE  status' = "ORPHANED"
    BY <2>1 DEF ReserveNew, FindExisting, Quiet, Publish, PublishRaises, SubmitterLost,
                MarkQueued, MarkDispatchFailed
  <2>2. ASSUME NEW w \in Worker, Claim(w) \/ Stops(w) \/ Updates(w) \/ DisallowCancellation(w)
        PROVE  status' = "ORPHANED"
    BY <2>2 DEF Claim, Stops, ClaimRefused, WorkRaises, WorkerLost, Updates, Update, Owns,
                DisallowCancellation
  <2>3. ASSUME RequestCancellation \/ Tick \/ Reconcile \/ ResolveOrphaned \/ UNCHANGED vars
        PROVE  status' = "ORPHANED"
    BY <2>3 DEF RequestCancellation, Tick, Reconcile, FailStaleSubmitting, FailExpiredQueued,
                ReconcileExpiredExecution, ResolveOrphaned, Expire
  <2>. QED BY <2>1, <2>2, <2>3, StepKinds
<1>. QED BY <1>1, Invariant, PTL DEF Spec, OrphanIsFenced

\* The state promised for each status, one by one.
LEMMA PromisedStates ==
  /\ status = "none" => PromisedState = "unknown"
  /\ status \in Startable => PromisedState = "accepted"
  /\ status \in {"RUNNING", "CANCELLING"} => PromisedState = "executing"
  /\ status = "ORPHANED" => PromisedState = "quarantined"
  /\ status = "SUCCEEDED" => PromisedState = "succeeded"
  /\ status = "FAILED" => PromisedState = "failed"
  /\ status = "CANCELLED" => PromisedState = "cancelled"
BY DEF PromisedState, Startable

\* The same of the next state.
LEMMA PromisedStatesNext ==
  /\ status' = "none" => PromisedState' = "unknown"
  /\ status' \in Startable => PromisedState' = "accepted"
  /\ status' \in {"RUNNING", "CANCELLING"} => PromisedState' = "executing"
  /\ status' = "ORPHANED" => PromisedState' = "quarantined"
  /\ status' = "SUCCEEDED" => PromisedState' = "succeeded"
  /\ status' = "FAILED" => PromisedState' = "failed"
  /\ status' = "CANCELLED" => PromisedState' = "cancelled"
BY DEF PromisedState, Startable

\* Every step of the task is a step of the promise, or changes nothing of it.
LEMMA PromiseStep ==
  ASSUME IInv, [Next]_vars
  PROVE  [Promise!Next]_(Promise!promise)
<1> DEFINE Same == PromisedState' = PromisedState /\ token' = token
           Goal == Promise!Next \/ Same
<1> SUFFICES Goal
  BY DEF Promise!promise
<1> USE DEF IInv, TypeOK, Status, Unfinished, Startable, Terminal
<1>0. status' = status => PromisedState' = PromisedState
  BY DEF PromisedState
<1>1. ASSUME NEW c \in Caller, ReserveNew(c)
      PROVE  Goal
  BY <1>1, PromisedStates, PromisedStatesNext DEF ReserveNew, Promise!Next, Promise!Accept
<1>2. ASSUME NEW c \in Caller, FindExisting(c) \/ Quiet(c)
      PROVE  Goal
  BY <1>0, <1>2 DEF FindExisting, Quiet, Publish, PublishRaises, SubmitterLost, record
<1>3. ASSUME NEW c \in Caller, MarkQueued(c)
      PROVE  Goal
  BY <1>0, <1>3, PromisedStates, PromisedStatesNext DEF MarkQueued
<1>4. ASSUME NEW c \in Caller, MarkDispatchFailed(c)
      PROVE  Goal
  BY <1>0, <1>4, PromisedStates, PromisedStatesNext
  DEF MarkDispatchFailed, Promise!Next, Promise!Drop
<1>5. ASSUME NEW w \in Worker, Claim(w)
      PROVE  Goal
  <2>1. token = None
    BY <1>5 DEF Claim, Ownership
  <2>. QED BY <1>5, <2>1, PromisedStates, PromisedStatesNext
           DEF Claim, Promise!Next, Promise!Start
<1>6. ASSUME NEW w \in Worker, Stops(w) \/ DisallowCancellation(w)
      PROVE  Goal
  BY <1>0, <1>6 DEF Stops, ClaimRefused, WorkRaises, WorkerLost, DisallowCancellation, record
<1>7. ASSUME NEW w \in Worker, Updates(w)
      PROVE  Goal
  BY <1>0, <1>7, PromisedStates, PromisedStatesNext
  DEF Updates, Update, Owns, Promise!Next, Promise!Finish
<1>8. CASE RequestCancellation
  <2>1. CASE status \in Startable /\ status' = "CANCELLED"
    BY <1>8, <2>1, PromisedStates, PromisedStatesNext
    DEF RequestCancellation, Promise!Next, Promise!Drop
  <2>2. CASE status = "RUNNING" /\ status' = "CANCELLING"
    BY <1>8, <2>2, PromisedStates, PromisedStatesNext DEF RequestCancellation
  <2>3. CASE status' = status
    BY <1>0, <1>8, <2>3 DEF RequestCancellation
  <2>. QED BY <1>8, <2>1, <2>2, <2>3 DEF RequestCancellation
<1>9. CASE Tick \/ UNCHANGED vars
  <2>1. status' = status /\ token' = token
    BY <1>9 DEF Tick, vars
  <2>. QED BY <1>0, <2>1
<1>10. CASE Reconcile \/ ResolveOrphaned
  BY <1>10, PromisedStates, PromisedStatesNext
  DEF Reconcile, FailStaleSubmitting, FailExpiredQueued, ReconcileExpiredExecution,
      ResolveOrphaned, Expire, Promise!Next, Promise!Drop, Promise!Quarantine, Promise!Resolve
<1> HIDE DEF Goal, IInv
<1>. QED
  BY <1>1, <1>2, <1>3, <1>4, <1>5, <1>6, <1>7, <1>8, <1>9, <1>10, StepKinds

\* The registry (all of CeleryTaskDao and CeleryTaskService) executes a task at most once,
\* its outcome is final, and a lost execution has none until somebody resolved it.
THEOREM PromiseCorrect == Spec => ImplementsPromise
<1>1. Init => Promise!Init
  BY PromisedStates DEF Init, Promise!Init
<1>2. IInv /\ [Next]_vars => [Promise!Next]_(Promise!promise)
  BY PromiseStep
<1>. QED BY <1>1, <1>2, Invariant, PTL DEF Spec, ImplementsPromise, Promise!Spec
=============================================================================
