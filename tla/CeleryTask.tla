----------------------------- MODULE CeleryTask -----------------------------
(***************************************************************************)
(* One asynchronous task: the record the database keeps under an           *)
(* idempotency key, the callers that submit it, the broker that delivers   *)
(* it late, twice or not at all, the workers that compete to execute it,   *)
(* the client that cancels it and the reconcilers that give up on it.      *)
(*                                                                         *)
(*   storage    internal/dao/celery_task.py                                *)
(*   service    internal/services/celery_task.py                           *)
(*   workers    internal/tasks/celery_idempotency_demo.py, reconciler.py   *)
(*                                                                         *)
(* Every transaction is one conditional update of the record, hence one    *)
(* action; a worker may not learn what its update did.  Callers and        *)
(* workers may stop between any two transactions.                          *)
(***************************************************************************)
EXTENDS Naturals

CONSTANTS
  Caller,      \* submissions with the same scope, task name and idempotency key
  Payload,     \* hashes of what is submitted
  PayloadOf,   \* the payload of each caller
  Worker,      \* deliveries; the identity of one is its execution_token
  ConfirmTime, \* publish_confirm_timeout_seconds, in ticks
  QueueTime,   \* queue_start_timeout_seconds
  HardTime,    \* time limit of the task plus execution_deadline_grace_seconds
  FenceTime,   \* orphan_fence_seconds
  None         \* NULL

ASSUME CallerAssumption == PayloadOf \in [Caller -> Payload] /\ None \notin Payload
ASSUME WorkerAssumption == None \notin Worker
ASSUME TimeAssumption ==
  /\ ConfirmTime \in Nat \ {0} /\ QueueTime \in Nat \ {0}
  /\ HardTime \in Nat \ {0} /\ FenceTime \in Nat \ {0}

VARIABLES
  \* the record
  status,        \* its status, "none" before it is reserved
  payload,       \* payload_hash
  token,         \* execution_token
  attempts,      \* attempt_count
  cancelAllowed, \* cancel_allowed
  due,           \* ticks until the deadline of the current status
  \* the broker
  sent,          \* whether it ever accepted the message
  \* the processes
  submitter,     \* where each submit_once is
  answer,        \* what each submit_once returned
  accepted,      \* whether a cancellation was ever accepted
  worker         \* where each delivery is

record == <<status, payload, token, attempts, cancelAllowed, due>>
vars == <<status, payload, token, attempts, cancelAllowed, due, sent,
          submitter, answer, accepted, worker>>

-----------------------------------------------------------------------------
(* Types *)

Startable  == {"SUBMITTING", "QUEUED"}
Terminal   == {"SUCCEEDED", "FAILED", "CANCELLED"}
Unfinished == Startable \cup {"RUNNING", "CANCELLING"}
Status     == Unfinished \cup Terminal \cup {"ORPHANED"}

Submitting == {"publishing", "confirming", "failing"}
Executing  == {"begin", "check", "saving", "unsaved", "failing", "unfailed"}
Ended      == {"returned", "ignored", "raised"}

ASSUME NoneAssumption == None \notin Status \cup {"conflict", "unavailable"}

Init ==
  /\ status = "none" /\ payload = None /\ token = None
  /\ attempts = 0 /\ cancelAllowed = TRUE /\ due = 0
  /\ sent = FALSE
  /\ submitter = [c \in Caller |-> "idle"]
  /\ answer = [c \in Caller |-> None]
  /\ accepted = FALSE
  /\ worker = [w \in Worker |-> "idle"]

SubmitterAt(c, place) == submitter' = [submitter EXCEPT ![c] = place]
WorkerAt(w, place)    == worker' = [worker EXCEPT ![w] = place]
Answer(c, a)          == answer' = [answer EXCEPT ![c] = a]

-----------------------------------------------------------------------------
(* Submission *)

\* reserve_task: the key is unique, so only one caller creates the record.
ReserveNew(c) ==
  /\ submitter[c] = "idle" /\ status = "none"
  /\ status' = "SUBMITTING" /\ payload' = PayloadOf[c] /\ due' = ConfirmTime
  /\ SubmitterAt(c, "publishing")
  /\ UNCHANGED <<token, attempts, cancelAllowed, sent, answer, accepted, worker>>

\* The others are told what became of it, or that theirs is a different task.
FindExisting(c) ==
  /\ submitter[c] = "idle" /\ status # "none"
  /\ Answer(c, IF payload = PayloadOf[c] THEN status ELSE "conflict")
  /\ SubmitterAt(c, "done")
  /\ UNCHANGED <<record, sent, accepted, worker>>

\* The broker accepts the message, whether or not the caller learns it.
Publish(c) ==
  /\ submitter[c] = "publishing"
  /\ sent' = TRUE
  /\ \E place \in {"confirming", "failing"} : SubmitterAt(c, place)
  /\ UNCHANGED <<record, answer, accepted, worker>>

PublishRaises(c) ==
  /\ submitter[c] = "publishing"
  /\ SubmitterAt(c, "failing")
  /\ UNCHANGED <<record, sent, answer, accepted, worker>>

MarkQueued_Unguarded(c) ==
  /\ submitter[c] = "confirming"
  /\ status' = "QUEUED" /\ due' = QueueTime
  /\ Answer(c, status')
  /\ SubmitterAt(c, "done")
  /\ UNCHANGED <<payload, token, attempts, cancelAllowed, sent, accepted, worker>>

MarkQueued(c) ==
  /\ submitter[c] = "confirming"
  /\ IF status = "SUBMITTING" THEN status' = "QUEUED" /\ due' = QueueTime
                             ELSE UNCHANGED <<status, due>>
  /\ Answer(c, status')
  /\ SubmitterAt(c, "done")
  /\ UNCHANGED <<payload, token, attempts, cancelAllowed, sent, accepted, worker>>

MarkDispatchFailed_Unguarded(c) ==
  /\ submitter[c] = "failing"
  /\ status' = "FAILED" /\ Answer(c, "unavailable")
  /\ SubmitterAt(c, "done")
  /\ UNCHANGED <<payload, token, attempts, cancelAllowed, due, sent, accepted, worker>>

\* A task that was started all the same is reported as it is.
MarkDispatchFailed(c) ==
  /\ submitter[c] = "failing"
  /\ IF status = "SUBMITTING"
     THEN status' = "FAILED" /\ Answer(c, "unavailable")
     ELSE UNCHANGED status /\ Answer(c, status)
  /\ SubmitterAt(c, "done")
  /\ UNCHANGED <<payload, token, attempts, cancelAllowed, due, sent, accepted, worker>>

\* The caller's process dies, or a transaction of it fails.
SubmitterLost(c) ==
  /\ submitter[c] \in Submitting
  /\ SubmitterAt(c, "done")
  /\ UNCHANGED <<record, sent, answer, accepted, worker>>

-----------------------------------------------------------------------------
(* Cancellation by the client *)

\* The record is locked; a task that was not started is cancelled, one that runs is
\* asked to stop unless it closed the gate.  Revoking the message changes nothing: the
\* broker may fail to deliver it anyway.
RequestCancellation ==
  /\ \/ status \in Startable /\ status' = "CANCELLED"
     \/ status = "RUNNING" /\ cancelAllowed /\ status' = "CANCELLING"
     \/ status \in {"CANCELLING", "CANCELLED"} /\ UNCHANGED status
  /\ accepted' = TRUE
  /\ UNCHANGED <<payload, token, attempts, cancelAllowed, due, sent,
                 submitter, answer, worker>>

-----------------------------------------------------------------------------
(* Execution *)

\* A delivery, perhaps not the first, claims the right to execute.  The reply may be
\* lost, and the execution with it.
Claim(w) ==
  /\ sent /\ worker[w] = "idle" /\ status \in Startable
  /\ status' = "RUNNING" /\ token' = w /\ attempts' = attempts + 1
  /\ cancelAllowed' = TRUE /\ due' = HardTime
  /\ \E place \in {"begin", "raised"} : WorkerAt(w, place)
  /\ UNCHANGED <<payload, sent, submitter, answer, accepted>>

ClaimRefused(w) ==
  /\ sent /\ worker[w] = "idle" /\ status \notin Startable
  /\ WorkerAt(w, "ignored")
  /\ UNCHANGED <<record, sent, submitter, answer, accepted>>

Owns(w, s) == status = s /\ token = w

(***************************************************************************)
(* Worker w sets the status to `to` if it owns the task in status `from`,  *)
(* and goes on at `done` if it did, at `refused` if not, and at `broken`   *)
(* if it does not learn which.                                             *)
(***************************************************************************)
Update(w, from, to, done, refused, broken) ==
  /\ status' = IF Owns(w, from) THEN to ELSE status
  /\ \/ WorkerAt(w, IF Owns(w, from) THEN done ELSE refused)
     \/ WorkerAt(w, broken)
  /\ UNCHANGED <<payload, token, attempts, cancelAllowed, due, sent,
                 submitter, answer, accepted>>

\* acknowledge_cancellation
Acknowledge(w, refused, broken) ==
  Update(w, "CANCELLING", "CANCELLED", "ignored", refused, broken)

\* The checkpoints before and after the work.
CheckBefore(w) == worker[w] = "begin" /\ Acknowledge(w, "check", "failing")
CheckAfter(w)  == worker[w] = "check" /\ Acknowledge(w, "saving", "failing")

\* A task that enters a stage that cannot be cancelled closes the gate between its
\* checkpoints (no task of the repository does it yet).
DisallowCancellation(w) ==
  /\ worker[w] = "check" /\ Owns(w, "RUNNING") /\ cancelAllowed
  /\ cancelAllowed' = FALSE
  /\ UNCHANGED <<status, payload, token, attempts, due, sent,
                 submitter, answer, accepted, worker>>

\* succeed: two transactions, the second only if the first was refused.
Succeed_TokenOnly(w) ==
  /\ worker[w] = "saving"
  /\ status' = IF token = w THEN "SUCCEEDED" ELSE status
  /\ WorkerAt(w, IF token = w THEN "returned" ELSE "unsaved")
  /\ UNCHANGED <<payload, token, attempts, cancelAllowed, due, sent,
                 submitter, answer, accepted>>

Succeed(w) ==
  /\ worker[w] = "saving"
  /\ Update(w, "RUNNING", "SUCCEEDED", "returned", "unsaved", "raised")

SucceedRefused(w) == worker[w] = "unsaved" /\ Acknowledge(w, "raised", "raised")

\* fail: the same.
Fail(w) ==
  /\ worker[w] = "failing"
  /\ Update(w, "RUNNING", "FAILED", "raised", "unfailed", "raised")

FailRefused(w) == worker[w] = "unfailed" /\ Acknowledge(w, "raised", "raised")

\* The work, or a transaction, raises: inside the try block this leads to fail.
WorkRaises(w) ==
  /\ worker[w] \in {"begin", "check"}
  /\ WorkerAt(w, "failing")
  /\ UNCHANGED <<record, sent, submitter, answer, accepted>>

\* The worker process is killed or loses the database.
WorkerLost(w) ==
  /\ worker[w] \in Executing
  /\ WorkerAt(w, "raised")
  /\ UNCHANGED <<record, sent, submitter, answer, accepted>>

-----------------------------------------------------------------------------
(* Deadlines *)

Tick ==
  /\ due > 0 /\ due' = due - 1
  /\ UNCHANGED <<status, payload, token, attempts, cancelAllowed, sent,
                 submitter, answer, accepted, worker>>

\* One record of a reconciler's batch.
Expire(from, to) ==
  /\ status \in from /\ due = 0
  /\ status' = to
  /\ UNCHANGED <<payload, token, attempts, cancelAllowed, sent,
                 submitter, answer, accepted, worker>>

FailStaleSubmitting == Expire({"SUBMITTING"}, "FAILED") /\ UNCHANGED due
FailExpiredQueued   == Expire({"QUEUED"}, "FAILED") /\ UNCHANGED due

ReconcileExpiredExecution_OnlyRunning == Expire({"RUNNING"}, "ORPHANED") /\ due' = FenceTime

\* A task that overran its deadline may still be running: it is put in quarantine.
ReconcileExpiredExecution ==
  Expire({"RUNNING", "CANCELLING"}, "ORPHANED") /\ due' = FenceTime

\* Somebody found out what a lost task did, after the fence.
ResolveOrphaned ==
  \E outcome \in {"FAILED", "CANCELLED"} : Expire({"ORPHANED"}, outcome) /\ UNCHANGED due

-----------------------------------------------------------------------------

Submit(c) ==
  \/ ReserveNew(c) \/ FindExisting(c) \/ Publish(c) \/ PublishRaises(c)
  \/ MarkQueued(c) \/ MarkDispatchFailed(c) \/ SubmitterLost(c)

Execute(w) ==
  \/ Claim(w) \/ ClaimRefused(w)
  \/ CheckBefore(w) \/ CheckAfter(w) \/ DisallowCancellation(w)
  \/ Succeed(w) \/ SucceedRefused(w) \/ Fail(w) \/ FailRefused(w)
  \/ WorkRaises(w) \/ WorkerLost(w)

Reconcile == FailStaleSubmitting \/ FailExpiredQueued \/ ReconcileExpiredExecution

Next ==
  \/ \E c \in Caller : Submit(c)
  \/ \E w \in Worker : Execute(w)
  \/ RequestCancellation
  \/ Tick \/ Reconcile \/ ResolveOrphaned

Spec == Init /\ [][Next]_vars

(***************************************************************************)
(* Time passes and beat runs the reconcilers periodically.  Nothing is     *)
(* assumed of callers, workers, the broker or the client.                  *)
(***************************************************************************)
FairSpec == Spec /\ WF_vars(Tick) /\ WF_vars(Reconcile)

-----------------------------------------------------------------------------
(* Properties *)

TypeOK ==
  /\ status \in Status \cup {"none"} /\ payload \in Payload \cup {None}
  /\ token \in Worker \cup {None} /\ attempts \in Nat
  /\ payload = None <=> status = "none"
  /\ token = None <=> attempts = 0
  /\ cancelAllowed \in BOOLEAN /\ due \in Nat /\ sent \in BOOLEAN
  /\ submitter \in [Caller -> Submitting \cup {"idle", "done"}]
  /\ answer \in [Caller -> Status \cup {"conflict", "unavailable", None}]
  /\ accepted \in BOOLEAN
  /\ worker \in [Worker -> Executing \cup Ended \cup {"idle"}]

\* However often the message is delivered, whatever the order of publish confirmation
\* and claim, the task is executed at most once, and only by the owner of the token.
AtMostOneExecution ==
  /\ attempts <= 1
  /\ \A w \in Worker : worker[w] \in Executing \cup {"returned"} => token = w

\* A caller that was told the task could not be published can rely on it: the message,
\* should it be in the broker all the same, is never executed.
RefusalIsDefinitive ==
  (\E c \in Caller : answer[c] = "unavailable") => status = "FAILED" /\ attempts = 0

\* A cancellation that was accepted is honoured: the task is never recorded as
\* succeeded, and the worker does not report success.
CancellationIsHonoured ==
  accepted => status # "SUCCEEDED" /\ \A w \in Worker : worker[w] # "returned"

\* What a worker returns and what the database says agree, even if its deadline passed
\* or a cancellation arrived while it was saving.
ResultIsRecorded ==
  \A w \in Worker : worker[w] = "returned" => status = "SUCCEEDED"

\* Callers that were given the task, in whatever state, asked for the same task.
SameKeySamePayload ==
  \A c, d \in Caller :
    answer[c] \in Status /\ answer[d] \in Status => PayloadOf[c] = PayloadOf[d]

\* Once the gate is closed the task is neither asked to stop nor stopped by its worker.
GateStaysClosed ==
  ~cancelAllowed => status # "CANCELLING"

\* A task whose worker may still be running gets no final status before the fence has
\* expired, not even from that worker.
OrphanIsFenced ==
  [][(status = "ORPHANED" /\ due > 0) => status' = "ORPHANED"]_vars

\* No task stays submitting, queued, running or cancelling forever, whoever dies.
TasksSettle == status \in Unfinished ~> status \notin Unfinished

\* What the status says, in the words of the promise.
PromisedState ==
  CASE status = "none"                      -> "unknown"
    [] status \in Startable                 -> "accepted"
    [] status \in {"RUNNING", "CANCELLING"} -> "executing"
    [] status = "ORPHANED"                  -> "quarantined"
    [] status = "SUCCEEDED"                 -> "succeeded"
    [] status = "FAILED"                    -> "failed"
    [] status = "CANCELLED"                 -> "cancelled"

Promise == INSTANCE TaskPromise
  WITH Executor <- Worker, executor <- token, state <- PromisedState

\* The registry implements what it promises.
ImplementsPromise == Promise!Spec
=============================================================================
