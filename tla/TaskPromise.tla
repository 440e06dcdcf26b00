----------------------------- MODULE TaskPromise -----------------------------
(***************************************************************************)
(* What the registry of asynchronous tasks promises about one task,        *)
(* without brokers, messages, deadlines or races: it is executed at most   *)
(* once, its outcome is final, and a task whose executor was lost has no   *)
(* outcome until somebody has looked.  CeleryTask is shown to implement    *)
(* this specification.                                                     *)
(***************************************************************************)
CONSTANTS Executor, \* the possible executors
          None      \* no executor

VARIABLES state,    \* what is known of the task
          executor  \* who was given the task

promise == <<state, executor>>

Init == state = "unknown" /\ executor = None

-----------------------------------------------------------------------------

Accept == state = "unknown" /\ state' = "accepted" /\ UNCHANGED executor

\* The task is handed to an executor, once.
Start(e) ==
  /\ state = "accepted" /\ executor = None
  /\ state' = "executing" /\ executor' = e

\* A task nobody started ends without an effect.
Drop ==
  /\ state = "accepted"
  /\ state' \in {"failed", "cancelled"}
  /\ UNCHANGED executor

\* The executor reports.
Finish ==
  /\ state = "executing"
  /\ state' \in {"succeeded", "failed", "cancelled"}
  /\ UNCHANGED executor

\* The executor is given up; what it did is not known.
Quarantine == state = "executing" /\ state' = "quarantined" /\ UNCHANGED executor

\* Somebody found out what it did.
Resolve ==
  /\ state = "quarantined"
  /\ state' \in {"failed", "cancelled"}
  /\ UNCHANGED executor

Next == Accept \/ (\E e \in Executor : Start(e)) \/ Drop \/ Finish \/ Quarantine \/ Resolve

Spec == Init /\ [][Next]_promise
=============================================================================
