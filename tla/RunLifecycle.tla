---------------------------- MODULE RunLifecycle ----------------------------
(***************************************************************************)
(* What a managed agent run promises to its clients, without executors,    *)
(* leases, checkpoints or failures: one status, at most one holder of the  *)
(* right to execute, and one answer that is published exactly when the run *)
(* completes.  ManagedRun is shown to implement this specification.        *)
(***************************************************************************)
CONSTANTS Holder, \* the possible holders of the right to execute
          None    \* no holder

VARIABLES status,   \* agent_run.status
          holder,   \* whose fencing token the run carries
          answered  \* whether the assistant message is visible

lifecycle == <<status, holder, answered>>

Active    == {"running", "interrupt_requested"}
Resumable == {"ready", "interrupted"}
Ended     == {"completed", "max_steps_reached", "failed", "recovery_required"}

Init == status = "ready" /\ holder = None /\ answered = FALSE

-----------------------------------------------------------------------------

\* A resume request obtains the right to execute a run nobody is executing.
Grant(h) ==
  /\ status \in Resumable
  /\ status' = "running" /\ holder' = h
  /\ UNCHANGED answered

\* A resume request takes the right from a holder that was lost.
TakeOver(h) ==
  /\ status \in Active /\ holder # h
  /\ status' = "running" /\ holder' = h
  /\ UNCHANGED answered

\* A client asks the holder to pause.
AskToPause ==
  /\ status = "running"
  /\ status' = "interrupt_requested"
  /\ UNCHANGED <<holder, answered>>

\* The run stops being executed and can be resumed.
Pause ==
  /\ status \in Active
  /\ status' = "interrupted" /\ holder' = None
  /\ UNCHANGED answered

\* The run completes: status and answer become visible in one step.
Complete ==
  /\ status \in Active
  /\ status' = "completed" /\ holder' = None /\ answered' = TRUE

\* The run ends without an answer.
Abort ==
  /\ status \in Active
  /\ status' \in Ended \ {"completed"} /\ holder' = None
  /\ UNCHANGED answered

Next ==
  \/ \E h \in Holder : Grant(h) \/ TakeOver(h)
  \/ AskToPause
  \/ Pause
  \/ Complete
  \/ Abort

Spec == Init /\ [][Next]_lifecycle
=============================================================================
