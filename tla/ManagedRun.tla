----------------------------- MODULE ManagedRun -----------------------------
(***************************************************************************)
(* One managed agent run: the rows the database keeps for it (run,         *)
(* checkpoint, attempts, steps, assistant message), the resume requests    *)
(* that compete to execute it, and the client that interrupts and polls.   *)
(*                                                                         *)
(*   storage   internal/services/agents/conversation.py                    *)
(*   executor  internal/services/agents/execution.py, pkg/agents/react.py  *)
(*                                                                         *)
(* Every database transaction takes the row lock of the run first, so a    *)
(* transaction is one action.  What is not atomic is everything between    *)
(* transactions: model calls, tool calls, lost replies, crashes, and the   *)
(* time a transaction waited for the row lock after it read the clock.     *)
(***************************************************************************)
EXTENDS Integers, Sequences

CONSTANTS
  Request,    \* resume requests; a request that is granted is an executor,
              \* and its identity is the fencing token it was given
  Key,        \* values of request_key
  KeyOf,      \* the request_key of each request
  Tool,       \* tools the model may call
  Policy,     \* replay_policy of each tool
  MaxSteps,   \* max_steps of the run
  LeaseTime,  \* agent.lease_seconds, in ticks
  MaxWait,    \* longest wait for the row lock after reading the clock, in ticks
  EntryPhase, \* phase of the checkpoint the run is created with
  None        \* NULL

ASSUME RequestAssumption == None \notin Request /\ KeyOf \in [Request -> Key]
ASSUME ToolAssumption ==
  /\ None \notin Tool /\ "final" \notin Tool /\ None # "final"
  /\ Policy \in [Tool -> {"replay_safe", "idempotent", "non_replayable"}]
ASSUME StatusAssumption ==
  None \notin {"ready", "running", "interrupt_requested", "interrupted", "completed",
               "max_steps_reached", "failed", "recovery_required"}
ASSUME BoundAssumption ==
  /\ MaxSteps \in Nat \ {0} /\ LeaseTime \in Nat \ {0} /\ MaxWait \in Nat
ASSUME EntryAssumption == EntryPhase \in {"routing", "before_action"}

VARIABLES
  \* the database
  status,    \* agent_run.status
  token,     \* agent_run.lease_token
  lease,     \* agent_run.lease_expires_at, relative to the current time
  ckpt,      \* agent_run_checkpoint (its revision is agent_run.checkpoint_revision)
  attempts,  \* agent_run_attempt.status by request_key
  rows,      \* agent_run_step by step_index
  assistant, \* whether the assistant message exists
  messages,  \* agent_session.message_count
  \* the executors
  pc,        \* where each request's handler is
  cp,        \* DatabaseAgentRunRuntime._checkpoint: the last acknowledged one
  verdict,   \* the status the handler will finalize its attempt with
  calls      \* every tool call that was started (history)

database == <<status, token, lease, ckpt, attempts, rows, assistant, messages>>
vars == <<status, token, lease, ckpt, attempts, rows, assistant, messages,
          pc, cp, verdict, calls>>

-----------------------------------------------------------------------------
(* Types *)

Active    == {"running", "interrupt_requested"}
Resumable == {"ready", "interrupted"}
Ended     == {"completed", "max_steps_reached", "failed", "recovery_required"}
Status    == Active \cup Resumable \cup Ended
Verdict   == Ended \cup {"interrupted"}

Phase == {"routing", "before_action", "before_tool", "tool_in_flight", "final_ready"}
Index == 1..MaxSteps              \* step_index + 1
Action == Tool \cup {"final"}
Checkpoint == [phase : Phase, steps : Seq(Action), pending : Tool \cup {None}, rev : Nat]

\* Where a handler that executes the run can be; the other places are before the
\* claim (idle), after a refused claim (refused), finalizing, and gone.
Working == {"dispatch", "loop", "pausing", "think", "armed", "tool", "calling", "final"}
Place   == Working \cup {"idle", "refused", "closing", "done"}

NonReplayable(t) == Policy[t] = "non_replayable"

Init ==
  /\ status = "ready" /\ token = None /\ lease = 0
  /\ ckpt = [phase |-> EntryPhase, steps |-> <<>>, pending |-> None, rev |-> 0]
  /\ attempts = [k \in Key |-> None]
  /\ rows = [i \in Index |-> None]
  /\ assistant = FALSE /\ messages = 1
  /\ pc = [r \in Request |-> "idle"]
  /\ cp = [r \in Request |-> ckpt]
  /\ verdict = [r \in Request |-> None]
  /\ calls = {}

-----------------------------------------------------------------------------
(* Moves of a handler *)

Goto(r, place) == pc' = [pc EXCEPT ![r] = place] /\ UNCHANGED verdict

Close(r, v) == pc' = [pc EXCEPT ![r] = "closing"] /\ verdict' = [verdict EXCEPT ![r] = v]

\* The status a handler finalizes with after an error, and after a cancellation,
\* when c is the last checkpoint the database acknowledged to it.
ErrorVerdict(c)  == IF c.phase = "tool_in_flight" THEN "recovery_required" ELSE "failed"
CancelVerdict(c) == IF c.phase = "tool_in_flight" THEN "recovery_required" ELSE "interrupted"

-----------------------------------------------------------------------------
(* Losing and gaining the right to execute *)

Release == token' = None /\ lease' = 0

\* What a run whose executor was lost becomes: a tool call whose outcome is unknown
\* and that must not be repeated needs manual recovery, and so does any checkpoint
\* whose definition_version this instance does not support.
RecoveredStatus(c) ==
  {"recovery_required"} \cup
  (IF c.phase = "tool_in_flight" /\ NonReplayable(c.pending) THEN {} ELSE {"interrupted"})

LoadRun_OnlyRunning ==
  /\ status = "running" /\ lease <= 0
  /\ status' \in RecoveredStatus(ckpt)
  /\ Release
  /\ UNCHANGED <<ckpt, attempts, rows, assistant, messages, pc, cp, verdict, calls>>

LoadRun_OneTickEarly ==
  /\ status \in Active /\ lease <= 1
  /\ status' \in RecoveredStatus(ckpt)
  /\ Release
  /\ UNCHANGED <<ckpt, attempts, rows, assistant, messages, pc, cp, verdict, calls>>

\* The client polls the run; a lost executor is noticed under the row lock.
LoadRun ==
  /\ status \in Active /\ lease <= 0
  /\ status' \in RecoveredStatus(ckpt)
  /\ Release
  /\ UNCHANGED <<ckpt, attempts, rows, assistant, messages, pc, cp, verdict, calls>>

\* A request that does not become an executor: its key is known, the run is being
\* executed, or the run has ended.
ClaimRefused(r) ==
  /\ pc[r] = "idle"
  /\ \/ attempts[KeyOf[r]] # None
     \/ status \in Active /\ \E wait \in 0..MaxWait : lease + wait > 0
     \/ status \in Ended
  /\ Goto(r, "refused")
  /\ UNCHANGED <<database, cp, calls>>

\* A request finds a lost executor, and the run cannot be resumed.
ClaimUnrecoverable(r) ==
  /\ pc[r] = "idle" /\ attempts[KeyOf[r]] = None
  /\ status \in Active /\ lease <= 0
  /\ status' \in RecoveredStatus(ckpt) \ {"interrupted"}
  /\ Release
  /\ Goto(r, "refused")
  /\ UNCHANGED <<ckpt, attempts, rows, assistant, messages, cp, calls>>

Claim_IgnoresKey(r) ==
  /\ pc[r] = "idle"
  /\ status \in Resumable
  /\ lease' = LeaseTime
  /\ status' = "running" /\ token' = r
  /\ attempts' = [attempts EXCEPT ![KeyOf[r]] = "running"]
  /\ cp' = [cp EXCEPT ![r] = ckpt]
  /\ Goto(r, "dispatch")
  /\ UNCHANGED <<ckpt, rows, assistant, messages, calls>>

\* A request becomes the executor, of a resumable run or of one it recovered first.
Claim(r) ==
  /\ pc[r] = "idle" /\ attempts[KeyOf[r]] = None
  /\ \E wait \in 0..MaxWait :
       /\ \/ status \in Resumable
          \/ /\ status \in Active /\ lease + wait <= 0
             /\ "interrupted" \in RecoveredStatus(ckpt)
       /\ lease' = LeaseTime - wait
  /\ status' = "running" /\ token' = r
  /\ attempts' = [attempts EXCEPT ![KeyOf[r]] = "running"]
  /\ cp' = [cp EXCEPT ![r] = ckpt]
  /\ Goto(r, "dispatch")
  /\ UNCHANGED <<ckpt, rows, assistant, messages, calls>>

\* The heartbeat task of a working executor renews a lease that is still valid.
Heartbeat(r) ==
  /\ pc[r] \in Working /\ token = r /\ status \in Active
  /\ \E wait \in 0..MaxWait : lease + wait > 0 /\ lease' = LeaseTime - wait
  /\ UNCHANGED <<status, token, ckpt, attempts, rows, assistant, messages,
                 pc, cp, verdict, calls>>

Tick ==
  /\ token # None /\ lease > -MaxWait
  /\ lease' = lease - 1
  /\ UNCHANGED <<status, token, ckpt, attempts, rows, assistant, messages,
                 pc, cp, verdict, calls>>

\* The client, a disconnect or a slow consumer asks for a pause.
RequestInterrupt ==
  /\ status = "running"
  /\ status' = "interrupt_requested"
  /\ UNCHANGED <<token, lease, ckpt, attempts, rows, assistant, messages,
                 pc, cp, verdict, calls>>

-----------------------------------------------------------------------------
(* The single path of every managed write *)

\* The fence: token, lease and revision.
MayWrite(r, wait) == token = r /\ lease + wait > 0 /\ ckpt.rev = cp[r].rev

InsertMissing(new, steps) ==
  rows' = [i \in Index |-> IF i \in new /\ rows[i] = None THEN steps[i] ELSE rows[i]]

\* The assistant message is inserted, and counted, by an unpaused write that completes
\* the run.
Publishes_EvenPaused(paused, ends) == ends = "completed"
Publishes(paused, ends) == ~paused /\ ends = "completed"

\* The reply reaches the executor, or an error or a cancellation takes its place.
Reply(r, chosen, paused, after) ==
  \/ /\ cp' = [cp EXCEPT ![r] = chosen]
     /\ IF paused THEN Close(r, "interrupted")
        ELSE IF after \in Verdict THEN Close(r, after) ELSE Goto(r, after)
  \/ UNCHANGED cp /\ Close(r, ErrorVerdict(cp[r]))
  \/ UNCHANGED cp /\ Close(r, CancelVerdict(cp[r]))

(***************************************************************************)
(* Executor r commits w.to, or w.safe when an interrupt request is pending *)
(* and the write may be paused.  w.ends is the final status of the run, or *)
(* None; w.new are the steps it inserts; w.after says where the executor   *)
(* continues, or the verdict it stops with.                                *)
(***************************************************************************)
Commit(r, w) ==
  LET paused == w.pausable /\ status = "interrupt_requested"
      chosen == IF paused THEN w.safe ELSE w.to
      ends   == ~paused /\ w.ends # None
      answer == Publishes(paused, w.ends)
  IN /\ \E wait \in 0..MaxWait : MayWrite(r, wait)
     /\ ckpt' = chosen
     /\ status' = IF paused THEN "interrupted" ELSE IF ends THEN w.ends ELSE status
     /\ IF paused \/ ends THEN Release ELSE UNCHANGED <<token, lease>>
     /\ InsertMissing(w.new, w.to.steps)
     /\ assistant' = (assistant \/ answer)
     /\ messages' = IF answer THEN messages + 1 ELSE messages
     /\ Reply(r, chosen, paused, w.after)
     /\ UNCHANGED <<attempts, calls>>

\* An intermediate write: no step, no final status.
Advance(c, safe, after) ==
  [to |-> c, safe |-> safe, pausable |-> TRUE, ends |-> None, new |-> {}, after |-> after]

NextRevision(c) == [c EXCEPT !.rev = @ + 1]

AtPhase(c, phase) == [NextRevision(c) EXCEPT !.phase = phase]

-----------------------------------------------------------------------------
(* The executor *)

\* _run_agent_events verifies definition, model and confirmation tokens, and refuses
\* to repeat a tool call that must not be repeated.
RefuseResume(r) ==
  /\ pc[r] = "dispatch"
  /\ Close(r, "recovery_required")
  /\ UNCHANGED <<database, cp, calls>>

\* The router chose a business agent.
CommitRoute(r) ==
  /\ pc[r] = "dispatch" /\ cp[r].phase = "routing"
  /\ LET routed == AtPhase(cp[r], "before_action")
     IN Commit(r, Advance(routed, routed, "loop"))

\* The router chose no agent: the fixed answer is committed, interrupt or not.
CommitDegraded(r) ==
  /\ pc[r] = "dispatch" /\ cp[r].phase = "routing"
  /\ LET answer == AtPhase(cp[r], "final_ready")
     IN Commit(r, [to |-> answer, safe |-> answer, pausable |-> FALSE,
                   ends |-> "completed", new |-> {}, after |-> "completed"])

\* The place in the loop from which a checkpoint is driven on.
EntryPlace(c) ==
  CASE c.phase = "before_action"  -> "loop"
    [] c.phase = "before_tool"    -> "armed"
    [] c.phase = "tool_in_flight" -> "tool"
    [] c.phase = "final_ready"    -> "final"

Drive(r) ==
  /\ pc[r] = "dispatch" /\ cp[r].phase # "routing"
  /\ ~(cp[r].phase = "tool_in_flight" /\ NonReplayable(cp[r].pending))
  /\ Goto(r, EntryPlace(cp[r]))
  /\ UNCHANGED <<database, cp, calls>>

\* Before each model call the executor reads the control state, outside any lock.
ReadControl(r) ==
  /\ pc[r] = "loop" /\ Len(cp[r].steps) < MaxSteps
  /\ \E wait \in 0..MaxWait :
       LET owned == token = r /\ lease + wait > 0
       IN \/ owned /\ status = "running" /\ Goto(r, "think")
          \/ owned /\ status = "interrupt_requested" /\ Goto(r, "pausing")
          \/ ~owned /\ Close(r, "interrupted")
  /\ UNCHANGED <<database, cp, calls>>

\* The pause that a control read asked for.
CommitPause(r) ==
  /\ pc[r] = "pausing"
  /\ LET same == AtPhase(cp[r], cp[r].phase)
     IN Commit(r, Advance(same, same, "interrupted"))

\* The model chose a tool; the choice is persisted before anything is done about it.
CommitToolChoice(r) ==
  /\ pc[r] = "think"
  /\ \E t \in Tool :
       LET chosen == [AtPhase(cp[r], "before_tool") EXCEPT !.pending = t]
       IN Commit(r, Advance(chosen, chosen, "armed"))

CommitInFlight_Unmarked(r) ==
  /\ pc[r] = "armed"
  /\ Commit(r, Advance(AtPhase(cp[r], cp[r].phase), AtPhase(cp[r], cp[r].phase), "tool"))

CommitInFlight_NotPausable(r) ==
  /\ pc[r] = "armed"
  /\ Commit(r, [Advance(AtPhase(cp[r], "tool_in_flight"),
                        AtPhase(cp[r], cp[r].phase), "tool") EXCEPT !.pausable = FALSE])

\* The last write before the call: a pending interrupt keeps the earlier checkpoint.
CommitInFlight(r) ==
  /\ pc[r] = "armed"
  /\ Commit(r, Advance(AtPhase(cp[r], "tool_in_flight"),
                       AtPhase(cp[r], cp[r].phase), "tool"))

StartTool(r) ==
  /\ pc[r] = "tool"
  /\ calls' = calls \cup
       {[by |-> r, index |-> Len(cp[r].steps) + 1, tool |-> cp[r].pending]}
  /\ Goto(r, "calling")
  /\ UNCHANGED <<database, cp>>

CommitStep_OffByOne(r) ==
  /\ pc[r] = "calling"
  /\ LET done == [phase |-> "before_action", pending |-> None, rev |-> cp[r].rev + 1,
                  steps |-> Append(cp[r].steps, cp[r].pending)]
     IN Commit(r, [Advance(done, done, "loop") EXCEPT !.new = {Len(done.steps) - 1}])

\* The tool returned; its step and the next checkpoint are one write.
CommitStep(r) ==
  /\ pc[r] = "calling"
  /\ LET done == [phase |-> "before_action", pending |-> None, rev |-> cp[r].rev + 1,
                  steps |-> Append(cp[r].steps, cp[r].pending)]
     IN Commit(r, [Advance(done, done, "loop") EXCEPT !.new = {Len(done.steps)}])

CommitFinal_NotPausable(r, ready) ==
  LET done == [ready EXCEPT !.steps = Append(@, "final")]
  IN Commit(r, [to |-> done, safe |-> ready, pausable |-> FALSE, ends |-> "completed",
                new |-> 1..Len(done.steps), after |-> "completed"])

\* The final write.  A pending interrupt keeps the answer unpublished in final_ready,
\* but the final step is inserted either way.
CommitFinal(r, ready) ==
  LET done == [ready EXCEPT !.steps = Append(@, "final")]
  IN Commit(r, [to |-> done, safe |-> ready, pausable |-> TRUE, ends |-> "completed",
                new |-> 1..Len(done.steps), after |-> "completed"])

CommitNewFinal(r) ==
  /\ pc[r] = "think"
  /\ CommitFinal(r, AtPhase(cp[r], "final_ready"))

\* Resuming from final_ready: same checkpoint, same revision, no model call.
CommitSavedFinal(r) ==
  /\ pc[r] = "final"
  /\ CommitFinal(r, cp[r])

CommitMaxSteps(r) ==
  /\ pc[r] = "loop" /\ Len(cp[r].steps) >= MaxSteps
  /\ LET last == AtPhase(cp[r], "before_action")
     IN Commit(r, [to |-> last, safe |-> last, pausable |-> TRUE,
                   ends |-> "max_steps_reached", new |-> 1..Len(last.steps),
                   after |-> "max_steps_reached"])

-----------------------------------------------------------------------------
(* The ends of an executor *)

\* Where the next thing executor r does with the database is a write.
Writing(r) ==
  \/ pc[r] \in {"pausing", "think", "armed", "calling", "final"}
  \/ pc[r] = "dispatch" /\ cp[r].phase = "routing"
  \/ pc[r] = "loop" /\ Len(cp[r].steps) >= MaxSteps

\* A write that the fence refuses is an error of the executor.
CommitRefused(r) ==
  /\ Writing(r) /\ ~MayWrite(r, 0)
  /\ Close(r, ErrorVerdict(cp[r]))
  /\ UNCHANGED <<database, cp, calls>>

\* A model call, a tool call or the database fails, or the next checkpoint cannot be
\* encoded: it holds a value JSON does not have, or is too large.
Fail(r) ==
  /\ pc[r] \in Working
  /\ \/ Close(r, ErrorVerdict(cp[r]))
     \/ Writing(r) /\ Close(r, "recovery_required")
  /\ UNCHANGED <<database, cp, calls>>

\* The shutdown budget is used up and the execution scope is cancelled.
Cancel(r) ==
  /\ pc[r] \in Working
  /\ Close(r, CancelVerdict(cp[r]))
  /\ UNCHANGED <<database, cp, calls>>

Finalize_Unfenced(r) ==
  /\ pc[r] = "closing"
  /\ attempts' = [attempts EXCEPT ![KeyOf[r]] = IF @ = "running" THEN verdict[r] ELSE @]
  /\ status' = verdict[r] /\ Release
  /\ Goto(r, "done")
  /\ UNCHANGED <<ckpt, rows, assistant, messages, cp, calls>>

\* The attempt is closed; the run changes only if it is still this executor's.
Finalize(r) ==
  /\ pc[r] = "closing"
  /\ attempts' = [attempts EXCEPT ![KeyOf[r]] = IF @ = "running" THEN verdict[r] ELSE @]
  /\ IF token = r THEN status' = verdict[r] /\ Release
                  ELSE UNCHANGED <<status, token, lease>>
  /\ Goto(r, "done")
  /\ UNCHANGED <<ckpt, rows, assistant, messages, cp, calls>>

\* The process dies, or finalizing fails or runs out of its budget.
Crash(r) ==
  /\ pc[r] \in Working \cup {"closing"}
  /\ Goto(r, "done")
  /\ UNCHANGED <<database, cp, calls>>

-----------------------------------------------------------------------------

Execute(r) ==
  \/ RefuseResume(r) \/ CommitRoute(r) \/ CommitDegraded(r) \/ Drive(r)
  \/ ReadControl(r) \/ CommitPause(r) \/ CommitToolChoice(r) \/ CommitInFlight(r)
  \/ StartTool(r) \/ CommitStep(r) \/ CommitNewFinal(r) \/ CommitSavedFinal(r)
  \/ CommitMaxSteps(r) \/ CommitRefused(r) \/ Finalize(r)

Next ==
  \/ LoadRun
  \/ RequestInterrupt
  \/ Tick
  \/ \E r \in Request :
       \/ ClaimRefused(r) \/ ClaimUnrecoverable(r) \/ Claim(r)
       \/ Heartbeat(r)
       \/ Execute(r)
       \/ Fail(r) \/ Cancel(r) \/ Crash(r)

Spec == Init /\ [][Next]_vars

(***************************************************************************)
(* Time passes, the client keeps polling the run it waits for (the API     *)
(* tells it to), and a process that has not died runs its handler: model   *)
(* and tool calls are bounded by timeouts.  No fairness is assumed of      *)
(* heartbeats, new resume requests, interrupts or failures.                *)
(***************************************************************************)
Fairness ==
  /\ WF_vars(Tick)
  /\ WF_vars(LoadRun)
  /\ \A r \in Request : WF_vars(Execute(r))

FairSpec == Spec /\ Fairness

-----------------------------------------------------------------------------
(* Properties *)

TypeOK ==
  /\ status \in Status /\ token \in Request \cup {None} /\ lease \in Int
  /\ ckpt \in Checkpoint
  /\ attempts \in [Key -> Verdict \cup {"running", None}]
  /\ rows \in [Index -> Action \cup {None}]
  /\ assistant \in BOOLEAN /\ messages \in Nat
  /\ pc \in [Request -> Place]
  /\ cp \in [Request -> Checkpoint]
  /\ verdict \in [Request -> Verdict \cup {None}]
  /\ calls \subseteq [by : Request, index : Nat \ {0}, tool : Tool]

\* Whatever crashes, expires, is cancelled or loses its reply: at one step index only
\* one tool is ever started, and one that is non_replayable is started by one executor
\* (react.py assess_resume, execution.py _resolve_stale_status, the fence of
\* _commit_managed_state).
NonReplayableOnce ==
  \A a, b \in calls :
    a.index = b.index =>
      a.tool = b.tool /\ (NonReplayable(a.tool) => a.by = b.by)

\* The assistant message exists exactly when the run is completed, and the session's
\* message count counts it once, over any number of pauses of the final write and
\* any lost reply (conversation.py, the terminal branch of _commit_managed_state).
AnswerExactlyOnce ==
  /\ assistant <=> status = "completed"
  /\ messages = IF assistant THEN 2 ELSE 1

\* The step table agrees with the checkpoint at every step the checkpoint has.  The
\* only row it may have beyond it is the final step of a paused final write.
StepsMatchCheckpoint ==
  \A i \in Index :
    IF i <= Len(ckpt.steps) THEN rows[i] = ckpt.steps[i]
    ELSE rows[i] # None => /\ i = Len(ckpt.steps) + 1
                           /\ rows[i] = "final" /\ ckpt.phase = "final_ready"

\* One request_key never makes two executors, however its requests interleave
\* (claim_managed_run looks the attempt up under the row lock).
OneExecutorPerKey ==
  \A q, r \in Request :
    q # r /\ KeyOf[q] = KeyOf[r] => pc[q] \in {"idle", "refused"} \/ pc[r] \in {"idle", "refused"}

\* What an executor that still holds the right to execute believes is what the
\* database has: nobody else writes the checkpoint under it.
HolderIsUpToDate ==
  \A r \in Request : token = r /\ pc[r] \in Working => cp[r] = ckpt

\* As long as its lease is valid an executor loses the right to execute only by its
\* own step: no claim and no poll takes it away.
LiveLeaseIsRespected ==
  [][\A r \in Request :
       token = r /\ token' # r /\ lease > 0 => pc'[r] # pc[r]]_vars

\* After an interrupt request is persisted, no tool that was not already in flight
\* goes in flight: the check is part of the write that marks the tool in flight.
InterruptBlocksNewTool ==
  [][ckpt.phase # "tool_in_flight" /\ ckpt'.phase = "tool_in_flight"
       => status = "running"]_vars

\* An interrupt request that was accepted is never overtaken by the run completing:
\* it ends in a pause, a failure or recovery (managed_run_lifecycle.md:35).
InterruptIsNotOvertaken ==
  [][status = "interrupt_requested" => status' \notin {"completed", "max_steps_reached"}]_vars

\* Every write of the checkpoint takes the next revision (state.py:133).
RevisionCountsWrites ==
  [][ckpt' # ckpt => ckpt'.rev = ckpt.rev + 1]_vars

\* A run does not stay running, or waiting for a pause, forever: its executor stops
\* it, or the executor is lost and a poll converges the run.
RunsConverge == status \in Active ~> status \notin Active

Lifecycle == INSTANCE RunLifecycle
  WITH Holder <- Request, holder <- token, answered <- assistant

\* A managed run implements the lifecycle it promises.
ImplementsLifecycle == Lifecycle!Spec
=============================================================================
