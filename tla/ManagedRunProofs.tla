-------------------------- MODULE ManagedRunProofs --------------------------
(***************************************************************************)
(* Proofs about ManagedRun, for every set of requests, keys and tools and  *)
(* every value of the bounds.                                              *)
(*                                                                         *)
(*   TypeCorrect       Spec => []TypeOK                                    *)
(*   HolderCorrect     Spec => []HolderIsUpToDate                          *)
(*   ReplayCorrect     Spec => []NonReplayableOnce                         *)
(*   AnswerCorrect     Spec => []AnswerExactlyOnce                         *)
(*   LifecycleCorrect  Spec => ImplementsLifecycle                         *)
(*   StepsCorrect      Spec => []StepsMatchCheckpoint                      *)
(*   BudgetCorrect     Spec => []StepsWithinBudget                         *)
(*   ExecutorCorrect   Spec => []OneExecutorPerKey                         *)
(*   LeaseCorrect      Spec => LiveLeaseIsRespected                        *)
(*   InterruptToolCorrect      Spec => InterruptBlocksNewTool              *)
(*   InterruptCorrect          after the routing, an interrupt request is  *)
(*                             never overtaken by the completion           *)
(*   BusinessInterruptCorrect  the same for every state of a run that      *)
(*                             starts with a business agent                *)
(*                                                                         *)
(* The eight actions that write the checkpoint are treated as one: lemma   *)
(* Writes shows that each is a Commit of a write w that FitsExecutor.      *)
(***************************************************************************)
EXTENDS ManagedRun, TLAPS

USE RequestAssumption, ToolAssumption, StatusAssumption, BoundAssumption, EntryAssumption

-----------------------------------------------------------------------------
(* The inductive invariant, in parts *)

PendingExists(c) == c.phase \in {"before_tool", "tool_in_flight"} => c.pending \in Tool

\* The phase of the checkpoint an executor holds at a place.
PhaseFits(place, c) ==
  /\ place \in {"loop", "think", "pausing"} => c.phase = "before_action"
  /\ place = "armed" => c.phase = "before_tool"
  /\ place \in {"tool", "calling"} => c.phase = "tool_in_flight"
  /\ place = "final" => c.phase = "final_ready"

\* Places and checkpoints fit together.
Shape ==
  /\ PendingExists(ckpt)
  /\ \A r \in Request : /\ PendingExists(cp[r])
                        /\ PhaseFits(pc[r], cp[r])
                        /\ pc[r] = "closing" => verdict[r] \in Verdict

\* Checkpoint c says that t is the action with index i: it is committed, or it is a tool
\* call in flight.
Fixed(c, i, t) ==
  IF i <= Len(c.steps) THEN c.steps[i] = t
  ELSE c.phase = "tool_in_flight" /\ i = Len(c.steps) + 1 /\ c.pending = t

NextIndex(r) == Len(cp[r].steps) + 1

\* Every call that was started, and every call an executor may be about to start or to
\* finish, has its place in the checkpoint.
CallsFixed == \A a \in calls : Fixed(ckpt, a.index, a.tool)

WorkersFixed ==
  \A r \in Request : pc[r] \in Working /\ cp[r].phase = "tool_in_flight" =>
                      Fixed(ckpt, NextIndex(r), cp[r].pending)

\* Where an executor is about to start a call that must not be repeated, nobody has
\* started it and nobody else is about to.
SoleStarter ==
  \A r \in Request : pc[r] = "tool" /\ NonReplayable(cp[r].pending) =>
    /\ \A a \in calls : a.index # NextIndex(r)
    /\ \A q \in Request \ {r} : pc[q] = "tool" => NextIndex(q) # NextIndex(r)

Calls == CallsFixed /\ WorkersFixed /\ SoleStarter

\* Status, token and answer agree, and an executor that was not yet released closes
\* with a verdict that may follow an active status.
Ownership ==
  /\ token # None <=> status \in Active
  /\ \A r \in Request :
       token = r => /\ pc[r] \notin {"idle", "refused"}
                    /\ pc[r] = "closing" =>
                         verdict[r] \in {"interrupted", "failed", "recovery_required"}

-----------------------------------------------------------------------------
(* Checkpoints and writes *)

\* The descriptions of a write that an executor builds.
Write == [to : Checkpoint, safe : Checkpoint, pausable : BOOLEAN,
          ends : {None, "completed", "max_steps_reached"}, new : SUBSET Int,
          after : Working \cup Verdict]

\* The fields of a checkpoint (pkg/agents/state.py AgentCheckpoint) and their types.
LEMMA CheckpointFields ==
  ASSUME NEW c \in Checkpoint
  PROVE  /\ c.phase \in Phase /\ c.steps \in Seq(Action) /\ Len(c.steps) \in Nat
         /\ c.pending \in Tool \cup {None} /\ c.rev \in Nat
         /\ \A i \in 1..Len(c.steps) : c.steps[i] \in Action
BY DEF Checkpoint

\* Updating one field of a checkpoint leaves the others alone.
LEMMA CheckpointUpdate ==
  ASSUME NEW c \in Checkpoint
  PROVE  /\ \A p \in Phase : LET d == [c EXCEPT !.phase = p] IN
              /\ d \in Checkpoint /\ d.phase = p /\ d.steps = c.steps
              /\ d.pending = c.pending
         /\ \A s \in Seq(Action) : LET d == [c EXCEPT !.steps = s] IN
              /\ d \in Checkpoint /\ d.phase = c.phase /\ d.steps = s
              /\ d.pending = c.pending
         /\ \A t \in Tool : LET d == [c EXCEPT !.pending = t] IN
              /\ d \in Checkpoint /\ d.phase = c.phase /\ d.steps = c.steps
              /\ d.pending = t
         /\ LET d == NextRevision(c) IN
              /\ d \in Checkpoint /\ d.phase = c.phase /\ d.steps = c.steps
              /\ d.pending = c.pending
<1> DEFINE S == Seq(Action)
           P == Tool \cup {None}
<1>1. Checkpoint = [phase : Phase, steps : S, pending : P, rev : Nat] /\ Tool \subseteq P
  BY DEF Checkpoint
<1> HIDE DEF P
<1>2. \A s \in S : LET d == [c EXCEPT !.steps = s] IN
        /\ d \in Checkpoint /\ d.phase = c.phase /\ d.steps = s /\ d.pending = c.pending
  <2> HIDE DEF S
  <2>. QED BY <1>1
<1> HIDE DEF S
<1>3. \A p \in Phase : LET d == [c EXCEPT !.phase = p] IN
        /\ d \in Checkpoint /\ d.phase = p /\ d.steps = c.steps /\ d.pending = c.pending
  BY <1>1
<1>4. \A t \in Tool : LET d == [c EXCEPT !.pending = t] IN
        /\ d \in Checkpoint /\ d.phase = c.phase /\ d.steps = c.steps /\ d.pending = t
  BY <1>1
<1>5. c.rev + 1 \in Nat
  BY <1>1
<1>6. LET d == NextRevision(c) IN
        /\ d \in Checkpoint /\ d.phase = c.phase /\ d.steps = c.steps
        /\ d.pending = c.pending
  BY <1>1, <1>5 DEF NextRevision
<1>. QED BY <1>2, <1>3, <1>4, <1>6 DEF S

\* The next revision of a checkpoint in another phase (react.py _next_checkpoint).
LEMMA AtPhaseFields ==
  ASSUME NEW c \in Checkpoint, NEW p \in Phase
  PROVE  /\ AtPhase(c, p) \in Checkpoint /\ AtPhase(c, p).phase = p
         /\ AtPhase(c, p).steps = c.steps /\ AtPhase(c, p).pending = c.pending
<1>1. /\ NextRevision(c) \in Checkpoint /\ NextRevision(c).steps = c.steps
      /\ NextRevision(c).pending = c.pending
  BY CheckpointUpdate
<1>. QED BY <1>1, CheckpointUpdate DEF AtPhase

-----------------------------------------------------------------------------
(* What the writes of an executor have in common *)

\* What is fixed by checkpoint c is fixed by checkpoint d.
Follows(c, d) == \A i \in Nat \ {0}, t \in Tool : Fixed(c, i, t) => Fixed(d, i, t)

\* What write w does to the steps of checkpoint c: it adds at most one, with its row.  A
\* step that a paused write leaves out of the checkpoint is the final one.
StepsFit(c, w) ==
  /\ w.to.steps = c.steps \/ \E x \in Action : w.to.steps = Append(c.steps, x)
  /\ w.safe.steps \in {c.steps, w.to.steps}
  /\ \A i \in 1..Len(w.to.steps) : i > Len(c.steps) => i \in w.new
  /\ c.phase = "final_ready" \/ w.safe.steps # w.to.steps =>
       w.to.steps = Append(c.steps, "final") /\ w.safe.phase = "final_ready"

\* What an interrupt request means to write w, made from checkpoint c: it keeps a tool from
\* going in flight and, after the routing, the run from ending.
PauseFits(c, w) ==
  /\ w.to.phase # "routing" /\ w.safe.phase \notin {"routing", "tool_in_flight"}
  /\ w.to.phase = "tool_in_flight" => w.pausable
  /\ w.ends # None => w.after \in Verdict /\ (w.pausable \/ c.phase = "routing")

\* An executor at a place with checkpoint c is within max_steps, with room for one more
\* step where it is on its way to it.
Roomy(place, c) ==
  /\ Len(c.steps) <= MaxSteps
  /\ place = "think" \/ c.phase \in {"before_tool", "tool_in_flight", "final_ready"} =>
       Len(c.steps) < MaxSteps

\* Write w, made at a place from checkpoint c, keeps to max_steps.
BudgetFits(place, c, w) ==
  Roomy(place, c) =>
    /\ Len(w.to.steps) <= MaxSteps
    /\ w.ends = None => Roomy(w.after, w.to)
    /\ w.pausable => Roomy("closing", w.safe)

\* Write w is one that executor r may build from the checkpoint it holds.
FitsExecutor(r, w) ==
  /\ w \in Write
  /\ pc[r] \in Working
  /\ \A i \in w.new : i \in 1..Len(w.to.steps)
  /\ PendingExists(w.to) /\ PendingExists(w.safe)
  /\ Follows(cp[r], w.to) /\ Follows(cp[r], w.safe)
  /\ PhaseFits(w.after, w.to)
  /\ w.ends = None => w.after \in Working \cup {"interrupted"}
  /\ w.after = "tool" => cp[r].phase = "before_tool" /\ w.to.steps = cp[r].steps
  /\ StepsFit(cp[r], w) /\ PauseFits(cp[r], w) /\ BudgetFits(pc[r], cp[r], w)

\* A checkpoint with the same steps, or with one step more, fixes all that was fixed.
LEMMA SameFollows ==
  ASSUME NEW c \in Checkpoint, NEW d \in Checkpoint, d.steps = c.steps,
         c.phase # "tool_in_flight" \/ d = c
  PROVE  Follows(c, d)
BY DEF Follows, Fixed

\* A checkpoint that records the result of a call follows the one it was made from.
LEMMA AppendFollows ==
  ASSUME NEW c \in Checkpoint, NEW d \in Checkpoint, NEW x \in Action,
         d.steps = Append(c.steps, x), c.phase = "tool_in_flight" => x = c.pending
  PROVE  Follows(c, d)
<1>1. c.steps \in Seq(Action)
  BY CheckpointFields
<1>2. /\ Len(d.steps) = Len(c.steps) + 1 /\ d.steps[Len(c.steps) + 1] = x
      /\ \A i \in 1..Len(c.steps) : d.steps[i] = c.steps[i]
  BY <1>1
<1>3. Len(c.steps) \in Nat
  BY <1>1
<1>. QED BY <1>2, <1>3 DEF Follows, Fixed

\* An executor that writes its checkpoint does so through Commit.
Writes(r) ==
  \/ CommitRoute(r) \/ CommitDegraded(r) \/ CommitPause(r) \/ CommitToolChoice(r)
  \/ CommitInFlight(r) \/ CommitStep(r) \/ CommitNewFinal(r) \/ CommitSavedFinal(r)
  \/ CommitMaxSteps(r)

\* An intermediate write from a phase in which no tool is in flight.
LEMMA AdvanceFits ==
  ASSUME NEW r \in Request, cp[r] \in Checkpoint, pc[r] \in Working,
         NEW c \in Checkpoint, NEW s \in Checkpoint,
         NEW a \in Working \cup {"interrupted"},
         c.steps = cp[r].steps, s.steps = cp[r].steps,
         cp[r].phase \notin {"tool_in_flight", "final_ready"},
         c.phase # "routing", s.phase \notin {"routing", "tool_in_flight"},
         PendingExists(c), PendingExists(s), PhaseFits(a, c),
         a = "tool" => cp[r].phase = "before_tool",
         Roomy(pc[r], cp[r]) => Roomy(a, c) /\ Roomy("closing", s)
  PROVE  FitsExecutor(r, Advance(c, s, a))
<1>1. Follows(cp[r], c) /\ Follows(cp[r], s)
  BY SameFollows
<1>2. a \in Working \cup Verdict
  BY DEF Verdict
<1> DEFINE w == Advance(c, s, a)
<1>3. w \in Write /\ w.to = c /\ w.safe = s /\ w.ends = None /\ w.new = {} /\ w.after = a
  BY <1>2 DEF Advance, Write
<1>4. w.pausable = TRUE
  BY DEF Advance
<1> HIDE DEF w
<1>5. StepsFit(cp[r], w)
  BY <1>3, CheckpointFields DEF StepsFit
<1>6. PauseFits(cp[r], w)
  BY <1>3, <1>4 DEF PauseFits
<1>7. BudgetFits(pc[r], cp[r], w)
  BY <1>3 DEF BudgetFits, Roomy
<1>8. FitsExecutor(r, w)
  BY <1>1, <1>3, <1>5, <1>6, <1>7 DEF FitsExecutor
<1>. QED BY <1>8 DEF w

\* A write that ends the run, complete with the steps it makes sure exist.
LEMMA EndFits ==
  ASSUME NEW r \in Request, cp[r] \in Checkpoint, pc[r] \in Working,
         NEW c \in Checkpoint, NEW s \in Checkpoint, NEW p \in BOOLEAN,
         NEW e \in {"completed", "max_steps_reached"}, NEW n,
         n \subseteq 1..Len(c.steps), PendingExists(c), PendingExists(s),
         Follows(cp[r], c), Follows(cp[r], s),
         c.phase \notin {"routing", "tool_in_flight"},
         s.phase \notin {"routing", "tool_in_flight"}, p \/ cp[r].phase = "routing",
         LET w == [to |-> c, safe |-> s, pausable |-> p, ends |-> e, new |-> n, after |-> e]
         IN StepsFit(cp[r], w),
         Roomy(pc[r], cp[r]) => Len(c.steps) <= MaxSteps /\ (p => Roomy("closing", s))
  PROVE  FitsExecutor(r, [to |-> c, safe |-> s, pausable |-> p, ends |-> e,
                          new |-> n, after |-> e])
<1> DEFINE w == [to |-> c, safe |-> s, pausable |-> p, ends |-> e, new |-> n, after |-> e]
<1>1. e \in Verdict /\ e # None /\ e \notin Working /\ e # "tool"
  BY DEF Verdict, Ended, Working
<1>2. n \in SUBSET Int
  BY CheckpointFields
<1>3. w \in Write
  BY <1>1, <1>2 DEF Write
<1>4. /\ w.to = c /\ w.safe = s /\ w.new = n /\ w.after = e /\ w.ends = e
      /\ w.pausable = p /\ StepsFit(cp[r], w)
  OBVIOUS
<1>5. PhaseFits(e, c)
  BY DEF PhaseFits
<1> HIDE DEF w
<1>6. PauseFits(cp[r], w)
  BY <1>1, <1>4 DEF PauseFits
<1>7. BudgetFits(pc[r], cp[r], w)
  BY <1>1, <1>4 DEF BudgetFits
<1>8. FitsExecutor(r, w)
  BY <1>1, <1>3, <1>4, <1>5, <1>6, <1>7 DEF FitsExecutor
<1>. QED BY <1>8 DEF w
\* Every write of the code (react.py _drive, execution.py) fits its executor.
LEMMA WritesFit ==
  ASSUME TypeOK, Shape, NEW r \in Request, Writes(r)
  PROVE  \E w : FitsExecutor(r, w) /\ Commit(r, w)
<1> DEFINE c == cp[r]
           n == Len(c.steps)
<1>1. c \in Checkpoint /\ PendingExists(c) /\ PhaseFits(pc[r], c) /\ n \in Nat
  BY CheckpointFields DEF TypeOK, Shape
<1>2. \A p \in Phase : /\ AtPhase(c, p) \in Checkpoint /\ AtPhase(c, p).phase = p
                        /\ AtPhase(c, p).steps = c.steps
                        /\ AtPhase(c, p).pending = c.pending
  BY <1>1, AtPhaseFields
<1>3. {"routing", "before_action", "before_tool", "tool_in_flight", "final_ready"} = Phase
  BY DEF Phase
<1>4. CASE CommitRoute(r)
  <2> DEFINE d == AtPhase(c, "before_action")
  <2>1. pc[r] \in Working /\ c.phase = "routing" /\ Commit(r, Advance(d, d, "loop"))
    BY <1>4 DEF CommitRoute, Working
  <2>2. /\ d \in Checkpoint /\ d.steps = c.steps /\ d.phase = "before_action"
        /\ PendingExists(d) /\ PhaseFits("loop", d)
    BY <1>2, <1>3 DEF PendingExists, PhaseFits
  <2>3. Roomy(pc[r], c) => Roomy("loop", d) /\ Roomy("closing", d)
    BY <2>2 DEF Roomy
  <2>4. FitsExecutor(r, Advance(d, d, "loop"))
    BY <1>1, <2>1, <2>2, <2>3, AdvanceFits DEF Working
  <2>. QED BY <2>1, <2>4
<1>5. CASE CommitDegraded(r)
  <2> DEFINE d == AtPhase(c, "final_ready")
             w == [to |-> d, safe |-> d, pausable |-> FALSE, ends |-> "completed",
                   new |-> {}, after |-> "completed"]
  <2>1. pc[r] \in Working /\ c.phase = "routing" /\ Commit(r, w)
    BY <1>5 DEF CommitDegraded, Working
  <2>2. /\ d \in Checkpoint /\ d.steps = c.steps /\ d.phase = "final_ready"
        /\ PendingExists(d)
    BY <1>2, <1>3 DEF PendingExists
  <2>3. Follows(c, d)
    BY <1>1, <2>1, <2>2, SameFollows
  <2>4. StepsFit(c, w)
    BY <1>1, <2>1, <2>2 DEF StepsFit
  <2>5. Roomy(pc[r], c) => Len(d.steps) <= MaxSteps
    BY <2>2 DEF Roomy
  <2>6. FitsExecutor(r, w)
    BY <1>1, <2>1, <2>2, <2>3, <2>4, <2>5, EndFits
  <2>. QED BY <2>1, <2>6
<1>6. CASE CommitPause(r)
  <2> DEFINE d == AtPhase(c, c.phase)
  <2>1. /\ pc[r] \in Working /\ c.phase = "before_action"
        /\ Commit(r, Advance(d, d, "interrupted"))
    BY <1>1, <1>6 DEF CommitPause, Working, PhaseFits
  <2>2. /\ d \in Checkpoint /\ d.steps = c.steps /\ d.phase = "before_action"
        /\ PendingExists(d)
    BY <1>2, <1>3, <2>1 DEF PendingExists
  <2>3. PhaseFits("interrupted", d)
    BY DEF PhaseFits
  <2>4. Roomy(pc[r], c) => Roomy("interrupted", d) /\ Roomy("closing", d)
    BY <2>2 DEF Roomy
  <2>5. FitsExecutor(r, Advance(d, d, "interrupted"))
    BY <1>1, <2>1, <2>2, <2>3, <2>4, AdvanceFits
  <2>. QED BY <2>1, <2>5
<1>7. CASE CommitToolChoice(r)
  <2>1. PICK t \in Tool :
          LET d == [AtPhase(c, "before_tool") EXCEPT !.pending = t]
          IN Commit(r, Advance(d, d, "armed"))
    BY <1>7 DEF CommitToolChoice
  <2> DEFINE d == [AtPhase(c, "before_tool") EXCEPT !.pending = t]
  <2>2. pc[r] \in Working /\ pc[r] = "think" /\ c.phase = "before_action"
    BY <1>1, <1>7 DEF CommitToolChoice, Working, PhaseFits
  <2>3. /\ d \in Checkpoint /\ d.steps = c.steps /\ d.phase = "before_tool"
        /\ d.pending = t
    BY <1>2, <1>3, CheckpointUpdate
  <2>4. PendingExists(d) /\ PhaseFits("armed", d)
    BY <2>3 DEF PendingExists, PhaseFits
  <2> HIDE DEF d
  <2>5. Roomy(pc[r], c) => Roomy("armed", d) /\ Roomy("closing", d)
    BY <2>2, <2>3 DEF Roomy
  <2>6. FitsExecutor(r, Advance(d, d, "armed"))
    BY <1>1, <2>2, <2>3, <2>4, <2>5, AdvanceFits DEF Working
  <2>. QED BY <2>1, <2>6 DEF d
<1>8. CASE CommitInFlight(r)
  <2> DEFINE d == AtPhase(c, "tool_in_flight")
             s == AtPhase(c, c.phase)
  <2>1. /\ pc[r] \in Working /\ c.phase = "before_tool"
        /\ Commit(r, Advance(d, s, "tool"))
    BY <1>1, <1>8 DEF CommitInFlight, Working, PhaseFits
  <2>2. /\ d \in Checkpoint /\ d.steps = c.steps /\ PendingExists(d)
        /\ s \in Checkpoint /\ s.steps = c.steps /\ PendingExists(s)
        /\ d.phase = "tool_in_flight" /\ s.phase = "before_tool" /\ PhaseFits("tool", d)
    BY <1>1, <1>2, <1>3, <2>1 DEF PendingExists, PhaseFits
  <2>3. Roomy(pc[r], c) => Roomy("tool", d) /\ Roomy("closing", s)
    BY <2>1, <2>2 DEF Roomy
  <2>4. FitsExecutor(r, Advance(d, s, "tool"))
    BY <1>1, <2>1, <2>2, <2>3, AdvanceFits DEF Working
  <2>. QED BY <2>1, <2>4
<1>9. CASE CommitStep(r)
  <2> DEFINE d == [phase |-> "before_action", pending |-> None, rev |-> c.rev + 1,
                   steps |-> Append(c.steps, c.pending)]
             w == [Advance(d, d, "loop") EXCEPT !.new = {Len(d.steps)}]
  <2>1. pc[r] \in Working /\ c.phase = "tool_in_flight" /\ Commit(r, w)
    BY <1>1, <1>9 DEF CommitStep, Working, PhaseFits
  <2>2. c.pending \in Tool /\ c.steps \in Seq(Action) /\ c.rev \in Nat
    BY <1>1, <2>1, CheckpointFields DEF PendingExists
  <2>3. /\ d \in Checkpoint /\ d.steps = Append(c.steps, c.pending)
        /\ d.phase = "before_action" /\ Len(d.steps) = n + 1
    BY <2>2 DEF Checkpoint, Phase, Action
  <2>4. Follows(c, d)
    BY <1>1, <2>2, <2>3, AppendFollows DEF Action
  <2>5. PendingExists(d) /\ PhaseFits("loop", d)
    BY <2>3 DEF PendingExists, PhaseFits
  <2>6. n + 1 \in 1..Len(d.steps) /\ {Len(d.steps)} \in SUBSET Int
    BY <1>1, <2>3
  <2> HIDE DEF d
  <2>7. /\ w \in Write /\ w.to = d /\ w.safe = d /\ w.ends = None /\ w.after = "loop"
        /\ w.new = {Len(d.steps)}
    BY <2>3, <2>6 DEF Advance, Write, Working
  <2> HIDE DEF w
  <2>8. StepsFit(c, w)
    BY <1>1, <2>1, <2>2, <2>3, <2>7 DEF StepsFit, Action
  <2>9. PauseFits(c, w)
    BY <2>3, <2>7 DEF PauseFits
  <2>10. BudgetFits(pc[r], c, w)
    BY <1>1, <2>1, <2>3, <2>7 DEF BudgetFits, Roomy
  <2>11. FitsExecutor(r, w)
    BY <1>1, <2>1, <2>3, <2>4, <2>5, <2>6, <2>7, <2>8, <2>9, <2>10 DEF FitsExecutor, Working
  <2>. QED BY <2>1, <2>11
<1>10. ASSUME NEW ready \in Checkpoint, ready.phase = "final_ready", ready.steps = c.steps,
              pc[r] = "think" \/ c.phase = "final_ready",
              c.phase # "tool_in_flight", pc[r] \in Working, CommitFinal(r, ready)
       PROVE  \E w : FitsExecutor(r, w) /\ Commit(r, w)
  <2> DEFINE d == [ready EXCEPT !.steps = Append(@, "final")]
             w == [to |-> d, safe |-> ready, pausable |-> TRUE, ends |-> "completed",
                   new |-> 1..Len(d.steps), after |-> "completed"]
  <2>1. Commit(r, w)
    BY <1>10 DEF CommitFinal
  <2>2. "final" \in Action /\ Append(c.steps, "final") \in Seq(Action)
    BY <1>1, CheckpointFields DEF Action
  <2>3. /\ d \in Checkpoint /\ d.steps = Append(c.steps, "final")
        /\ d.phase = "final_ready"
    <3> DEFINE s == Append(c.steps, "final")
    <3>1. d = [ready EXCEPT !.steps = s] /\ s \in Seq(Action)
      BY <1>10, <2>2
    <3> HIDE DEF s
    <3>2. LET e == [ready EXCEPT !.steps = s] IN
            e \in Checkpoint /\ e.phase = ready.phase /\ e.steps = s
      BY <1>10, <3>1, CheckpointUpdate
    <3>. QED BY <1>10, <3>1, <3>2 DEF s
  <2> HIDE DEF d
  <2>4. Follows(c, d)
    BY <1>1, <1>10, <2>2, <2>3, AppendFollows
  <2>5. Follows(c, ready)
    BY <1>1, <1>10, SameFollows
  <2>6. PendingExists(d) /\ PendingExists(ready)
    BY <1>10, <2>3 DEF PendingExists
  <2>7. StepsFit(c, w)
    BY <1>10, <2>2, <2>3 DEF StepsFit
  <2>8. Roomy(pc[r], c) => Len(d.steps) <= MaxSteps /\ Roomy("closing", ready)
    <3>1. Len(d.steps) = n + 1
      BY <1>1, <2>2, <2>3, CheckpointFields
    <3>. QED BY <1>1, <1>10, <3>1 DEF Roomy
  <2>9. FitsExecutor(r, w)
    BY <1>1, <1>10, <2>3, <2>4, <2>5, <2>6, <2>7, <2>8, EndFits
  <2>. QED BY <2>1, <2>9
<1>11. CASE CommitNewFinal(r)
  <2>1. /\ pc[r] \in Working /\ pc[r] = "think" /\ c.phase = "before_action"
        /\ CommitFinal(r, AtPhase(c, "final_ready"))
    BY <1>1, <1>11 DEF CommitNewFinal, Working, PhaseFits
  <2>. QED BY <1>2, <1>3, <1>10, <2>1
<1>12. CASE CommitSavedFinal(r)
  <2>1. pc[r] \in Working /\ c.phase = "final_ready" /\ CommitFinal(r, c)
    BY <1>1, <1>12 DEF CommitSavedFinal, Working, PhaseFits
  <2>. QED BY <1>1, <1>10, <2>1
<1>13. CASE CommitMaxSteps(r)
  <2> DEFINE d == AtPhase(c, "before_action")
             w == [to |-> d, safe |-> d, pausable |-> TRUE, ends |-> "max_steps_reached",
                   new |-> 1..Len(d.steps), after |-> "max_steps_reached"]
  <2>1. pc[r] \in Working /\ c.phase = "before_action" /\ Commit(r, w)
    BY <1>1, <1>13 DEF CommitMaxSteps, Working, PhaseFits
  <2>2. /\ d \in Checkpoint /\ d.steps = c.steps /\ d.phase = "before_action"
        /\ PendingExists(d)
    BY <1>2, <1>3 DEF PendingExists
  <2>3. Follows(c, d)
    BY <1>1, <2>1, <2>2, SameFollows
  <2>4. StepsFit(c, w)
    BY <1>1, <2>1, <2>2 DEF StepsFit
  <2>5. Roomy(pc[r], c) => Len(d.steps) <= MaxSteps /\ Roomy("closing", d)
    BY <2>2 DEF Roomy
  <2>6. FitsExecutor(r, w)
    BY <1>1, <2>1, <2>2, <2>3, <2>4, <2>5, EndFits
  <2>. QED BY <2>1, <2>6
<1>. QED BY <1>4, <1>5, <1>6, <1>7, <1>8, <1>9, <1>11, <1>12, <1>13 DEF Writes
-----------------------------------------------------------------------------
(* The other steps *)

StopVerdict == {"interrupted", "failed", "recovery_required"}

\* A step in which only the handler of r moves.
Quiet(r) ==
  /\ UNCHANGED <<database, cp, calls>>
  /\ \E place \in Place, v \in Verdict \cup {None} :
       /\ pc' = [pc EXCEPT ![r] = place]
       /\ verdict' = [verdict EXCEPT ![r] = v]
       /\ place # "idle"
       /\ place = "refused" => pc[r] = "idle"
       /\ place = "refused" \/ pc[r] \in Working \cup {"closing"}
       /\ place \in Working => pc[r] \in Working
       /\ place = "closing" => v \in StopVerdict
       /\ place \in {"tool", "calling"} => ~NonReplayable(cp[r].pending)
       /\ PhaseFits(place, cp[r])
       /\ place = "think" => Len(cp[r].steps) < MaxSteps

\* The verdict of an executor that stops by itself is never a completion.
LEMMA StopVerdicts ==
  ASSUME NEW c
  PROVE  ErrorVerdict(c) \in StopVerdict /\ CancelVerdict(c) \in StopVerdict
BY DEF ErrorVerdict, CancelVerdict, StopVerdict

\* An executor that only moves on (_drive between two commits) takes a quiet step.
LEMMA GotoQuiet ==
  ASSUME TypeOK, NEW r \in Request, NEW place \in Place, Goto(r, place),
         UNCHANGED <<database, cp, calls>>, place \notin {"idle", "closing"},
         place = "refused" => pc[r] = "idle",
         place = "refused" \/ pc[r] \in Working \cup {"closing"},
         place \in Working => pc[r] \in Working,
         place \in {"tool", "calling"} => ~NonReplayable(cp[r].pending),
         PhaseFits(place, cp[r]), place = "think" => Len(cp[r].steps) < MaxSteps
  PROVE  Quiet(r)
<1>1. verdict' = [verdict EXCEPT ![r] = verdict[r]] /\ verdict[r] \in Verdict \cup {None}
  BY DEF TypeOK, Goto
<1>. QED BY <1>1 DEF Goto, Quiet

\* So does one that gives up with a verdict (_drive_managed_events).
LEMMA CloseQuiet ==
  ASSUME NEW r \in Request, NEW v \in StopVerdict, Close(r, v), pc[r] \in Working,
         UNCHANGED <<database, cp, calls>>
  PROVE  Quiet(r)
<1>1. v \in Verdict /\ "closing" \in Place /\ "closing" \notin Working
  BY DEF StopVerdict, Verdict, Ended, Place, Working
<1>2. PhaseFits("closing", cp[r])
  BY DEF PhaseFits
<1>. QED BY <1>1, <1>2 DEF Close, Quiet

\* The steps of a handler that touch neither the database nor the tools.
LEMMA QuietSteps ==
  ASSUME TypeOK, Shape, NEW r \in Request,
         \/ ClaimRefused(r) \/ RefuseResume(r) \/ Drive(r) \/ ReadControl(r)
         \/ CommitRefused(r) \/ Fail(r) \/ Cancel(r) \/ Crash(r)
  PROVE  Quiet(r)
<1>1. CASE ClaimRefused(r)
  <2>1. "refused" \in Place /\ "refused" \notin Working /\ PhaseFits("refused", cp[r])
    BY DEF Place, Working, PhaseFits
  <2>. QED BY <1>1, <2>1, GotoQuiet DEF ClaimRefused
<1>2. CASE RefuseResume(r)
  BY <1>2, CloseQuiet DEF RefuseResume, StopVerdict, Working
<1>3. CASE Drive(r)
  <2>1. cp[r].phase \in Phase \ {"routing"}
    BY <1>3, CheckpointFields DEF TypeOK, Drive
  <2>2. /\ EntryPlace(cp[r]) \in Working \cap {"loop", "armed", "tool", "final"}
        /\ PhaseFits(EntryPlace(cp[r]), cp[r])
        /\ EntryPlace(cp[r]) = "tool" => cp[r].phase = "tool_in_flight"
    BY <2>1 DEF EntryPlace, PhaseFits, Phase, Working
  <2>3. EntryPlace(cp[r]) = "tool" => ~NonReplayable(cp[r].pending)
    BY <1>3, <2>2 DEF Drive
  <2>4. pc[r] \in Working /\ Goto(r, EntryPlace(cp[r])) /\ UNCHANGED <<database, cp, calls>>
    BY <1>3 DEF Drive, Working
  <2>. QED BY <2>2, <2>3, <2>4, GotoQuiet DEF Place
<1>4. CASE ReadControl(r)
  <2>1. UNCHANGED <<database, cp, calls>> /\ pc[r] = "loop" /\ cp[r].phase = "before_action"
    BY <1>4 DEF ReadControl, Shape, PhaseFits
  <2>2. /\ Goto(r, "think") \/ Goto(r, "pausing") \/ Close(r, "interrupted")
        /\ Len(cp[r].steps) < MaxSteps
    BY <1>4 DEF ReadControl
  <2>3. /\ PhaseFits("think", cp[r]) /\ PhaseFits("pausing", cp[r])
        /\ {"loop", "think", "pausing"} \subseteq Working /\ Working \subseteq Place
    BY <2>1 DEF PhaseFits, Working, Place
  <2>. QED BY <2>1, <2>2, <2>3, GotoQuiet, CloseQuiet DEF StopVerdict
<1>5. CASE CommitRefused(r)
  BY <1>5, StopVerdicts, CloseQuiet DEF CommitRefused, Writing, Working
<1>6. CASE Fail(r)
  BY <1>6, StopVerdicts, CloseQuiet DEF Fail, StopVerdict
<1>7. CASE Cancel(r)
  BY <1>7, StopVerdicts, CloseQuiet DEF Cancel
<1>8. CASE Crash(r)
  <2>1. "done" \in Place /\ "done" \notin Working /\ PhaseFits("done", cp[r])
    BY DEF Place, Working, PhaseFits
  <2>. QED BY <1>8, <2>1, GotoQuiet DEF Crash
<1>. QED BY <1>1, <1>2, <1>3, <1>4, <1>5, <1>6, <1>7, <1>8

\* Every step is one of these.
LEMMA Steps ==
  ASSUME TypeOK, Shape, Next
  PROVE  \/ LoadRun \/ RequestInterrupt \/ Tick
         \/ \E r \in Request :
              \/ ClaimUnrecoverable(r) \/ Claim(r) \/ Heartbeat(r) \/ StartTool(r)
              \/ Finalize(r) \/ Quiet(r)
              \/ \E w : FitsExecutor(r, w) /\ Commit(r, w)
<1>1. ASSUME NEW r \in Request, Execute(r)
      PROVE  Writes(r) \/ StartTool(r) \/ Finalize(r) \/ Quiet(r)
  BY <1>1, QuietSteps DEF Execute, Writes
<1>. QED BY <1>1, QuietSteps, WritesFit DEF Next
-----------------------------------------------------------------------------
(* Types and shape *)

\* Whatever a commit replies, the executor goes on with a checkpoint, a place and a
\* verdict (ManagedReActAgentRuntime._apply).
LEMMA ReplyType ==
  ASSUME TypeOK, NEW r \in Request, NEW c \in Checkpoint, NEW paused \in BOOLEAN,
         NEW a \in Working \cup Verdict, Reply(r, c, paused, a)
  PROVE  /\ cp' \in [Request -> Checkpoint] /\ pc' \in [Request -> Place]
         /\ verdict' \in [Request -> Verdict \cup {None}]
<1>1. StopVerdict \subseteq Verdict
  BY DEF StopVerdict, Verdict, Ended
<1>2. ErrorVerdict(cp[r]) \in Verdict /\ CancelVerdict(cp[r]) \in Verdict
  BY <1>1, StopVerdicts
<1>3. /\ Working \subseteq Place /\ "closing" \in Place /\ "interrupted" \in Verdict
      /\ a \notin Verdict => a \in Place
  BY DEF Verdict, Place
<1>. QED BY <1>2, <1>3 DEF TypeOK, Reply, Close, Goto

\* A commit (_commit_managed_state) leaves every field of its type.
LEMMA CommitType ==
  ASSUME TypeOK, NEW r \in Request, NEW w, FitsExecutor(r, w), Commit(r, w)
  PROVE  TypeOK'
<1> DEFINE paused == w.pausable /\ status = "interrupt_requested"
<1>1. /\ w.to \in Checkpoint /\ w.safe \in Checkpoint /\ w.pausable \in BOOLEAN
      /\ w.ends \in {None, "completed", "max_steps_reached"} /\ w.new \in SUBSET Int
      /\ w.after \in Working \cup Verdict
  BY DEF Write, FitsExecutor
<1>2. ckpt' \in Checkpoint
  BY <1>1 DEF Commit
<1>3. status' \in Status
  BY <1>1 DEF TypeOK, Commit, Status, Active, Resumable, Ended
<1>4. token' \in Request \cup {None} /\ lease' \in Int
  BY DEF TypeOK, Commit, Release
<1>5. \A i \in w.new : w.to.steps[i] \in Action
  BY <1>1, CheckpointFields DEF FitsExecutor
<1>6. rows' \in [Index -> Action \cup {None}]
  BY <1>5 DEF TypeOK, Commit, InsertMissing
<1>7. assistant' \in BOOLEAN /\ messages' \in Nat
  BY DEF TypeOK, Commit, Publishes
<1>8. paused \in BOOLEAN /\ Reply(r, ckpt', paused, w.after)
  BY <1>1 DEF Commit
<1>9. /\ cp' \in [Request -> Checkpoint] /\ pc' \in [Request -> Place]
      /\ verdict' \in [Request -> Verdict \cup {None}]
  BY <1>1, <1>2, <1>8, ReplyType
<1>10. UNCHANGED <<attempts, calls>>
  BY DEF Commit
<1>. QED BY <1>2, <1>3, <1>4, <1>6, <1>7, <1>9, <1>10 DEF TypeOK

\* Every step leaves every variable of its type.
LEMMA TypeStep ==
  ASSUME TypeOK, Shape, [Next]_vars
  PROVE  TypeOK'
<1>1. CASE LoadRun
  BY <1>1 DEF TypeOK, LoadRun, RecoveredStatus, Release, Status, Resumable, Ended
<1>2. CASE RequestInterrupt
  BY <1>2 DEF TypeOK, RequestInterrupt, Status, Active
<1>3. CASE Tick
  BY <1>3 DEF TypeOK, Tick
<1>4. ASSUME NEW r \in Request, ClaimUnrecoverable(r)
      PROVE  TypeOK'
  BY <1>4 DEF TypeOK, ClaimUnrecoverable, RecoveredStatus, Release, Goto, Status, Ended, Place
<1>5. ASSUME NEW r \in Request, Claim(r)
      PROVE  TypeOK'
  <2>1. status' \in Status /\ token' \in Request \cup {None}
    BY <1>5 DEF Claim, Status, Active
  <2>2. lease' \in Int
    BY <1>5 DEF Claim
  <2>3. KeyOf[r] \in Key /\ attempts' \in [Key -> Verdict \cup {"running", None}]
    BY <1>5 DEF TypeOK, Claim
  <2>4. /\ pc' \in [Request -> Place] /\ cp' \in [Request -> Checkpoint]
        /\ UNCHANGED <<ckpt, rows, assistant, messages, calls, verdict>>
    BY <1>5 DEF TypeOK, Claim, Goto, Place, Working
  <2>. QED BY <2>1, <2>2, <2>3, <2>4 DEF TypeOK
<1>6. ASSUME NEW r \in Request, Heartbeat(r)
      PROVE  TypeOK'
  BY <1>6 DEF TypeOK, Heartbeat
<1>7. ASSUME NEW r \in Request, StartTool(r)
      PROVE  TypeOK'
  <2>1. cp[r] \in Checkpoint /\ cp[r].pending \in Tool
    BY <1>7 DEF TypeOK, StartTool, Shape, PhaseFits, PendingExists
  <2>2. Len(cp[r].steps) + 1 \in Nat \ {0}
    BY <2>1, CheckpointFields
  <2>3. calls' \subseteq [by : Request, index : Nat \ {0}, tool : Tool]
    BY <1>7, <2>1, <2>2 DEF TypeOK, StartTool
  <2>4. pc' \in [Request -> Place] /\ UNCHANGED <<database, cp, verdict>>
    BY <1>7 DEF TypeOK, StartTool, Goto, Place, Working
  <2>. QED BY <2>3, <2>4 DEF TypeOK, database
<1>8. ASSUME NEW r \in Request, Finalize(r)
      PROVE  TypeOK'
  <2>1. verdict[r] \in Verdict /\ KeyOf[r] \in Key
    BY <1>8 DEF Finalize, Shape
  <2>2. status' \in Status /\ token' \in Request \cup {None} /\ lease' \in Int
    BY <1>8, <2>1 DEF TypeOK, Finalize, Release, Verdict, Status, Resumable
  <2>3. attempts' \in [Key -> Verdict \cup {"running", None}]
    BY <1>8, <2>1 DEF TypeOK, Finalize
  <2>4. /\ pc' \in [Request -> Place]
        /\ UNCHANGED <<ckpt, rows, assistant, messages, cp, calls, verdict>>
    BY <1>8 DEF TypeOK, Finalize, Goto, Place
  <2>. QED BY <2>2, <2>3, <2>4 DEF TypeOK
<1>9. ASSUME NEW r \in Request, Quiet(r)
      PROVE  TypeOK'
  BY <1>9 DEF TypeOK, Quiet, database
<1>10. CASE UNCHANGED vars
  BY <1>10 DEF TypeOK, vars
<1>. QED BY <1>1, <1>2, <1>3, <1>4, <1>5, <1>6, <1>7, <1>8, <1>9, <1>10, CommitType, Steps

\* Every step leaves a pending call exactly in the phases that have one, and every
\* executor at a place its checkpoint fits.
LEMMA ShapeStep ==
  ASSUME TypeOK, Shape, [Next]_vars
  PROVE  Shape'
<1>1. CASE UNCHANGED <<ckpt, cp, pc, verdict>>
  BY <1>1 DEF Shape
<1>2. ASSUME NEW r \in Request, ClaimUnrecoverable(r) \/ Claim(r) \/ StartTool(r) \/ Finalize(r)
      PROVE  Shape'
  <2>1. \/ Claim(r) /\ cp' = [cp EXCEPT ![r] = ckpt] /\ pc' = [pc EXCEPT ![r] = "dispatch"]
        \/ cp' = cp /\ \E place \in {"refused", "done"} : pc' = [pc EXCEPT ![r] = place]
        \/ cp' = cp /\ pc[r] = "tool" /\ pc' = [pc EXCEPT ![r] = "calling"]
    BY <1>2 DEF ClaimUnrecoverable, Claim, StartTool, Finalize, Goto
  <2>2. UNCHANGED <<ckpt, verdict>>
    BY <1>2 DEF ClaimUnrecoverable, Claim, StartTool, Finalize, Goto, database
  <2>. QED BY <2>1, <2>2 DEF TypeOK, Shape, PhaseFits
<1>3. ASSUME NEW r \in Request, Quiet(r)
      PROVE  Shape'
  BY <1>3 DEF TypeOK, Shape, Quiet, database, StopVerdict, Verdict, Ended
<1>4. ASSUME NEW r \in Request, NEW w, FitsExecutor(r, w), Commit(r, w)
      PROVE  Shape'
  <2>1. PendingExists(ckpt')
    BY <1>4 DEF FitsExecutor, Commit
  <2>2. w.after \in Working \cup Verdict
    BY <1>4 DEF FitsExecutor, Write
  <2>3. \A q \in Request \ {r} : cp'[q] = cp[q] /\ pc'[q] = pc[q] /\ verdict'[q] = verdict[q]
    BY <1>4 DEF TypeOK, Commit, Reply, Close, Goto
  <2>4. cp'[r] \in {cp[r], ckpt'} /\ PendingExists(cp'[r])
    BY <1>4, <2>1 DEF TypeOK, Shape, Commit, Reply, Close, Goto
  <2>5. \/ pc'[r] = "closing" /\ verdict'[r] \in Verdict
        \/ pc'[r] = w.after /\ w.after \notin Verdict /\ cp'[r] = w.to
    BY <1>4, StopVerdicts
       DEF TypeOK, Commit, Reply, Close, Goto, StopVerdict, Verdict, Ended
  <2>6. PhaseFits(pc'[r], cp'[r])
    BY <1>4, <2>5 DEF FitsExecutor, PhaseFits
  <2>7. pc'[r] = "closing" => verdict'[r] \in Verdict
    BY <2>2, <2>5 DEF Working
  <2>. QED BY <2>1, <2>3, <2>4, <2>6, <2>7 DEF Shape
<1>5. LoadRun \/ RequestInterrupt \/ Tick \/ (\E r \in Request : Heartbeat(r)) \/ UNCHANGED vars
        => UNCHANGED <<ckpt, cp, pc, verdict>>
  BY DEF LoadRun, RequestInterrupt, Tick, Heartbeat, vars
<1>. QED BY <1>1, <1>2, <1>3, <1>4, <1>5, Steps
-----------------------------------------------------------------------------
(* The holder of the token *)

\* The owner of the lease stays at the checkpoint of the database: whoever else writes
\* has taken the token first.
LEMMA HolderStep ==
  ASSUME TypeOK, Shape, HolderIsUpToDate, [Next]_vars
  PROVE  HolderIsUpToDate'
<1>1. CASE LoadRun
  BY <1>1 DEF LoadRun, Release, HolderIsUpToDate
<1>2. CASE UNCHANGED <<token, ckpt, cp, pc>>
  BY <1>2 DEF HolderIsUpToDate
<1>3. ASSUME NEW r \in Request, ClaimUnrecoverable(r) \/ Finalize(r) \/ StartTool(r)
      PROVE  HolderIsUpToDate'
  <2>1. UNCHANGED <<ckpt, cp>> /\ token' \in {token, None}
    BY <1>3 DEF ClaimUnrecoverable, Finalize, StartTool, Release, database
  <2>2. \A q \in Request : pc'[q] \in Working => pc[q] \in Working
    BY <1>3 DEF TypeOK, ClaimUnrecoverable, Finalize, StartTool, Goto, Working
  <2>. QED BY <2>1, <2>2 DEF HolderIsUpToDate
<1>4. ASSUME NEW r \in Request, Claim(r)
      PROVE  HolderIsUpToDate'
  BY <1>4 DEF TypeOK, Claim, HolderIsUpToDate
<1>5. ASSUME NEW r \in Request, Quiet(r)
      PROVE  HolderIsUpToDate'
  BY <1>5 DEF TypeOK, Quiet, database, HolderIsUpToDate
<1>6. ASSUME NEW r \in Request, NEW w, FitsExecutor(r, w), Commit(r, w)
      PROVE  HolderIsUpToDate'
  <2>1. token = r /\ token' \in {r, None}
    BY <1>6 DEF Commit, MayWrite, Release
  <2>2. pc'[r] \in Working => cp'[r] = ckpt'
    BY <1>6 DEF TypeOK, Commit, Reply, Close, Goto, Working
  <2>. QED BY <2>1, <2>2 DEF HolderIsUpToDate
<1>7. RequestInterrupt \/ Tick \/ (\E r \in Request : Heartbeat(r)) \/ UNCHANGED vars
        => UNCHANGED <<token, ckpt, cp, pc>>
  BY DEF RequestInterrupt, Tick, Heartbeat, vars
<1>. QED BY <1>1, <1>2, <1>3, <1>4, <1>5, <1>6, <1>7, Steps

\* Who may lose the token, and what the run becomes, in each step that changes it.
LEMMA OwnershipStep ==
  ASSUME TypeOK, Shape, Ownership, [Next]_vars
  PROVE  Ownership'
<1>1. CASE LoadRun
  BY <1>1 DEF LoadRun, Release, RecoveredStatus, Ownership, Active
<1>2. CASE RequestInterrupt
  BY <1>2 DEF RequestInterrupt, Ownership, Active
<1>3. CASE UNCHANGED <<token, status, pc, verdict>>
  BY <1>3 DEF Ownership
<1>4. ASSUME NEW r \in Request, ClaimUnrecoverable(r)
      PROVE  Ownership'
  BY <1>4 DEF TypeOK, ClaimUnrecoverable, Release, RecoveredStatus, Ownership, Active
<1>5. ASSUME NEW r \in Request, Claim(r)
      PROVE  Ownership'
  BY <1>5 DEF TypeOK, Claim, Goto, Ownership, Active
<1>6. ASSUME NEW r \in Request, StartTool(r)
      PROVE  Ownership'
  BY <1>6 DEF TypeOK, StartTool, Goto, database, Ownership
<1>7. ASSUME NEW r \in Request, Finalize(r)
      PROVE  Ownership'
  <2>1. CASE token = r
    BY <1>7, <2>1 DEF Finalize, Release, Ownership, Active
  <2>2. CASE token # r
    BY <1>7, <2>2 DEF TypeOK, Finalize, Goto, Ownership
  <2>. QED BY <2>1, <2>2
<1>8. ASSUME NEW r \in Request, Quiet(r)
      PROVE  Ownership'
  BY <1>8 DEF TypeOK, Quiet, database, Ownership, StopVerdict
<1>9. ASSUME NEW r \in Request, NEW w, FitsExecutor(r, w), Commit(r, w)
      PROVE  Ownership'
  <2>1. token = r /\ status \in Active /\ token' \in {r, None}
    BY <1>9 DEF Commit, MayWrite, Release, Ownership
  <2>2. token' # None <=> status' \in Active
    BY <1>9, <2>1 DEF FitsExecutor, Write, Commit, Release, Active
  <2>3. token' = r => ~(w.pausable /\ status = "interrupt_requested") /\ w.ends = None
    BY <1>9, <2>1 DEF Commit, Release
  <2>4. token' = r => /\ pc'[r] \notin {"idle", "refused"}
                      /\ pc'[r] = "closing" =>
                           verdict'[r] \in {"interrupted", "failed", "recovery_required"}
    <3>1. token' = r => w.after \in Working \cup {"interrupted"}
      BY <1>9, <2>3 DEF FitsExecutor
    <3>2. \/ pc'[r] = w.after /\ w.after \notin Verdict
          \/ pc'[r] = "closing" /\ verdict'[r] \in StopVerdict \cup {w.after}
      BY <1>9, StopVerdicts DEF TypeOK, Commit, Reply, Close, Goto, StopVerdict
    <3>3. /\ "interrupted" \in Verdict
          /\ \A a \in Working : a \notin {"idle", "refused", "closing"} /\ a \notin StopVerdict
      BY DEF Verdict, Working, StopVerdict
    <3>4. token' = r /\ pc'[r] = "closing" => verdict'[r] \in StopVerdict
      <4>1. CASE w.after \in Working
        BY <3>2, <3>3, <4>1, <1>9, StopVerdicts
           DEF TypeOK, Commit, Reply, Close, Goto, Verdict, Ended, Working, StopVerdict
      <4>2. CASE w.after = "interrupted"
        BY <3>2, <3>3, <4>2 DEF StopVerdict
      <4>. QED BY <3>1, <4>1, <4>2
    <3>. QED BY <3>1, <3>2, <3>3, <3>4 DEF StopVerdict
  <2>. QED BY <2>1, <2>2, <2>4 DEF Ownership
<1>10. Tick \/ (\E r \in Request : Heartbeat(r)) \/ UNCHANGED vars
         => UNCHANGED <<token, status, pc, verdict>>
  BY DEF Tick, Heartbeat, vars
<1>. QED BY <1>1, <1>2, <1>3, <1>4, <1>5, <1>6, <1>7, <1>8, <1>9, <1>10, Steps
-----------------------------------------------------------------------------
(* The answer, and the lifecycle the run promises *)

\* What a write does to status, token and answer (_commit_managed_state).
LEMMA CommitOutcome ==
  ASSUME TypeOK, Ownership, NEW r \in Request, NEW w \in Write, Commit(r, w)
  PROVE  /\ token = r /\ status \in Active
         /\ \/ /\ status' = "interrupted" /\ token' = None
               /\ assistant' = assistant /\ messages' = messages
            \/ /\ status' = "completed" /\ token' = None
               /\ assistant' = TRUE /\ messages' = messages + 1
            \/ /\ status' = "max_steps_reached" /\ token' = None
               /\ assistant' = assistant /\ messages' = messages
            \/ UNCHANGED <<status, token, assistant, messages>>
<1>1. token = r /\ status \in Active
  BY DEF Commit, MayWrite, Ownership
<1>2. w.ends \in {None, "completed", "max_steps_reached"}
  BY DEF Write
<1>3. CASE w.pausable /\ status = "interrupt_requested"
  <2>1. status' = "interrupted" /\ token' = None
    BY <1>3 DEF Commit, Release
  <2>2. assistant' = assistant /\ messages' = messages
    <3>1. Publishes(w.pausable /\ status = "interrupt_requested", w.ends) = FALSE
      BY <1>3 DEF Publishes
    <3>. QED BY <3>1 DEF Commit, TypeOK
  <2>. QED BY <1>1, <2>1, <2>2
<1>4. CASE ~(w.pausable /\ status = "interrupt_requested") /\ w.ends = "completed"
  <2>1. status' = "completed" /\ token' = None
    BY <1>4 DEF Commit, Release
  <2>2. assistant' = TRUE /\ messages' = messages + 1
    <3>1. Publishes(w.pausable /\ status = "interrupt_requested", w.ends) = TRUE
      BY <1>4 DEF Publishes
    <3>. QED BY <3>1 DEF Commit, TypeOK
  <2>. QED BY <1>1, <2>1, <2>2
<1>5. CASE ~(w.pausable /\ status = "interrupt_requested") /\ w.ends # "completed"
  <2>1. \/ w.ends = None /\ UNCHANGED <<status, token>>
        \/ w.ends = "max_steps_reached" /\ status' = "max_steps_reached" /\ token' = None
    BY <1>2, <1>5 DEF Commit, Release
  <2>2. assistant' = assistant /\ messages' = messages
    <3>1. Publishes(w.pausable /\ status = "interrupt_requested", w.ends) = FALSE
      BY <1>5 DEF Publishes
    <3>. QED BY <3>1 DEF Commit, TypeOK
  <2>. QED BY <1>1, <2>1, <2>2
<1>. QED BY <1>3, <1>4, <1>5

\* The answer is published with the commit that completes the run, and not again.
LEMMA AnswerStep ==
  ASSUME TypeOK, Shape, Ownership, AnswerExactlyOnce, [Next]_vars
  PROVE  AnswerExactlyOnce'
<1>1. CASE LoadRun
  BY <1>1 DEF LoadRun, RecoveredStatus, AnswerExactlyOnce, Active
<1>2. CASE RequestInterrupt
  BY <1>2 DEF RequestInterrupt, AnswerExactlyOnce
<1>3. CASE UNCHANGED <<status, assistant, messages>>
  BY <1>3 DEF AnswerExactlyOnce
<1>4. ASSUME NEW r \in Request, ClaimUnrecoverable(r)
      PROVE  AnswerExactlyOnce'
  BY <1>4 DEF ClaimUnrecoverable, RecoveredStatus, AnswerExactlyOnce, Active
<1>5. ASSUME NEW r \in Request, Claim(r)
      PROVE  AnswerExactlyOnce'
  BY <1>5 DEF Claim, AnswerExactlyOnce, Active, Resumable
<1>6. ASSUME NEW r \in Request, Finalize(r)
      PROVE  AnswerExactlyOnce'
  BY <1>6 DEF Finalize, Ownership, AnswerExactlyOnce, Active
<1>7. ASSUME NEW r \in Request, NEW w, FitsExecutor(r, w), Commit(r, w)
      PROVE  AnswerExactlyOnce'
  <2>1. w \in Write
    BY <1>7 DEF FitsExecutor
  <2>2. status \in Active /\ status # "completed" /\ assistant = FALSE /\ messages = 1
    BY <1>7, <2>1, CommitOutcome DEF AnswerExactlyOnce, Active, TypeOK
  <2>3. \/ status' = "completed" /\ assistant' = TRUE /\ messages' = messages + 1
        \/ status' # "completed" /\ assistant' = assistant /\ messages' = messages
    BY <1>7, <2>1, <2>2, CommitOutcome
  <2>4. CASE status' = "completed" /\ assistant' = TRUE /\ messages' = messages + 1
    BY <2>2, <2>4 DEF AnswerExactlyOnce
  <2>5. CASE status' # "completed" /\ assistant' = assistant /\ messages' = messages
    BY <2>2, <2>5 DEF AnswerExactlyOnce
  <2>. QED BY <2>3, <2>4, <2>5
<1>8. Tick \/ (\E r \in Request : Heartbeat(r)) \/ UNCHANGED vars
        => UNCHANGED <<status, assistant, messages>>
  BY DEF Tick, Heartbeat, vars
<1>9. ASSUME NEW r \in Request, StartTool(r) \/ Quiet(r)
      PROVE  UNCHANGED <<status, assistant, messages>>
  BY <1>9 DEF StartTool, Quiet, database
<1>. QED BY <1>1, <1>2, <1>3, <1>4, <1>5, <1>6, <1>7, <1>8, <1>9, Steps

\* Every step of a managed run is a step of the lifecycle, or changes nothing it shows.
LEMMA LifecycleStep ==
  ASSUME TypeOK, Shape, Ownership, AnswerExactlyOnce, [Next]_vars
  PROVE  [Lifecycle!Next]_(Lifecycle!lifecycle)
<1> USE DEF Lifecycle!Active, Lifecycle!Resumable, Lifecycle!Ended, Lifecycle!lifecycle
<1>1. CASE LoadRun
  <2>1. status \in Active /\ status' \in {"recovery_required", "interrupted"} /\ token' = None
        /\ UNCHANGED assistant
    BY <1>1 DEF LoadRun, Release, RecoveredStatus
  <2>2. Lifecycle!Pause \/ Lifecycle!Abort
    BY <2>1 DEF Lifecycle!Pause, Lifecycle!Abort, Active
  <2>. QED BY <2>2 DEF Lifecycle!Next
<1>2. CASE RequestInterrupt
  BY <1>2 DEF RequestInterrupt, Lifecycle!AskToPause, Lifecycle!Next
<1>3. CASE UNCHANGED <<status, token, assistant>>
  BY <1>3
<1>4. ASSUME NEW r \in Request, ClaimUnrecoverable(r)
      PROVE  Lifecycle!Next
  <2>1. Lifecycle!Abort
    BY <1>4 DEF ClaimUnrecoverable, Release, RecoveredStatus, Lifecycle!Abort, Active
  <2>. QED BY <2>1 DEF Lifecycle!Next
<1>5. ASSUME NEW r \in Request, Claim(r)
      PROVE  Lifecycle!Next
  <2>1. token # r
    BY <1>5 DEF Claim, Ownership
  <2>2. Lifecycle!Grant(r) \/ Lifecycle!TakeOver(r)
    BY <1>5, <2>1
       DEF Claim, Lifecycle!Grant, Lifecycle!TakeOver, Active, Resumable
  <2>. QED BY <2>2 DEF Lifecycle!Next
<1>6. ASSUME NEW r \in Request, Finalize(r)
      PROVE  [Lifecycle!Next]_(Lifecycle!lifecycle)
  <2>1. CASE token # r
    BY <1>6, <2>1 DEF Finalize
  <2>2. CASE token = r
    <3>1. status \in Active /\ status' \in {"interrupted", "failed", "recovery_required"}
          /\ token' = None /\ UNCHANGED assistant
      BY <1>6, <2>2 DEF Finalize, Release, Ownership
    <3>2. Lifecycle!Pause \/ Lifecycle!Abort
      BY <3>1 DEF Lifecycle!Pause, Lifecycle!Abort, Active
    <3>. QED BY <3>2 DEF Lifecycle!Next
  <2>. QED BY <2>1, <2>2
<1>7. ASSUME NEW r \in Request, NEW w, FitsExecutor(r, w), Commit(r, w)
      PROVE  [Lifecycle!Next]_(Lifecycle!lifecycle)
  <2>1. w \in Write
    BY <1>7 DEF FitsExecutor
  <2>2. \/ Lifecycle!Pause \/ Lifecycle!Complete \/ Lifecycle!Abort
        \/ UNCHANGED <<status, token, assistant>>
    BY <1>7, <2>1, CommitOutcome
       DEF Lifecycle!Pause, Lifecycle!Complete, Lifecycle!Abort, Active
  <2>. QED BY <2>2 DEF Lifecycle!Next
<1>8. Tick \/ (\E r \in Request : Heartbeat(r)) \/ UNCHANGED vars
        => UNCHANGED <<status, token, assistant>>
  BY DEF Tick, Heartbeat, vars
<1>9. ASSUME NEW r \in Request, StartTool(r) \/ Quiet(r)
      PROVE  UNCHANGED <<status, token, assistant>>
  BY <1>9 DEF StartTool, Quiet, database
<1>. QED BY <1>1, <1>2, <1>3, <1>4, <1>5, <1>6, <1>7, <1>8, <1>9, Steps
-----------------------------------------------------------------------------
(* Tool calls *)

\* A checkpoint fixes at most one action at an index.
LEMMA FixedOnce ==
  ASSUME NEW c, NEW i, NEW t, NEW u, Fixed(c, i, t), Fixed(c, i, u)
  PROVE  t = u
BY DEF Fixed

\* Steps that start no call, write no checkpoint and let nobody begin to work.
LEMMA CallsKept ==
  ASSUME Shape, Shape', Calls, UNCHANGED <<ckpt, cp, calls>>,
         \A q \in Request : pc'[q] \in Working => pc[q] \in Working,
         \A q \in Request : pc'[q] = "tool" => pc[q] = "tool" \/ ~NonReplayable(cp[q].pending)
  PROVE  Calls'
<1>1. CallsFixed' /\ WorkersFixed'
  BY DEF Calls, CallsFixed, WorkersFixed, Fixed, NextIndex
<1>2. ASSUME NEW r \in Request, pc'[r] = "tool", NonReplayable(cp[r].pending)
      PROVE  /\ \A a \in calls : a.index # NextIndex(r)
             /\ \A q \in Request \ {r} : pc'[q] = "tool" => NextIndex(q) # NextIndex(r)
  <2>1. pc[r] = "tool"
    BY <1>2
  <2>2. ASSUME NEW q \in Request \ {r}, pc'[q] = "tool", NextIndex(q) = NextIndex(r)
        PROVE  FALSE
    <3>1. pc[q] # "tool"
      BY <1>2, <2>1, <2>2 DEF Calls, SoleStarter
    <3>2. ~NonReplayable(cp[q].pending)
      BY <2>2, <3>1
    <3>3. \A x \in {q, r} : pc[x] \in Working /\ cp[x].phase = "tool_in_flight"
      BY <1>2, <2>2 DEF Shape, PhaseFits, Working
    <3>4. cp[q].pending = cp[r].pending
      BY <2>2, <3>3, FixedOnce DEF Calls, WorkersFixed
    <3>. QED BY <1>2, <3>2, <3>4
  <2>. QED BY <1>2, <2>1, <2>2 DEF Calls, SoleStarter
<1>3. SoleStarter'
  BY <1>2 DEF SoleStarter, NextIndex
<1>. QED BY <1>1, <1>3 DEF Calls

\* A commit keeps what is known of the calls that were made.
LEMMA CallsCommit ==
  ASSUME TypeOK, Shape, HolderIsUpToDate, Calls,
         NEW r \in Request, NEW w, FitsExecutor(r, w), Commit(r, w)
  PROVE  Calls'
<1>1. cp[r] = ckpt /\ Follows(ckpt, ckpt') /\ calls' = calls
  BY DEF HolderIsUpToDate, FitsExecutor, Commit, MayWrite
<1>2. \A q \in Request : Len(cp[q].steps) \in Nat
  BY CheckpointFields DEF TypeOK
<1>3. CallsFixed'
  BY <1>1 DEF TypeOK, Calls, CallsFixed, Follows
<1>4. \A q \in Request \ {r} : cp'[q] = cp[q] /\ pc'[q] = pc[q]
  BY DEF TypeOK, Commit, Reply, Close, Goto
<1>5. pc'[r] \in Working => cp'[r] = ckpt'
  BY DEF TypeOK, Commit, Reply, Close, Goto, Working
<1>6. WorkersFixed'
  <2>1. ASSUME NEW q \in Request \ {r}, pc[q] \in Working, cp[q].phase = "tool_in_flight"
        PROVE  Fixed(ckpt', NextIndex(q), cp[q].pending)
    <3>1. Fixed(ckpt, NextIndex(q), cp[q].pending) /\ cp[q].pending \in Tool
      BY <2>1 DEF Calls, WorkersFixed, Shape, PendingExists
    <3>2. NextIndex(q) \in Nat \ {0}
      BY <1>2 DEF NextIndex
    <3>. QED BY <1>1, <3>1, <3>2 DEF Follows
  <2>2. Len(ckpt'.steps) \in Nat
    BY CheckpointFields DEF FitsExecutor, Write, Commit
  <2>3. ASSUME pc'[r] \in Working, cp'[r].phase = "tool_in_flight"
        PROVE  Fixed(ckpt', Len(cp'[r].steps) + 1, cp'[r].pending)
    BY <1>5, <2>2, <2>3 DEF Fixed
  <2>. QED BY <1>4, <2>1, <2>3 DEF WorkersFixed, NextIndex
\* An index at which nothing is fixed yet.
<1> DEFINE new == Len(ckpt.steps) + 1
<1>7. ASSUME pc'[r] = "tool"
      PROVE  /\ Len(cp'[r].steps) + 1 = new /\ \A a \in calls : a.index # new
             /\ \A q \in Request \ {r} : pc[q] = "tool" => NextIndex(q) # new
  <2>1. w.after = "tool" /\ cp'[r] = w.to
    BY <1>7 DEF TypeOK, Commit, Reply, Close, Goto
  <2>2. ckpt.phase = "before_tool" /\ cp'[r].steps = ckpt.steps
    BY <1>1, <2>1 DEF FitsExecutor
  <2>3. \A t : ~Fixed(ckpt, new, t)
    BY <1>1, <1>2, <2>2 DEF Fixed
  <2>4. \A a \in calls : a.index # new
    BY <2>3 DEF Calls, CallsFixed
  <2>5. \A q \in Request : pc[q] = "tool" => NextIndex(q) # new
    BY <2>3 DEF Calls, WorkersFixed, Shape, PhaseFits, Working
  <2>. QED BY <2>2, <2>4, <2>5
<1>8. SoleStarter'
  <2>1. ASSUME NEW x \in Request, pc'[x] = "tool", NonReplayable(cp'[x].pending)
        PROVE  /\ \A a \in calls' : a.index # Len(cp'[x].steps) + 1
               /\ \A q \in Request \ {x} :
                    pc'[q] = "tool" => Len(cp'[q].steps) + 1 # Len(cp'[x].steps) + 1
    <3>1. CASE x = r
      BY <1>1, <1>4, <1>7, <2>1, <3>1 DEF NextIndex
    <3>2. CASE x # r
      <4>1. pc[x] = "tool" /\ cp'[x] = cp[x]
        BY <1>4, <2>1, <3>2
      <4>2. /\ \A a \in calls' : a.index # Len(cp[x].steps) + 1
            /\ \A q \in Request \ {x, r} :
                 pc'[q] = "tool" => Len(cp'[q].steps) + 1 # Len(cp[x].steps) + 1
        BY <1>1, <1>4, <2>1, <4>1 DEF Calls, SoleStarter, NextIndex
      <4>3. pc'[r] = "tool" => Len(cp'[r].steps) + 1 # Len(cp[x].steps) + 1
        BY <1>7, <3>2, <4>1 DEF NextIndex
      <4>. QED BY <4>1, <4>2, <4>3
    <3>. QED BY <3>1, <3>2
  <2>. QED BY <2>1 DEF SoleStarter, NextIndex
<1>. QED BY <1>3, <1>6, <1>8 DEF Calls

\* Every step does: a call that was made is recorded as in flight, or its result is.
LEMMA CallsStep ==
  ASSUME TypeOK, Shape, Shape', HolderIsUpToDate, Calls, [Next]_vars
  PROVE  Calls'
<1>1. CASE LoadRun \/ RequestInterrupt \/ Tick \/ (\E r \in Request : Heartbeat(r)) \/ UNCHANGED vars
  <2>1. UNCHANGED <<ckpt, cp, calls, pc>>
    BY <1>1 DEF LoadRun, RequestInterrupt, Tick, Heartbeat, vars
  <2>. QED BY <2>1, CallsKept
<1>2. ASSUME NEW r \in Request, ClaimUnrecoverable(r) \/ Finalize(r)
      PROVE  Calls'
  <2>1. UNCHANGED <<ckpt, cp, calls>>
    BY <1>2 DEF ClaimUnrecoverable, Finalize
  <2>2. \A q \in Request : pc'[q] = pc[q] \/ pc'[q] \in {"refused", "done"}
    BY <1>2 DEF TypeOK, ClaimUnrecoverable, Finalize, Goto
  <2>3. /\ \A q \in Request : pc'[q] \in Working => pc[q] \in Working
        /\ \A q \in Request : pc'[q] = "tool" =>
             pc[q] = "tool" \/ ~NonReplayable(cp[q].pending)
    BY <2>2 DEF Working
  <2>. QED BY <2>1, <2>3, CallsKept
<1>3. ASSUME NEW r \in Request, Quiet(r)
      PROVE  Calls'
  <2>1. UNCHANGED <<ckpt, cp, calls>>
    BY <1>3 DEF Quiet, database
  <2>2. \A q \in Request :
          /\ pc'[q] \in Working => pc[q] \in Working
          /\ pc'[q] = "tool" => pc[q] = "tool" \/ ~NonReplayable(cp[q].pending)
    BY <1>3 DEF TypeOK, Quiet
  <2>. QED BY <2>1, <2>2, CallsKept
<1>4. ASSUME NEW r \in Request, Claim(r)
      PROVE  Calls'
  <2>1. /\ UNCHANGED <<ckpt, calls>> /\ cp'[r] = ckpt /\ pc'[r] = "dispatch"
        /\ \A q \in Request \ {r} : cp'[q] = cp[q] /\ pc'[q] = pc[q]
    BY <1>4 DEF TypeOK, Claim, Goto
  <2>2. Len(ckpt.steps) \in Nat
    BY CheckpointFields DEF TypeOK
  <2>3. CallsFixed' /\ WorkersFixed'
    <3>1. CallsFixed'
      BY <2>1 DEF Calls, CallsFixed, Fixed
    <3>2. ASSUME NEW q \in Request, pc'[q] \in Working, cp'[q].phase = "tool_in_flight"
          PROVE  Fixed(ckpt, Len(cp'[q].steps) + 1, cp'[q].pending)
      <4>1. CASE q = r
        BY <2>1, <2>2, <3>2, <4>1 DEF Fixed
      <4>2. CASE q # r
        <5>1. cp'[q] = cp[q] /\ pc'[q] = pc[q]
          BY <2>1, <4>2
        <5>. QED BY <3>2, <5>1 DEF Calls, WorkersFixed, NextIndex
      <4>. QED BY <4>1, <4>2
    <3>3. WorkersFixed'
      BY <2>1, <3>2 DEF WorkersFixed, NextIndex, Fixed
    <3>. QED BY <3>1, <3>3
  <2>4. SoleStarter'
    <3>1. \A q \in Request : pc'[q] = "tool" => q # r /\ pc[q] = "tool" /\ cp'[q] = cp[q]
      BY <2>1
    <3>2. ASSUME NEW x \in Request, pc'[x] = "tool", NonReplayable(cp'[x].pending)
          PROVE  /\ \A a \in calls' : a.index # Len(cp'[x].steps) + 1
                 /\ \A q \in Request \ {x} :
                      pc'[q] = "tool" => Len(cp'[q].steps) + 1 # Len(cp'[x].steps) + 1
      <4>1. pc[x] = "tool" /\ cp'[x] = cp[x]
        BY <3>1, <3>2
      <4>2. \A q \in Request \ {x} : pc'[q] = "tool" => pc[q] = "tool" /\ cp'[q] = cp[q]
        BY <3>1
      <4>. QED BY <2>1, <3>2, <4>1, <4>2 DEF Calls, SoleStarter, NextIndex
    <3>. QED BY <3>2 DEF SoleStarter, NextIndex
  <2>. QED BY <2>3, <2>4 DEF Calls
<1>5. ASSUME NEW r \in Request, StartTool(r)
      PROVE  Calls'
  <2> DEFINE call == [by |-> r, index |-> NextIndex(r), tool |-> cp[r].pending]
  <2>1. /\ UNCHANGED <<ckpt, cp>> /\ calls' = calls \cup {call}
        /\ pc[r] = "tool" /\ pc' = [pc EXCEPT ![r] = "calling"]
    BY <1>5 DEF StartTool, Goto, NextIndex, database
  <2>2. Fixed(ckpt, call.index, call.tool)
    BY <2>1 DEF Calls, WorkersFixed, Shape, PhaseFits, Working
  <2>3. CallsFixed'
    BY <2>1, <2>2 DEF Calls, CallsFixed
  <2>4. WorkersFixed'
    BY <2>1 DEF TypeOK, Calls, WorkersFixed, NextIndex, Working
  <2>5. SoleStarter'
    BY <2>1 DEF TypeOK, Calls, SoleStarter, NextIndex
  <2>. QED BY <2>3, <2>4, <2>5 DEF Calls
<1>. QED BY <1>1, <1>2, <1>3, <1>4, <1>5, CallsCommit, Steps

\* A call that must not be replayed is not made again: what would repeat it was marked
\* in flight first, and nobody resumes from there.
LEMMA ReplayStep ==
  ASSUME TypeOK, Shape, Calls, Calls', NonReplayableOnce, [Next]_vars
  PROVE  NonReplayableOnce'
<1>1. ASSUME NEW r \in Request, StartTool(r)
      PROVE  NonReplayableOnce'
  <2> DEFINE call == [by |-> r, index |-> NextIndex(r), tool |-> cp[r].pending]
  <2>1. pc[r] = "tool" /\ calls' = calls \cup {call}
    BY <1>1 DEF StartTool, NextIndex
  <2>2. \A a, b \in calls' : a.index = b.index => a.tool = b.tool
    BY FixedOnce DEF Calls, CallsFixed
  <2>3. NonReplayable(call.tool) => \A a \in calls : a.index # call.index
    BY <2>1 DEF Calls, SoleStarter
  <2>. QED BY <2>1, <2>2, <2>3 DEF NonReplayableOnce
<1>2. ASSUME NEW r \in Request, ClaimUnrecoverable(r) \/ Claim(r) \/ Finalize(r) \/ Heartbeat(r)
      PROVE  calls' = calls
  BY <1>2 DEF ClaimUnrecoverable, Claim, Finalize, Heartbeat
<1>3. ASSUME NEW r \in Request, Quiet(r) \/ \E w : FitsExecutor(r, w) /\ Commit(r, w)
      PROVE  calls' = calls
  BY <1>3 DEF Quiet, Commit
<1>4. LoadRun \/ RequestInterrupt \/ Tick \/ UNCHANGED vars => calls' = calls
  BY DEF LoadRun, RequestInterrupt, Tick, vars
<1>5. calls' = calls => NonReplayableOnce'
  BY DEF NonReplayableOnce
<1>. QED BY <1>1, <1>2, <1>3, <1>4, <1>5, Steps
-----------------------------------------------------------------------------
(* Steps and attempts *)

\* Only a commit touches the steps of the run, in its checkpoint or in its rows.
LEMMA StepsKept ==
  ASSUME TypeOK, Shape, [Next]_vars
  PROVE  \/ UNCHANGED <<ckpt, rows>>
         \/ \E r \in Request : \E w : FitsExecutor(r, w) /\ Commit(r, w)
<1>1. ASSUME NEW r \in Request, \/ ClaimUnrecoverable(r) \/ Claim(r) \/ Heartbeat(r)
                              \/ StartTool(r) \/ Finalize(r) \/ Quiet(r)
      PROVE  UNCHANGED <<ckpt, rows>>
  BY <1>1 DEF ClaimUnrecoverable, Claim, Heartbeat, StartTool, Finalize, Quiet, database
<1>2. LoadRun \/ RequestInterrupt \/ Tick \/ UNCHANGED vars => UNCHANGED <<ckpt, rows>>
  BY DEF LoadRun, RequestInterrupt, Tick, vars
<1>. QED BY <1>1, <1>2, Steps

\* A commit inserts the rows of the steps it adds to the checkpoint, and only the final row
\* of a paused write goes ahead of it (_insert_missing_steps in _commit_managed_state).
LEMMA RowsStep ==
  ASSUME TypeOK, Shape, HolderIsUpToDate, StepsMatchCheckpoint, [Next]_vars
  PROVE  StepsMatchCheckpoint'
<1>1. CASE UNCHANGED <<ckpt, rows>>
  BY <1>1 DEF StepsMatchCheckpoint
<1>2. ASSUME NEW r \in Request, NEW w, FitsExecutor(r, w), Commit(r, w)
      PROVE  StepsMatchCheckpoint'
  <2> DEFINE n == Len(ckpt.steps)
             m == Len(w.to.steps)
  <2>1. cp[r] = ckpt /\ StepsFit(ckpt, w) /\ \A i \in w.new : i \in 1..m
    BY <1>2 DEF HolderIsUpToDate, FitsExecutor, Commit, MayWrite
  <2>2. ckpt' \in {w.to, w.safe} /\ InsertMissing(w.new, w.to.steps)
    BY <1>2 DEF Commit
  <2>3. ckpt \in Checkpoint /\ ckpt.steps \in Seq(Action) /\ n \in Nat
    BY CheckpointFields DEF TypeOK
  <2>4. /\ \A i \in 1..n : w.to.steps[i] = ckpt.steps[i]
        /\ m = n \/ m = n + 1
        /\ w.to.steps = ckpt.steps <=> m = n
        /\ w.to.steps = Append(ckpt.steps, "final") => m = n + 1 /\ w.to.steps[m] = "final"
    <3>1. CASE w.to.steps = ckpt.steps
      BY <2>3, <3>1 DEF Action
    <3>2. ASSUME NEW x \in Action, w.to.steps = Append(ckpt.steps, x)
          PROVE  /\ \A i \in 1..n : w.to.steps[i] = ckpt.steps[i]
                 /\ m = n + 1 /\ w.to.steps[m] = x
      BY <2>3, <3>2
    <3>3. "final" \in Action
      BY DEF Action
    <3>. QED BY <2>1, <2>3, <3>1, <3>2, <3>3 DEF StepsFit
  <2>5. ckpt'.steps \in {ckpt.steps, w.to.steps}
    BY <2>1, <2>2 DEF StepsFit
\* The rows of the steps that the checkpoint had are those steps, before and after.
  <2>6. \A i \in Index : i <= n => rows'[i] = ckpt.steps[i]
    <3>1. \A i \in 1..n : ckpt.steps[i] # None
      BY <2>3, CheckpointFields DEF Action
    <3>2. \A i \in Index : i <= n => rows[i] = ckpt.steps[i] /\ rows[i] # None
      BY <2>3, <3>1 DEF StepsMatchCheckpoint, Index
    <3>. QED BY <2>2, <3>2 DEF InsertMissing
\* The row of a step that is added is that step, whether or not it was there.
  <2>7. \A i \in Index : i > n /\ i <= m => rows'[i] = w.to.steps[i]
    <3>1. ASSUME NEW i \in Index, i > n, i <= m
          PROVE  rows'[i] = w.to.steps[i]
      <4>1. i = m /\ m = n + 1 /\ i \in w.new
        BY <2>1, <2>3, <2>4, <3>1 DEF StepsFit, Index
      <4>2. CASE rows[i] = None
        BY <2>2, <4>1, <4>2 DEF InsertMissing
      <4>3. CASE rows[i] # None
        <5>1. ckpt.phase = "final_ready" /\ rows[i] = "final"
          BY <2>3, <3>1, <4>3 DEF StepsMatchCheckpoint, Index
        <5>2. w.to.steps[i] = "final"
          BY <2>1, <2>4, <4>1, <5>1 DEF StepsFit
        <5>. QED BY <2>2, <4>3, <5>1, <5>2 DEF InsertMissing
      <4>. QED BY <4>2, <4>3
    <3>. QED BY <3>1
\* There is none after it.
  <2>8. \A i \in Index : i > m => rows'[i] = None
    <3>1. ASSUME NEW i \in Index, i > m
          PROVE  rows'[i] = None
      <4>1. i \in Nat /\ i \notin w.new /\ i > n
        BY <2>1, <2>3, <2>4, <3>1 DEF Index
      <4>2. rows'[i] = rows[i]
        BY <2>2, <4>1 DEF InsertMissing
      <4>3. rows[i] # None => i = n + 1 /\ ckpt.phase = "final_ready"
        BY <2>3, <4>1 DEF StepsMatchCheckpoint
      <4>4. ckpt.phase = "final_ready" => m = n + 1
        BY <2>1, <2>4 DEF StepsFit
      <4>. QED BY <2>3, <3>1, <4>2, <4>3, <4>4
    <3>. QED BY <3>1
  <2>9. CASE ckpt'.steps = w.to.steps
    BY <2>3, <2>4, <2>6, <2>7, <2>8, <2>9 DEF StepsMatchCheckpoint, Index
  <2>10. CASE ckpt'.steps # w.to.steps
    <3>1. ckpt' = w.safe /\ ckpt'.steps = ckpt.steps
      BY <2>2, <2>5, <2>10
    <3>2. m = n + 1 /\ w.to.steps[m] = "final" /\ ckpt'.phase = "final_ready"
      BY <2>1, <2>4, <2>10, <3>1 DEF StepsFit
    <3>. QED BY <2>3, <2>6, <2>7, <2>8, <3>1, <3>2 DEF StepsMatchCheckpoint, Index
  <2>. QED BY <2>9, <2>10
<1>. QED BY <1>1, <1>2, StepsKept

\* The run keeps to max_steps, over all its attempts together.
StepsWithinBudget == Len(ckpt.steps) <= MaxSteps

Budget ==
  /\ StepsWithinBudget
  /\ status \notin Ended => Roomy("idle", ckpt)
  /\ \A r \in Request : pc[r] \in Working => Roomy(pc[r], cp[r])

\* What an executor may still do is counted in the checkpoint it resumed from, so no number
\* of pauses and resumes adds a step (the loop of _drive).
LEMMA BudgetStep ==
  ASSUME TypeOK, Shape, HolderIsUpToDate, Ownership, Budget, [Next]_vars
  PROVE  Budget'
<1>1. ASSUME UNCHANGED <<ckpt, cp>>, status' \notin Ended => status \notin Ended,
             \A r \in Request : pc'[r] = pc[r] \/ pc'[r] \notin Working
      PROVE  Budget'
  BY <1>1 DEF Budget, StepsWithinBudget, Roomy
<1>2. CASE LoadRun \/ RequestInterrupt \/ Tick \/ UNCHANGED vars
  <2>1. /\ UNCHANGED <<ckpt, cp, pc>>
        /\ status' \notin Ended => status \notin Ended
    BY <1>2 DEF LoadRun, RequestInterrupt, Tick, vars, Ended, Active
  <2>. QED BY <1>1, <2>1
<1>3. ASSUME NEW r \in Request, ClaimUnrecoverable(r) \/ Finalize(r) \/ Heartbeat(r)
      PROVE  Budget'
  <2>1. UNCHANGED <<ckpt, cp>> /\ (status' \notin Ended => status \notin Ended)
    BY <1>3 DEF ClaimUnrecoverable, Finalize, Heartbeat, Ownership, Ended, Active
  <2>2. \A q \in Request : pc'[q] = pc[q] \/ pc'[q] \notin Working
    BY <1>3 DEF TypeOK, ClaimUnrecoverable, Finalize, Heartbeat, Goto, Working
  <2>. QED BY <1>1, <2>1, <2>2
<1>4. ASSUME NEW r \in Request, Claim(r)
      PROVE  Budget'
  <2>1. status \notin Ended /\ status' \notin Ended
    BY <1>4 DEF Claim, Active, Resumable, Ended
  <2>2. /\ ckpt' = ckpt /\ cp'[r] = ckpt /\ pc'[r] = "dispatch"
        /\ \A q \in Request \ {r} : cp'[q] = cp[q] /\ pc'[q] = pc[q]
    BY <1>4 DEF TypeOK, Claim, Goto
  <2>3. Roomy("idle", ckpt) /\ Roomy("dispatch", ckpt)
    BY <2>1 DEF Budget, Roomy
  <2>. QED BY <2>2, <2>3 DEF Budget, StepsWithinBudget
<1>5. ASSUME NEW r \in Request, StartTool(r) \/ Quiet(r)
      PROVE  Budget'
  <2>1. UNCHANGED <<ckpt, cp, status>> /\ \A q \in Request \ {r} : pc'[q] = pc[q]
    BY <1>5 DEF TypeOK, StartTool, Goto, Quiet, database
  <2>2. pc'[r] \in Working => /\ pc[r] \in Working
                              /\ pc'[r] = "think" => Len(cp[r].steps) < MaxSteps
    BY <1>5 DEF TypeOK, StartTool, Goto, Quiet, Working
  <2>. QED BY <2>1, <2>2 DEF Budget, StepsWithinBudget, Roomy
<1>6. ASSUME NEW r \in Request, NEW w, FitsExecutor(r, w), Commit(r, w)
      PROVE  Budget'
  <2> DEFINE paused == w.pausable /\ status = "interrupt_requested"
  <2>1. pc[r] \in Working /\ token = r /\ status \in Active
    BY <1>6 DEF FitsExecutor, Commit, MayWrite, Ownership
  <2>2. /\ Len(w.to.steps) <= MaxSteps
        /\ w.ends = None => Roomy(w.after, w.to)
        /\ w.pausable => Roomy("closing", w.safe)
    BY <1>6, <2>1 DEF FitsExecutor, BudgetFits, Budget
  <2>3. CASE paused
    <3>1. ckpt' = w.safe /\ pc'[r] \notin Working
      BY <1>6, <2>3 DEF TypeOK, Commit, Reply, Close, Goto, Working
    <3>2. Roomy("idle", ckpt')
      BY <2>2, <2>3, <3>1 DEF Roomy
    <3>3. \A q \in Request \ {r} : cp'[q] = cp[q] /\ pc'[q] = pc[q]
      BY <1>6 DEF TypeOK, Commit, Reply, Close, Goto
    <3>. QED BY <3>1, <3>2, <3>3 DEF Budget, StepsWithinBudget, Roomy
  <2>4. CASE ~paused
    <3>1. ckpt' = w.to /\ status' = IF w.ends # None THEN w.ends ELSE status
      BY <1>6, <2>4 DEF Commit
    <3>2. status' \notin Ended => w.ends = None
      BY <1>6, <3>1 DEF FitsExecutor, Write, Ended
    <3>3. status' \notin Ended => Roomy("idle", ckpt')
      BY <2>2, <3>1, <3>2 DEF Roomy
    <3>4. pc'[r] \in Working => pc'[r] = w.after /\ cp'[r] = w.to /\ w.after \notin Verdict
      BY <1>6, <2>4 DEF TypeOK, Commit, Reply, Close, Goto, Working
    <3>5. pc'[r] \in Working => Roomy(pc'[r], cp'[r])
      BY <1>6, <2>2, <3>4 DEF FitsExecutor, PauseFits
    <3>6. \A q \in Request \ {r} : cp'[q] = cp[q] /\ pc'[q] = pc[q]
      BY <1>6 DEF TypeOK, Commit, Reply, Close, Goto
    <3>. QED BY <2>2, <3>1, <3>3, <3>5, <3>6 DEF Budget, StepsWithinBudget
  <2>. QED BY <2>3, <2>4
<1>. QED BY <1>2, <1>3, <1>4, <1>5, <1>6, Steps

\* Whoever was granted the run has recorded the attempt of its key.
AttemptsRecorded ==
  \A r \in Request : pc[r] \notin {"idle", "refused"} => attempts[KeyOf[r]] # None

\* An attempt is recorded by the claim that is granted (claim_managed_run), and is never
\* deleted; a claim whose key has an attempt is not granted.
LEMMA AttemptsStep ==
  ASSUME TypeOK, Shape, AttemptsRecorded, OneExecutorPerKey, [Next]_vars
  PROVE  AttemptsRecorded' /\ OneExecutorPerKey'
<1> DEFINE out == {"idle", "refused"}
<1>1. ASSUME attempts' = attempts, \A r \in Request : pc'[r] \notin out => pc[r] \notin out
      PROVE  AttemptsRecorded' /\ OneExecutorPerKey'
  BY <1>1 DEF AttemptsRecorded, OneExecutorPerKey
<1>2. ASSUME NEW r \in Request, Claim(r)
      PROVE  AttemptsRecorded' /\ OneExecutorPerKey'
  <2>1. /\ attempts[KeyOf[r]] = None /\ KeyOf[r] \in Key
        /\ attempts' = [attempts EXCEPT ![KeyOf[r]] = "running"]
        /\ \A q \in Request \ {r} : pc'[q] = pc[q]
    BY <1>2 DEF TypeOK, Claim, Goto
  <2>2. \A q \in Request \ {r} : pc[q] \notin out => KeyOf[q] # KeyOf[r]
    BY <2>1 DEF AttemptsRecorded
  <2>3. AttemptsRecorded'
    BY <2>1 DEF TypeOK, AttemptsRecorded
  <2>4. OneExecutorPerKey'
    BY <2>1, <2>2 DEF OneExecutorPerKey
  <2>. QED BY <2>3, <2>4
<1>3. ASSUME NEW r \in Request, Finalize(r)
      PROVE  AttemptsRecorded' /\ OneExecutorPerKey'
  <2>1. verdict[r] # None /\ pc[r] \notin out
    BY <1>3 DEF Finalize, Shape, Verdict, Ended
  <2>2. \A k \in Key : attempts[k] # None => attempts'[k] # None
    BY <1>3, <2>1 DEF TypeOK, Finalize
  <2>3. \A q \in Request : pc'[q] \notin out => pc[q] \notin out
    BY <1>3, <2>1 DEF TypeOK, Finalize, Goto
  <2>4. \A q \in Request : KeyOf[q] \in Key
    OBVIOUS
  <2>. QED BY <2>2, <2>3, <2>4 DEF AttemptsRecorded, OneExecutorPerKey
<1>4. ASSUME NEW r \in Request, Quiet(r)
      PROVE  AttemptsRecorded' /\ OneExecutorPerKey'
  <2>1. attempts' = attempts /\ \A q \in Request : pc'[q] \notin out => pc[q] \notin out
    BY <1>4 DEF TypeOK, Quiet, database, Working
  <2>. QED BY <1>1, <2>1
<1>5. ASSUME NEW r \in Request, NEW w, FitsExecutor(r, w), Commit(r, w)
      PROVE  AttemptsRecorded' /\ OneExecutorPerKey'
  <2>1. pc[r] \notin out /\ attempts' = attempts
    BY <1>5 DEF FitsExecutor, Working, Commit
  <2>2. \A q \in Request \ {r} : pc'[q] = pc[q]
    BY <1>5 DEF TypeOK, Commit, Reply, Close, Goto
  <2>. QED BY <1>1, <2>1, <2>2
<1>6. ASSUME NEW r \in Request, ClaimUnrecoverable(r) \/ Heartbeat(r) \/ StartTool(r)
      PROVE  AttemptsRecorded' /\ OneExecutorPerKey'
  <2>1. attempts' = attempts /\ \A q \in Request : pc'[q] \notin out => pc[q] \notin out
    BY <1>6 DEF TypeOK, ClaimUnrecoverable, Heartbeat, StartTool, Goto, database
  <2>. QED BY <1>1, <2>1
<1>7. CASE LoadRun \/ RequestInterrupt \/ Tick \/ UNCHANGED vars
  <2>1. UNCHANGED <<attempts, pc>>
    BY <1>7 DEF LoadRun, RequestInterrupt, Tick, vars
  <2>. QED BY <1>1, <2>1
<1>. QED BY <1>2, <1>3, <1>4, <1>5, <1>6, <1>7, Steps
-----------------------------------------------------------------------------
(* What no step may do *)

\* The holder of a valid lease loses it only by what it does itself: a poll and a claim
\* look at the lease under the row lock (_resolve_stale_status).
LeaseStep ==
  \A r \in Request : token = r /\ token' # r /\ lease > 0 => pc'[r] # pc[r]

LEMMA LeaseIsRespected ==
  ASSUME TypeOK, Shape, Ownership, [Next]_vars
  PROVE  LeaseStep
<1>1. CASE token' = token
  BY <1>1 DEF LeaseStep
<1>2. CASE LoadRun
  BY <1>2 DEF TypeOK, LoadRun, LeaseStep
<1>3. ASSUME NEW q \in Request, ClaimUnrecoverable(q)
      PROVE  LeaseStep
  BY <1>3 DEF TypeOK, ClaimUnrecoverable, LeaseStep
<1>4. ASSUME NEW q \in Request, Claim(q)
      PROVE  LeaseStep
  <2>1. PICK wait \in 0..MaxWait :
          /\ \/ status \in Resumable
             \/ status \in Active /\ lease + wait <= 0 /\ "interrupted" \in RecoveredStatus(ckpt)
          /\ lease' = LeaseTime - wait
    BY <1>4, Zenon DEF Claim
  <2>2. CASE status \in Resumable
    BY <2>2 DEF Ownership, LeaseStep, Active, Resumable
  <2>3. CASE lease + wait <= 0
    BY <2>3 DEF TypeOK, LeaseStep
  <2>. QED BY <2>1, <2>2, <2>3
<1>5. ASSUME NEW q \in Request, Finalize(q)
      PROVE  LeaseStep
  <2>1. token # q => token' = token
    BY <1>5 DEF Finalize
  <2>2. pc'[q] # pc[q]
    BY <1>5 DEF TypeOK, Finalize, Goto
  <2>. QED BY <2>1, <2>2 DEF LeaseStep
<1>6. ASSUME NEW q \in Request, NEW w, FitsExecutor(q, w), Commit(q, w)
      PROVE  LeaseStep
  <2> DEFINE paused == w.pausable /\ status = "interrupt_requested"
  <2>1. token = q /\ pc[q] \in Working /\ PauseFits(cp[q], w)
    BY <1>6 DEF FitsExecutor, Commit, MayWrite
  <2>2. token' # token => paused \/ w.ends # None
    BY <1>6 DEF Commit
  <2>3. paused \/ w.after \in Verdict => pc'[q] = "closing"
    BY <1>6 DEF TypeOK, Commit, Reply, Close, Goto
  <2>4. token' # token => pc'[q] = "closing"
    BY <2>1, <2>2, <2>3 DEF PauseFits
  <2>. QED BY <2>1, <2>4 DEF LeaseStep, Working
<1>7. ASSUME NEW q \in Request, Heartbeat(q) \/ StartTool(q) \/ Quiet(q)
      PROVE  token' = token
  BY <1>7 DEF Heartbeat, StartTool, Quiet, database
<1>8. RequestInterrupt \/ Tick \/ UNCHANGED vars => token' = token
  BY DEF RequestInterrupt, Tick, vars
<1>. QED BY <1>1, <1>2, <1>3, <1>4, <1>5, <1>6, <1>7, <1>8, Steps

\* A commit that finds an interrupt request leaves no tool in flight and, after the
\* routing, does not end the run (the paused branch of _commit_managed_state).
LEMMA CommitHeedsInterrupt ==
  ASSUME TypeOK, Shape, HolderIsUpToDate, Ownership, NEW r \in Request, NEW w,
         FitsExecutor(r, w), Commit(r, w)
  PROVE  /\ ckpt'.phase = "tool_in_flight" => status = "running"
         /\ status = "interrupt_requested" /\ ckpt.phase # "routing" =>
              status' \in {"interrupt_requested", "interrupted"}
         /\ ckpt'.phase # "routing"
<1> DEFINE paused == w.pausable /\ status = "interrupt_requested"
<1>1. token = r /\ cp[r] = ckpt /\ PauseFits(ckpt, w) /\ status \in Active
  BY DEF Commit, MayWrite, FitsExecutor, HolderIsUpToDate, Ownership
<1>2. /\ ckpt' = IF paused THEN w.safe ELSE w.to
      /\ status' = IF paused THEN "interrupted" ELSE IF w.ends # None THEN w.ends ELSE status
  BY DEF Commit
<1>3. ckpt'.phase = "tool_in_flight" => w.pausable /\ ~paused
  BY <1>1, <1>2 DEF PauseFits
<1>4. ckpt'.phase = "tool_in_flight" => status = "running"
  BY <1>1, <1>3 DEF Active
<1>5. status = "interrupt_requested" /\ ckpt.phase # "routing" =>
        status' \in {"interrupt_requested", "interrupted"}
  BY <1>1, <1>2 DEF PauseFits
<1>6. ckpt'.phase # "routing"
  BY <1>1, <1>2 DEF PauseFits
<1>. QED BY <1>4, <1>5, <1>6

\* What becomes of an interrupt request in a step of the run once it is routed.
InterruptStep ==
  status = "interrupt_requested" /\ ckpt.phase # "routing" =>
    status' \notin {"completed", "max_steps_reached"}

ToolStep ==
  ckpt.phase # "tool_in_flight" /\ ckpt'.phase = "tool_in_flight" => status = "running"

LEMMA InterruptIsHeeded ==
  ASSUME TypeOK, Shape, HolderIsUpToDate, Ownership, [Next]_vars
  PROVE  ToolStep /\ InterruptStep
<1>1. CASE UNCHANGED <<ckpt, rows>>
  <2>1. ToolStep
    BY <1>1 DEF ToolStep
  <2>2. InterruptStep
    <3>1. CASE LoadRun
      BY <3>1 DEF LoadRun, RecoveredStatus, InterruptStep
    <3>2. ASSUME NEW r \in Request, ClaimUnrecoverable(r) \/ Claim(r)
          PROVE  InterruptStep
      BY <3>2 DEF ClaimUnrecoverable, Claim, RecoveredStatus, InterruptStep
    <3>3. ASSUME NEW r \in Request, Finalize(r)
          PROVE  InterruptStep
      BY <3>3 DEF Finalize, Ownership, InterruptStep
    <3>4. ASSUME NEW r \in Request, NEW w, FitsExecutor(r, w), Commit(r, w)
          PROVE  InterruptStep
      BY <3>4, CommitHeedsInterrupt DEF InterruptStep
    <3>5. ASSUME NEW r \in Request, Heartbeat(r) \/ StartTool(r) \/ Quiet(r)
          PROVE  status' = status
      BY <3>5 DEF Heartbeat, StartTool, Quiet, database
    <3>6. RequestInterrupt \/ Tick \/ UNCHANGED vars => status' \in {status, "interrupt_requested"}
      BY DEF RequestInterrupt, Tick, vars
    <3>7. status' \in {status, "interrupt_requested"} => InterruptStep
      BY DEF InterruptStep
    <3>. QED BY <3>1, <3>2, <3>3, <3>4, <3>5, <3>6, <3>7, Steps
  <2>. QED BY <2>1, <2>2
<1>2. ASSUME NEW r \in Request, NEW w, FitsExecutor(r, w), Commit(r, w)
      PROVE  ToolStep /\ InterruptStep
  BY <1>2, CommitHeedsInterrupt DEF ToolStep, InterruptStep
<1>. QED BY <1>1, <1>2, StepsKept
-----------------------------------------------------------------------------
(* The theorems *)

IInv == /\ TypeOK /\ Shape
        /\ HolderIsUpToDate
        /\ Ownership /\ AnswerExactlyOnce
        /\ Calls /\ NonReplayableOnce
        /\ StepsMatchCheckpoint /\ Budget
        /\ AttemptsRecorded /\ OneExecutorPerKey

\* A run starts in the invariant (create_managed_run).
LEMMA InitInvariant == Init => IInv
<1> SUFFICES ASSUME Init PROVE IInv
  OBVIOUS
<1>1. ckpt \in Checkpoint /\ ckpt.phase = EntryPhase /\ ckpt.pending = None
  BY DEF Init, Checkpoint, Phase
<1>2. TypeOK
  <2>1. status \in Status /\ token = None /\ lease \in Int /\ messages \in Nat
    BY DEF Init, Status, Resumable
  <2>2. pc \in [Request -> Place] /\ cp \in [Request -> Checkpoint]
    BY <1>1 DEF Init, Place
  <2>. QED BY <1>1, <2>1, <2>2 DEF Init, TypeOK
<1>3. Shape
  BY <1>1 DEF Init, Shape, PendingExists, PhaseFits
<1>4. HolderIsUpToDate /\ Ownership /\ AnswerExactlyOnce
  BY DEF Init, HolderIsUpToDate, Ownership, AnswerExactlyOnce, Active, Working
<1>5. Calls /\ NonReplayableOnce
  BY DEF Init, Calls, CallsFixed, WorkersFixed, SoleStarter, NonReplayableOnce, Working
<1>6. StepsMatchCheckpoint /\ Budget
  <2>1. Len(ckpt.steps) = 0 /\ ckpt.phase \in {"routing", "before_action"}
    BY DEF Init
  <2>2. Budget
    BY <2>1 DEF Init, Budget, StepsWithinBudget, Roomy, Working
  <2>. QED BY <2>1, <2>2 DEF Init, StepsMatchCheckpoint, Index
<1>7. AttemptsRecorded /\ OneExecutorPerKey
  BY DEF Init, AttemptsRecorded, OneExecutorPerKey
<1>. QED BY <1>2, <1>3, <1>4, <1>5, <1>6, <1>7 DEF IInv

\* Every step preserves it.
LEMMA StepInvariant == IInv /\ [Next]_vars => IInv'
<1> SUFFICES ASSUME IInv, [Next]_vars PROVE IInv'
  OBVIOUS
<1>1. TypeOK' /\ Shape'
  BY TypeStep, ShapeStep DEF IInv
<1>2. HolderIsUpToDate' /\ Ownership' /\ AnswerExactlyOnce'
  BY HolderStep, OwnershipStep, AnswerStep DEF IInv
<1>3. Calls'
  BY <1>1, CallsStep DEF IInv
<1>4. NonReplayableOnce'
  BY <1>3, ReplayStep DEF IInv
<1>5. StepsMatchCheckpoint' /\ Budget'
  BY RowsStep, BudgetStep DEF IInv
<1>6. AttemptsRecorded' /\ OneExecutorPerKey'
  BY AttemptsStep DEF IInv
<1>. QED BY <1>1, <1>2, <1>3, <1>4, <1>5, <1>6 DEF IInv

\* The invariant holds in every reachable state.
THEOREM Invariant == Spec => []IInv
BY InitInvariant, StepInvariant, PTL DEF Spec

\* Every variable keeps its type.
THEOREM TypeCorrect == Spec => []TypeOK
<1>1. IInv => TypeOK
  BY DEF IInv
<1>. QED BY <1>1, Invariant, PTL

\* The executor that holds the token has the checkpoint of the database: the fence of
\* _commit_managed_state lets nobody else write it, and a lost reply ends the executor.
THEOREM HolderCorrect == Spec => []HolderIsUpToDate
<1>1. IInv => HolderIsUpToDate
  BY DEF IInv
<1>. QED BY <1>1, Invariant, PTL

\* No crash, expired lease, cancellation, lost reply or resume makes the program start
\* two tools at one step, or lets two executors start one that is non_replayable.
THEOREM ReplayCorrect == Spec => []NonReplayableOnce
<1>1. IInv => NonReplayableOnce
  BY DEF IInv
<1>. QED BY <1>1, Invariant, PTL

\* The assistant message exists exactly when the run is completed, and is counted once.
THEOREM AnswerCorrect == Spec => []AnswerExactlyOnce
<1>1. IInv => AnswerExactlyOnce
  BY DEF IInv
<1>. QED BY <1>1, Invariant, PTL

\* The rows of the step table are the steps of the checkpoint, over crashes, lost replies
\* and any number of paused final writes.
THEOREM StepsCorrect == Spec => []StepsMatchCheckpoint
<1>1. IInv => StepsMatchCheckpoint
  BY DEF IInv
<1>. QED BY <1>1, Invariant, PTL

\* A run has at most max_steps steps, however often it is resumed: with StepsCorrect, every
\* one of them has its row.
THEOREM BudgetCorrect == Spec => []StepsWithinBudget
<1>1. IInv => StepsWithinBudget
  BY DEF IInv, Budget
<1>. QED BY <1>1, Invariant, PTL

\* However many requests come with one request_key, one at most is granted the run.
THEOREM ExecutorCorrect == Spec => []OneExecutorPerKey
<1>1. IInv => OneExecutorPerKey
  BY DEF IInv
<1>. QED BY <1>1, Invariant, PTL

\* Neither a poll nor another claim takes a lease away before it has run out, however
\* long each waited for the row lock.
THEOREM LeaseCorrect == Spec => LiveLeaseIsRespected
<1>1. IInv /\ [Next]_vars =>
        [\A r \in Request : token = r /\ token' # r /\ lease > 0 => pc'[r] # pc[r]]_vars
  BY LeaseIsRespected DEF IInv, LeaseStep
<1>. QED BY <1>1, Invariant, PTL DEF Spec, LiveLeaseIsRespected

\* No tool goes in flight after an interrupt request: the request is looked at under the
\* row lock of the write that would mark the tool.
THEOREM InterruptToolCorrect == Spec => InterruptBlocksNewTool
<1>1. IInv /\ [Next]_vars =>
        [ckpt.phase # "tool_in_flight" /\ ckpt'.phase = "tool_in_flight"
           => status = "running"]_vars
  BY InterruptIsHeeded DEF IInv, ToolStep
<1>. QED BY <1>1, Invariant, PTL DEF Spec, InterruptBlocksNewTool

\* An interrupt request that finds the run routed is never overtaken by its completion.
\* Whether the run is routed is said by its checkpoint, whichever entry it came by.
THEOREM InterruptCorrect ==
  Spec => [][status = "interrupt_requested" /\ ckpt.phase # "routing" =>
               status' \notin {"completed", "max_steps_reached"}]_vars
<1>1. IInv /\ [Next]_vars =>
        [status = "interrupt_requested" /\ ckpt.phase # "routing" =>
           status' \notin {"completed", "max_steps_reached"}]_vars
  BY InterruptIsHeeded DEF IInv, InterruptStep
<1>. QED BY <1>1, Invariant, PTL DEF Spec

\* A run of a business agent has no routing to come (create_managed_run with an agent), so
\* none of its interrupt requests is overtaken.
THEOREM BusinessInterruptCorrect ==
  ASSUME EntryPhase = "before_action"
  PROVE  Spec => InterruptIsNotOvertaken
<1> DEFINE Routed == ckpt.phase # "routing"
<1>1. Init => Routed
  BY DEF Init
<1>2. IInv /\ Routed /\ [Next]_vars => Routed'
  <2>1. ASSUME IInv, NEW r \in Request, NEW w, FitsExecutor(r, w), Commit(r, w)
        PROVE  Routed'
    BY <2>1, CommitHeedsInterrupt DEF IInv
  <2>. QED BY <2>1, StepsKept DEF IInv
<1>3. IInv /\ Routed /\ [Next]_vars =>
        [status = "interrupt_requested" => status' \notin {"completed", "max_steps_reached"}]_vars
  BY InterruptIsHeeded DEF IInv, InterruptStep
<1>. QED BY <1>1, <1>2, <1>3, Invariant, PTL DEF Spec, InterruptIsNotOvertaken

\* A managed run, with its leases, checkpoints and failures, implements RunLifecycle.
THEOREM LifecycleCorrect == Spec => ImplementsLifecycle
<1>1. Init => Lifecycle!Init
  BY DEF Init, Lifecycle!Init
<1>2. IInv /\ [Next]_vars => [Lifecycle!Next]_(Lifecycle!lifecycle)
  BY LifecycleStep DEF IInv
<1>. QED BY <1>1, <1>2, Invariant, PTL DEF Spec, ImplementsLifecycle, Lifecycle!Spec
=============================================================================
