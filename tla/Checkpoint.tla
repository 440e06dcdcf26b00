----------------------------- MODULE Checkpoint -----------------------------
(***************************************************************************)
(* The stored form of a checkpoint: what a run writes at its safe points,  *)
(* and what a program of another version makes of it                       *)
(*                                                                         *)
(*   pkg/agents/state.py      encode_checkpoint, decode_checkpoint         *)
(*   pkg/agents/react.py      actions, steps, assess_resume                *)
(*   internal/services/agents/conversation.py, execution.py                *)
(*                                                                         *)
(* A payload is a JSON object.  Another version may leave a field out or   *)
(* give it another form or a word this version does not know; a run that   *)
(* is refused keeps its row and waits for a version that can read it.      *)
(***************************************************************************)
EXTENDS Integers, Sequences

CONSTANTS
  MaxSteps,  \* of the run
  Tools,     \* the names of the tools of this version
  ContextOf, \* the session context of the run
  Missing,   \* what reading an absent field gives, and null
  Malformed, \* a value of another type
  Unknown,   \* a word of another version
  MaxDamage  \* bounds the fields another version changes

\* The texts that this version writes.
Texts == {"run", "routing", "before_action", "before_tool", "tool_in_flight", "final_ready", "question",
          "order", "order_support", "v1", "model", "completed", "tool_call", "final", "answer"}

ASSUME CheckpointAssumption ==
  /\ MaxSteps \in Nat \ {0} /\ MaxDamage \in Nat
  /\ Missing # Malformed /\ Unknown \notin {Missing, Malformed}
  /\ \A x \in {Missing, Malformed, Unknown} : x \notin Nat \cup Texts \cup Tools \cup {ContextOf}

VARIABLES
  written,  \* the checkpoint of the run, as its executor has it
  row,      \* the row of the database: payload and columns
  damage,   \* how many fields of the payload another version changed
  reading,  \* "no", "refused", "loaded" (by decode), "resumed" or "unsafe" (to go on)
  state     \* what was read: a checkpoint, or Missing

checkpointVars == <<written, row, damage, reading, state>>

Call(tool, i) == [type |-> "tool_call", tool |-> tool, args |-> tool, tool_call_id |-> i, answer |-> Missing]
Final(answer) == [type |-> "final", tool |-> Missing, args |-> Missing, tool_call_id |-> Missing,
                  answer |-> answer]

\* stable_tool_call_id: the step alone tells the two calls of one run apart.
StepOf(action, i) ==
  [type |-> action.type, tool |-> action.tool, args |-> action.args, answer |-> action.answer,
   tool_call_id |-> IF action.type = "tool_call" THEN i ELSE Missing,
   index |-> i, status |-> "completed", error |-> Missing, elapsed_ms |-> 1]

\* The calls and the steps of a run.
Calls == {Call(t, i) : t \in Tools, i \in 0 .. MaxSteps}
Forms == {StepOf(Call(t, i), i) : t \in Tools, i \in 0 .. MaxSteps} \cup
         {StepOf(Final("answer"), i) : i \in 0 .. MaxSteps}

ASSUME FormsAssumption ==
  {Missing, Malformed} \cap Calls = {} /\ Missing \notin Seq(Forms) /\ Malformed \notin Seq(Forms)

CheckpointInit ==
  /\ written = [schema_version |-> 1, revision |-> 0, run_id |-> "run", phase |-> "routing",
                next_step_index |-> 0, max_steps |-> MaxSteps, user_input |-> "question",
                session_context |-> ContextOf, route |-> Missing, agent_name |-> Missing,
                definition_version |-> "v1", model_config |-> "model", steps |-> <<>>,
                pending_action |-> Missing, final_answer |-> Missing]
  /\ row = [payload |-> written, revision |-> 0, run_id |-> "run"]
  /\ damage = 0 /\ reading = "no" /\ state = Missing

-----------------------------------------------------------------------------
(* Checks *)

Plain(x)     == x \notin {Missing, Malformed}
Optional(x) == x # Malformed

\* _validate_tool_call_identity and the rest of the checks of one action.
ActionDecodes(a) ==
  /\ a.type \in {"tool_call", "final"}
  /\ IF a.type = "tool_call" THEN Plain(a.tool) /\ Optional(a.tool_call_id) ELSE Plain(a.answer)

StepDecodes(s) ==
  /\ ActionDecodes(s) /\ Optional(s.error) /\ Plain(s.index) /\ Plain(s.status)
  /\ Optional(s.elapsed_ms)

\* _validate_checkpoint
Coherent(c) ==
  /\ c.max_steps >= 1 /\ c.revision >= 0
  /\ \A i \in DOMAIN c.steps : c.steps[i].index = i - 1
  /\ c.next_step_index = Len(c.steps) /\ c.next_step_index <= c.max_steps
  /\ CASE c.phase = "final_ready" -> c.final_answer # Missing /\ c.pending_action = Missing
       [] c.phase \in {"before_tool", "tool_in_flight"} ->
            /\ c.pending_action # Missing /\ c.final_answer = Missing
            /\ c.pending_action.type = "tool_call" /\ Plain(c.pending_action.tool)
       [] OTHER -> c.pending_action = Missing /\ c.final_answer = Missing

\* decode_checkpoint: the fields that may be absent have a default, and then everything
\* must fit together.
OrElse(x, default) == IF x = Missing THEN default ELSE x

Decode(p) ==
  [p EXCEPT !.steps = OrElse(@, <<>>), !.session_context = OrElse(@, {}),
            !.model_config = OrElse(@, {})]

Required_NoIndex == {"run_id", "max_steps", "user_input", "definition_version", "revision"}

Required == {"run_id", "max_steps", "user_input", "definition_version", "next_step_index", "revision"}

Decodes_LooseIndex(p) ==
  /\ p.schema_version = 1
  /\ \A f \in Required_NoIndex : Plain(p[f])
  /\ \A f \in {"session_context", "route", "agent_name", "model_config", "final_answer", "steps",
               "pending_action"} : Optional(p[f])
  /\ p.phase \in {"routing", "before_action", "before_tool", "tool_in_flight", "final_ready"}
  /\ \A i \in DOMAIN Decode(p).steps : StepDecodes(Decode(p).steps[i])
  /\ p.pending_action # Missing => ActionDecodes(p.pending_action) /\ Optional(p.pending_action.args)
  /\ Coherent([Decode(p) EXCEPT !.next_step_index = OrElse(@, Len(Decode(p).steps))])

Decodes(p) ==
  /\ p.schema_version = 1
  /\ \A f \in Required : Plain(p[f])
  /\ \A f \in {"session_context", "route", "agent_name", "model_config", "final_answer", "steps",
               "pending_action"} : Optional(p[f])
  /\ p.phase \in {"routing", "before_action", "before_tool", "tool_in_flight", "final_ready"}
  /\ \A i \in DOMAIN Decode(p).steps : StepDecodes(Decode(p).steps[i])
  /\ p.pending_action # Missing => ActionDecodes(p.pending_action) /\ Optional(p.pending_action.args)
  /\ Coherent(Decode(p))

-----------------------------------------------------------------------------
(* The executor writes *)

\* encode_checkpoint and the update of the row.  A checkpoint that is too large, or that
\* holds something JSON has no form for, is not written, and the run ends.
Save(c) ==
  /\ reading = "no" /\ damage = 0 /\ Coherent(c)
  /\ written' = [c EXCEPT !.revision = @ + 1]
  /\ row' = [payload |-> written', revision |-> written'.revision, run_id |-> written'.run_id]
  /\ UNCHANGED <<damage, reading, state>>

CommitRoute ==
  /\ written.phase = "routing"
  /\ Save([written EXCEPT !.phase = "before_action", !.route = "order", !.agent_name = "order_support"])

ChooseTool ==
  /\ written.phase = "before_action" /\ Len(written.steps) < MaxSteps
  /\ \E t \in Tools :
       Save([written EXCEPT !.phase = "before_tool", !.pending_action = Call(t, Len(written.steps))])

StartTool == written.phase = "before_tool" /\ Save([written EXCEPT !.phase = "tool_in_flight"])

\* _with_step, and for the last step _with_result_steps: the snapshot and the index grow
\* together.
WithStep(c, action) ==
  [c EXCEPT !.steps = Append(@, StepOf(action, Len(@))), !.next_step_index = Len(c.steps) + 1]

CommitStep ==
  /\ written.phase = "tool_in_flight"
  /\ Save([WithStep(written, written.pending_action) EXCEPT !.phase = "before_action",
                                                              !.pending_action = Missing])

\* The answer is stored before the run ends, and again, as its last step, with the end.
ChooseFinal ==
  /\ written.phase = "before_action" /\ Len(written.steps) < MaxSteps
  /\ LET ready == [written EXCEPT !.phase = "final_ready", !.final_answer = "answer"]
     IN Save(ready) \/ Save(WithStep(ready, Final("answer")))

-----------------------------------------------------------------------------
(* Another version *)

Words == {"schema_version", "phase", "definition_version"}

\* What another version may have written in place of field f: nothing, another type, or a
\* word that this version does not know.
Damaged(r, f) ==
  {[r EXCEPT ![f] = v] : v \in {Missing, Malformed} \cup
                              IF f \in Words \cup {"status", "type", "tool"} THEN {Unknown} ELSE {}}

Damage ==
  /\ reading = "no" /\ damage < MaxDamage
  /\ \E p \in UNION
        {UNION {Damaged(row.payload, f) : f \in DOMAIN row.payload},
         IF Plain(row.payload.pending_action)
         THEN {[row.payload EXCEPT !.pending_action = a] :
                 a \in UNION {Damaged(row.payload.pending_action, f) : f \in DOMAIN Final("a")}}
         ELSE {},
         IF Plain(row.payload.steps)
         THEN UNION {{[row.payload EXCEPT !.steps[i] = s] :
                        s \in UNION {Damaged(row.payload.steps[i], f) : f \in DOMAIN StepOf(Final("a"), 0)}}
                       : i \in DOMAIN row.payload.steps}
         ELSE {}} :
       p # row.payload /\ row' = [row EXCEPT !.payload = p]
  /\ damage' = damage + 1
  /\ UNCHANGED <<written, reading, state>>

\* decode_checkpoint_row: the columns and the payload must be of one checkpoint.
Load ==
  /\ reading = "no"
  /\ IF Decodes(row.payload) /\ row.payload.revision = row.revision /\ row.payload.run_id = row.run_id
     THEN reading' = "loaded" /\ state' = Decode(row.payload)
     ELSE reading' = "refused" /\ UNCHANGED state
  /\ UNCHANGED <<written, row, damage>>

\* assess_resume and state_from_checkpoint: the definition and its tools are those of the
\* checkpoint, and its steps have a status that is known; else the run has failed or is
\* given up.  A tool that may not be called again is for a human to decide about.
Resume ==
  /\ reading = "loaded"
  /\ \/ /\ state.definition_version = "v1"
        /\ \A i \in DOMAIN state.steps :
             LET s == state.steps[i]
             IN s.status = "completed" /\ (s.type = "tool_call" => s.tool \in Tools /\ Optional(s.args))
        /\ state.phase \in {"before_tool", "tool_in_flight"} => state.pending_action.tool \in Tools
        /\ reading' = "resumed"
     \/ /\ \/ state.definition_version # "v1"
           \/ \E i \in DOMAIN state.steps : LET s == state.steps[i] IN
                s.status # "completed" \/ (s.type = "tool_call" /\ (s.tool \notin Tools \/ s.args = Malformed))
           \/ /\ state.phase \in {"before_tool", "tool_in_flight"}
              /\ state.pending_action.tool \notin Tools \/ state.phase = "tool_in_flight"
        /\ reading' = "unsafe"
  /\ UNCHANGED <<written, row, damage, state>>

CheckpointNext ==
  \/ CommitRoute \/ ChooseTool \/ StartTool \/ CommitStep \/ ChooseFinal
  \/ Damage \/ Load \/ Resume

CheckpointSpec == CheckpointInit /\ [][CheckpointNext]_checkpointVars

-----------------------------------------------------------------------------
(* Properties *)

CheckpointTypeOK ==
  /\ Coherent(written) /\ row.run_id = written.run_id /\ row.revision = written.revision
  /\ damage \in 0 .. MaxDamage
  /\ reading \in {"no", "refused", "loaded", "resumed", "unsafe"}
  /\ (state = Missing) = (reading \in {"no", "refused"})

What(a)      == <<a.type, IF a.type = "tool_call" THEN a.tool ELSE a.answer>>
CallId(a, i) == IF a.tool_call_id = Missing THEN i ELSE a.tool_call_id

\* A checkpoint that no other version has touched is always read back as it was written.
\* One that another version has touched is refused, or it goes on where it stopped: at the
\* same phase and revision, after the same steps with the same tools, with the same tool
\* and the same call id, or with the same answer.  What a run has done is never lost in
\* silence and never done once more under another id.
NothingIsLost ==
  /\ damage = 0 /\ reading # "no" => reading # "refused" /\ state = written
  /\ reading = "resumed" =>
       /\ \A f \in {"run_id", "phase", "revision", "next_step_index", "max_steps", "user_input",
                    "definition_version", "final_answer"} : state[f] = written[f]
       /\ Len(state.steps) = Len(written.steps)
       /\ \A i \in DOMAIN state.steps : What(state.steps[i]) = What(written.steps[i])
       /\ state.phase \in {"before_tool", "tool_in_flight"} =>
            /\ What(state.pending_action) = What(written.pending_action)
            /\ CallId(state.pending_action, Len(state.steps)) = Len(written.steps)
=============================================================================
