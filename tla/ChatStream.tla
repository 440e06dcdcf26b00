----------------------------- MODULE ChatStream -----------------------------
(***************************************************************************)
(* A streamed question to the agents outside the managed runs, and the     *)
(* audits of it: generators nested in one another, innermost first         *)
(*                                                                         *)
(*   the specialist   internal/services/agents/order.py, payment.py        *)
(*   the router       internal/services/agents/router.py (stream_chat)     *)
(*   the controller   internal/controllers/api/agent.py,                   *)
(*                    internal/utils/stream.py (the limit on one chunk)    *)
(*                                                                         *)
(* A chunk is produced by the innermost generator and carried outwards;    *)
(* each layer may write an audit of it, await something, and fail.  The    *)
(* time limit and the client may cancel the generators anywhere on the     *)
(* way, and then no layer catches anything.                                *)
(***************************************************************************)
EXTENDS Integers, Sequences

CONSTANTS
  StepLimit  \* max_steps of the request

ASSUME ChatStreamAssumption == StepLimit \in Nat \ {0}

VARIABLES
  chat,     \* the request
  domain,   \* route: the domain that answers, or "none" as long as nobody knows
  point,    \* what the innermost generator does next
  ready,    \* the events of a result that is already there
  steps,    \* the steps the agent has made, -1 before run_started
  carried,  \* the chunk on its way to the client, or "none"
  layer,    \* who handles it: "specialist", "router" or "client"
  sent,     \* what the client received
  audits,   \* the audits written: by whom, with what status
  invoiced  \* the confirmed action was carried out

chatVars == <<chat, domain, point, ready, steps, carried, layer, sent, audits, invoiced>>

Domains == {"order", "payment", "unsupported"}

\* The words of a question that the rules look for.
Question == {q \in [order : BOOLEAN, payment : BOOLEAN, strong : BOOLEAN, other : BOOLEAN] :
               q.strong => q.payment}
ChatRequest ==
  [entry : {"chat", "order", "payment"}, token : {"none", "good", "bad"}, key : BOOLEAN,
   question : Question]

\* The rules decide what they are sure of; the rest is left to the model.
RuleRoute(q) ==
  CASE q.other                 -> "unsupported"
    [] q.payment /\ ~q.order   -> "payment"
    [] q.order /\ ~q.payment   -> "order"
    [] q.strong                -> "payment"
    [] OTHER                   -> "none"

ChatInit ==
  /\ chat \in ChatRequest
  /\ domain = IF chat.entry = "chat" THEN "none" ELSE chat.entry
  /\ point = IF chat.entry = "chat" THEN "route" ELSE "start"
  /\ ready = <<>> /\ steps = -1 /\ carried = "none" /\ layer = "client"
  /\ sent = <<>> /\ audits = {} /\ invoiced = FALSE

-----------------------------------------------------------------------------
(* Inside the generators *)

Works(p) == carried = "none" /\ point = p

\* The chunk leaves the generator it was made in, towards the next layer.
Hand(event, to) == carried' = event /\ layer' = to

\* An audit is put in the queue of the background tasks, which may lose it.
Audit(by, status) ==
  \/ audits' = audits \cup {[by |-> by, status |-> status]}
  \/ UNCHANGED audits

Terminal == {"run_completed", "error", "timeout"}

\* An exception that a layer catches: it audits a failure, makes an error event and is
\* done.
RouterRaises ==
  /\ point' = "done" /\ Hand("error", "client") /\ Audit("router", "failed")
  /\ UNCHANGED <<chat, domain, ready, steps, sent, invoiced>>

SpecialistRaises ==
  /\ point' = "done" /\ Hand("error", "router") /\ Audit("specialist", "failed")
  /\ UNCHANGED <<chat, domain, ready, steps, sent>>

\* resolve_agent_confirmation_context: the pending action names its domain.  Only the
\* order agent prepares actions.
ResolveToken ==
  /\ Works("route") /\ chat.token # "none"
  /\ \/ RouterRaises
     \/ /\ chat.token = "good"
        /\ domain' = "order" /\ point' = "start" /\ Hand("route", "client")
        /\ UNCHANGED <<chat, ready, steps, sent, audits, invoiced>>

PickRoute ==
  /\ Works("route") /\ chat.token = "none"
  /\ \/ RuleRoute(chat.question) = "none" /\ RouterRaises
     \/ /\ domain' \in IF RuleRoute(chat.question) = "none" THEN Domains
                       ELSE {RuleRoute(chat.question)}
        /\ point' = "start" /\ Hand("route", "client")
        /\ UNCHANGED <<chat, ready, steps, sent, audits, invoiced>>

\* A question of no supported domain has a fixed answer, which the router audits first.
AnswerAtOnce ==
  /\ Works("start") /\ domain = "unsupported"
  /\ ready' = <<"run_started", "run_completed">> /\ point' = "ready"
  /\ Audit("router", "completed")
  /\ UNCHANGED <<chat, domain, steps, carried, layer, sent, invoiced>>

\* A confirmation is carried out before anything is sent; it may fail after its commit.
Confirm ==
  /\ Works("start") /\ domain = "order" /\ chat.token # "none"
  /\ \/ SpecialistRaises /\ invoiced' \in {FALSE, chat.key /\ chat.token = "good"}
     \/ /\ chat.key /\ chat.token = "good"
        /\ invoiced' = TRUE /\ point' = "ready"
        /\ ready' = <<"run_started", "step_completed", "run_completed">>
        /\ Audit("specialist", "completed")
        /\ UNCHANGED <<chat, domain, steps, carried, layer, sent>>

NextReady_FallsThrough ==
  /\ Works("ready")
  /\ Hand(Head(ready), IF domain = "unsupported" THEN "client" ELSE "router")
  /\ ready' = Tail(ready)
  /\ point' = IF Len(ready) > 1 THEN point ELSE IF domain = "order" THEN "agent" ELSE "done"
  /\ UNCHANGED <<chat, domain, steps, sent, audits, invoiced>>

\* The next event of a result that is there: who made the result has audited it.
NextReady ==
  /\ Works("ready")
  /\ Hand(Head(ready), IF domain = "unsupported" THEN "client" ELSE "router")
  /\ ready' = Tail(ready)
  /\ point' = IF Len(ready) > 1 THEN point ELSE "done"
  /\ UNCHANGED <<chat, domain, steps, sent, audits, invoiced>>

\* The payment agent has nothing to confirm.
RefuseConfirmation ==
  /\ Works("start") /\ domain = "payment" /\ (chat.token # "none" \/ chat.key)
  /\ SpecialistRaises /\ UNCHANGED invoiced

StartAgent ==
  /\ Works("start") /\ chat.token = "none"
  /\ domain = "order" \/ (domain = "payment" /\ ~chat.key)
  /\ point' = "agent"
  /\ UNCHANGED <<chat, domain, ready, steps, carried, layer, sent, audits, invoiced>>

\* run_events of the agent: run_started, one event for each step, and the result after
\* its last step; model and tools may raise in between.
AgentEvent ==
  /\ Works("agent")
  /\ steps' = IF steps < StepLimit THEN steps + 1 ELSE steps
  /\ carried' \in IF steps = -1 THEN {"run_started"}
                  ELSE IF steps = 0 THEN {"step_completed"}
                  ELSE IF steps < StepLimit THEN {"step_completed", "run_completed"}
                  ELSE {"run_completed"}
  /\ layer' = "specialist"
  /\ point' = IF carried' = "run_completed" THEN "done" ELSE point
  /\ UNCHANGED <<chat, domain, ready, sent, audits, invoiced>>

AgentRaises == Works("agent") /\ steps \in 0 .. StepLimit - 1 /\ SpecialistRaises /\ UNCHANGED invoiced

-----------------------------------------------------------------------------
(* On the way out *)

\* The specialist audits the event that has the result.
SpecialistForwards ==
  /\ carried # "none" /\ layer = "specialist"
  /\ layer' = "router"
  /\ IF carried = "run_completed" THEN Audit("specialist", "completed") ELSE UNCHANGED audits
  /\ UNCHANGED <<chat, domain, point, ready, steps, carried, sent, invoiced>>

\* So does the router, where there is one, and it audits an error event as a failure.
RouterForwards ==
  /\ carried # "none" /\ layer = "router"
  /\ layer' = "client"
  /\ CASE chat.entry # "chat"         -> UNCHANGED audits
       [] carried = "run_completed"   -> Audit("router", "completed")
       [] carried = "error"           -> Audit("router", "failed")
       [] OTHER                       -> UNCHANGED audits
  /\ UNCHANGED <<chat, domain, point, ready, steps, carried, sent, invoiced>>

Yield ==
  /\ carried # "none" /\ layer = "client"
  /\ sent' = Append(sent, carried) /\ carried' = "none"
  /\ UNCHANGED <<chat, domain, point, ready, steps, layer, audits, invoiced>>

\* The time for one chunk is over: what is being made is cancelled, wherever it is, even
\* between the commit of a confirmation and the first event about it.
ChunkTimeout ==
  /\ point # "gone" /\ (point # "done" \/ carried # "none") /\ point' = "gone"
  /\ sent' = Append(sent, "timeout") /\ carried' = "none"
  /\ \/ UNCHANGED invoiced
     \/ Works("start") /\ domain = "order" /\ chat.token = "good" /\ chat.key /\ invoiced' = TRUE
  /\ UNCHANGED <<chat, domain, ready, steps, layer, audits>>

\* The client goes away, or the total time of the request is over.
Cancelled ==
  /\ point # "gone" /\ (point # "done" \/ carried # "none") /\ point' = "gone"
  /\ carried' = "none"
  /\ \/ UNCHANGED invoiced
     \/ Works("start") /\ domain = "order" /\ chat.token = "good" /\ chat.key /\ invoiced' = TRUE
  /\ UNCHANGED <<chat, domain, ready, steps, layer, sent, audits>>

ChatNext ==
  \/ ResolveToken \/ PickRoute \/ AnswerAtOnce \/ Confirm \/ NextReady
  \/ RefuseConfirmation \/ StartAgent \/ AgentEvent \/ AgentRaises
  \/ SpecialistForwards \/ RouterForwards \/ Yield
  \/ ChunkTimeout \/ Cancelled

ChatSpec == ChatInit /\ [][ChatNext]_chatVars

-----------------------------------------------------------------------------
(* Properties *)

ChatTypeOK ==
  /\ chat \in ChatRequest /\ domain \in Domains \cup {"none"}
  /\ point \in {"route", "start", "ready", "agent", "done", "gone"}
  /\ ready \in Seq({"run_started", "step_completed", "run_completed"})
  /\ steps \in -1 .. StepLimit
  /\ layer \in {"specialist", "router", "client"}
  /\ sent \in Seq({"route", "run_started", "step_completed"} \cup Terminal)
  /\ audits \subseteq [by : {"specialist", "router"}, status : {"completed", "failed"}]
  /\ invoiced \in BOOLEAN

\* What the client receives is one conversation: the route at most once and first,
\* run_started at most once and before the steps, and one terminal event, after which
\* nothing follows; a stream that is over without having been cancelled has one.
EventsAreInOrder ==
  /\ \A i \in DOMAIN sent :
       /\ sent[i] = "route" => i = 1
       /\ sent[i] = "run_started" => \A j \in 1 .. i - 1 : sent[j] = "route"
       /\ sent[i] \in {"step_completed", "run_completed"} => \E j \in 1 .. i - 1 : sent[j] = "run_started"
       /\ sent[i] \in Terminal => i = Len(sent)
  /\ point = "done" /\ carried = "none" => sent # <<>> /\ sent[Len(sent)] \in Terminal

\* The audits of one request never contradict each other nor what the client was told.
AuditsAgree ==
  /\ \A a, b \in audits : a.status = b.status
  /\ \A i \in DOMAIN sent : \A a \in audits :
       /\ sent[i] = "run_completed" => a.status = "completed"
       /\ sent[i] = "error" => a.status = "failed"

\* The client, and whoever reads the audits, learn one and the same end of a conversation.
StreamIsWellFormed == EventsAreInOrder /\ AuditsAgree
=============================================================================
