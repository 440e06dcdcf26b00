---------------------------- MODULE EventStream ----------------------------
(***************************************************************************)
(* The event stream of one resumed run.  A producer drives the agent and   *)
(* offers its events to a bounded channel; it never waits for the client.  *)
(* The response takes them over, through a second channel, at the pace of  *)
(* the client.  A client that is too slow or gone interrupts the run.      *)
(*                                                                         *)
(*   internal/services/agents/execution.py                                 *)
(*   internal/controllers/api/agent.py (the response)                      *)
(*                                                                         *)
(* The run itself, its checkpoints and leases are those of ManagedRun,     *)
(* cut down to what decides when this attempt ends and who holds the run:  *)
(* attempt 1 is the one that streams, attempt 2 stands for all that come   *)
(* after it.  The events of an attempt are numbered.                       *)
(***************************************************************************)
EXTENDS Integers, Sequences

CONSTANTS
  Buffer,    \* stream_buffer_size
  SseBuffer, \* _MANAGED_SSE_BUFFER_SIZE
  MaxSteps   \* max_steps of the run

ASSUME StreamAssumption == Buffer \in Nat \ {0} /\ SseBuffer \in Nat \ {0} /\ MaxSteps \in Nat

VARIABLES
  \* the database
  run,      \* the status of the run
  owner,    \* the attempt that holds the lease, 0 for none
  \* the producer
  producer, \* where it is
  outcome,  \* how the events of the agent ended
  inTool,   \* the checkpoint is in phase tool_in_flight
  produced, \* the events of the agent so far
  channel,  \* the events that wait for the consumer
  \* _ManagedRunControl
  stop,     \* stop_requested
  slow,     \* slow_client
  result,   \* an event carried a result
  shutdown, \* the grace period has begun
  \* the response
  consumer, \* where the task that feeds the response is
  item,     \* the event in its hands
  sse,      \* the events that wait for the client
  client,   \* "reading" or "gone"
  received, \* what the client got
  \* history
  struck    \* the attempts that an interrupt intent of this one hit

producerVars == <<producer, outcome, inTool, produced>>
controlVars  == <<stop, slow, result, shutdown>>
responseVars == <<consumer, item, sse, client, received>>
streamVars   == <<run, owner, producer, outcome, inTool, produced, channel, stop, slow, result,
                  shutdown, consumer, item, sse, client, received, struck>>

None    == 0   \* no event
Failure == -1  \* the error event, which only the response makes

-----------------------------------------------------------------------------

StreamInit ==
  /\ run = "running" /\ owner = 1
  /\ producer = "driving" /\ outcome = "open" /\ inTool \in BOOLEAN /\ produced = 0
  /\ channel = <<>>
  /\ stop = FALSE /\ slow = FALSE /\ result = FALSE /\ shutdown = FALSE
  /\ consumer = "receiving" /\ item = None /\ sse = <<>> /\ client = "reading"
  /\ received = <<>> /\ struck = {}

-----------------------------------------------------------------------------
(* The producer *)

Driving == producer = "driving" /\ outcome = "open"

Emit_GoesOn ==
  /\ produced' = produced + 1
  /\ IF ~stop /\ Len(channel) < Buffer
     THEN /\ channel' = Append(channel, produced + 1)
          /\ UNCHANGED <<producer, stop, slow>>
     ELSE IF ~stop /\ ~slow
          THEN producer' = "intent" /\ slow' = TRUE /\ UNCHANGED <<channel, stop>>
          ELSE UNCHANGED <<producer, channel, stop, slow>>

\* The channel takes the event, unless a stop was asked for; if it is full the event is
\* lost, the client counts as slow, and no later event is offered.
Emit ==
  /\ produced' = produced + 1
  /\ \/ /\ ~stop /\ Len(channel) < Buffer
        /\ channel' = Append(channel, produced + 1)
        /\ UNCHANGED <<producer, stop, slow>>
     \/ /\ ~stop /\ Len(channel) >= Buffer
        /\ slow' = TRUE /\ stop' = TRUE /\ producer' = "intent"
        /\ UNCHANGED channel
     \/ stop /\ UNCHANGED <<producer, channel, stop, slow>>

\* run_started or run_resumed.
Announce ==
  /\ Driving /\ produced = 0
  /\ Emit
  /\ UNCHANGED <<run, owner, outcome, inTool, result, shutdown, responseVars, struck>>

\* A tool starts only while nobody has asked for an interrupt.
BeginStep ==
  /\ Driving /\ ~inTool /\ produced \in 1 .. MaxSteps
  /\ owner = 1 /\ run = "running"
  /\ inTool' = TRUE
  /\ UNCHANGED <<run, owner, producer, outcome, produced, channel, controlVars, responseVars,
                 struck>>

\* A commit that lets an interrupt pause the run, or else does what it is for.
PauseOr(status, next) ==
  /\ owner = 1
  /\ \/ run = "interrupt_requested" /\ run' = "interrupted" /\ owner' = 0 /\ outcome' = "pausing"
     \/ run = "running" /\ run' = status /\ outcome' = next
        /\ owner' = IF status = "running" THEN 1 ELSE 0

EndStep ==
  /\ Driving /\ inTool /\ produced \in 1 .. MaxSteps
  /\ PauseOr("running", "open")
  /\ inTool' = FALSE
  /\ Emit
  /\ UNCHANGED <<result, shutdown, responseVars, struck>>

\* The model answers: the last step, like the others, has an event of its own.
CommitFinal ==
  /\ Driving /\ ~inTool /\ produced \in 1 .. MaxSteps
  /\ PauseOr("completed", "completing")
  /\ Emit
  /\ UNCHANGED <<inTool, result, shutdown, responseVars, struck>>

\* The event that follows what such a commit did.
LastEvent ==
  /\ producer = "driving" /\ outcome \in {"pausing", "completing"}
  /\ outcome' = IF outcome = "pausing" THEN "paused" ELSE "completed"
  /\ result' = TRUE
  /\ Emit
  /\ UNCHANGED <<run, owner, inTool, shutdown, responseVars, struck>>

\* Without a step event: the steps are used up, or the route is degraded, which does not
\* heed interrupts and announces nothing.
CompleteAtOnce ==
  /\ Driving /\ ~inTool /\ owner = 1
  /\ \/ produced = MaxSteps + 1 /\ run = "running"
     \/ produced = 0 /\ run \in {"running", "interrupt_requested"}
  /\ run' = "completed" /\ owner' = 0 /\ outcome' = "completed" /\ result' = TRUE
  /\ Emit
  /\ UNCHANGED <<inTool, shutdown, responseVars, struck>>

\* Without a step event: a commit before the next tool pauses the run, or the control state
\* says that the lease is gone, or was when it was read.  A pause after the routing comes
\* before all other events and carries no result.
Pause ==
  /\ Driving /\ ~inTool
  /\ \/ owner = 1 /\ run = "interrupt_requested" /\ run' = "interrupted" /\ owner' = 0
     \/ produced > 0 /\ UNCHANGED <<run, owner>>
  /\ outcome' = "paused" /\ result' = (produced > 0)
  /\ Emit
  /\ UNCHANGED <<inTool, shutdown, responseVars, struck>>

\* The model, a tool, a commit without the lease, or anything else raises.
Raise ==
  /\ Driving
  /\ outcome' = "failed"
  /\ UNCHANGED <<run, owner, producer, inTool, produced, channel, controlVars, responseVars,
                 struck>>

\* An interrupt intent is for whichever attempt is running.
Strike ==
  IF run = "running" THEN run' = "interrupt_requested" /\ struck' = struck \cup {owner}
  ELSE UNCHANGED <<run, struck>>

\* The grace period begins, and the producer tells the run to stop for the slow client.  A
\* database error here is one of the execution.
SlowIntent ==
  /\ producer = "intent"
  /\ shutdown' = TRUE
  /\ \/ Strike /\ UNCHANGED outcome
     \/ outcome' = "failed" /\ UNCHANGED <<run, struck>>
     \/ UNCHANGED <<run, struck, outcome>>
  /\ producer' = "driving"
  /\ UNCHANGED <<owner, inTool, produced, channel, stop, slow, result, responseVars>>

\* The deadline of the grace period cancels the execution, wherever it is.
Deadline ==
  /\ shutdown /\ Driving
  /\ outcome' = "cancelled"
  /\ UNCHANGED <<run, owner, producer, inTool, produced, channel, controlVars, responseVars,
                 struck>>

\* The channel is closed before the attempt is.
CloseChannel ==
  /\ producer = "driving" /\ outcome \in {"completed", "paused", "failed", "cancelled"}
  /\ producer' = "closing"
  /\ UNCHANGED <<run, owner, outcome, inTool, produced, channel, controlVars, responseVars,
                 struck>>

FinalStatus ==
  CASE outcome = "completed" -> {"completed"}
    [] outcome = "paused" -> {"interrupted"}
    [] outcome \in {"failed", "cancelled"} /\ inTool -> {"recovery_required"}
    [] outcome = "failed" /\ ~inTool -> {"failed", "recovery_required"}
    [] outcome = "cancelled" /\ ~inTool -> {"interrupted"}

\* The attempt is finalized if it still holds the run, unless that fails or takes too long.
Finalize ==
  /\ producer = "closing"
  /\ \/ owner = 1 /\ run' \in FinalStatus /\ owner' = 0
     \/ UNCHANGED <<run, owner>>
  /\ producer' = "done"
  /\ UNCHANGED <<outcome, inTool, produced, channel, controlVars, responseVars, struck>>

-----------------------------------------------------------------------------
(* The response *)

At(place) == consumer' = place

Receive ==
  /\ consumer = "receiving" /\ channel # <<>>
  /\ item' = Head(channel) /\ channel' = Tail(channel)
  /\ At("sending")
  /\ UNCHANGED <<run, owner, producerVars, controlVars, sse, client, received, struck>>

Send ==
  /\ consumer = "sending" /\ Len(sse) < SseBuffer
  /\ sse' = Append(sse, item) /\ item' = None
  /\ At(IF item = Failure THEN "over" ELSE "receiving")
  /\ UNCHANGED <<run, owner, producerVars, channel, controlVars, client, received, struck>>

\* The client reads at its own pace.
Read ==
  /\ client = "reading" /\ sse # <<>>
  /\ received' = Append(received, Head(sse)) /\ sse' = Tail(sse)
  /\ UNCHANGED <<run, owner, producerVars, channel, controlVars, consumer, item, client, struck>>

\* The client goes away: the response is cancelled, but not the shielded shutdown.
Disconnect ==
  /\ client = "reading" /\ consumer # "over"
  /\ client' = "gone"
  /\ At(CASE consumer = "sending" /\ item = Failure -> "over"
          [] consumer = "receiving" \/ (consumer = "sending" /\ item # Failure) -> "leaving"
          [] OTHER -> consumer)
  /\ UNCHANGED <<run, owner, producerVars, channel, controlVars, item, sse, received, struck>>

EndOfChannel ==
  /\ consumer = "receiving" /\ channel = <<>> /\ producer \in {"closing", "done"}
  /\ At("leaving")
  /\ UNCHANGED <<run, owner, producerVars, channel, controlVars, item, sse, client, received,
                 struck>>

Leave_NoDeadline ==
  /\ consumer = "leaving"
  /\ stop' = TRUE
  /\ At(IF result THEN "waiting" ELSE "intent")
  /\ UNCHANGED <<run, owner, producerVars, channel, slow, result, shutdown, item, sse, client,
                 received, struck>>

\* Whatever ended the stream, the grace period begins; without a result there is something
\* to interrupt.
Leave ==
  /\ consumer = "leaving"
  /\ stop' = TRUE /\ shutdown' = TRUE
  /\ At(IF result THEN "waiting" ELSE "intent")
  /\ UNCHANGED <<run, owner, producerVars, channel, slow, result, item, sse, client, received,
                 struck>>

\* The intent is stored, refused, fails, or takes too long.
LeaveIntent ==
  /\ consumer = "intent"
  /\ Strike \/ UNCHANGED <<run, struck>>
  /\ At("waiting")
  /\ UNCHANGED <<owner, producerVars, channel, controlVars, item, sse, client, received>>

EndResponse_Quiet ==
  /\ consumer = "waiting" /\ producer = "done"
  /\ At("over") /\ UNCHANGED item
  /\ UNCHANGED <<run, owner, producerVars, channel, controlVars, sse, client, received, struck>>

\* The producer is done; an error of the execution becomes the last event.
EndResponse ==
  /\ consumer = "waiting" /\ producer = "done"
  /\ IF outcome = "failed" /\ client = "reading"
     THEN At("sending") /\ item' = Failure
     ELSE At("over") /\ UNCHANGED item
  /\ UNCHANGED <<run, owner, producerVars, channel, controlVars, sse, client, received, struck>>

-----------------------------------------------------------------------------
(* Others *)

\* A client asks for an interrupt.
Interrupt ==
  /\ run = "running" /\ run' = "interrupt_requested"
  /\ UNCHANGED <<owner, producerVars, channel, controlVars, responseVars, struck>>

\* The lease ran out and another attempt took the run over, or it resumes the paused run.
Succeed ==
  /\ \/ owner = 1 /\ run \in {"running", "interrupt_requested"}
     \/ owner = 0 /\ run = "interrupted"
  /\ owner' = 2 /\ run' = "running"
  /\ UNCHANGED <<producerVars, channel, controlVars, responseVars, struck>>

SuccessorEnds ==
  /\ owner = 2 /\ owner' = 0
  /\ run' = IF run = "running" THEN "completed" ELSE "interrupted"
  /\ UNCHANGED <<producerVars, channel, controlVars, responseVars, struck>>

-----------------------------------------------------------------------------

StreamNext ==
  \/ Announce \/ BeginStep \/ EndStep \/ CommitFinal \/ LastEvent
  \/ CompleteAtOnce \/ Pause \/ Raise
  \/ SlowIntent \/ Deadline \/ CloseChannel \/ Finalize
  \/ Receive \/ Send \/ Read \/ Disconnect \/ EndOfChannel \/ Leave \/ LeaveIntent
  \/ EndResponse
  \/ Interrupt \/ Succeed \/ SuccessorEnds

StreamSpec == StreamInit /\ [][StreamNext]_streamVars

\* The tasks of the process are scheduled, timers fire, and database calls return or are
\* abandoned.  The agent may hang in a model or a tool, and the client need not read.
StreamFairness ==
  /\ WF_streamVars(LastEvent) /\ WF_streamVars(SlowIntent) /\ WF_streamVars(Deadline)
  /\ WF_streamVars(CloseChannel) /\ WF_streamVars(Finalize)
  /\ WF_streamVars(Leave) /\ WF_streamVars(LeaveIntent) /\ WF_streamVars(EndResponse)

FairStreamSpec == StreamSpec /\ StreamFairness

-----------------------------------------------------------------------------
(* Properties *)

RunStatus ==
  {"running", "interrupt_requested", "interrupted", "completed", "failed", "recovery_required"}

StreamTypeOK ==
  /\ run \in RunStatus /\ owner \in 0 .. 2
  /\ producer \in {"driving", "intent", "closing", "done"}
  /\ outcome \in {"open", "pausing", "completing", "completed", "paused", "failed", "cancelled"}
  /\ inTool \in BOOLEAN /\ produced \in 0 .. MaxSteps + 2
  /\ channel \in Seq(1 .. MaxSteps + 2) /\ Len(channel) <= Buffer
  /\ stop \in BOOLEAN /\ slow \in BOOLEAN /\ result \in BOOLEAN /\ shutdown \in BOOLEAN
  /\ consumer \in {"receiving", "sending", "leaving", "intent", "waiting", "over"}
  /\ item \in {Failure, None} \cup 1 .. MaxSteps + 2
  /\ sse \in Seq({Failure} \cup 1 .. MaxSteps + 2) /\ Len(sse) <= SseBuffer
  /\ client \in {"reading", "gone"}
  /\ received \in Seq({Failure} \cup 1 .. MaxSteps + 2)
  /\ struck \subseteq 0 .. 2

\* What the client got, then what is on its way to it.
Events ==
  received \o sse \o (IF item = None THEN <<>> ELSE <<item>>) \o channel

\* How many of them are events of the attempt: an error event comes last.
ErrorIsSent == Events # <<>> /\ Events[Len(Events)] = Failure
Numbered    == IF ErrorIsSent THEN Len(Events) - 1 ELSE Len(Events)

\* The client sees the first events of the attempt, in order, with no gap and no error event
\* in between: an event is lost only with all that follow it, and only once the execution
\* was told to stop.
EventsAreAPrefix ==
  /\ \A i \in 1 .. Numbered : Events[i] = i
  /\ Numbered < produced => stop

\* A stream that ends for a client which is there and kept up ends with the completion,
\* the interruption or the error of the attempt, never silently.
NoSilentEnd ==
  consumer = "over" /\ client = "reading" /\ ~slow =>
    /\ Events # <<>>
    /\ \/ outcome \in {"completed", "paused"} /\ Events[Len(Events)] = produced
       \/ outcome = "failed" /\ Events[Len(Events)] = Failure

\* A client that does not read, or goes away, keeps neither the attempt nor the response:
\* both end, even if the agent hangs in a tool.
ClientHoldsNothing ==
  /\ slow ~> producer = "done"
  /\ client = "gone" ~> producer = "done" /\ consumer = "over"

\* "Only a run that has neither ended nor paused needs the interrupt intent"
\* (execution.py) and "only the current executor may change the status of the run"
\* (conversation.py): an attempt interrupts only itself.
InterruptsOnlyItself == struck \subseteq {1}
=============================================================================
