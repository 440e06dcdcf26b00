---------------------------- MODULE Conversation ----------------------------
(***************************************************************************)
(* The conversations of users with the agents: sessions, their messages    *)
(* and their runs.  A chat request runs its agent at once and stores what  *)
(* came of it; a creation stores a run under an idempotency key, for       *)
(* ManagedRun to execute later.                                            *)
(*                                                                         *)
(*   storage   internal/services/agents/conversation.py                    *)
(*   chat      internal/services/agents/router.py, order.py, payment.py    *)
(*   creation  internal/services/agents/execution.py                       *)
(*   audit     internal/services/agents/audit.py                           *)
(*                                                                         *)
(* A session and a run are named by the request that creates them.  A      *)
(* commit may take effect although its caller sees an error.  A request    *)
(* that dies or is cancelled does nothing more: its handlers of exceptions *)
(* do not catch that.                                                      *)
(***************************************************************************)
EXTENDS FiniteSets, Naturals

CONSTANTS
  Ask,    \* requests
  Chat,   \* those that chat; the others create a run
  Unified, \* the chats for which a router chooses the agent
  Agents, \* the agents a chat may get: "order", "payment" or "unsupported"
  UserOf, \* the user of each one
  KeyFor, \* the idempotency key of each creation
  BodyOf, \* its question, entrypoint and number of steps
  Wants,  \* the sessions each one may ask for
  New     \* asking for no session

ASSUME AskAssumption ==
  /\ IsFiniteSet(Ask) /\ Unified \subseteq Chat /\ Chat \subseteq Ask /\ New \notin Ask
  /\ Agents \in [Chat -> SUBSET {"order", "payment", "unsupported"}]
  /\ \A r \in Chat \ Unified : "unsupported" \notin Agents[r]
  /\ Wants \in [Ask -> SUBSET (Ask \cup {New})]
  /\ {"error", "conflict", "notFound", "none"} \cap Ask = {}

VARIABLES
  \* the database
  count,    \* message_count of each session, 0 while it does not exist
  messages, \* the stored messages: the run, and who speaks
  place,    \* the session of each run
  status,   \* the status of each run
  digest,   \* the digest of the creation of each run
  audit,    \* the status in the audit of each run
  \* the handlers
  at,       \* where each one is
  agent,    \* the agent of each chat
  want,     \* the session it asks for
  reply,    \* what it answered
  lost      \* what was lost of each one: the reply of the commit that stored its run ("start")
            \* or its answer ("answer"), the failure it was to store, or its handler

database == <<count, messages, place, status, digest, audit>>
conversationVars == <<count, messages, place, status, digest, audit, at, agent, want, reply, lost>>

-----------------------------------------------------------------------------

Create        == Ask \ Chat
Session(r)    == IF want[r] = New THEN r ELSE want[r]
\* The lookup of a session asks for its user as well.
Visible(r)    == want[r] # New => count[want[r]] > 0 /\ UserOf[want[r]] = UserOf[r]
Digest(r)     == <<BodyOf[r], want[r]>>
SameKey(q, r) == UserOf[q] = UserOf[r] /\ KeyFor[q] = KeyFor[r]

\* The runs stored under the key of a creation.
Existing(r) == {q \in Create : status[q] # "none" /\ SameKey(q, r)}

ConversationInit ==
  /\ count = [s \in Ask |-> 0] /\ messages = {}
  /\ place = [r \in Ask |-> New] /\ status = [r \in Ask |-> "none"]
  /\ digest = [r \in Ask |-> New] /\ audit = [r \in Ask |-> "none"]
  /\ at = [r \in Ask |-> "idle"] /\ agent = [r \in Ask |-> "none"] /\ want = [r \in Ask |-> New]
  /\ reply = [r \in Ask |-> "none"] /\ lost = [r \in Ask |-> {}]

Goto(r, where)  == at' = [at EXCEPT ![r] = where] /\ UNCHANGED reply
Answer(r, what) == at' = [at EXCEPT ![r] = "done"] /\ reply' = [reply EXCEPT ![r] = what]
Lose(r, what)   == lost' = [lost EXCEPT ![r] = @ \cup {what}]

\* The request arrives with the session that its client asks for.
Arrive(r, s) ==
  /\ at[r] = "idle" /\ s \in Wants[r]
  /\ want' = [want EXCEPT ![r] = s]
  /\ Goto(r, CASE r \in Unified -> "route" [] r \in Chat \ Unified -> "start"
               [] r \notin Chat /\ s = New -> "create" [] r \notin Chat /\ s # New -> "load")
  /\ agent' \in {[agent EXCEPT ![r] = a] : a \in IF r \in Chat THEN Agents[r] ELSE {"none"}}
  /\ UNCHANGED <<database, lost>>

\* A request, its session and the first message of its run are inserted together.
InsertRun(r, initial) ==
  /\ count' = [count EXCEPT ![Session(r)] = @ + 1]
  /\ messages' = messages \cup {<<r, "user">>}
  /\ place' = [place EXCEPT ![r] = Session(r)]
  /\ status' = [status EXCEPT ![r] = initial]

-----------------------------------------------------------------------------
(* A chat *)

\* The router, or the action that is to be confirmed, tells the agent.  The order and the
\* payment agent create the run on their own; if this fails there is none.
Route(r) ==
  /\ at[r] = "route"
  /\ Goto(r, "start") \/ Answer(r, "error")
  /\ UNCHANGED <<database, agent, want, lost>>

\* If this raises there is no run to fail.
StartRun(r) ==
  /\ at[r] = "start"
  /\ \/ /\ Visible(r) /\ InsertRun(r, "running")
        /\ \/ Goto(r, "context") /\ UNCHANGED lost
           \/ Answer(r, "error") /\ Lose(r, "start")
     \/ /\ ~Visible(r) /\ Answer(r, "notFound")
        /\ UNCHANGED <<count, messages, place, status, lost>>
  /\ UNCHANGED <<digest, audit, agent, want>>

\* The context is read from a replica, which may not have the session yet: that raises, as
\* does anything the agent does.  A confirmation needs no context.
AnswerOrder(r) ==
  /\ at[r] = "context" /\ agent[r] = "order"
  /\ Goto(r, "complete") \/ Goto(r, "fail")
  /\ UNCHANGED <<database, agent, want, lost>>

\* There is nothing to confirm about a payment.
AnswerPayment(r) ==
  /\ at[r] = "context" /\ agent[r] = "payment"
  /\ Goto(r, "complete") \/ Goto(r, "fail")
  /\ UNCHANGED <<database, agent, want, lost>>

\* A fixed answer.
AnswerUnsupported(r) ==
  /\ at[r] = "context" /\ agent[r] = "unsupported"
  /\ Goto(r, "complete")
  /\ UNCHANGED <<database, agent, want, lost>>

\* The answer of the assistant has a name made from the run, and is inserted once.
InsertAnswer(r) ==
  /\ messages' = messages \cup {<<r, "assistant">>}
  /\ count' = [count EXCEPT ![place[r]] = @ + 1]

CompleteRun_TwoCommits(r) ==
  /\ at[r] = "complete"
  /\ InsertAnswer(r)
  /\ \/ status' = [status EXCEPT ![r] = "completed"] /\ Goto(r, "audit")
     \/ Goto(r, "fail") /\ UNCHANGED status
  /\ UNCHANGED <<place, digest, audit, agent, want, lost>>

\* Answer and status are committed together; "completed" is the status of any result.
CompleteRun(r) ==
  /\ at[r] = "complete"
  /\ \/ /\ InsertAnswer(r)
        /\ status' = [status EXCEPT ![r] = "completed"]
        /\ \/ Goto(r, "audit") /\ UNCHANGED lost
           \/ Goto(r, "fail") /\ Lose(r, "answer")
     \/ Goto(r, "fail") /\ UNCHANGED <<count, messages, status, lost>>
  /\ UNCHANGED <<place, digest, audit, agent, want>>

\* "Marks a running run as failed", but looks at no status: a run that was completed, and
\* whose completion seemed to fail, fails too.  If this raises, the audit is skipped.
FailRun(r) ==
  /\ at[r] = "fail"
  /\ \/ /\ status' = [status EXCEPT ![r] = "failed"]
        /\ Goto(r, "auditFailure") \/ Answer(r, "error")
        /\ UNCHANGED lost
     \/ Answer(r, "error") /\ Lose(r, "failure") /\ UNCHANGED status
  /\ UNCHANGED <<count, messages, place, digest, audit, agent, want>>

\* The audit is a task in the background, which may be lost, and never raises.
RecordAudit(r) ==
  /\ \/ /\ at[r] = "audit" /\ Answer(r, r)
        /\ audit' \in {audit, [audit EXCEPT ![r] = "completed"]}
     \/ /\ at[r] = "auditFailure" /\ Answer(r, "error")
        /\ audit' \in {audit, [audit EXCEPT ![r] = "failed"]}
  /\ UNCHANGED <<count, messages, place, status, digest, agent, want, lost>>

-----------------------------------------------------------------------------
(* A creation *)

\* The context of an existing session, frozen into the first checkpoint, is read before
\* the transaction, from the replica.
LoadContext(r) ==
  /\ at[r] = "load"
  /\ (Visible(r) /\ Goto(r, "create")) \/ Answer(r, "notFound")
  /\ UNCHANGED <<database, agent, want, lost>>

\* A run with the same input is the answer, whatever came of it since.
Replay(r, q) == Answer(r, IF digest[q] = Digest(r) THEN q ELSE "conflict")

\* The transaction looks for a run under the key; if there is none, nothing is locked.
FindRun(r) ==
  /\ at[r] = "create"
  /\ \/ \E q \in Existing(r) : Replay(r, q)
     \/ Existing(r) = {} /\ Visible(r) /\ Goto(r, "insert")
     \/ Existing(r) = {} /\ ~Visible(r) /\ Answer(r, "notFound")
  /\ UNCHANGED <<database, agent, want, lost>>

CreateRun_KeepsCount(r) ==
  /\ at[r] = "insert"
  /\ \/ /\ Existing(r) = {}
        /\ InsertRun(r, "ready")
        /\ digest' = [digest EXCEPT ![r] = Digest(r)]
        /\ \/ Answer(r, r) /\ UNCHANGED lost
           \/ Answer(r, "error") /\ Lose(r, "start")
     \/ /\ Existing(r) # {} /\ Goto(r, "reload")
        /\ count' = [count EXCEPT ![Session(r)] = @ + 1]
        /\ UNCHANGED <<messages, place, status, digest, lost>>
  /\ UNCHANGED <<audit, agent, want>>

\* Session, message, run and checkpoint are committed together, unless another creation
\* with the key came first: the unique key rolls all of it back.
CreateRun(r) ==
  /\ at[r] = "insert"
  /\ \/ /\ Existing(r) = {}
        /\ InsertRun(r, "ready")
        /\ digest' = [digest EXCEPT ![r] = Digest(r)]
        /\ \/ Answer(r, r) /\ UNCHANGED lost
           \/ Answer(r, "error") /\ Lose(r, "start")
     \/ /\ Existing(r) # {} /\ Goto(r, "reload")
        /\ UNCHANGED <<count, messages, place, status, digest, lost>>
  /\ UNCHANGED <<audit, agent, want>>

ReloadRun_AnyInput(r) ==
  /\ at[r] = "reload"
  /\ \E q \in Existing(r) : Answer(r, q)
  /\ UNCHANGED <<database, agent, want, lost>>

\* The loser reads the run of the winner.
ReloadRun(r) ==
  /\ at[r] = "reload"
  /\ \E q \in Existing(r) : Replay(r, q)
  /\ UNCHANGED <<database, agent, want, lost>>

\* The terminal commit of ManagedRun, under its lease: an empty answer is not a message.
FinishManaged(r) ==
  /\ status[r] = "ready"
  /\ \/ InsertAnswer(r)
     \/ UNCHANGED <<count, messages>>
  /\ status' = [status EXCEPT ![r] = "completed"]
  /\ UNCHANGED <<place, digest, audit, at, agent, want, reply, lost>>

-----------------------------------------------------------------------------

\* The process dies or the request is cancelled, which no handler of exceptions catches; or,
\* before there is a run to fail, a transaction raises before its commit.
Vanish(r) ==
  /\ at[r] \notin {"idle", "done"}
  /\ Answer(r, "error") /\ Lose(r, "handler")
  /\ UNCHANGED <<database, agent, want>>

ConversationNext ==
  \E r \in Ask :
    \/ \E s \in Wants[r] : Arrive(r, s)
    \/ Route(r) \/ StartRun(r)
    \/ AnswerOrder(r) \/ AnswerPayment(r) \/ AnswerUnsupported(r)
    \/ CompleteRun(r) \/ FailRun(r) \/ RecordAudit(r)
    \/ LoadContext(r) \/ FindRun(r) \/ CreateRun(r) \/ ReloadRun(r) \/ FinishManaged(r)
    \/ Vanish(r)

ConversationSpec == ConversationInit /\ [][ConversationNext]_conversationVars

-----------------------------------------------------------------------------
(* Properties *)

Status == {"none", "running", "ready", "completed", "failed"}

ConversationTypeOK ==
  /\ count \in [Ask -> Nat] /\ messages \subseteq Ask \X {"user", "assistant"}
  /\ place \in [Ask -> Ask \cup {New}] /\ status \in [Ask -> Status]
  /\ digest \in [Ask -> {New} \cup {<<BodyOf[r], s>> : r \in Ask, s \in Ask \cup {New}}]
  /\ audit \in [Ask -> {"none", "completed", "failed"}]
  /\ at \in [Ask -> {"idle", "route", "start", "context", "complete", "audit", "fail", "auditFailure",
                     "load", "create", "insert", "reload", "done"}]
  /\ agent \in [Ask -> {"none", "order", "payment", "unsupported"}]
  /\ want \in [Ask -> Ask \cup {New}]
  /\ reply \in [Ask -> Ask \cup {"none", "error", "conflict", "notFound"}]
  /\ lost \in [Ask -> SUBSET {"start", "answer", "failure", "handler"}]

MessagesOf(s) == {m \in messages : place[m[1]] = s}

\* A session counts exactly its messages, and has one as soon as it exists: of every run
\* the question once and the answer at most once, whichever creations lost their race,
\* whichever commits were only believed to have failed.
MessageCountIsExact == \A s \in Ask : count[s] = Cardinality(MessagesOf(s))

\* Creations that are retried, or race, with one key get one run, which was created from
\* the very input of each of them, and stands in a session of the user of that key.
CreatedOncePerKey ==
  \A q, r \in Create : SameKey(q, r) =>
    /\ status[q] # "none" /\ status[r] # "none" => q = r
    /\ reply[r] \in Ask =>
         /\ digest[reply[r]] = Digest(r) /\ UserOf[place[reply[r]]] = UserOf[r]
         /\ reply[q] \in Ask => reply[q] = reply[r]

Answered(r) == <<r, "assistant">> \in messages

OneOutcome(r) ==
  /\ status[r] = "completed" => Answered(r)
  /\ status[r] = "failed" /\ Answered(r) => "answer" \in lost[r]
  /\ reply[r] = r => status[r] = "completed"
  /\ reply[r] = "notFound" => status[r] = "none"
  /\ reply[r] = "error" /\ status[r] = "completed" =>
       {"answer", "failure"} \subseteq lost[r] \/ "handler" \in lost[r]
  /\ reply[r] = "error" /\ status[r] = "running" =>
       {"start", "failure", "handler"} \cap lost[r] # {}
  /\ audit[r] # "none" => audit[r] = status[r] /\ (audit[r] = "completed" <=> reply[r] = r)

\* What the client of a chat is told, what its audit says, how its run ended, and whether
\* the conversation has its answer are the same, but for what the code cannot know.  A run
\* has failed and has an answer only if the reply to complete_run was lost.  A client that
\* gets an error has a completed run only if that reply was lost and fail_run raised too,
\* or the handler died; it has a run that still counts as running only if the reply to
\* start_run was lost, fail_run raised, or the handler died.
OutcomeIsOne == \A r \in Chat : OneOutcome(r)
=============================================================================
