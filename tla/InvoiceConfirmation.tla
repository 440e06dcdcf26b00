------------------------ MODULE InvoiceConfirmation ------------------------
(***************************************************************************)
(* The two-phase submission of an invoice request: a tool of the agent     *)
(* saves a pending action under a token, and the user's client confirms    *)
(* the token, with an idempotency key, as often as it takes to get an      *)
(* answer.  Everything is kept in Redis: the pending actions, the results  *)
(* by token and by key, and one lock per token.                            *)
(*                                                                         *)
(*   service  internal/services/order.py                                   *)
(*   cache    internal/cache/agent_action.py                               *)
(*   locks    pkg/redis/client.py                                          *)
(*                                                                         *)
(* A Redis command is one action.  It may raise before or after it had its *)
(* effect, and a handler may die between any two commands.  The model      *)
(* covers the time for which results are kept (action_idempotency_seconds) *)
(* and the requests of one user.                                           *)
(***************************************************************************)
EXTENDS FiniteSets

CONSTANTS
  Request, \* confirmations; a request names the task it creates and the lock it takes
  Token,   \* confirmation tokens
  Key,     \* idempotency keys
  TokenOf, \* the token each request confirms
  KeyOf,   \* the idempotency key of each request
  None     \* no value

ASSUME RequestAssumption ==
  TokenOf \in [Request -> Token] /\ KeyOf \in [Request -> Key]
ASSUME AnswerAssumption == "refused" \notin Request /\ "error" \notin Request

VARIABLES
  \* Redis
  pending, \* the pending action of each token: not there yet, saved, or gone
  lock,    \* the holder of each confirmation lock
  result,  \* the result by token
  byKey,   \* the result by idempotency key
  \* the handlers
  pc,      \* where each one is
  reply,   \* what it is about to answer
  answer,  \* what it answered
  \* history
  created, \* the requests whose task was saved as the result of a token
  overrun  \* the tokens whose lock expired under a handler that still ran

redis == <<pending, lock, result, byKey>>
vars  == <<pending, lock, result, byKey, pc, reply, answer, created, overrun>>

-----------------------------------------------------------------------------
(* Types *)

\* The places at which a handler believes that it holds the lock.
Inside == {"result", "key", "pending", "saveResult", "saveKey", "delete", "release"}
Place  == Inside \cup {"idle", "done"}

\* A saved result: the task, named by the request that created it.
Result == [task : Request, token : Token, key : Key]
Answer == Request \cup {"refused", "error"}

ASSUME NoneAssumption == None \notin Answer \cup Result

Init ==
  /\ pending = [t \in Token |-> "none"] /\ lock = [t \in Token |-> None]
  /\ result = [t \in Token |-> None] /\ byKey = [k \in Key |-> None]
  /\ pc = [r \in Request |-> "idle"]
  /\ reply = [r \in Request |-> None] /\ answer = [r \in Request |-> None]
  /\ created = {} /\ overrun = {}

Goto(r, place) == pc' = [pc EXCEPT ![r] = place] /\ UNCHANGED reply
Finish(r)      == pc' = [pc EXCEPT ![r] = "done"] /\ reply' = [reply EXCEPT ![r] = None]

\* The handler leaves its try block with this reply, or with an error.
Leave(r, what) == pc' = [pc EXCEPT ![r] = "release"] /\ reply' = [reply EXCEPT ![r] = what]
Raise(r)       == Leave(r, "error")

-----------------------------------------------------------------------------
(* The pending action *)

Prepare(t) ==
  /\ pending[t] = "none"
  /\ pending' = [pending EXCEPT ![t] = "saved"]
  /\ UNCHANGED <<lock, result, byKey, pc, reply, answer, created, overrun>>

ExpirePending(t) ==
  /\ pending[t] = "saved"
  /\ pending' = [pending EXCEPT ![t] = "gone"]
  /\ UNCHANGED <<lock, result, byKey, pc, reply, answer, created, overrun>>

-----------------------------------------------------------------------------
(* The lock *)

Acquire_NotExclusive(r) ==
  /\ pc[r] = "idle" /\ pending[TokenOf[r]] # "none"
  /\ lock' = [lock EXCEPT ![TokenOf[r]] = r]
  /\ Goto(r, "result")
  /\ UNCHANGED <<pending, result, byKey, answer, created, overrun>>

\* SET NX PX.  If its reply is lost the caller fails and leaves the lock behind.
Acquire(r) ==
  /\ pc[r] = "idle" /\ pending[TokenOf[r]] # "none"
  /\ lock[TokenOf[r]] = None
  /\ lock' = [lock EXCEPT ![TokenOf[r]] = r]
  /\ \/ Goto(r, "result") /\ UNCHANGED answer
     \/ Goto(r, "done") /\ answer' = [answer EXCEPT ![r] = "error"]
  /\ UNCHANGED <<pending, result, byKey, created, overrun>>

\* The lock stays taken for timeout_ms, or Redis does not answer.
AcquireRaises(r) ==
  /\ pc[r] = "idle" /\ pending[TokenOf[r]] # "none"
  /\ answer' = [answer EXCEPT ![r] = "error"]
  /\ Goto(r, "done")
  /\ UNCHANGED <<redis, created, overrun>>

\* The lock's expiry does not ask whether its holder is still at work.
ExpireLock(t) ==
  /\ lock[t] # None
  /\ lock' = [lock EXCEPT ![t] = None]
  /\ overrun' = IF pc[lock[t]] \in Inside THEN overrun \cup {t} ELSE overrun
  /\ UNCHANGED <<pending, result, byKey, pc, reply, answer, created>>

Release_Unconditional(r) ==
  /\ pc[r] = "release"
  /\ lock' = [lock EXCEPT ![TokenOf[r]] = None]
  /\ answer' = [answer EXCEPT ![r] = reply[r]]
  /\ Finish(r)
  /\ UNCHANGED <<pending, result, byKey, created, overrun>>

\* Only the holder's own identifier is deleted.  An error here, before or after the
\* deletion, replaces the answer.
Release(r) ==
  /\ pc[r] = "release"
  /\ LET freed == IF lock[TokenOf[r]] = r THEN [lock EXCEPT ![TokenOf[r]] = None] ELSE lock
     IN \/ lock' = freed /\ answer' = [answer EXCEPT ![r] = reply[r]]
        \/ lock' \in {lock, freed} /\ answer' = [answer EXCEPT ![r] = "error"]
  /\ Finish(r)
  /\ UNCHANGED <<pending, result, byKey, created, overrun>>

-----------------------------------------------------------------------------
(* The confirmation, under the lock *)

\* _invoice_request_from_payload: a saved result answers the request it belongs to.
Recall_AnyKey(r, saved) == IF saved.token = TokenOf[r] THEN saved.task ELSE "refused"
Recall(r, saved) ==
  IF saved.token = TokenOf[r] /\ saved.key = KeyOf[r] THEN saved.task ELSE "refused"

CheckResult_NeverFound(r) ==
  /\ pc[r] = "result"
  /\ Goto(r, "key")
  /\ UNCHANGED <<redis, answer, created, overrun>>

CheckResult(r) ==
  /\ pc[r] = "result"
  /\ LET saved == result[TokenOf[r]]
     IN IF saved = None THEN Goto(r, "key") ELSE Leave(r, Recall(r, saved))
  /\ UNCHANGED <<redis, answer, created, overrun>>

CheckKey(r) ==
  /\ pc[r] = "key"
  /\ LET saved == byKey[KeyOf[r]]
     IN IF saved = None THEN Goto(r, "pending") ELSE Leave(r, Recall(r, saved))
  /\ UNCHANGED <<redis, answer, created, overrun>>

\* The user and the order of the pending action are checked as well, and refused alike.
ReadPending(r) ==
  /\ pc[r] = "pending"
  /\ \/ pending[TokenOf[r]] = "saved" /\ Goto(r, "saveResult")
     \/ pending[TokenOf[r]] = "gone" /\ Leave(r, "refused")
  /\ UNCHANGED <<redis, answer, created, overrun>>

ResultOf(r) == [task |-> r, token |-> TokenOf[r], key |-> KeyOf[r]]

\* A command that saves: it may raise after its effect.
SaveResult(r) ==
  /\ pc[r] = "saveResult"
  /\ result' = [result EXCEPT ![TokenOf[r]] = ResultOf(r)]
  /\ created' = created \cup {r}
  /\ Goto(r, "saveKey") \/ Raise(r)
  /\ UNCHANGED <<pending, lock, byKey, answer, overrun>>

SaveKey(r) ==
  /\ pc[r] = "saveKey"
  /\ byKey' = [byKey EXCEPT ![KeyOf[r]] = ResultOf(r)]
  /\ Goto(r, "delete") \/ Raise(r)
  /\ UNCHANGED <<pending, lock, result, answer, created, overrun>>

DeletePending(r) ==
  /\ pc[r] = "delete"
  /\ pending' = [pending EXCEPT ![TokenOf[r]] = "gone"]
  /\ Leave(r, r) \/ Raise(r)
  /\ UNCHANGED <<lock, result, byKey, answer, created, overrun>>

\* A command of the try block raises without an effect, or the request is cancelled.
Fail(r) ==
  /\ pc[r] \in Inside \ {"release"}
  /\ Raise(r)
  /\ UNCHANGED <<redis, answer, created, overrun>>

\* The process dies; its lock stays until it expires, and its client sees an error.
Crash(r) ==
  /\ pc[r] \in Inside
  /\ answer' = [answer EXCEPT ![r] = "error"]
  /\ Finish(r)
  /\ UNCHANGED <<redis, created, overrun>>

-----------------------------------------------------------------------------

Confirm(r) ==
  \/ Acquire(r) \/ AcquireRaises(r)
  \/ CheckResult(r) \/ CheckKey(r) \/ ReadPending(r)
  \/ SaveResult(r) \/ SaveKey(r) \/ DeletePending(r)
  \/ Fail(r) \/ Release(r) \/ Crash(r)

Next ==
  \/ \E t \in Token : Prepare(t) \/ ExpirePending(t) \/ ExpireLock(t)
  \/ \E r \in Request : Confirm(r)

Spec == Init /\ [][Next]_vars

-----------------------------------------------------------------------------
(* Properties *)

TypeOK ==
  /\ pending \in [Token -> {"none", "saved", "gone"}]
  /\ lock \in [Token -> Request \cup {None}]
  /\ result \in [Token -> Result \cup {None}] /\ byKey \in [Key -> Result \cup {None}]
  /\ pc \in [Request -> Place]
  /\ reply \in [Request -> Answer \cup {None}]
  /\ answer \in [Request -> Answer \cup {None}]
  /\ created \subseteq Request /\ overrun \subseteq Token

\* A prepared action is submitted at most once, whatever fails in between and however
\* often it is confirmed, unless a handler outlived its lock.
OneTaskPerToken ==
  \A q, r \in created : TokenOf[q] = TokenOf[r] /\ TokenOf[r] \notin overrun => q = r

\* A task that a client is told was submitted for its token and its key, and saved as
\* such, even if the lock did not protect it.
AnswerIsForRequest ==
  \A r \in Request : answer[r] \in Request =>
    /\ answer[r] \in created
    /\ TokenOf[answer[r]] = TokenOf[r] /\ KeyOf[answer[r]] = KeyOf[r]

\* A client that was refused can rely on it: no confirmation with its token and its key,
\* neither an earlier one nor a later one, submits the action.
RefusalIsDefinitive ==
  \A q \in Request : answer[q] = "refused" /\ TokenOf[q] \notin overrun =>
    \A r \in created : <<TokenOf[r], KeyOf[r]>> # <<TokenOf[q], KeyOf[q]>>

\* A handler that is late never frees the lock of its successor.
LockIsOwn ==
  [][\A t \in Token : lock[t] # None /\ lock'[t] # lock[t] =>
       \A r \in Request : pc'[r] # pc[r] => lock[t] = r]_vars

\* One idempotency key submits one action: with another token it is refused
\* (internal/agents/order/README.md:111).
OneTokenPerKey ==
  \A q, r \in created : KeyOf[q] = KeyOf[r] => TokenOf[q] = TokenOf[r]
=============================================================================
