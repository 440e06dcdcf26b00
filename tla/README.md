# agent-backend: specifications and proofs

TLA+ models of the parts of this backend whose correctness depends on an order of events, or on
limits that meet at a boundary: the durable execution of agent runs and the streams that show it, the
registry of asynchronous tasks, the confirmation of actions with side effects, background tasks and
the lifecycle of a process, and the services around them. TLC checks them on small instances, and
TLAPS proves the most important properties for every value of the constants.

    tlc -config ManagedRun.cfg MCManagedRun.tla      # any run of the tables below
    tlapm ManagedRunProofs.tla                       # any of the proof modules

## 1. The system

The backend is a FastAPI application (`internal/`) on top of a set of libraries (`pkg/`). Several
server processes share a PostgreSQL database, a Redis server and a vector database; Celery workers
execute asynchronous tasks. A user talks to a *router agent*, which hands the conversation to a
business agent (orders, payments); an agent alternates between the model and tools until it has an
answer.

| Component | State | Operations | Interacts with |
| --- | --- | --- | --- |
| Managed agent runs: `internal/services/agents/{conversation,execution}.py`, `pkg/agents` | rows of run, checkpoint, attempt, step, session, message; in memory the acknowledged checkpoint | create, load (poll), claim, heartbeat, interrupt, commit checkpoint/step/terminal, finish attempt; encode and decode a checkpoint | database (transactions under the row lock of the run), model, tools |
| Event streams: `internal/services/agents/stream.py`, `execution.py`, `internal/utils/stream.py`, `internal/controllers/api/agent.py` | two bounded channels and a control record per attempt; nested generators per question | produce, take over, send, disconnect, deadline, interrupt intent | managed runs, client, audit |
| Router and business agents, audit: `internal/services/agents/{router,order,payment,audit}.py`, `internal/agents` | none beyond a request; append-only audit | route, answer at once, confirm, run an agent; tools | model, tools, invoice confirmation, retrieval |
| Task registry: `internal/{dao,services}/celery_task.py`, `internal/tasks` | one record per idempotency key | submit, confirm or fail the publication, claim, checkpoints, succeed, fail, cancel, reconcile, quarantine | database (conditional updates), Celery broker and workers |
| Invoice confirmation: `internal/services/order.py`, `internal/cache/agent_action.py` | Redis: pending actions, results by token and by key, a lock per token | prepare (by a tool of an agent), confirm (by the client) | Redis lock (`pkg/redis/client.py`) |
| Background tasks: `pkg/concurrency/manager.py` | task table, limiters, task group; per call a started flag | start, shutdown, add, cancel, run in thread | event loop, worker threads; used by audit |
| Application lifecycle: `internal/app.py`, `internal/utils/background_tasks.py`, `internal/infra/{database,redis}/connection.py`, `internal/infra/celery/execution.py` | globals that hold engines and clients; an exit stack | initialise, serve, drain, close; run a task in an event loop of its own | background tasks, database, Redis |
| Auth sessions: `internal/{services,cache,dependencies}/auth.py` | Redis: metadata by token, token list by user | save, check, log out | users, Redis |
| Users and identities: `internal/services/user.py`, `internal/dao/{user,external_identity}.py` | rows with unique keys | register, log in by name, first and later external login | database, read replica, password threads |
| Scoped operation lock: `internal/dao/scoped_operation_lock.py` | a row per scope; row locks of the database | lock for a transaction, waiting or trying | database |
| Endpoint guard: `internal/middlewares/endpoint_guard.py`, `internal/cache/endpoint_guard.py` | cached rules, last load | check a request, reload | Redis |
| Retrieval: `internal/services/rag.py`, `pkg/vectors` | per backend the collections known to exist and to be loaded | search, rank, cite; assemble contexts within a budget; ensure, load, write, query a collection | vector store, embeddings, model |
| Text matcher: `pkg/chars_matcher` | tables, a cache of results shared by threads | match by pinyin and by shape | threads of callers |
| Scheduler wrapper, Celery set-up, controllers, schemas | registered jobs | start, stop, validate, encode | external libraries |
| Logging, tracing, LLM/HTTP/OSS clients, security, configuration, toolkit | none, or tables | | |

What is hard, and what the properties are for:

* *Several executors of one run.* A lease can expire under an executor that is alive, so at any
  time several processes may believe that they execute a run. A fencing token decides.
* *Unknown outcomes.* A transaction may commit and its reply be lost; a message may be in the
  broker although publishing it raised; a Redis command, or a call to the vector store, may have had
  its effect.
* *Crashes between two steps*, with a tool that may or may not have run; *two commands for one fact*,
  as with the two entries of a session.
* *Requests that race*: interrupts, cancellations, retries under one key, first logins of one
  identity, reloads of one cache.
* *Slow or absent clients* of a stream that must neither lose an event in silence nor hold the run.
* *Deadlines* that pass while their subject still works: leases, the hard limit of a task, the
  expiry of a lock, the timeout of a thread that cannot be stopped.
* *Failure during cleanup*: what one exception or cancellation keeps from being closed.
* *Stale caches*: of rules, of collections, of ranked results.
* *Limits that meet*: budgets, separators, top-k stages, amounts converted to floating point.
* *Liveness*: who settles a run or a task whose process died, and who ends a stream nobody reads.

`PROJECT.json` lists every component and every such hazard at its line.

## 2. Modules

| Module | What it is |
| --- | --- |
| `RunLifecycle` | abstract: what a managed run promises to its clients |
| `ManagedRun` | the rows of one run, its executors and its client |
| `Conversation` | sessions, messages and runs: chats, and the creation of managed runs |
| `Checkpoint` | the stored form of a checkpoint, and what another version makes of it |
| `EventStream` | the stream of one attempt of a managed run |
| `ChatStream` | a streamed question outside the managed runs, and its audits |
| `AgentTools` | the tools that calculate and search |
| `TaskPromise` | abstract: what the registry promises about one task |
| `CeleryTask` | one record, its submitters, workers, reconcilers and the broker |
| `InvoiceConfirmation` | the handlers that confirm actions over Redis |
| `TaskHandler` | background tasks and their threads in one process |
| `Lifespan` | the resources of a server, and those of each task of a worker |
| `Accounts`, `AuthSession` | how a sign-in finds its account; sessions. `AuthSession` extends `Accounts`: one login is a behaviour of both |
| `ScopedLock` | the lock rows and the locks of the database on them |
| `EndpointGuard` | rules, their cache and the requests they refuse |
| `VectorStore` | one collection, as several backends and operations use it |
| `Retrieval`, `ContextAssembly` | from hits to a cited answer; from chunks to a context |
| `TextMatcher` | ranking of candidates and the shared cache |
| `Lists` | folding, filtering and sorting of lists, for the two lines above |
| `ManagedRunProofs`, `CeleryTaskProofs`, `InvoiceConfirmationProofs`, `TaskHandlerProofs` | the theorems about the module of that name |
| `ConversationProofs` | the theorems about `Conversation`, `ChatStream` and `EventStream` |
| `RetrievalProofs` | those about `Retrieval`, `ContextAssembly` and `TextMatcher` |
| `AccessProofs` | those about `AuthSession` with `Accounts`, `ScopedLock` and `EndpointGuard` |
| `ServiceProofs` | those about `Lifespan`, `VectorStore`, `Checkpoint` and `AgentTools` |
| `MC...` | values of the constants for TLC; `MCServices` composes the services |

Operators whose name is that of another with `_Something` after it (`Emit_GoesOn`,
`Deduplicate_Off`) are not part of a model: they are deliberate mistakes, and `PROJECT.json` pairs
each property with one of them that TLC must catch.

### 2.1 ManagedRun

One run, because nothing couples two runs. The client's *resume* requests are the processes: a
request that claims the run becomes an executor, and its identity stands for the random fencing
token (`lease_token`) that it was given.

| Model | Code |
| --- | --- |
| `status token lease ckpt attempts rows assistant messages` | columns of `agent_run`, `agent_run_checkpoint`, `agent_run_attempt`, `agent_run_step`, `agent_session` |
| `pc cp verdict` | `_execute_managed_run`, `DatabaseAgentRunRuntime._checkpoint`, the status passed to `finish_managed_attempt` |
| `Claim ClaimRefused ClaimUnrecoverable` | `claim_managed_run`, with the recovery of a stale run inside it |
| `LoadRun` | `load_managed_run`, which every poll calls, with `_recover_stale_run` |
| `Heartbeat RequestInterrupt ReadControl` | the functions of the same names |
| `Commit(r, w)` | `_commit_managed_state`: fence, optimistic revision, pause instead of write, missing steps, answer; with the executor's reaction to its reply (`_apply`), which may be lost |
| `CommitRoute CommitDegraded CommitToolChoice CommitInFlight CommitStep CommitNewFinal CommitSavedFinal CommitMaxSteps CommitPause` | the places that call it, in `execution.py` and `pkg/agents/react.py` |
| `Drive StartTool` | the loop of `_drive` and `_execute_tool_call` |
| `Fail Cancel Crash Finalize` | the exception handlers of `_drive_managed_events`, the death of a process, `finish_managed_attempt` |

Every transaction locks the row of the run first, so it is one action. Around it, things are kept
apart that the code does apart: a commit reads the clock *before* it obtains the row lock (`wait`
ticks earlier, at most `MaxWait`; this also stands for clock differences between servers); its reply
is lost with the transaction committed or not; the executor acts on what it last acknowledged.
`lease` is relative to now, so time needs no counter. Abstracted: contents of answers and
observations, prompts, usage; the route is a choice; answers are not empty; a tool that raises
ends the attempt as the code's tools are registered (`capture_tool_errors` false). The heartbeat
loop may stop at any time because no fairness is assumed of it. `renew_managed_lease` and
`mark_run_recovery_required` have no caller in the source and are left out, as is `ended_at`.

### 2.2 CeleryTask

One record, under one scope, task name and idempotency key; records are independent. `Caller`s run
`submit_once` (reserve or find, publish, confirm or mark as failed); `Worker`s are deliveries of the
message, and as each claims with a fresh token the delivery stands for it. `due` is the one deadline
that matters in the current status (confirmation, queue, execution, fence), in ticks. Each update is
one conditional statement of `internal/dao/celery_task.py`, hence one action, and a worker may not
learn what its update did (the places `unsaved`, `unfailed`). A worker may outlive its hard deadline,
so it has no clock. The broker delivers a message that it accepted any number of times, any time
later, or never. Rows skipped by `SKIP LOCKED` and batch limits are steps that do not happen yet.
`DisallowCancellation` and `ResolveOrphaned` are operations of the service without a caller in the
source; they are modelled because the table promises them.

### 2.3 InvoiceConfirmation

Confirmations are processes that walk through `confirm_invoice_request` one Redis command at a time;
between any two of them the lock or the pending action may expire, the request fail, or the process
die. A command may raise before or after its effect. A task is named by the request that created it.
The model covers one user and the time for which results are kept
(`action_idempotency_seconds`, a day, against five minutes of a pending action).
`created` and `overrun` are history: the tasks saved, and the tokens whose lock expired under a
handler that was still inside.

### 2.4 TaskHandler and Lifespan

**TaskHandler.** Coroutines of one event loop: the code between two awaits is one action. Each task of
the table may make one thread call. The worker thread is a process of its own (`thread`), which races
with its waiter over `barred` (`cancelled_before_start`) and returns its capacity by a call into the
loop. `Abandonable` holds the tasks whose call is cancellable or has a timeout; the others are
shielded. The order of waiters in AnyIO's limiters is left open. Callers of `run_in_thread` that are
not in the table, batches and the process backend are not modelled, nor is the cancellation of the
task that runs `shutdown` itself, which is in `Lifespan`.

**Lifespan.** A process is a server or a worker; both keep their connections in the same `global`s.
`todo` is the exit stack of `lifespan`, `raised` the exception on its way out. `InitTracing` ...
`InitHandlers` are the steps of the startup in their order, each with a branch that raises
(`StartupFails`), a database possibly with the primary made and the replica not. `AddWork` and
`EndWork` stand for all of `TaskHandler`. `CloseBackground`, `CloseResource` and `EndServer` are
`close_background_task_manager`, one callback of the stack, and `_close_resources`; `Cancel` is a
cancellation of the task that waits in one of them. `Close(order, stop)` closes connections in order
until one raises: `close_async_db` is `<<"replica", "primary">>`, and the cleanup of `run_in_async` is
`<<"replica", "primary", "redis">>`, because an exception of the first call skips the second.
A connection is named by the event loop it was made in; `Forgotten` is the reset with which a task of
a worker starts. It is what the safety of a worker rests on: `init_async_db` does nothing when a
primary is there, whichever loop it belongs to.

### 2.5 Conversation, Checkpoint, AgentTools

**Conversation.** The transactions around a run that `ManagedRun` starts from: sessions, messages and
their count. Requests either chat (route, `start_run`, answer, `complete_run` or `fail_run`, audit) or
create a managed run (`FindRun`, `LoadContext`, `CreateRun`, and `ReloadRun` for the one that lost on
the unique key). A session and a run are named by the request that made them. Any commit may take
effect although its caller sees an error, `InsertAnswer` and `CompleteRun` included; context is read
from a replica that may lack the session. `lost` is history: which replies, failures and handlers of a
request were lost. What client, audit, run and conversation say of a chat cannot always agree, and
`OutcomeIsOne` says which loss each disagreement takes: an answer in a failed run, the lost reply of
`complete_run`; an error told of a completed run, that and a `fail_run` that raised, or a handler that
died. `FinishManaged` stands for the terminal commit of
`ManagedRun`. Contents are abstracted to a digest of what the key must agree with. The attempt of a
run and the steps of an unmanaged one are left out: no decision here reads them.

**Checkpoint.** The executor of `ManagedRun`, without its rivals, writes the checkpoints it can write
(`CommitRoute` ... `ChooseFinal`); then up to `MaxDamage` fields of the stored payload are dropped or
replaced (`Damage`), as a version that adds, renames or retypes a field would; and `Load` or `Resume`
reads it: `Decode` with its defaults, the checks of `_validate_checkpoint`, the comparison with the
columns of the row, `assess_resume`. Strings are model values; a hash (`stable_tool_call_id`) is the
pair of what it is computed from.

**AgentTools.** The three tools that compute: two sums and a search. A model's argument is an integer,
or one of the wrong things that JSON can hold instead. A float is its mantissa and exponent, rounded half
to even as IEEE 754 does, so that `FormatFloat` is what `f"{amount / 100:.2f}"` does and not its
intention; `Bits` is the precision.

### 2.6 EventStream, ChatStream

**EventStream.** One attempt streams: the producer offers events to a channel of `Buffer` and never
waits; the response takes them over through a second channel (`SseBuffer`) at the pace of the client.
`stop slow result shutdown` are the fields of `_ManagedRunControl`. The run is cut down to `run` and
`owner`: attempt 1 streams, attempt 2 stands for every later one. `Interrupt`, `Succeed` and
`SuccessorEnds` are the others. A database call in the grace period returns, fails or is abandoned.
Events are numbers, as only their order and completeness matter; an error event is `Failure`.

**ChatStream.** The nested generators of an unmanaged question, `specialist`, `router` and
`client`, with the chunk that is `carried` outwards and the `layer` that handles it; each layer
may write an audit, fail, or be cancelled by the limit on one chunk or by the client, and what an inner
layer catches differs from what an outer one sees. `RuleRoute` is the rule-based routing; whatever it
leaves open is a choice.

### 2.7 Accounts, AuthSession

**Accounts.** A sign-in registers, logs in by name, or brings an external identity. A transaction that
found and locked a row is one action; a lookup that found none locks nothing, so the insertion is
another (`FindIdentity`, `InsertAccount`, and `RereadIdentity` for the loser). `CheckPhone` and
`LoginByName` read a replica that lags. An account is named by the sign-in that created it. Soft
deletions (`CloseUser`, `DropIdentity`) are done by operators and marked external.

**AuthSession.** A session is two entries of Redis, each written, read and removed by a command of its
own, any of which may raise before or after its effect; metadata expire, the list of a user does not.
The token is named by its sign-in, being random. `late` is history: the requests that came after a
logout had been answered.

### 2.8 ScopedLock, EndpointGuard, VectorStore

**ScopedLock.** `acquire` is two statements of the caller's transaction: `INSERT IGNORE`, then
`SELECT ... FOR UPDATE`. The row locks of the database are external, modelled from what the code
relies on: an insertion locks its row, one that meets a row needs to share it, a deadlock or timeout
rolls a transaction back. A caller may be outside a transaction or on another database, the name
blank, or longer than its column.

**EndpointGuard.** The handlers of one process interleave at the read from Redis. A handler notes the
clock, asks, and installs what it got; several may do so at once. Parsing, validation, matching by
path and method, expiry, the order of the two sources and the fallbacks are operators; a path is a
sequence of segments, and a glob matches the pairs of `GlobPairs`. `seenAt` is history: when a rule set
last stood in Redis.

**VectorStore.** One collection, several backends with their caches and lock, and operations that walk
through `ensure_collection`, `open_collection` and their own call. A call to the server returns, raises
what counts as recoverable, with or without an effect, or fails; `run_with_recovery` resets the client
state of its backend, under the feet of the others, and starts again once.

### 2.9 Retrieval, ContextAssembly, TextMatcher

Pure algorithms inside a short process. **Retrieval** goes from any hits the search may return, in any
order and more than once, through `Deduplicate`, `Collapse` (documents), `SelectEvidence` and the
rows of the database to the prompt, and from any citations the model may make to the validated ones.
**ContextAssembly** makes one round of the loop of `assemble` a step; a text is its length.
**TextMatcher** ranks candidates by pinyin (exact, confused sounds, starts) and boosts those that look
alike, with threads that share a cache without a lock: a hit moves an entry, a result is put, moved,
counted and makes room in four steps, and other threads may evict it between any two of them. No bound
on the cache is claimed: a write that finds its entry gone ends before it makes room. Each is compared
with a definition written independently of the order in which the code searches (`Ahead`,
`ChunksAreKept`, `BestRank`).

What the code does in a loop over a list is a fold (`Lists`). Sets and functions stand where the
community modules take operators, as no prover can instantiate a theorem about an operator; a sorting
is *a* permutation that puts the list in order.

### 2.10 MCServices

The modules of 2.4 (`Lifespan`) to 2.9 except `EventStream` share no state, so a behaviour of all of
them side by side shows nothing more than one of each. `MCServices` is their sum: `part` says which of
them runs, and the others rest in one initial state. It has an initial state and a next-state relation
and no fairness; its properties are safety.

## 3. What is checked

All configurations set `CHECK_DEADLOCK FALSE`: runs, tasks and requests really end.

| Run | Instance | Distinct states | Shows |
| --- | --- | --- | --- |
| `managed_run` | 2 clients, a replay-safe and a non-replayable tool, 2 steps, lease 2, wait 1, from the router | 475,000 | calls, answers, steps, leases, interrupts, and the refinement of `RunLifecycle` |
| `managed_run_retry` | 3 requests, two of them retries with one key, 1 step, lease 1, from a business agent | 230,000 | one executor per key, interrupts not overtaken, convergence |
| `celery_task` | 3 callers, 2 payloads, 2 deliveries, deadlines 1, 2, 2, 1 | 83,000 | execution, refusal, cancellation, results, the refinement of `TaskPromise`, settlement |
| `invoice_confirmation` | 4 requests: a retry, another key, another token | 1,616,000 | at most one task per token, reliable answers and refusals |
| `task_handler` | 3 tasks, 2 with one identifier, one shielded, 1 thread | 76,000 | capacity and shutdown |
| `event_stream` | 2 steps, both channels of one event | 39,000 | no gap, no silent end, no client that holds the attempt |
| `services` | one instance per part, below | 280,000 | one or more properties per service |

The parts of `services`:

| Part | Instance | States | Properties |
| --- | --- | --- | --- |
| `guard` | 3 requests, 2 payloads with rules of every kind and a malformed one, a rule in the settings, TTL 2, clock to 3 | 65,000 | `RulesAreRecent` |
| `auth` | 2 first logins of one identity, a registration, a login by name; 2 requests with one token, one of which logs out | 104,000 | `OneAccountPerIdentity`, `LogoutIsFinal` |
| `conversation` | a chat and two creations of one user with one key | 33,000 | `MessageCountIsExact`, `CreatedOncePerKey`, `OutcomeIsOne` |
| `chat` | every kind of request, 2 steps | 10,000 | `StreamIsWellFormed` |
| `checkpoint` | runs of 1 step, 2 tools, 2 damaged fields | 19,000 | `NothingIsLost` |
| `retrieval` | 4 chunks of 3 documents and none, 2 scores, limits 3 and 2 | 6,000 | `RetrievalIsSound` |
| `assembly` | a document of 3 chunks of every length and place, three fixed ones | 3,000 | `ContextIsFaithful` |
| `matcher` | 7 texts, 16 queries, 2 threads, a cache of one result | 2,000 | `SuggestionsAreBest` |
| `store` | a search, an upsert and a deletion on 2 backends | 19,000 | `CallsFindTheirCollection` |
| `lock` | 3 callers, one on another database; 4 resources, one blank, one too long | 16,000 | `LockIsExclusive` |
| `tools` | amounts around every check and every wrong argument | 2,000 | `ToolsAreExact` |
| `lifespan` | a server, and a worker with 3 tasks; with a replica | 1,000 | `LifecycleIsClean` |

`ServicesTypeOK` is the type invariant of all parts.

**Bounds.** For the runs of one module: the hazards need two executors for a take-over, a third request
for a retry against another client; two steps so that a checkpoint has a past; a lease of two ticks, so
that it can be valid, about to end and expired, and a wait of one so that a decision can be a tick old;
a deadline of two where one must be observed as running, and of one elsewhere. Symmetry is used for the
interchangeable retries of `invoice_confirmation` only, which checks no liveness.

For the streams: a channel of one event is full after one, so it overflows at each place of the
attempt, just before its last event included; two steps give an event before, between and after. A
stream of `ChatStream` ends within two steps in each way it can end.

For the services: two requests race and a third sees what they leave (`guard`, `conversation`, `lock`);
of the sign-ins only those of `Served` go on to a session, the others race for the account and end
there, as sessions of different tokens do not meet. The clock of the guard runs one tick beyond the
TTL, so that a rule set is young, on its limit and too old, and a load may take as long. Two damaged
fields make a payload whose fields agree with each other and not with the row. Four chunks exceed
`TopK`, three documents exceed `FinalK`. A cache of one result makes every second query evict. With
`Bits = 8` the amounts reach from those a float can hold to those it cannot, which 53 bits would do only
above 10^13 yuan; the limit where the property stops is stated relative to `Bits`. Three tasks of a
worker are a task, one after a cleanup that raised, and one more.

The theorems below do not depend on any of these.

**Liveness** is checked under these assumptions:

* `ManagedRun!FairSpec` (`RunsConverge`): time passes, the client keeps polling the run (the API
  answers 202 and asks it to), and a process that is alive runs its handler, whose model and tool calls
  have timeouts. Nothing is assumed of heartbeats, of further resumes, or of crashes not happening.
* `CeleryTask!FairSpec` (`TasksSettle`): time passes and the reconciler's schedule
  (`internal/tasks/reconciler.py`) runs. Nothing is assumed of submitters, workers or the broker.
* `TaskHandler!AllWorkEnds` (`ShutdownEnds`): the loop and threads progress, a cancelled coroutine
  ends, and every work function returns. The weaker `FairSpec` lets the work of tasks that can
  leave it run forever, which is the situation the violation below is about.
* `EventStream!FairStreamSpec` (`ClientHoldsNothing`): the tasks of the process are scheduled, timers
  fire, and database calls return or are abandoned after their limit. The agent may hang in a model or
  a tool, and the client need not read.

### Disagreements between documents and code

Each is a run in which TLC must find a violation of what the document says; the five are listed in
`PROJECT.json` with quotations.

| Run | Document | Code |
| --- | --- | --- |
| `managed_run_degraded` | after an accepted interrupt a run is paused, fails or needs recovery | the fixed answer of the degraded route completes it |
| `managed_run_revision` | every write takes a new revision | the write that completes a resumed final answer reuses one |
| `invoice_confirmation_key` | one key with another token is refused | two concurrent confirmations both pass, as each holds the lock of its own token |
| `task_handler_shutdown` | a shutdown does not wait for abandoned threads | it does, through a shielded task that waits for their capacity |
| `event_stream_intent` | only the current executor changes the status of a run, and only a run that has not ended needs an interrupt intent | a response that ends without a result interrupts whichever attempt holds the run by then |

A sixth has no run, as `OutcomeIsOne` states exactly when it happens. `fail_run` "把 running run 标记为
failed" (marks a *running* run as failed, `conversation.py:342`, and so `router.py:218`), but updates
without a look at the status. When `complete_run` is committed and its reply is lost, the handler of the
exception calls `fail_run`: a completed run, with its answer in the conversation, becomes failed.
`OneOutcome` allows an answer in a failed run for that loss only; if it did not, TLC would find this in
six steps.

What the code does and no document denies, and a reader should know: when disposing of the read
replica raises, `close_async_db` leaves the primary open (`Lifespan!Skipped`), and `run_in_async` then
leaves Redis open too; a run whose start in a worker raised closes nothing. `LifecycleIsClean` states
exactly that this is all that stays open. A phone number has no unique key, so two registrations that
race, or one on a lagging replica, create two accounts (`CheckPhone`); `OneAccountPerIdentity` is
therefore about external identities. In TRY mode the scoped lock does not wait for the row it locks,
but may wait in the statement before, which inserts it (`Blockers`). A reload of the endpoint rules
may install rules older than those it replaces; `RulesAreRecent` says that they are never taken for
younger than they are. `_build_answer_prompt` stops before the evidence that exceeds
`max_context_chars`, while citations are validated against all of it: a citation may name evidence that
the model was not given. The cut is not modelled, so `RetrievalIsSound` speaks of the evidence, not of
the prompt. Nothing in the repository drops a collection, and
nothing but a test calls `release_collection`, so `VectorStore` does neither.

## 4. What is proved

For every set of requests, keys, tools, callers, workers, tokens and tasks and every bound, from the
named assumptions in the modules. Most give a constant its type or keep `None` apart from the values
it stands beside. Those that say more:

* `LoopsAssumption`: `NoError` is none of the names by which an error is recorded.
* `StoreAssumption`: a search has a vector or a text, which `SearchRequest` validates;
  `SchemaAssumption`: a schema is not taken for an absent collection.
* `CheckpointAssumption`, `FormsAssumption`: the stand-ins for an absent, a malformed and an unknown
  field are no value that the program writes.
* `ToolsAssumption`: calls of the three tools are told apart, and amounts are integers (cents).

**ManagedRunProofs.** All safety and action properties of the run, and `LifecycleCorrect`. The
inductive invariant begins with `TypeOK`; `Shape` (the phase of a checkpoint fits the place of its
executor); `HolderIsUpToDate`; `Ownership` (a token exists exactly while the run is active, and its
holder has not ended); `AnswerExactlyOnce`; `Calls`; and `NonReplayableOnce`. `NonReplayableOnce` alone
is not inductive: it needs that every call started is fixed by the checkpoint in the database
(`CallsFixed`), even for executors that lost the token (`WorkersFixed`), and that a call about to start
has no rival (`SoleStarter`). The nine writes are not treated one by one: each is shown to be a
`Commit` of a write that `FitsExecutor`, and `Commit` of any such write to preserve the invariant.

What a write does to the steps (`StepsFit`), to the budget (`BudgetFits`) and under an interrupt
(`PauseFits`) is part of that definition, so that each later property is a lemma about `Commit`.
`StepsCorrect`: the rows are the steps of the checkpoint, except for the row of a final step that a
paused write has not put in yet. `BudgetCorrect` says something no run does: over any number of
resumes the steps never exceed `max_steps`, as an executor is `Roomy` by the checkpoint it holds.
`ExecutorCorrect` needs `AttemptsRecorded`: whoever was granted the run recorded the attempt of its
key. `LeaseCorrect` and `InterruptToolCorrect` are action properties from the same invariant.
`InterruptCorrect` is why `managed_run_degraded` finds what it does: an interrupt is never overtaken by
the completion *once the run is routed*, and `BusinessInterruptCorrect` concludes the property as stated
for the entry that has no routing.

**CeleryTaskProofs.** All safety properties of the run, and `PromiseCorrect`. `Ownership` says that
a token is given once, at the step from a startable status to `RUNNING`; `Answers` ties what callers
and workers were told to the statuses from which it cannot be revoked. The updates of a worker are
first reduced to one kind, `Updates`.

**InvoiceConfirmationProofs.** All properties of the run. `Mutex` (a handler inside holds the lock,
unless it was overrun) gives `Once`: a handler that saw no result is still right when it saves one.
`RefusalCorrect` is the deep one: a refusal given for any reason must stay true although its reason may
be replaced. `Blocked` lists the reasons (a result under another key; no result and a pending action
that is gone; no result and the key taken by another token), and `Stays` shows that each leads only
to another, and that no handler with the same token and key is past the point where it applies.

**TaskHandlerProofs.** All safety properties of the run. `Waiting` relates the places of a waiter,
its thread and the barred flag; the bound on threads follows as they are a subset of the borrowers,
whose number `Lent` bounds.

**ConversationProofs.** For `Conversation`: `CountCorrect`, `CreationCorrect`, `OutcomeCorrect`. A step
is one of one request. `OnlyMoves` says that it takes back nothing that is stored, and `OthersHold` that
what the invariant says of the other requests then stays, so each action is left with its own request:
its run and its messages (`RunIsStored`), what a chat has stored at each place (`ChatIsAt`), what a
creation was told (`CreationIsAt`, `AnswerIsRun`). `OneRunPerKey` is the unique index; the count is
a cardinality, so each message that is added is shown to be new. For `OutcomeCorrect`, `ChatIsAt` says
that a chat about to fail is running, or was completed and its reply lost: `OneOutcome` follows at each
step, as `lost` only grows. For `ChatStream`: `ChatCorrect`, whose
invariant says of each place of the generators which events may still come (`PointFits`), of the chunk
on its way what it may follow (`CarriedFits`), and that every audit agrees with the end that was
sent; `SentGrows` and `Audited` are the two things a step may do.

For `EventStream`: `PrefixCorrect`, `EndCorrect`. What was received, what the
transport and the channel hold and what the response has in its hand form one sequence, `Events`.
The response only moves events along it (`Passing`), the producer appends one (`Emitting`), and the
error of a failed attempt is put at its end once (`FailureFollows`). `ErrorInv` says that nothing can
follow the error; `StopInv` that nobody is stopped, and nothing dropped, while the client is there and
keeps up, from which `NoSilentEnd` follows.

**AccessProofs.** *Scoped lock*: `LockCorrect`. `Compatible` (an exclusive lock on a row is
alone on it) and `Told` (what a caller was told is a row it locks exclusively) give exclusion. That the
second statement finds its row needs two more: what is locked exists, and whoever inserted a row holds
it exclusively (`Existing`); and a caller between its statements has a lock on its row (`Reserved`), so
that no rollback of another can take the row away. `Checked` excludes the names that `IGNORE` would cut.

*Endpoint guard*: `GuardCorrect`. `StoredIsSeen`, `AnswersAreSeen` and
`CacheIsSeen` carry the moment at which a rule set stood in Redis from the key, through an answer on
its way, into the cache, where the age counts from *before* the question; `PastOnly` bounds them by the
clock. That a decision is a verdict at all (`DecisionIsVerdict`) needs that the rules which match have
a first one: the least element of a set of indexes, by well-founded induction (`LeastElement`).

*Sessions*: `AccountsCorrect`, `LogoutCorrect`. For the accounts:
`StepsOfKind` (a sign-in is only at the places of its kind), `OwnIdentity` (an account of an external
login is the one its identity leads to, so two of one identity are equal) and `ResolvedIsKnown`. On
top, `ResolutionIsFinal` (an account once resolved stays) lets the session part use them as facts:
`SavedIsResolved`, `CheckedIsAnswered`, `LoggedOutIsGone` (the metadata of a logged-out token are gone
for good, as a token is saved once) and `LateIsRefused`. The proof does not use the list of tokens: the
finality of a logout rests on the metadata alone, and the list can only refuse more.

**ServiceProofs.** *Lifespan*: `LifecycleCorrect`. A server registers the closing of a connection
before it opens it (`InitDatabase`, `InitRedis`), so an open connection is in use, or its closing is
still registered or was begun and failed (`CleanupInv`); `GlobalsInv` ties what is open to the global
variables. A worker opens and closes within one step, which needs only that nothing was left by the
loop before, or that it raised.

*Vector store*: `StoreCorrect`. Nobody drops or releases the collection, so a step can only create it
or load it (`Moves`), and what an operation or a backend found out stays true whatever the others do
(`OperationInv`, `BackendInv`); `Acts` reduces a step to its own operation and its own backend. The
rest is about the schema: a description that `Fits`, and the one the program builds, have every field
that a row has and that a search plan of any mode searches.

*Checkpoint*: `CheckpointCorrect`, for any number of steps and any damage. `NearPayload` says what
another version makes of a payload, field by field; `DecodeKeeps` that of what matters `Decodes` lets
through only what was written, or an unknown tool or definition, which `Resume` refuses; and, with
no damage, that nothing is refused.

*Agent tools*: `ToolsCorrect`, for all amounts, all searches and every width of a float. No refund loses
a cent (`RefundCorrect`), no search leaves the knowledge bases that the settings and the model allow
(`ScopeCorrect`). The total of a payment goes through a float (`TotalCorrect`): the powers of two on
both sides of an amount bound the error of its float by half a cent as long as the amount is below
`2 ^ (Bits - 1)` cents, and the formatting then rounds to the amount itself (`FormatIsExact`). No prover
knows powers, so `Power` is a recursive function, and that its definition has a solution is proved too:
an induction theorem cannot be instantiated, but the least number at which something fails always
exists (`LeastNumber`), and it serves as the induction in `FirstPowersExist`, `Powers` and `PowerGrows`.

**RetrievalProofs.** What is true of a fold is shown along the values it goes through
(`FoldGoesThrough`), with `LeastNumber` as the induction (`UpTo`); so are what a filter keeps
(`KeptSelects`), where the elements of concatenated lists stand (`Flattens`), and that a sorting exists,
by insertion (`SortingsExist`).

*Retrieval*: `RetrievalCorrect`, for any hits, in any order and any number of times, and any limits.
`DeduplicationKeeps`, `DocumentIs`, `HeadsAre` and `CollapseCollapses` say what each stage leaves.
Together they give a list that has with a chunk all chunks that come before it in the order of
documents and scores (`ChunksOfDocuments`, `EvidenceIsSelected`), and `BestOnes` that in an order such
a set is exactly the chunks with fewer than `FinalK` ahead of them, which is what `RetrievalIsSound` says
without any list. A step between the search and the answer does not change the ranking (`SameRanking`).

*Context assembly*: `AssemblyCorrect`, for any documents, budgets and separators. A sorted document has
the places of its non-empty chunks, each once (`ChunksAreSorted`); the windows hold them one after the
other (`WindowsHold`); a text has the first windows, all of them unless it is marked as truncated, and
keeps its budget (`TextFits`); and the first elements of a list have no chunk more often than the whole
list (`TimesAgree`, `LayoutsAgree`). `AssemblyInv` says that what is left of the total budget is exactly
what the context, with its separators, does not use, from which `AvailableIsRoom` concludes that the
budget of the next document keeps all three limits.

*Text matcher*: `MatcherCorrect`, for any tables, queries, threads and size of the cache. The assumption
`MatcherAssumption` says what the tables are: a dictionary has each key once, keys and tokens consist of
letters, buckets and neighbours of texts that have a key; and that a query without a text has tokens, as
others are answered before they reach the ranking. Nothing is assumed about which keys there are, in
which order, or which texts share one.

1. *Ranks.* Ranks of one length are in a total order (`LessOrders`), which goes by the first parts of
   what is put together (`LessJoined`). `InOrder` lists entries of different ranks in the one order they
   have (`InOrderSorts`), and of several entries of a text there is a first one (`FirstsAreFirst`).
2. *Keys.* The search takes the first variant with which a key is found, the specification the best of
   all. That these agree rests on the spelling of the confused sounds: each rule confuses an initial
   with one other (`FuzzyInitialsDiffer`), and of two variants that a key starts with, the one found
   earlier has fewer confused sounds, or as many and is no shorter (`FirstVariantIsBest`). So each match
   is a way (`MatchedAreWays`), and no way is better than the match (`WaysAreMatched`).
3. *Texts.* An occurrence has the rank of its match at the first place in a bucket or a later one
   (`RanksOfPlaces`), different occurrences have different ranks (`OccurrencesAreRanked`), and the first
   occurrence of a text has the best of its ranks (`FirstHasBestRank`). That gives the candidates
   (`CandidatesAreBest`).
4. *Shape.* The text itself can only come first by shape (`ByShapeIs`), so that one more than the limit
   is enough to drop it (`TopIs`). What a filter keeps is the only selection of its kind
   (`SelectionIsKept`), which makes the rest of the answer the candidates in their order (`KeptTwice`,
   `BoostIs`).
5. *Threads.* Whatever is put, moved and dropped in whatever order, every entry of the cache is the result
   of a query with its key (`Entries`), and the key has all that the candidates depend on
   (`KeyDetermines`).

Proved and not run again, as the theorem says more: the type invariants of the modules with proofs,
`HolderIsUpToDate`, `StepsWithinBudget`, `SameKeySamePayload`, `GateStaysClosed`, `OrphanIsFenced`,
`LockIsOwn`, `TableIsExact`, `ThreadsAreBounded`, `AbandonedNeverStarts`.

**Only model-checked**, and why:

* `RunsConverge`, `TasksSettle`, `ShutdownEnds`, `ClientHoldsNothing`: liveness, which needs fairness and
  `ENABLED`.
* `ServicesTypeOK`, which joins the type invariants of all services; those of the modules with proofs
  are proved.
* The five properties that TLC finds violated, which are false. `InterruptIsNotOvertaken` is one of
  them for the entry with routing, and a theorem for the other.

## 5. Not modelled

* *Database layer, Redis client, broker, event loop*: assumptions. The database executes a transaction
  atomically and serializes those that lock one row; a replica lags; Redis executes a command
  atomically; the broker is described in 2.2; AnyIO's scopes deliver cancellation at the next await
  outside of a shield, and a scope swallows its own cancellation.
* *Detached coroutines, scheduler wrapper*: one call each to an external library, and a list of jobs
  registered before the start.
* *Of Celery*, everything but the execution of a task: registration and schedules are declarative.
* *Logging, tracing, the log viewer; LLM, HTTP, embedding and object store clients; configuration,
  security primitives, toolkit*: output, I/O, or stateless.
* *Of the modelled components*: listings and pages of conversations; ingestion of documents, filter
  expressions and embeddings; the loading of the tables of the matcher and queries in which no token
  can be read; batches, processes and `anyio_gather` of the task handler; the redaction of audits; the
  decisions of models.

Two consequences visible in the code are outside the models. `info.status = "cancelled"` in
`_run_task_inner` is not reached when a task is cancelled through its own scope, so its status remains
`running` until it leaves the table. After a crash the row of an attempt stays `running`, and a retry
with its request key is answered as a replay of an attempt that nobody executes; `OneExecutorPerKey`
states the safe half of that.

## 6. Plan

1. **Refinements**: that a task of the handler and a chat keep an abstract promise, as `CeleryTask` and
   `ManagedRun` do, if one can be stated that is not the invariant again.
2. **Scheduler wrapper and ingestion**, if their state grows beyond one call.
