------------------------------- MODULE Lifespan -------------------------------
(***************************************************************************)
(* How a process obtains and releases what it works with.  A server does   *)
(* so once, around everything that it serves (lifespan in internal/app.py  *)
(* and internal/utils/background_tasks.py); a Celery worker does so for    *)
(* each task, in an event loop of its own (run_in_async in                 *)
(* internal/infra/celery/execution.py).  Both keep their connections in    *)
(* the same globals (internal/infra/{database,redis}/connection.py).       *)
(*                                                                         *)
(* A connection is named by the event loop it was made in, and is usable   *)
(* in no other.  Any step that initialises or closes may raise.  What      *)
(* raises while it is closed counts as open.                               *)
(***************************************************************************)
EXTENDS Naturals, Sequences

CONSTANTS
    HasReplica,  \* whether a read replica is configured
    MaxLoops,    \* bound: the event loops that one process starts
    NoError      \* no exception

ASSUME LoopsAssumption ==
    /\ MaxLoops \in Nat \ {0} /\ HasReplica \in BOOLEAN
    /\ NoError \notin {"primary", "replica", "redis", "logger", "tracing", "db", "startup", "body",
                       "cancelled", "background"}

VARIABLES
    process,    \* server or worker
    activity,   \* what the process is doing
    loop,       \* the last event loop it started
    global,     \* the loop of the connection each global variable holds, 0 for None
    opened,     \* the connections that are open: pairs of a name and a loop
    todo,       \* the callbacks of the exit stack, the next one first
    working,    \* whether background tasks run
    cancelled,  \* whether the server was cancelled since it last waited
    raised,     \* the exception on its way out of lifespan
    failed      \* the names whose closing, or initialisation, raised (history)

lifespanVars == <<process, activity, loop, global, opened, todo, working, cancelled, raised, failed>>

Connections == {"primary", "redis"} \cup (IF HasReplica THEN {"replica"} ELSE {})

Callbacks == {"logger", "tracing", "db", "redis"}

Activities == {"idle", "tracing", "db", "redis", "signature", "background", "serving", "draining",
           "closing", "ended"}

LifespanTypeOK ==
    /\ process \in {"server", "worker"}
    /\ activity \in Activities
    /\ loop \in 0 .. MaxLoops
    /\ global \in [Connections -> 0 .. loop]
    /\ opened \subseteq Connections \X (1 .. loop)
    /\ todo \in Seq(Callbacks)
    /\ working \in BOOLEAN /\ cancelled \in BOOLEAN
    /\ raised \in {NoError, "startup", "body", "cancelled", "background"} \cup Callbacks
    /\ failed \subseteq Connections \cup Callbacks \cup {"startup", "background"}

LifespanInit ==
    /\ process \in {"server", "worker"}
    /\ activity = "idle" /\ loop = 0 /\ opened = {} /\ todo = <<>>
    /\ global = [c \in Connections |-> 0]
    /\ working = FALSE /\ cancelled = FALSE /\ raised = NoError /\ failed = {}

-----------------------------------------------------------------------------
(* The globals of the connections. *)

\* init_async_db: nothing when there is a primary already, whatever loop it belongs to; else the
\* primary and then the replica, up to some place.  The results are sets of what is made.
init_async_db(held) ==
    IF held["primary"] # 0 THEN {{}}
    ELSE {{}, {"primary"}, {"primary", "replica"} \cap Connections}

init_async_redis(held) == IF held["redis"] # 0 THEN {{}} ELSE {{}, {"redis"}}

\* Connections are made in the loop l, on top of those that are held.
Connect(made, held, l) ==
    /\ global' = [c \in Connections |-> IF c \in made THEN l ELSE held[c]]
    /\ opened' = opened \cup made \X {l}

\* Every global that should be set is.
AllHeld(held, made) == \A c \in Connections : c \in made \/ held[c] # 0

\* A mistake: the connections that an earlier task could not close stay where they are.
Forgotten_Kept == global

\* reset_async_db and reset_async_redis: the connections are forgotten, not closed.
Forgotten == [c \in Connections |-> 0]

\* close_async_db, with close_async_redis: the connections are closed in order until one raises,
\* stop; those before it are gone from the globals, the others are not even tried.
Close(order, stop) ==
    LET before == {c \in Connections : \E i \in DOMAIN order : order[i] = c /\ \A j \in 1 .. i : order[j] # stop}
    IN  /\ global' = [c \in Connections |-> IF c \in before THEN 0 ELSE global[c]]
        /\ opened' = opened \ {<<c, global[c]>> : c \in before}

\* What may raise while a sequence of connections is closed: nothing, or one that is held.
MayStop(order) ==
    {NoError} \cup {c \in Connections : global[c] # 0 /\ \E i \in DOMAIN order : order[i] = c}

-----------------------------------------------------------------------------
(* A server: lifespan. *)

\* The startup raises: what was registered is cleaned up.
StartupFails ==
    /\ raised' = "startup"
    /\ failed' = failed \cup {"startup"}
    /\ activity' = IF activity = "background" THEN "draining" ELSE IF todo' = <<>> THEN "ended" ELSE "closing"

Goes(next) == activity' = next /\ UNCHANGED <<raised, failed>>

\* init_settings and init_logger, before anything can be cleaned up.
StartServer ==
    /\ process = "server" /\ activity = "idle"
    /\ loop' = 1
    /\ \/ todo' = <<>> /\ StartupFails
       \/ todo' = <<"logger">> /\ Goes("tracing")
    /\ UNCHANGED <<process, global, opened, working, cancelled>>

\* Tracing is registered once it is initialised.
InitTracing ==
    /\ activity = "tracing"
    /\ \/ todo' = todo /\ StartupFails
       \/ todo' = <<"tracing">> \o todo /\ Goes("db")
    /\ UNCHANGED <<process, loop, global, opened, working, cancelled>>

\* The connections are registered before they are made.
InitDatabase ==
    /\ activity = "db"
    /\ todo' = <<"db">> \o todo
    /\ \E made \in init_async_db(global) :
        /\ Connect(made, global, loop)
        /\ \/ StartupFails
           \/ "primary" \in made /\ ("replica" \in Connections => "replica" \in made) /\ Goes("redis")
    /\ UNCHANGED <<process, loop, working, cancelled>>

InitRedis ==
    /\ activity = "redis"
    /\ todo' = <<"redis">> \o todo
    /\ \E made \in init_async_redis(global) :
        /\ Connect(made, global, loop)
        /\ \/ StartupFails
           \/ AllHeld(global, made) /\ Goes("signature")
    /\ UNCHANGED <<process, loop, working, cancelled>>

\* init_signature_auth_handler, and then init_background_task_manager.
InitHandlers ==
    /\ activity \in {"signature", "background"}
    /\ UNCHANGED todo
    /\ \/ StartupFails
       \/ Goes(IF activity = "signature" THEN "background" ELSE "serving")
    /\ UNCHANGED <<process, loop, global, opened, working, cancelled>>

\* A request adds a task to the manager, which accepts no more once it shuts down.
AddWork ==
    /\ process = "server" /\ activity = "serving" /\ ~working
    /\ working' = TRUE
    /\ UNCHANGED <<process, activity, loop, global, opened, todo, cancelled, raised, failed>>

EndWork ==
    /\ working
    /\ working' = FALSE
    /\ UNCHANGED <<process, activity, loop, global, opened, todo, cancelled, raised, failed>>

\* The server is told to stop, fails, or is cancelled in its body.
StopServing ==
    /\ process = "server" /\ activity = "serving"
    /\ activity' = "draining"
    /\ raised' \in {NoError, "body", "cancelled"}
    /\ UNCHANGED <<process, loop, global, opened, todo, working, cancelled, failed>>

\* The task of the server is cancelled where it waits, for its background tasks or for the cleanup,
\* which it does not leave for that.
Cancel ==
    /\ activity \in {"draining", "closing"} /\ ~cancelled
    /\ cancelled' = TRUE
    /\ UNCHANGED <<process, activity, loop, global, opened, todo, working, raised, failed>>

\* close_background_task_manager: the tasks have ended, and its exception or a cancellation
\* replaces the one that was on its way.
CloseBackground ==
    /\ activity = "draining" /\ ~working
    /\ activity' = "closing"
    /\ cancelled' = FALSE
    /\ \/ /\ raised' = "background"
          /\ failed' = failed \cup {"background"}
       \/ /\ raised' = IF cancelled THEN "cancelled" ELSE raised
          /\ UNCHANGED failed
    /\ UNCHANGED <<process, loop, global, opened, todo, working>>

\* _close_resources: the exit stack goes on to the next callback whatever one raises, and the last
\* exception counts.
CloseResource ==
    /\ activity = "closing" /\ todo # <<>>
    /\ todo' = Tail(todo)
    /\ LET what == Head(todo)
           order == CASE what = "db" -> <<"replica", "primary">>
                      [] what = "redis" -> <<"redis">>
                      [] OTHER -> <<>>
       IN  \E stop \in MayStop(order) \cup (IF order = <<>> THEN {what} ELSE {}) :
            /\ Close(order, stop)
            /\ raised' = IF stop = NoError THEN raised ELSE what
            /\ failed' = failed \cup ({stop} \ {NoError})
    /\ UNCHANGED <<process, activity, loop, working, cancelled>>

\* What leaves lifespan: an exception of the cleanup, or else the cancellation of the wait for it,
\* or else what was on its way before.
EndServer ==
    /\ process = "server" /\ activity = "closing" /\ todo = <<>>
    /\ activity' = "ended"
    /\ raised' = IF cancelled /\ raised \notin Callbacks THEN "cancelled" ELSE raised
    /\ UNCHANGED <<process, loop, global, opened, todo, working, cancelled, failed>>

-----------------------------------------------------------------------------
(* A worker: run_in_async. *)

\* Connections of earlier tasks are forgotten, then new ones made; what raises before the task
\* runs is not cleaned up.
StartTask ==
    /\ process = "worker" /\ activity = "idle" /\ loop < MaxLoops
    /\ loop' = loop + 1
    /\ \E made \in {d \cup r : d \in init_async_db(Forgotten), r \in init_async_redis(Forgotten)} :
        /\ "redis" \in made => Connections \ {"redis"} \subseteq made
        /\ Connect(made, Forgotten, loop')
        /\ \/ activity' = "idle" /\ failed' = {"startup"}
           \/ AllHeld(Forgotten, made) /\ activity' = "serving" /\ failed' = {}
    /\ UNCHANGED <<process, todo, working, cancelled, raised>>

\* The task returns or raises; when closing the databases raises, Redis is not closed.
EndTask ==
    /\ process = "worker" /\ activity = "serving"
    /\ activity' = "idle"
    /\ LET order == <<"replica", "primary", "redis">>
       IN  \E stop \in MayStop(order) :
            /\ Close(order, stop)
            /\ failed' = {stop} \ {NoError}
    /\ UNCHANGED <<process, loop, todo, working, cancelled, raised>>

LifespanNext ==
    \/ StartServer \/ InitTracing \/ InitDatabase \/ InitRedis \/ InitHandlers
    \/ AddWork \/ EndWork \/ StopServing \/ Cancel \/ CloseBackground \/ CloseResource \/ EndServer
    \/ StartTask \/ EndTask

LifespanSpec == LifespanInit /\ [][LifespanNext]_lifespanVars

-----------------------------------------------------------------------------

\* Whatever runs, background tasks of a server that stops included, finds every connection open
\* and made in the event loop it runs in.
UsedAreOwn ==
    activity = "serving" \/ working =>
        \A c \in Connections : global[c] = loop /\ <<c, loop>> \in opened

\* A process that has finished has closed all it opened, but for what raised while it was closed
\* and, in one close, what comes after it: the primary after the replica, and in a worker Redis
\* after both.  A worker whose start raised has closed nothing.
Skipped(c) ==
    \/ c \in failed
    \/ c = "primary" /\ "replica" \in failed
    \/ process = "worker" /\ failed \cap {"startup", "primary", "replica"} # {}

FinishedAreClosed ==
    (process = "server" /\ activity = "ended") \/ (process = "worker" /\ activity = "idle") =>
        \A c \in Connections : <<c, loop>> \in opened => Skipped(c)

\* The last exception of the cleanup leaves lifespan, and a cancellation is never swallowed.
NothingIsSwallowed ==
    activity = "ended" =>
        /\ failed \cap (Connections \cup Callbacks) # {} => raised \in Callbacks
        /\ cancelled \/ failed # {} => raised # NoError

\* Connections and exceptions survive every failure and cancellation of a process that starts,
\* works and stops (internal/app.py lifespan, internal/infra/celery/execution.py run_in_async).
LifecycleIsClean == UsedAreOwn /\ FinishedAreClosed /\ NothingIsSwallowed

=============================================================================
