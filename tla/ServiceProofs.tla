----------------------------- MODULE ServiceProofs -----------------------------
(***************************************************************************)
(* Proofs about the connections and the vector collection of a process,    *)
(* about the stored form of a checkpoint and about the tools of an agent.  *)
(*                                                                         *)
(*   LifespanTypeCorrect   LifespanSpec => []LifespanTypeOK                *)
(*   LifecycleCorrect      LifespanSpec => []LifecycleIsClean              *)
(*   StoreTypeCorrect      StoreSpec => []StoreTypeOK                      *)
(*   StoreCorrect          StoreSpec => []CallsFindTheirCollection         *)
(*   CheckpointCorrect     CheckpointSpec => []NothingIsLost               *)
(*   RefundCorrect, TotalCorrect, ScopeCorrect and ToolsCorrect            *)
(*                         ToolsSpec => []ToolsAreExact                    *)
(*                                                                         *)
(* A connection that a server has is one it used, or one whose closing is  *)
(* still to come, or one that could not be closed: InitDatabase and        *)
(* InitRedis register the closing before they connect, and CloseResource   *)
(* takes a callback off the stack only with what it closes.                *)
(*                                                                         *)
(* A collection that exists is never replaced, so what an operation found  *)
(* out about it stays true whatever the others do; a backend remembers     *)
(* only what was so, and a reset forgets it.                               *)
(*                                                                         *)
(* A field that another version changed is as it was, absent, of another   *)
(* type or an unknown word (Near).  Of every field that matters Decodes    *)
(* accepts only the first (DecodeKeeps), but for the unknown names, which  *)
(* Resume refuses.                                                         *)
(*                                                                         *)
(* The formatting of a float is exact since the powers of two that are     *)
(* around an amount bound the error of its float (FormatIsExact).          *)
(***************************************************************************)
EXTENDS Lifespan, VectorStore, Checkpoint, AgentTools, SequenceTheorems, WellFoundedInduction, TLAPS

-----------------------------------------------------------------------------
(* The inductive invariant of Lifespan, in parts *)

\* A global variable holds nothing or what the present loop has open.
GlobalsInv ==
    \A c \in Connections :
        /\ global[c] \in {0, loop}
        /\ <<c, loop>> \in opened <=> loop # 0 /\ global[c] = loop

StartingUp == {"tracing", "db", "redis", "signature", "background"}

\* How far the process is.
ActivityInv ==
    /\ process = "worker" => activity \in {"idle", "serving"} /\ working = FALSE
    /\ process = "server" => loop = IF activity = "idle" THEN 0 ELSE 1
    /\ activity # "idle" => loop # 0
    /\ working => activity \in {"serving", "draining"}
    /\ activity = "redis" => \A c \in Connections \ {"redis"} : global[c] = loop
    /\ activity \in {"signature", "background", "serving", "draining"} =>
           \A c \in Connections : global[c] = loop
    /\ activity = "ended" => todo = <<>>

\* The callback that closes a connection.
CloserOf(c) == IF c = "redis" THEN "redis" ELSE "db"

Registered(what) == \E i \in 1 .. Len(todo) : todo[i] = what

\* What is open is closed later, unless its closing has raised.
CleanupInv ==
    /\ process = "server" =>
           \A c \in Connections : global[c] # 0 => Registered(CloserOf(c)) \/ Skipped(c)
    /\ process = "worker" /\ activity = "idle" =>
           \A c \in Connections : <<c, loop>> \in opened => Skipped(c)

\* Nothing has failed before the cleanup, but for the start; what fails is on its way out.
ErrorsInv ==
    process = "server" =>
        /\ activity \in {"idle", "serving"} \cup StartingUp => failed = {}
        /\ activity = "draining" => failed \subseteq {"startup"}
        /\ failed \cap (Connections \cup Callbacks) # {} => raised \in Callbacks
        /\ failed # {} => raised # NoError
        /\ activity = "ended" /\ cancelled => raised # NoError

LifespanInv ==
    LifespanTypeOK /\ GlobalsInv /\ ActivityInv /\ CleanupInv /\ ErrorsInv

-----------------------------------------------------------------------------
(* The exit stack, and what is closed *)

LEMMA Names ==
    /\ Connections \subseteq {"primary", "replica", "redis"} /\ {"primary", "redis"} \subseteq Connections
    /\ NoError \notin Connections \cup Callbacks \cup {"startup", "body", "cancelled", "background"}
    /\ {"startup", "background"} \cap (Connections \cup Callbacks) = {}
    /\ \A c \in Connections : CloserOf(c) \in Callbacks
BY LoopsAssumption DEF Connections, Callbacks, CloserOf

LEMMA Pushed ==
    ASSUME todo \in Seq(Callbacks), NEW what \in Callbacks, todo' = <<what>> \o todo
    PROVE  /\ todo' \in Seq(Callbacks) /\ todo' # <<>> /\ Registered(what)'
           /\ \A x : Registered(x) => Registered(x)'
<1>1. <<what>> \in Seq(Callbacks) /\ Len(<<what>>) = 1 /\ <<what>>[1] = what /\ Len(todo) \in Nat
  BY LenProperties
<1>2. /\ todo' \in Seq(Callbacks) /\ Len(todo') = 1 + Len(todo) /\ todo'[1] = what
      /\ \A i \in 1 .. Len(todo) : todo'[i + 1] = todo[i]
  BY <1>1, ConcatProperties
<1>3. todo' # <<>>
  BY <1>1, <1>2, EmptySeq
<1>4. Registered(what)'
  BY <1>1, <1>2 DEF Registered
<1>5. ASSUME NEW x, NEW i \in 1 .. Len(todo), todo[i] = x
      PROVE  Registered(x)'
  <2>1. i + 1 \in 1 .. Len(todo') /\ todo'[i + 1] = x
    BY <1>1, <1>2, <1>5
  <2>. QED BY <2>1 DEF Registered
<1>. QED BY <1>2, <1>3, <1>4, <1>5 DEF Registered

LEMMA Popped ==
    ASSUME todo \in Seq(Callbacks), todo # <<>>, todo' = Tail(todo)
    PROVE  /\ todo' \in Seq(Callbacks) /\ Head(todo) \in Callbacks
           /\ \A x : Registered(x) /\ x # Head(todo) => Registered(x)'
<1>1. /\ todo' \in Seq(Callbacks) /\ Len(todo') = Len(todo) - 1 /\ Len(todo) \in Nat
      /\ Head(todo) \in Callbacks /\ Head(todo) = todo[1]
      /\ \A i \in 1 .. Len(todo') : todo'[i] = todo[i + 1]
  BY HeadTailProperties, LenProperties
<1>2. ASSUME NEW x, NEW i \in 1 .. Len(todo), todo[i] = x, x # Head(todo)
      PROVE  Registered(x)'
  <2>1. i # 1
    BY <1>1, <1>2
  <2>2. i - 1 \in 1 .. Len(todo') /\ todo'[i - 1] = x
    BY <1>1, <1>2, <2>1
  <2>. QED BY <2>2 DEF Registered
<1>. QED BY <1>1, <1>2 DEF Registered

\* What is closed is gone from its global variable; everything else stays.
LEMMA CloseKeepsGlobals ==
    ASSUME LifespanTypeOK, GlobalsInv, NEW order, NEW stop, Close(order, stop), loop' = loop
    PROVE  /\ GlobalsInv' /\ global' \in [Connections -> 0 .. loop]
           /\ opened' \subseteq Connections \X (1 .. loop)
<1>. DEFINE before == {c \in Connections : \E i \in DOMAIN order : order[i] = c /\ \A j \in 1 .. i : order[j] # stop}
<1>1. /\ global' = [c \in Connections |-> IF c \in before THEN 0 ELSE global[c]]
      /\ opened' = opened \ {<<c, global[c]>> : c \in before} /\ before \subseteq Connections
  BY DEF Close
<1>. HIDE DEF before
<1>2. global' \in [Connections -> 0 .. loop]
  BY <1>1 DEF LifespanTypeOK
<1>3. opened' \subseteq Connections \X (1 .. loop)
  BY <1>1 DEF LifespanTypeOK
<1>4. ASSUME NEW c \in Connections
      PROVE  /\ global'[c] \in {0, loop}
             /\ <<c, loop>> \in opened' <=> loop # 0 /\ global'[c] = loop
  <2>1. CASE c \in before
    BY <1>1, <2>1 DEF GlobalsInv
  <2>2. CASE c \notin before
    BY <1>1, <2>2 DEF GlobalsInv
  <2>. QED BY <2>1, <2>2
<1>. QED BY <1>2, <1>3, <1>4 DEF GlobalsInv

\* After a connection that could not be closed, the rest of its callback is not tried.
LEMMA CloseInOrder ==
    ASSUME LifespanTypeOK, NEW order, NEW stop, Close(order, stop),
           order \in {<<"replica", "primary">>, <<"redis">>, <<"replica", "primary", "redis">>}
    PROVE  \A c \in Connections :
             global'[c] # 0 =>
               \/ c = stop
               \/ global'[c] = global[c] /\ ~\E i \in DOMAIN order : order[i] = c
               \/ c = "primary" /\ stop = "replica"
               \/ c = "redis" /\ order = <<"replica", "primary", "redis">> /\ stop \in {"replica", "primary"}
<1>. DEFINE before == {c \in Connections : \E i \in DOMAIN order : order[i] = c /\ \A j \in 1 .. i : order[j] # stop}
<1>1. \A c \in Connections : global'[c] = IF c \in before THEN 0 ELSE global[c]
  BY DEF Close
<1>2. ASSUME NEW c \in Connections, NEW i \in DOMAIN order, order[i] = c,
             \A j \in 1 .. i : order[j] # stop
      PROVE  global'[c] = 0
  BY <1>1, <1>2
<1>. HIDE DEF before
<1>3. CASE order = <<"redis">>
  <2>1. /\ DOMAIN order = {1} /\ 1 .. 1 = {1} /\ order[1] = "redis"
    BY <1>3
  <2>2. stop # "redis" => global'["redis"] = 0
    BY <1>2, <2>1, Names
  <2>3. \A c \in Connections : c # "redis" =>
          global'[c] = global[c] /\ ~\E i \in DOMAIN order : order[i] = c
    BY <2>1 DEF Close
  <2>. QED BY <2>2, <2>3
<1>4. CASE order = <<"replica", "primary">>
  <2>1. /\ DOMAIN order = {1, 2} /\ 1 .. 1 = {1} /\ 1 .. 2 = {1, 2}
        /\ order[1] = "replica" /\ order[2] = "primary"
    BY <1>4
  <2>2. "replica" \in Connections /\ stop # "replica" => global'["replica"] = 0
    BY <1>2, <2>1
  <2>3. stop \notin {"replica", "primary"} => global'["primary"] = 0
    BY <1>2, <2>1, Names
  <2>4. \A c \in Connections : c \notin {"replica", "primary"} =>
          global'[c] = global[c] /\ ~\E i \in DOMAIN order : order[i] = c
    BY <2>1 DEF Close
  <2>. QED BY <2>2, <2>3, <2>4
<1>5. CASE order = <<"replica", "primary", "redis">>
  <2>1. /\ DOMAIN order = {1, 2, 3} /\ 1 .. 1 = {1} /\ 1 .. 2 = {1, 2} /\ 1 .. 3 = {1, 2, 3}
        /\ order[1] = "replica" /\ order[2] = "primary" /\ order[3] = "redis"
    BY <1>5
  <2>2. "replica" \in Connections /\ stop # "replica" => global'["replica"] = 0
    BY <1>2, <2>1
  <2>3. stop \notin {"replica", "primary"} => global'["primary"] = 0
    BY <1>2, <2>1, Names
  <2>4. stop \notin {"replica", "primary", "redis"} => global'["redis"] = 0
    BY <1>2, <2>1, Names
  <2>. QED BY <1>5, <2>2, <2>3, <2>4, Names
<1>. QED BY <1>3, <1>4, <1>5

\* New connections are held by the global variables, and open.
LEMMA ConnectHolds ==
    ASSUME NEW made \in SUBSET Connections, NEW held \in [Connections -> 0 .. loop'],
           LifespanTypeOK, loop' \in 1 .. MaxLoops, loop \in 0 .. loop',
           global' = [c \in Connections |-> IF c \in made THEN loop' ELSE held[c]],
           opened' = opened \cup made \X {loop'},
           \A c \in Connections : held[c] \in {0, loop'},
           \A c \in Connections : <<c, loop'>> \in opened <=> held[c] = loop'
    PROVE  /\ GlobalsInv' /\ global' \in [Connections -> 0 .. loop']
           /\ opened' \subseteq Connections \X (1 .. loop')
           /\ \A c \in Connections : global'[c] = IF c \in made THEN loop' ELSE held[c]
<1>1. global' \in [Connections -> 0 .. loop']
  OBVIOUS
<1>2. opened' \subseteq Connections \X (1 .. loop')
  <2>1. 1 .. loop \subseteq 1 .. loop' /\ loop' \in 1 .. loop'
    BY LoopsAssumption
  <2>. QED BY <2>1 DEF LifespanTypeOK
<1>3. \A c \in Connections : <<c, loop'>> \in opened' <=> c \in made \/ <<c, loop'>> \in opened
  OBVIOUS
<1>4. \A c \in Connections : global'[c] = IF c \in made THEN loop' ELSE held[c]
  OBVIOUS
<1>5. GlobalsInv'
  <2>1. loop' # 0
    BY LoopsAssumption
  <2>. QED BY <1>3, <1>4, <2>1 DEF GlobalsInv
<1>. QED BY <1>1, <1>2, <1>4, <1>5

-----------------------------------------------------------------------------
(* The steps of a server *)

\* What the invariant says of a step that neither connects nor closes.
StillInv == GlobalsInv /\ global \in [Connections -> 0 .. loop] /\ opened \subseteq Connections \X (1 .. loop)

LEMMA StillHolds ==
    ASSUME LifespanInv, UNCHANGED <<loop, global, opened>>
    PROVE  StillInv'
BY DEF LifespanInv, LifespanTypeOK, GlobalsInv, StillInv

\* A start that fails says so; whether it goes on or not, nothing else has failed.
LEMMA StartingHolds ==
    ASSUME LifespanInv, process = "server", activity \in {"idle"} \cup StartingUp,
           todo' \in Seq(Callbacks), loop' = 1,
           NEW next \in Activities, next \in {"serving"} \cup StartingUp, StartupFails \/ Goes(next),
           UNCHANGED <<process, working, cancelled>>
    PROVE  /\ ErrorsInv'
           /\ process' \in {"server", "worker"} /\ activity' \in Activities
           /\ working' \in BOOLEAN /\ cancelled' \in BOOLEAN /\ working' = FALSE
           /\ raised' \in {NoError, "startup", "body", "cancelled", "background"} \cup Callbacks
           /\ failed' \subseteq Connections \cup Callbacks \cup {"startup", "background"}
           /\ activity' = "ended" => todo' = <<>>
<1>1. /\ failed = {} /\ raised \in {NoError, "startup", "body", "cancelled", "background"} \cup Callbacks
      /\ working = FALSE /\ cancelled \in BOOLEAN
  BY DEF LifespanInv, LifespanTypeOK, ErrorsInv, ActivityInv, StartingUp
<1>2. CASE StartupFails
  <2>1. /\ raised' = "startup" /\ failed' = {"startup"}
        /\ activity' \in {"draining", "closing", "ended"}
        /\ activity' = "ended" => todo' = <<>>
    BY <1>1, <1>2 DEF StartupFails
  <2>2. failed' \cap (Connections \cup Callbacks) = {} /\ "startup" # NoError
    BY <2>1, Names
  <2>. QED BY <1>1, <2>1, <2>2 DEF ErrorsInv, Activities, StartingUp
<1>3. CASE Goes(next)
  <2>1. activity' = next /\ UNCHANGED <<raised, failed>> /\ next \notin {"closing", "ended", "draining"}
    BY <1>3 DEF Goes, StartingUp
  <2>. QED BY <1>1, <2>1 DEF ErrorsInv, StartingUp
<1>. QED BY <1>2, <1>3

LEMMA StartServerHolds ==
    ASSUME LifespanInv, StartServer
    PROVE  LifespanInv'
<1>1. /\ LifespanTypeOK /\ process = "server" /\ activity = "idle" /\ loop = 0 /\ loop' = 1
      /\ UNCHANGED <<process, global, opened, working, cancelled>>
  BY DEF LifespanInv, ActivityInv, StartServer
<1>2. /\ \A c \in Connections : global'[c] = 0
      /\ global' \in [Connections -> 0 .. loop'] /\ opened' = {}
  BY <1>1 DEF LifespanInv, LifespanTypeOK, GlobalsInv
<1>3. todo' \in Seq(Callbacks)
  <2>1. <<>> \in Seq(Callbacks) /\ <<"logger">> \in Seq(Callbacks)
    BY DEF Callbacks
  <2>. QED BY <2>1 DEF StartServer
<1>4. StartupFails \/ Goes("tracing")
  BY DEF StartServer
<1>5. "tracing" \in Activities /\ "tracing" \in {"serving"} \cup StartingUp
  BY DEF Activities, StartingUp
<1>6. /\ ErrorsInv' /\ process' \in {"server", "worker"} /\ activity' \in Activities
      /\ working' \in BOOLEAN /\ cancelled' \in BOOLEAN /\ working' = FALSE
      /\ raised' \in {NoError, "startup", "body", "cancelled", "background"} \cup Callbacks
      /\ failed' \subseteq Connections \cup Callbacks \cup {"startup", "background"}
      /\ activity' = "ended" => todo' = <<>>
  BY <1>1, <1>2, <1>3, <1>4, <1>5, StartingHolds
<1>7. LifespanTypeOK'
  BY <1>1, <1>2, <1>3, <1>6, LoopsAssumption DEF LifespanTypeOK
<1>8. GlobalsInv'
  BY <1>1, <1>2 DEF GlobalsInv
<1>9. activity' \in {"tracing", "closing", "ended"}
  BY <1>1 DEF StartServer, StartupFails, Goes
<1>10. ActivityInv'
  BY <1>1, <1>6, <1>9 DEF ActivityInv
<1>11. CleanupInv'
  BY <1>1, <1>2 DEF CleanupInv
<1>. QED BY <1>6, <1>7, <1>8, <1>10, <1>11 DEF LifespanInv

\* A later step of the start: what it pushes on the stack, and what it connects.
LEMMA StartUpHolds ==
    ASSUME LifespanInv, activity \in StartingUp, process = "server",
           NEW next \in {"serving"} \cup StartingUp, StartupFails \/ Goes(next),
           todo' \in Seq(Callbacks), \A x : Registered(x) => Registered(x)',
           UNCHANGED <<process, loop, working, cancelled>>, StillInv',
           \A c \in Connections : global'[c] \in {0, global[c]} \/ Registered(CloserOf(c))',
           next = "redis" /\ Goes(next) => \A c \in Connections \ {"redis"} : global'[c] = loop,
           (next \in {"signature", "background", "serving"} /\ Goes(next)) \/ activity = "background" =>
               \A c \in Connections : global'[c] = loop
    PROVE  LifespanInv'
<1>1. /\ LifespanTypeOK /\ ErrorsInv /\ CleanupInv /\ loop = 1
  BY DEF LifespanInv, ActivityInv, StartingUp
<1>2. /\ ErrorsInv' /\ process' \in {"server", "worker"} /\ activity' \in Activities
      /\ working' \in BOOLEAN /\ cancelled' \in BOOLEAN /\ working' = FALSE
      /\ raised' \in {NoError, "startup", "body", "cancelled", "background"} \cup Callbacks
      /\ failed' \subseteq Connections \cup Callbacks \cup {"startup", "background"}
      /\ activity' = "ended" => todo' = <<>>
  <2>1. next \in Activities
    BY DEF StartingUp, Activities
  <2>. QED BY <1>1, <2>1, StartingHolds
<1>3. LifespanTypeOK'
  BY <1>1, <1>2 DEF LifespanTypeOK, StillInv
<1>4. \/ /\ activity' \in {"draining", "closing", "ended"}
         /\ activity' = "draining" => activity = "background"
      \/ Goes(next) /\ activity' = next
  BY DEF StartupFails, Goes
<1>5. ActivityInv'
  BY <1>1, <1>2, <1>4 DEF ActivityInv, StartingUp
<1>6. CleanupInv'
  <2>1. failed = {}
    BY <1>1 DEF ErrorsInv
  <2>2. ASSUME NEW c \in Connections, global'[c] # 0
        PROVE  Registered(CloserOf(c))'
    BY <1>1, <2>1, <2>2 DEF CleanupInv, Skipped
  <2>. QED BY <2>2 DEF CleanupInv
<1>. QED BY <1>2, <1>3, <1>5, <1>6 DEF LifespanInv, StillInv

LEMMA InitTracingHolds ==
    ASSUME LifespanInv, InitTracing
    PROVE  LifespanInv'
<1>1. /\ process = "server" /\ activity = "tracing" /\ activity \in StartingUp
      /\ UNCHANGED <<process, loop, global, opened, working, cancelled>>
      /\ StartupFails \/ Goes("db")
  BY DEF InitTracing, StartingUp, LifespanInv, LifespanTypeOK, ActivityInv
<1>2. todo' \in Seq(Callbacks) /\ \A x : Registered(x) => Registered(x)'
  <2>1. todo \in Seq(Callbacks) /\ "tracing" \in Callbacks
    BY DEF LifespanInv, LifespanTypeOK, Callbacks
  <2>2. CASE todo' = todo
    BY <2>1, <2>2 DEF Registered
  <2>3. CASE todo' = <<"tracing">> \o todo
    BY <2>1, <2>3, Pushed
  <2>. QED BY <2>2, <2>3 DEF InitTracing
<1>3. StillInv'
  BY <1>1, StillHolds
<1>. QED BY <1>1, <1>2, <1>3, StartUpHolds DEF StartingUp

LEMMA InitHandlersHolds ==
    ASSUME LifespanInv, InitHandlers
    PROVE  LifespanInv'
<1>1. /\ process = "server" /\ activity \in {"signature", "background"} /\ activity \in StartingUp
      /\ UNCHANGED <<process, loop, global, opened, working, cancelled, todo>>
  BY DEF InitHandlers, StartingUp, LifespanInv, LifespanTypeOK, ActivityInv
<1>2. StartupFails \/ Goes(IF activity = "signature" THEN "background" ELSE "serving")
  BY DEF InitHandlers
<1>3. /\ \A c \in Connections : global'[c] = loop
      /\ \A c \in Connections : global'[c] = global[c]
  BY <1>1 DEF LifespanInv, ActivityInv
<1>4. todo' \in Seq(Callbacks) /\ \A x : Registered(x) => Registered(x)'
  BY <1>1 DEF Registered, LifespanInv, LifespanTypeOK
<1>5. StillInv'
  BY <1>1, StillHolds
<1>. DEFINE next == IF activity = "signature" THEN "background" ELSE "serving"
<1>6. next \in {"serving"} \cup StartingUp /\ (StartupFails \/ Goes(next))
  BY <1>2 DEF StartingUp
<1>. HIDE DEF next
<1>7. next = "redis" /\ Goes(next) => \A c \in Connections \ {"redis"} : global'[c] = loop
  BY <1>3
<1>. QED BY <1>1, <1>3, <1>4, <1>5, <1>6, <1>7, StartUpHolds

LEMMA InitDatabaseHolds ==
    ASSUME LifespanInv, InitDatabase
    PROVE  LifespanInv'
<1>1. /\ process = "server" /\ activity = "db" /\ activity \in StartingUp
      /\ UNCHANGED <<process, loop, working, cancelled>> /\ todo' = <<"db">> \o todo
      /\ LifespanTypeOK /\ GlobalsInv /\ loop = 1
  BY DEF InitDatabase, StartingUp, LifespanInv, LifespanTypeOK, ActivityInv
<1>2. PICK made \in init_async_db(global) :
        /\ Connect(made, global, loop)
        /\ \/ StartupFails
           \/ "primary" \in made /\ ("replica" \in Connections => "replica" \in made) /\ Goes("redis")
  BY DEF InitDatabase
<1>3. made \in SUBSET Connections /\ "redis" \notin made
  BY Names DEF init_async_db
<1>4. /\ todo' \in Seq(Callbacks) /\ Registered("db")' /\ \A x : Registered(x) => Registered(x)'
  <2>1. todo \in Seq(Callbacks) /\ "db" \in Callbacks
    BY <1>1 DEF LifespanTypeOK, Callbacks
  <2>. QED BY <1>1, <2>1, Pushed
<1>5. /\ StillInv' /\ \A c \in Connections : global'[c] = IF c \in made THEN loop ELSE global[c]
  <2>1. /\ global \in [Connections -> 0 .. loop']
        /\ global' = [c \in Connections |-> IF c \in made THEN loop' ELSE global[c]]
        /\ opened' = opened \cup made \X {loop'}
        /\ loop' \in 1 .. MaxLoops /\ loop \in 0 .. loop'
        /\ \A c \in Connections : global[c] \in {0, loop'}
        /\ \A c \in Connections : <<c, loop'>> \in opened <=> global[c] = loop'
    BY <1>1, <1>2 DEF LifespanTypeOK, GlobalsInv, Connect
  <2>. QED BY <1>1, <1>3, <2>1, ConnectHolds DEF StillInv
<1>6. \A c \in Connections : global'[c] \in {0, global[c]} \/ Registered(CloserOf(c))'
  BY <1>3, <1>4, <1>5 DEF CloserOf
<1>7. Goes("redis") => \A c \in Connections \ {"redis"} : global'[c] = loop
  <2>1. activity' = "redis" \/ activity' \in {"closing", "ended"}
    BY <1>1, <1>2 DEF StartupFails, Goes
  <2>2. ASSUME Goes("redis") PROVE ~StartupFails
    BY <1>1, <2>2 DEF StartupFails, Goes
  <2>. QED BY <1>2, <1>5, <2>2, Names
<1>. QED BY <1>1, <1>2, <1>4, <1>5, <1>6, <1>7, StartUpHolds DEF StartingUp

LEMMA InitRedisHolds ==
    ASSUME LifespanInv, InitRedis
    PROVE  LifespanInv'
<1>1. /\ process = "server" /\ activity = "redis" /\ activity \in StartingUp
      /\ UNCHANGED <<process, loop, working, cancelled>> /\ todo' = <<"redis">> \o todo
      /\ LifespanTypeOK /\ GlobalsInv /\ loop = 1
      /\ \A c \in Connections \ {"redis"} : global[c] = loop
  BY DEF InitRedis, StartingUp, LifespanInv, LifespanTypeOK, ActivityInv
<1>2. PICK made \in init_async_redis(global) :
        /\ Connect(made, global, loop)
        /\ StartupFails \/ (AllHeld(global, made) /\ Goes("signature"))
  BY DEF InitRedis
<1>3. made \in SUBSET Connections /\ made \subseteq {"redis"}
  BY Names DEF init_async_redis
<1>4. /\ todo' \in Seq(Callbacks) /\ Registered("redis")' /\ \A x : Registered(x) => Registered(x)'
  <2>1. todo \in Seq(Callbacks) /\ "redis" \in Callbacks
    BY <1>1 DEF LifespanTypeOK, Callbacks
  <2>. QED BY <1>1, <2>1, Pushed
<1>5. /\ StillInv' /\ \A c \in Connections : global'[c] = IF c \in made THEN loop ELSE global[c]
  <2>1. /\ global \in [Connections -> 0 .. loop']
        /\ global' = [c \in Connections |-> IF c \in made THEN loop' ELSE global[c]]
        /\ opened' = opened \cup made \X {loop'}
        /\ loop' \in 1 .. MaxLoops /\ loop \in 0 .. loop'
        /\ \A c \in Connections : global[c] \in {0, loop'}
        /\ \A c \in Connections : <<c, loop'>> \in opened <=> global[c] = loop'
    BY <1>1, <1>2 DEF LifespanTypeOK, GlobalsInv, Connect
  <2>. QED BY <1>1, <1>3, <2>1, ConnectHolds DEF StillInv
<1>6. \A c \in Connections : global'[c] \in {0, global[c]} \/ Registered(CloserOf(c))'
  BY <1>3, <1>4, <1>5 DEF CloserOf
<1>7. Goes("signature") => \A c \in Connections : global'[c] = loop
  <2>1. ASSUME Goes("signature") PROVE ~StartupFails
    BY <1>1, <2>1 DEF StartupFails, Goes
  <2>. QED BY <1>1, <1>2, <1>5, <2>1 DEF AllHeld, GlobalsInv
<1>. QED BY <1>1, <1>2, <1>4, <1>5, <1>6, <1>7, StartUpHolds DEF StartingUp

\* A server at work and on its way down, while nothing is closed.
LEMMA ServingHolds ==
    ASSUME LifespanInv, AddWork \/ EndWork \/ StopServing \/ Cancel \/ CloseBackground \/ EndServer
    PROVE  LifespanInv'
<1>1. /\ LifespanTypeOK /\ GlobalsInv /\ ActivityInv /\ CleanupInv /\ ErrorsInv
      /\ process = "server" /\ UNCHANGED <<process, loop, global, opened, todo>>
  BY DEF LifespanInv, LifespanTypeOK, ActivityInv, AddWork, EndWork, StopServing, Cancel, CloseBackground,
         EndServer
<1>2. StillInv'
  BY <1>1, StillHolds
<1>3. LifespanTypeOK'
  <2>1. activity' \in Activities /\ working' \in BOOLEAN /\ cancelled' \in BOOLEAN
    BY <1>1 DEF LifespanTypeOK, AddWork, EndWork, StopServing, Cancel, CloseBackground, EndServer, Activities
  <2>2. /\ raised' \in {NoError, "startup", "body", "cancelled", "background"} \cup Callbacks
        /\ failed' \subseteq Connections \cup Callbacks \cup {"startup", "background"}
    BY <1>1 DEF LifespanTypeOK, AddWork, EndWork, StopServing, Cancel, CloseBackground, EndServer
  <2>. QED BY <1>1, <1>2, <2>1, <2>2 DEF LifespanTypeOK, StillInv
<1>4. ActivityInv'
  BY <1>1 DEF ActivityInv, AddWork, EndWork, StopServing, Cancel, CloseBackground, EndServer
<1>5. CleanupInv'
  <2>1. failed \subseteq failed'
    BY DEF AddWork, EndWork, StopServing, Cancel, CloseBackground, EndServer
  <2>2. \A c \in Connections : Skipped(c) => Skipped(c)'
    BY <1>1, <2>1 DEF Skipped
  <2>3. \A x : Registered(x) => Registered(x)'
    BY <1>1 DEF Registered
  <2>. QED BY <1>1, <2>2, <2>3 DEF CleanupInv
<1>6. ErrorsInv'
  <2>1. CASE AddWork \/ EndWork \/ Cancel
    BY <1>1, <2>1 DEF ErrorsInv, AddWork, EndWork, Cancel, StartingUp
  <2>2. CASE StopServing
    <3>1. failed' = {} /\ activity' = "draining"
      BY <1>1, <2>2 DEF ErrorsInv, StopServing
    <3>. QED BY <1>1, <3>1 DEF ErrorsInv, StartingUp
  <2>3. CASE CloseBackground
    <3>1. /\ failed \subseteq {"startup"} /\ failed' \subseteq {"startup", "background"}
          /\ activity' = "closing"
          /\ failed' # {} => raised' # NoError
      BY <1>1, <2>3, Names DEF ErrorsInv, CloseBackground
    <3>. QED BY <3>1, Names DEF ErrorsInv, StartingUp
  <2>4. CASE EndServer
    <3>1. /\ activity = "closing" /\ activity' = "ended" /\ UNCHANGED <<failed, cancelled>>
          /\ raised \in Callbacks => raised' = raised
          /\ raised' \in {raised, "cancelled"}
          /\ cancelled => raised' \in Callbacks \cup {"cancelled"}
      BY <2>4 DEF EndServer
    <3>. QED BY <1>1, <3>1, Names DEF ErrorsInv, StartingUp
  <2>. QED BY <2>1, <2>2, <2>3, <2>4
<1>. QED BY <1>2, <1>3, <1>4, <1>5, <1>6 DEF LifespanInv, StillInv

\* One callback of the exit stack, which raises or not.
LEMMA CloseResourceHolds ==
    ASSUME LifespanInv, CloseResource
    PROVE  LifespanInv'
<1>. DEFINE what == Head(todo)
            order == CASE what = "db" -> <<"replica", "primary">>
                       [] what = "redis" -> <<"redis">>
                       [] OTHER -> <<>>
<1>1. /\ LifespanTypeOK /\ GlobalsInv /\ ActivityInv /\ CleanupInv /\ ErrorsInv
      /\ process = "server" /\ activity = "closing" /\ todo # <<>> /\ todo' = Tail(todo)
      /\ UNCHANGED <<process, activity, loop, working, cancelled>>
  BY DEF LifespanInv, LifespanTypeOK, ActivityInv, CloseResource
<1>2. PICK stop \in MayStop(order) \cup (IF order = <<>> THEN {what} ELSE {}) :
        /\ Close(order, stop)
        /\ raised' = IF stop = NoError THEN raised ELSE what
        /\ failed' = failed \cup ({stop} \ {NoError})
  BY DEF CloseResource
<1>3. todo' \in Seq(Callbacks) /\ what \in Callbacks /\ \A x : Registered(x) /\ x # what => Registered(x)'
  BY <1>1, Popped DEF LifespanTypeOK
<1>4. /\ GlobalsInv' /\ global' \in [Connections -> 0 .. loop]
      /\ opened' \subseteq Connections \X (1 .. loop)
  BY <1>1, <1>2, CloseKeepsGlobals
<1>5. \A c \in Connections : global'[c] # 0 => global'[c] = global[c]
  BY <1>2 DEF Close
<1>6. \A c \in Connections : global'[c] # 0 /\ CloserOf(c) = what => Skipped(c)'
  <2>1. CASE what \in {"db", "redis"}
    <3>1. order \in {<<"replica", "primary">>, <<"redis">>} /\ order # <<>>
      BY <2>1
    <3>2. /\ what = "db" => order = <<"replica", "primary">>
          /\ what = "redis" => order = <<"redis">>
      OBVIOUS
    <3>. HIDE DEF order
    <3>3. \A c \in Connections :
             global'[c] # 0 =>
               \/ c = stop
               \/ global'[c] = global[c] /\ ~\E i \in DOMAIN order : order[i] = c
               \/ c = "primary" /\ stop = "replica"
      BY <1>1, <1>2, <3>1, <3>2, CloseInOrder
    <3>4. \A c \in Connections : CloserOf(c) = what => \E i \in DOMAIN order : order[i] = c
      <4>1. CASE what = "db"
        <5>1. DOMAIN order = {1, 2} /\ order[1] = "replica" /\ order[2] = "primary"
          BY <3>2, <4>1
        <5>. QED BY <4>1, <5>1, Names DEF CloserOf
      <4>2. CASE what = "redis"
        <5>1. DOMAIN order = {1} /\ order[1] = "redis"
          BY <3>2, <4>2
        <5>. QED BY <4>2, <5>1 DEF CloserOf
      <4>. QED BY <2>1, <4>1, <4>2
    <3>5. "replica" # NoError /\ NoError \notin Connections
      BY LoopsAssumption, Names
    <3>. QED BY <1>2, <3>3, <3>4, <3>5 DEF Skipped
  <2>2. CASE what \notin {"db", "redis"}
    BY <2>2 DEF CloserOf
  <2>. QED BY <2>1, <2>2
<1>. HIDE DEF what, order
<1>7. stop \in {NoError} \cup Connections \cup Callbacks
  BY <1>2, <1>3 DEF MayStop
<1>8. LifespanTypeOK'
  BY <1>1, <1>2, <1>3, <1>4, <1>7 DEF LifespanTypeOK
<1>9. ActivityInv'
  BY <1>1 DEF ActivityInv
<1>10. CleanupInv'
  <2>1. \A c \in Connections : Skipped(c) => Skipped(c)'
    BY <1>1, <1>2 DEF Skipped
  <2>. QED BY <1>1, <1>3, <1>5, <1>6, <2>1 DEF CleanupInv
<1>11. ErrorsInv'
  BY <1>1, <1>2, <1>3, Names DEF ErrorsInv, StartingUp
<1>. QED BY <1>4, <1>8, <1>9, <1>10, <1>11 DEF LifespanInv

-----------------------------------------------------------------------------
(* The steps of a worker *)

LEMMA StartTaskHolds ==
    ASSUME LifespanInv, StartTask
    PROVE  LifespanInv'
<1>1. /\ LifespanTypeOK /\ ActivityInv /\ process = "worker" /\ activity = "idle" /\ loop < MaxLoops
      /\ loop' = loop + 1 /\ loop \in Nat /\ working = FALSE
      /\ UNCHANGED <<process, todo, working, cancelled, raised>>
  BY LoopsAssumption DEF LifespanInv, LifespanTypeOK, ActivityInv, StartTask
<1>2. PICK made \in {d \cup r : d \in init_async_db(Forgotten), r \in init_async_redis(Forgotten)} :
        /\ Connect(made, Forgotten, loop')
        /\ \/ activity' = "idle" /\ failed' = {"startup"}
           \/ AllHeld(Forgotten, made) /\ activity' = "serving" /\ failed' = {}
  BY DEF StartTask
<1>3. made \in SUBSET Connections
  BY Names DEF init_async_db, init_async_redis
<1>4. Forgotten \in [Connections -> 0 .. loop'] /\ \A c \in Connections : Forgotten[c] = 0
  BY <1>1 DEF Forgotten
<1>5. /\ GlobalsInv' /\ global' \in [Connections -> 0 .. loop']
      /\ opened' \subseteq Connections \X (1 .. loop')
      /\ \A c \in Connections : global'[c] = IF c \in made THEN loop' ELSE Forgotten[c]
  <2>1. /\ global' = [c \in Connections |-> IF c \in made THEN loop' ELSE Forgotten[c]]
        /\ opened' = opened \cup made \X {loop'}
    BY <1>2 DEF Connect
  <2>2. loop' \in 1 .. MaxLoops /\ loop \in 0 .. loop' /\ loop' # 0
    BY <1>1, LoopsAssumption
  <2>3. \A c \in Connections : <<c, loop'>> \in opened <=> Forgotten[c] = loop'
    BY <1>1, <1>4, <2>2 DEF LifespanTypeOK
  <2>. HIDE DEF Forgotten
  <2>. QED BY <1>1, <1>3, <1>4, <2>1, <2>2, <2>3, ConnectHolds
<1>6. LifespanTypeOK'
  BY <1>1, <1>2, <1>5, LoopsAssumption DEF LifespanTypeOK, Activities
<1>7. ActivityInv'
  BY <1>1, <1>2, <1>4, <1>5 DEF ActivityInv, AllHeld
<1>8. CleanupInv' /\ ErrorsInv'
  BY <1>1, <1>2 DEF CleanupInv, ErrorsInv, Skipped
<1>. QED BY <1>5, <1>6, <1>7, <1>8 DEF LifespanInv

LEMMA EndTaskHolds ==
    ASSUME LifespanInv, EndTask
    PROVE  LifespanInv'
<1>. DEFINE order == <<"replica", "primary", "redis">>
<1>1. /\ LifespanTypeOK /\ GlobalsInv /\ ActivityInv /\ process = "worker" /\ activity' = "idle" /\ loop # 0
      /\ working = FALSE /\ UNCHANGED <<process, loop, todo, working, cancelled, raised>>
  BY DEF LifespanInv, LifespanTypeOK, ActivityInv, EndTask
<1>2. PICK stop \in MayStop(order) : Close(order, stop) /\ failed' = {stop} \ {NoError}
  BY DEF EndTask
<1>3. /\ GlobalsInv' /\ global' \in [Connections -> 0 .. loop]
      /\ opened' \subseteq Connections \X (1 .. loop)
  BY <1>1, <1>2, CloseKeepsGlobals
<1>4. stop \in {NoError} \cup Connections
  BY <1>2 DEF MayStop
<1>5. \A c \in Connections : \E i \in DOMAIN order : order[i] = c
  <2>1. DOMAIN order = {1, 2, 3} /\ order[1] = "replica" /\ order[2] = "primary" /\ order[3] = "redis"
    OBVIOUS
  <2>. QED BY <2>1, Names
<1>6. \A c \in Connections :
         global'[c] # 0 =>
           \/ c = stop
           \/ c = "primary" /\ stop = "replica"
           \/ c = "redis" /\ stop \in {"replica", "primary"}
  <2>1. order \in {<<"replica", "primary">>, <<"redis">>, <<"replica", "primary", "redis">>}
    OBVIOUS
  <2>. HIDE DEF order
  <2>. QED BY <1>1, <1>2, <1>5, <2>1, CloseInOrder
<1>. HIDE DEF order
<1>7. LifespanTypeOK'
  BY <1>1, <1>2, <1>3, <1>4 DEF LifespanTypeOK, Activities
<1>8. ActivityInv'
  BY <1>1 DEF ActivityInv
<1>9. CleanupInv'
  <2>1. ASSUME NEW c \in Connections, <<c, loop'>> \in opened'
        PROVE  Skipped(c)'
    <3>1. global'[c] # 0
      BY <1>3, <2>1 DEF GlobalsInv
    <3>2. NoError \notin Connections /\ NoError \notin {"replica", "primary"}
      BY Names, LoopsAssumption
    <3>. QED BY <1>1, <1>2, <1>6, <3>1, <3>2 DEF Skipped
  <2>. QED BY <1>1, <2>1 DEF CleanupInv
<1>10. ErrorsInv'
  BY <1>1 DEF ErrorsInv
<1>. QED BY <1>3, <1>7, <1>8, <1>9, <1>10 DEF LifespanInv

-----------------------------------------------------------------------------
(* The theorems about Lifespan *)

LEMMA LifespanInitially == LifespanInit => LifespanInv
<1> SUFFICES ASSUME LifespanInit PROVE LifespanInv
  OBVIOUS
<1>1. LifespanTypeOK
  <2>1. <<>> \in Seq(Callbacks)
    OBVIOUS
  <2>2. loop \in 0 .. MaxLoops /\ 0 \in 0 .. loop
    BY LoopsAssumption DEF LifespanInit
  <2>3. global \in [Connections -> 0 .. loop]
    BY <2>2 DEF LifespanInit
  <2>. QED BY <2>1, <2>2, <2>3 DEF LifespanInit, LifespanTypeOK, Activities
<1>. QED BY <1>1 DEF LifespanInit, LifespanInv, GlobalsInv, ActivityInv, CleanupInv, ErrorsInv

LEMMA LifespanStep == LifespanInv /\ [LifespanNext]_lifespanVars => LifespanInv'
<1> SUFFICES ASSUME LifespanInv, [LifespanNext]_lifespanVars PROVE LifespanInv'
  OBVIOUS
<1>1. CASE UNCHANGED lifespanVars
  BY <1>1 DEF lifespanVars, LifespanInv, LifespanTypeOK, GlobalsInv, ActivityInv, CleanupInv, ErrorsInv,
              Skipped, Registered
<1>. QED BY <1>1, StartServerHolds, InitTracingHolds, InitDatabaseHolds, InitRedisHolds, InitHandlersHolds,
            ServingHolds, CloseResourceHolds, StartTaskHolds, EndTaskHolds DEF LifespanNext

LEMMA LifespanInvariant == LifespanSpec => []LifespanInv
BY LifespanInitially, LifespanStep, PTL DEF LifespanSpec

\* Every variable has its type.
THEOREM LifespanTypeCorrect == LifespanSpec => []LifespanTypeOK
<1>1. LifespanInv => LifespanTypeOK
  BY DEF LifespanInv
<1>. QED BY <1>1, LifespanInvariant, PTL

\* What runs finds its connections open in its own event loop, what has finished has closed
\* all that could be closed, and no exception is lost (lifespan of internal/app.py, run_in_async
\* of internal/infra/celery/execution.py), with any number of event loops.
THEOREM LifecycleCorrect == LifespanSpec => []LifecycleIsClean
<1>1. LifespanInv => LifecycleIsClean
  <2> SUFFICES ASSUME LifespanInv PROVE LifecycleIsClean
    OBVIOUS
  <2>1. UsedAreOwn
    BY DEF LifespanInv, ActivityInv, GlobalsInv, UsedAreOwn
  <2>2. FinishedAreClosed
    <3>1. ASSUME process = "server", activity = "ended"
          PROVE  \A c \in Connections : <<c, loop>> \in opened => Skipped(c)
      <4>1. \A x : ~Registered(x)
        BY <3>1 DEF LifespanInv, ActivityInv, Registered
      <4>. QED BY <3>1, <4>1 DEF LifespanInv, CleanupInv, GlobalsInv
    <3>. QED BY <3>1 DEF LifespanInv, CleanupInv, FinishedAreClosed
  <2>3. NothingIsSwallowed
    BY DEF LifespanInv, LifespanTypeOK, ActivityInv, ErrorsInv, NothingIsSwallowed
  <2>. QED BY <2>1, <2>2, <2>3 DEF LifecycleIsClean
<1>. QED BY <1>1, LifespanInvariant, PTL

-----------------------------------------------------------------------------
(* The inductive invariant of VectorStore, in parts *)

\* What rows are written to, and what a search behind an ensure finds.
Usable(description) ==
    /\ \A name \in DOMAIN RowColumns : HasField(description, name, RowColumns[name])
    /\ "embedding" \in DOMAIN description.fields
    /\ FullText => "text_sparse" \in DOMAIN description.fields
    /\ description.dim \in {0, Dimension}

Found == collection # NoCollection

\* What a backend remembers of the collection is so.
BackendInv(b) ==
    /\ loaded[b] => Found /\ serving
    /\ ensured[b] => Found /\ Usable(collection)

\* What an operation has established is so.
OperationInv(o) ==
    /\ phase[o] \in {"describe", "load", "reload", "query", "write"} => Found
    /\ phase[o] = "query" => serving
    /\ phase[o] \in {"load", "write"} => Usable(collection)
    /\ phase[o] \in {"open", "reload", "find", "query", "write", "erase"} => opening[o]
    /\ opening[o] /\ o \notin Direct => Found /\ Usable(collection)

StoreInv ==
    /\ StoreTypeOK
    /\ \A b \in Backend : BackendInv(b)
    /\ \A o \in Operation : OperationInv(o)

-----------------------------------------------------------------------------
(* The schema, and the descriptions that fit it *)

LEMMA BothNames ==
    ASSUME NEW f, NEW g
    PROVE  /\ DOMAIN Both(f, g) = DOMAIN f \cup DOMAIN g
           /\ \A name \in DOMAIN f : Both(f, g)[name] = f[name]
           /\ \A name \in (DOMAIN g) \ (DOMAIN f) : Both(f, g)[name] = g[name]
BY DEF Both

LEMMA Columns ==
    /\ DOMAIN RowColumns = DOMAIN Core \cup DOMAIN Scalars \cup ({PayloadField} \ {NoField})
    /\ \A name \in DOMAIN Core : RowColumns[name] = Core[name]
    /\ \A name \in (DOMAIN Scalars) \ (DOMAIN Core) : RowColumns[name] = Scalars[name]
    /\ \A name \in ({PayloadField} \ {NoField}) \ (DOMAIN Core \cup DOMAIN Scalars) :
           RowColumns[name] = "json"
<1> DEFINE payload == [name \in {PayloadField} \ {NoField} |-> "json"]
           rest    == Both(Scalars, payload)
<1>1. DOMAIN payload = {PayloadField} \ {NoField} /\ \A name \in DOMAIN payload : payload[name] = "json"
  OBVIOUS
<1>2. RowColumns = Both(Core, rest)
  BY Zenon DEF RowColumns
<1>. HIDE DEF payload
<1>3. /\ DOMAIN rest = DOMAIN Scalars \cup DOMAIN payload
      /\ \A name \in DOMAIN Scalars : rest[name] = Scalars[name]
      /\ \A name \in (DOMAIN payload) \ (DOMAIN Scalars) : rest[name] = payload[name]
  BY BothNames
<1>. HIDE DEF rest
<1>4. /\ DOMAIN RowColumns = DOMAIN Core \cup DOMAIN rest
      /\ \A name \in DOMAIN Core : RowColumns[name] = Core[name]
      /\ \A name \in (DOMAIN rest) \ (DOMAIN Core) : RowColumns[name] = rest[name]
  <2>1. /\ DOMAIN Both(Core, rest) = DOMAIN Core \cup DOMAIN rest
        /\ \A name \in DOMAIN Core : Both(Core, rest)[name] = Core[name]
        /\ \A name \in (DOMAIN rest) \ (DOMAIN Core) : Both(Core, rest)[name] = rest[name]
    BY BothNames
  <2>. QED BY <1>2, <2>1, Zenon
<1>. QED BY <1>1, <1>3, <1>4

\* What ensure_collection accepts can be used.
LEMMA FitsIsUsable == ASSUME NEW d, Fits(d) PROVE Usable(d)
<1>1. \A name \in DOMAIN Core : HasField(d, name, Core[name])
  BY DEF Fits
<1>2. \A name \in DOMAIN Scalars : HasField(d, name, Scalars[name])
  BY DEF Fits
<1>3. PayloadField # NoField => HasField(d, PayloadField, "json")
  BY DEF Fits
<1>4. \A name \in DOMAIN RowColumns : HasField(d, name, RowColumns[name])
  BY <1>1, <1>2, <1>3, Columns
<1>5. "embedding" \in DOMAIN d.fields
  BY <1>1 DEF Core, HasField
<1>6. FullText => "text_sparse" \in DOMAIN d.fields
  BY DEF Fits, HasField
<1>7. d.dim \in {0, Dimension}
  BY DEF Fits
<1>. QED BY <1>4, <1>5, <1>6, <1>7 DEF Usable

\* And so can what it creates.
LEMMA SchemaIsUsable == Usable(build_schema) /\ build_schema # NoCollection
<1> DEFINE sparse == [name \in IF FullText THEN {"text_sparse"} ELSE {} |-> "sparse"]
           fields == Both(RowColumns, sparse)
<1>1. FullText => "text_sparse" \in DOMAIN sparse
  OBVIOUS
<1>2. build_schema.fields = fields /\ build_schema.dim = Dimension
  BY DEF build_schema
<1>. HIDE DEF sparse
<1>3. /\ DOMAIN fields = DOMAIN RowColumns \cup DOMAIN sparse
      /\ \A name \in DOMAIN RowColumns : fields[name] = RowColumns[name]
  BY BothNames
<1>. HIDE DEF fields
<1>4. "embedding" \in DOMAIN RowColumns
  BY Columns DEF Core
<1>5. build_schema # NoCollection
  BY SchemaAssumption
<1>. QED BY <1>1, <1>2, <1>3, <1>4, <1>5 DEF Usable, HasField

\* A usable collection has what any search plan searches.
LEMMA SearchedFields ==
    ASSUME NEW o \in Operation, NEW d, Usable(d)
    PROVE  AnnsFields(o) \subseteq DOMAIN d.fields
<1>1. ModeOf[o] \in {"auto", "dense", "full_text", "hybrid"} /\ FullText \in BOOLEAN
  BY StoreAssumption
<1>2. Mode(o) \in {"dense", "full_text", "hybrid", "refused"}
  BY <1>1 DEF Mode
<1>3. Mode(o) \in {"full_text", "hybrid"} => FullText
  BY <1>1 DEF Mode
<1>. QED BY <1>2, <1>3 DEF AnnsFields, Usable

-----------------------------------------------------------------------------
(* The steps of VectorStore *)

\* What the server may do while an operation acts: it creates, or it loads.
Moves ==
    /\ collection' = collection \/ (~Found /\ collection' = build_schema)
    /\ serving' = serving \/ serving' = TRUE

LEMMA StoreNames ==
    ASSUME NEW o \in Operation
    PROVE  Mine(o) \in Backend /\ Start(o) \in {"ensure", "find", "open"} /\ o # Nobody
BY StoreAssumption DEF Mine, Start

\* Nothing that was established is lost.
LEMMA MovesKeep ==
    ASSUME StoreTypeOK, Moves
    PROVE  /\ collection' \in Descriptions \cup {NoCollection, build_schema} /\ serving' \in BOOLEAN
           /\ Found => Found' /\ collection' = collection
           /\ Found => (Usable(collection) => Usable(collection'))
           /\ serving => serving'
           /\ collection' # collection => Found' /\ Usable(collection')
<1>1. /\ collection \in Descriptions \cup {NoCollection, build_schema} /\ serving \in BOOLEAN
      /\ collection' = collection \/ (collection = NoCollection /\ collection' = build_schema)
      /\ serving' = serving \/ serving' = TRUE
  BY DEF StoreTypeOK, Moves, Found
<1>2. Usable(build_schema) /\ build_schema # NoCollection
  BY SchemaIsUsable
<1>3. CASE collection' = collection
  BY <1>1, <1>3 DEF Found
<1>4. CASE collection = NoCollection /\ collection' = build_schema
  <2>1. Usable(collection') /\ collection' # NoCollection
    BY <1>2, <1>4, Zenon
  <2>. QED BY <1>1, <1>4, <2>1 DEF Found
<1>. QED BY <1>1, <1>3, <1>4

\* The step of one operation: the others, and the other backends, are where they were.
Acts(o) ==
    /\ Moves
    /\ loaded' \in [Backend -> BOOLEAN] /\ ensured' \in [Backend -> BOOLEAN]
    /\ holder' \in [Backend -> Operation \cup {Nobody}]
    /\ phase' \in [Operation -> {"ensure", "done", "failed"} \cup Calling]
    /\ retried' \in [Operation -> SUBSET {"ensure", "operation"}]
    /\ opening' \in [Operation -> BOOLEAN]
    /\ \A b \in Backend \ {Mine(o)} : loaded'[b] = loaded[b] /\ ensured'[b] = ensured[b]
    /\ \A p \in Operation \ {o} : phase'[p] = phase[p] /\ opening'[p] = opening[p]

\* So such a step keeps the invariant if it does for the operation and its backend.
LEMMA ActsKeepsOthers ==
    ASSUME StoreInv, NEW o \in Operation, Acts(o), BackendInv(Mine(o))', OperationInv(o)'
    PROVE  StoreInv'
<1>1. StoreTypeOK /\ Moves
  BY DEF StoreInv, Acts
<1>2. StoreTypeOK'
  BY <1>1, MovesKeep DEF StoreTypeOK, Acts, build_schema, Calling, InEnsure
<1>3. ASSUME NEW b \in Backend PROVE BackendInv(b)'
  <2>1. CASE b = Mine(o)
    BY <2>1 DEF BackendInv, Found
  <2>2. CASE b # Mine(o)
    BY <1>1, <2>2, MovesKeep DEF StoreInv, Acts, BackendInv, Found
  <2>. QED BY <2>1, <2>2
<1>4. ASSUME NEW p \in Operation PROVE OperationInv(p)'
  <2>1. CASE p = o
    BY <2>1
  <2>2. CASE p # o
    BY <1>1, <2>2, MovesKeep DEF StoreInv, Acts, OperationInv, Found
  <2>. QED BY <2>1, <2>2
<1>. QED BY <1>2, <1>3, <1>4 DEF StoreInv

LEMMA Own ==
    ASSUME StoreInv, NEW o \in Operation
    PROVE  /\ StoreTypeOK /\ Mine(o) \in Backend /\ Start(o) \in {"ensure", "find", "open"}
           /\ BackendInv(Mine(o)) /\ OperationInv(o)
BY StoreNames DEF StoreInv

LEMMA EnsureHolds == ASSUME StoreInv, NEW o \in Operation, ensure_collection(o) PROVE StoreInv'
<1>1. /\ StoreTypeOK /\ Mine(o) \in Backend /\ Start(o) \in {"ensure", "find", "open"}
      /\ BackendInv(Mine(o)) /\ OperationInv(o)
  BY Own
<1>2. Acts(o)
  <2>1. /\ Moves /\ loaded' = loaded /\ ensured' = ensured
        /\ holder' = holder \/ holder' = [holder EXCEPT ![Mine(o)] = o]
    BY DEF ensure_collection, Moves
  <2>2. \E place \in {"describe", "has", "write"} \cup {Start(o)} : phase' = [phase EXCEPT ![o] = place]
    BY DEF ensure_collection, Onward, GoTo
  <2>3. /\ opening' = opening \/ opening' = [opening EXCEPT ![o] = TRUE]
        /\ retried' = retried \/ retried' = [retried EXCEPT ![o] = IF opening[o] THEN @ ELSE {}]
    BY DEF ensure_collection, Onward
  <2>4. /\ phase' \in [Operation -> {"ensure", "done", "failed"} \cup Calling]
        /\ \A p \in Operation \ {o} : phase'[p] = phase[p]
    BY <1>1, <2>2 DEF StoreTypeOK, Calling, InEnsure
  <2>5. /\ opening' \in [Operation -> BOOLEAN]
        /\ \A p \in Operation \ {o} : opening'[p] = opening[p]
    BY <1>1, <2>3 DEF StoreTypeOK
  <2>6. retried' \in [Operation -> SUBSET {"ensure", "operation"}]
    BY <1>1, <2>3 DEF StoreTypeOK
  <2>7. holder' \in [Backend -> Operation \cup {Nobody}]
    BY <1>1, <2>1 DEF StoreTypeOK
  <2>. QED BY <1>1, <2>1, <2>4, <2>5, <2>6, <2>7 DEF Acts, StoreTypeOK
<1>3. BackendInv(Mine(o))'
  BY <1>1 DEF ensure_collection, BackendInv, Found
<1>4. OperationInv(o)'
  BY <1>1 DEF ensure_collection, Onward, GoTo, InCall, BackendInv, OperationInv, Found, StoreTypeOK
<1>. QED BY <1>2, <1>3, <1>4, ActsKeepsOthers

LEMMA HasHolds == ASSUME StoreInv, NEW o \in Operation, has_collection(o) PROVE StoreInv'
<1>1. /\ StoreTypeOK /\ Mine(o) \in Backend /\ BackendInv(Mine(o)) /\ OperationInv(o)
  BY Own
<1>2. Acts(o)
  BY <1>1 DEF has_collection, GoTo, InCall, Acts, Moves, StoreTypeOK, Calling, InEnsure
<1>3. BackendInv(Mine(o))' /\ OperationInv(o)'
  BY <1>1 DEF has_collection, GoTo, InCall, BackendInv, OperationInv, Found, StoreTypeOK
<1>. QED BY <1>2, <1>3, ActsKeepsOthers

LEMMA DescribeHolds == ASSUME StoreInv, NEW o \in Operation, describe_collection(o) PROVE StoreInv'
<1>1. /\ StoreTypeOK /\ Mine(o) \in Backend /\ BackendInv(Mine(o)) /\ OperationInv(o)
  BY Own
<1>2. Acts(o)
  BY <1>1 DEF describe_collection, Fail, Unlock, GoTo, InCall, Acts, Moves, StoreTypeOK, Calling, InEnsure
<1>3. BackendInv(Mine(o))'
  BY <1>1 DEF describe_collection, BackendInv, Found
<1>4. Fits(collection) => Usable(collection)
  BY FitsIsUsable
<1>5. OperationInv(o)'
  BY <1>1, <1>4 DEF describe_collection, Fail, GoTo, InCall, OperationInv, Found, StoreTypeOK
<1>. QED BY <1>2, <1>3, <1>5, ActsKeepsOthers

LEMMA CreateHolds == ASSUME StoreInv, NEW o \in Operation, create_collection(o) PROVE StoreInv'
<1>1. /\ StoreTypeOK /\ Mine(o) \in Backend /\ BackendInv(Mine(o)) /\ OperationInv(o)
  BY Own
<1>2. Acts(o)
  <2>1. Moves
    BY DEF create_collection, Moves, Found
  <2>. HIDE DEF build_schema
  <2>. QED BY <1>1, <2>1 DEF create_collection, Fail, Unlock, GoTo, InCall, Acts, StoreTypeOK, Calling, InEnsure
<1>3. Usable(build_schema) /\ build_schema # NoCollection
  BY SchemaIsUsable
<1>4. BackendInv(Mine(o))'
  BY <1>1, <1>2, MovesKeep DEF create_collection, Acts, BackendInv, Found
<1>5. OperationInv(o)'
  <2>1. /\ (phase'[o] = "load" /\ collection' = build_schema) \/ phase'[o] = "failed"
        /\ opening' = opening
    BY <1>1 DEF create_collection, Fail, GoTo, StoreTypeOK
  <2>. QED BY <1>1, <1>2, <1>3, <2>1, MovesKeep DEF Acts, OperationInv, Found
<1>. QED BY <1>2, <1>4, <1>5, ActsKeepsOthers

LEMMA LoadHolds == ASSUME StoreInv, NEW o \in Operation, load_collection(o) PROVE StoreInv'
<1>1. /\ StoreTypeOK /\ Mine(o) \in Backend /\ Start(o) \in {"ensure", "find", "open"}
      /\ BackendInv(Mine(o)) /\ OperationInv(o) /\ phase[o] = "load"
  BY Own DEF load_collection, InCall
<1>2. Acts(o)
  BY <1>1 DEF load_collection, Ensured, Onward, Unlock, GoTo, InCall, Acts, Moves, StoreTypeOK, Calling, InEnsure
<1>3. Found /\ Usable(collection) /\ serving' = TRUE
  BY <1>1 DEF load_collection, OperationInv, BackendInv, StoreTypeOK
<1>4. BackendInv(Mine(o))'
  BY <1>1, <1>3 DEF load_collection, BackendInv, Found
<1>5. OperationInv(o)'
  BY <1>1, <1>3 DEF load_collection, Ensured, Onward, GoTo, OperationInv, Found, StoreTypeOK
<1>. QED BY <1>2, <1>4, <1>5, ActsKeepsOthers

LEMMA OpenHolds == ASSUME StoreInv, NEW o \in Operation, open_collection(o) PROVE StoreInv'
<1>1. /\ StoreTypeOK /\ Mine(o) \in Backend /\ BackendInv(Mine(o)) /\ OperationInv(o)
  BY Own
<1>2. Acts(o)
  BY <1>1 DEF open_collection, GoTo, InCall, Acts, Moves, StoreTypeOK, Calling, InEnsure
<1>3. BackendInv(Mine(o))'
  BY <1>1 DEF open_collection, BackendInv, Found
<1>4. OperationInv(o)'
  BY <1>1 DEF open_collection, GoTo, InCall, BackendInv, OperationInv, Found, StoreTypeOK
<1>. QED BY <1>2, <1>3, <1>4, ActsKeepsOthers

LEMMA ReloadHolds == ASSUME StoreInv, NEW o \in Operation, reload_collection(o) PROVE StoreInv'
<1>1. /\ StoreTypeOK /\ Mine(o) \in Backend /\ BackendInv(Mine(o)) /\ OperationInv(o)
      /\ phase[o] = "reload"
  BY Own DEF reload_collection, InCall
<1>2. Acts(o)
  BY <1>1 DEF reload_collection, Unlock, GoTo, InCall, Acts, Moves, StoreTypeOK, Calling, InEnsure
<1>3. Found /\ serving' = TRUE
  BY <1>1 DEF reload_collection, OperationInv, BackendInv, StoreTypeOK
<1>4. BackendInv(Mine(o))'
  BY <1>1, <1>3 DEF reload_collection, BackendInv, Found
<1>5. OperationInv(o)'
  BY <1>1, <1>3 DEF reload_collection, GoTo, OperationInv, Found, StoreTypeOK
<1>. QED BY <1>2, <1>4, <1>5, ActsKeepsOthers

LEMMA FindHolds == ASSUME StoreInv, NEW o \in Operation, find_collection(o) PROVE StoreInv'
<1>1. /\ StoreTypeOK /\ Mine(o) \in Backend /\ BackendInv(Mine(o)) /\ OperationInv(o)
  BY Own
<1>2. Acts(o)
  BY <1>1 DEF find_collection, GoTo, InCall, Acts, Moves, StoreTypeOK, Calling, InEnsure
<1>3. BackendInv(Mine(o))' /\ OperationInv(o)'
  BY <1>1 DEF find_collection, GoTo, InCall, BackendInv, OperationInv, Found, StoreTypeOK
<1>. QED BY <1>2, <1>3, ActsKeepsOthers

LEMMA RowsHold ==
    ASSUME StoreInv, NEW o \in Operation, query_rows(o) \/ upsert_rows(o) \/ delete_rows(o) PROVE StoreInv'
<1>1. /\ StoreTypeOK /\ Mine(o) \in Backend /\ BackendInv(Mine(o)) /\ OperationInv(o)
  BY Own
<1>2. /\ phase' = [phase EXCEPT ![o] = "done"] \/ phase' = [phase EXCEPT ![o] = "failed"]
      /\ UNCHANGED <<collection, serving, loaded, ensured, holder, retried, opening>>
  BY DEF query_rows, upsert_rows, delete_rows, GoTo
<1>3. Acts(o)
  BY <1>1, <1>2 DEF Acts, Moves, StoreTypeOK, Calling, InEnsure
<1>4. BackendInv(Mine(o))' /\ OperationInv(o)'
  BY <1>1, <1>2 DEF BackendInv, OperationInv, Found, StoreTypeOK
<1>. QED BY <1>3, <1>4, ActsKeepsOthers

LEMMA LostMoves == ASSUME NEW o \in Operation, LostReply(o) PROVE Moves
BY DEF LostReply, Moves, Found

\* A reset forgets what the backend knew; an operation that starts again is past its ensure.
LEMMA RecoveryHolds == ASSUME StoreInv, NEW o \in Operation, run_with_recovery(o) PROVE StoreInv'
<1>1. /\ StoreTypeOK /\ Mine(o) \in Backend /\ Start(o) \in {"ensure", "find", "open"}
      /\ BackendInv(Mine(o)) /\ OperationInv(o)
  BY Own
<1>2. Moves /\ reset_client_state(o)
  BY LostMoves DEF run_with_recovery
<1>3. /\ phase' = [phase EXCEPT ![o] = "ensure"] \/ (phase' = [phase EXCEPT ![o] = Start(o)] /\ opening[o])
      /\ loaded' = [loaded EXCEPT ![Mine(o)] = FALSE] /\ ensured' = [ensured EXCEPT ![Mine(o)] = FALSE]
      /\ holder' = [holder EXCEPT ![Mine(o)] = IF @ = o THEN Nobody ELSE @]
      /\ opening' = opening
  BY <1>2 DEF reset_client_state, GoTo, Unlock
<1>4. retried' \in [Operation -> SUBSET {"ensure", "operation"}]
  BY <1>1, <1>2 DEF reset_client_state, StoreTypeOK
<1>5. Acts(o)
  BY <1>1, <1>2, <1>3, <1>4 DEF Acts, StoreTypeOK, Calling, InEnsure
<1>6. BackendInv(Mine(o))'
  BY <1>1, <1>3 DEF BackendInv, StoreTypeOK
<1>7. OperationInv(o)'
  BY <1>1, <1>2, <1>3, MovesKeep DEF OperationInv, Found, StoreTypeOK
<1>. QED BY <1>5, <1>6, <1>7, ActsKeepsOthers

LEMMA GiveUpHolds == ASSUME StoreInv, NEW o \in Operation, GiveUp(o) PROVE StoreInv'
<1>1. /\ StoreTypeOK /\ Mine(o) \in Backend /\ BackendInv(Mine(o)) /\ OperationInv(o)
  BY Own
<1>2. /\ Moves /\ phase' = [phase EXCEPT ![o] = "failed"]
      /\ holder' = [holder EXCEPT ![Mine(o)] = IF @ = o THEN Nobody ELSE @]
      /\ UNCHANGED <<loaded, ensured, retried, opening>>
  BY LostMoves DEF GiveUp, Fail, GoTo, Unlock
<1>3. Acts(o)
  BY <1>1, <1>2 DEF Acts, StoreTypeOK, Calling, InEnsure
<1>4. BackendInv(Mine(o))' /\ OperationInv(o)'
  BY <1>1, <1>2, MovesKeep DEF BackendInv, OperationInv, Found, StoreTypeOK
<1>. QED BY <1>3, <1>4, ActsKeepsOthers

-----------------------------------------------------------------------------
(* The theorems about VectorStore *)

LEMMA StoreInitially == StoreInit => StoreInv
<1> SUFFICES ASSUME StoreInit PROVE StoreInv
  OBVIOUS
<1>1. \A o \in Operation : Start(o) \in {"ensure", "find", "open"}
  BY StoreNames
<1>2. StoreTypeOK
  <2>1. phase \in [Operation -> {"ensure", "done", "failed"} \cup Calling]
    BY <1>1 DEF StoreInit, Calling, InEnsure
  <2>2. opening \in [Operation -> BOOLEAN]
    <3>1. \A o \in Operation : (o \in Direct) \in BOOLEAN
      OBVIOUS
    <3>2. [o \in Operation |-> o \in Direct] \in [Operation -> BOOLEAN]
      BY <3>1, Zenon
    <3>. QED BY <3>2, Zenon DEF StoreInit
  <2>3. serving \in BOOLEAN
    BY DEF StoreInit
  <2>. QED BY <2>1, <2>2, <2>3 DEF StoreInit, StoreTypeOK
<1>3. \A b \in Backend : BackendInv(b)
  BY DEF StoreInit, BackendInv
<1>4. \A o \in Operation : OperationInv(o)
  BY <1>1 DEF StoreInit, OperationInv
<1>. QED BY <1>2, <1>3, <1>4 DEF StoreInv

LEMMA StoreStep == StoreInv /\ [StoreNext]_storeVars => StoreInv'
<1> SUFFICES ASSUME StoreInv, [StoreNext]_storeVars PROVE StoreInv'
  OBVIOUS
<1>1. CASE UNCHANGED storeVars
  BY <1>1 DEF storeVars, StoreInv, StoreTypeOK, BackendInv, OperationInv, Found
<1>. QED BY <1>1, EnsureHolds, HasHolds, DescribeHolds, CreateHolds, LoadHolds, OpenHolds, ReloadHolds,
            FindHolds, RowsHold, RecoveryHolds, GiveUpHolds DEF StoreNext

LEMMA StoreInvariant == StoreSpec => []StoreInv
BY StoreInitially, StoreStep, PTL DEF StoreSpec

\* Every variable has its type.
THEOREM StoreTypeCorrect == StoreSpec => []StoreTypeOK
<1>1. StoreInv => StoreTypeOK
  BY DEF StoreInv
<1>. QED BY <1>1, StoreInvariant, PTL

\* Rows are written to a collection that has their columns, and a search finds its collection
\* loaded and with the fields it searches (run_with_recovery and ensure_collection of
\* pkg/vectors/backends/milvus/backend.py), for any number of backends and operations and
\* whatever collections existed before.
THEOREM StoreCorrect == StoreSpec => []CallsFindTheirCollection
<1>1. StoreInv => CallsFindTheirCollection
  <2> SUFFICES ASSUME StoreInv, NEW o \in Operation
               PROVE  /\ phase[o] = "write" => Found /\ Usable(collection)
                      /\ phase[o] = "query" =>
                           /\ Found /\ serving
                           /\ o \notin Direct => AnnsFields(o) \subseteq DOMAIN collection.fields
    BY DEF CallsFindTheirCollection, InCall, Found, Usable
  <2>1. OperationInv(o)
    BY DEF StoreInv
  <2>. QED BY <2>1, SearchedFields DEF OperationInv, Found
<1>. QED BY <1>1, StoreInvariant, PTL

-----------------------------------------------------------------------------
(* The inductive invariant of Checkpoint, in parts *)

CallPhases == {"before_tool", "tool_in_flight"}

Checkpoints ==
    [schema_version : {1}, revision : Nat, run_id : {"run"},
     phase : {"routing", "before_action", "final_ready"} \cup CallPhases,
     next_step_index : Nat, max_steps : {MaxSteps}, user_input : {"question"},
     session_context : {ContextOf}, route : {Missing, "order"}, agent_name : {Missing, "order_support"},
     definition_version : {"v1"}, model_config : {"model"}, steps : Seq(Forms),
     pending_action : {Missing} \cup Calls, final_answer : {Missing, "answer"}]

\* A pending call has the id of the next step.
CallIsNext(c) ==
    c.phase \in CallPhases => \E t \in Tools : c.pending_action = Call(t, Len(c.steps))

WrittenInv == written \in Checkpoints /\ Coherent(written) /\ CallIsNext(written)

\* What another version makes of a value, of a record and of a payload.
Near(v, w, f) ==
    \/ v \in {w, Missing, Malformed}
    \/ f \in Words \cup {"status", "type", "tool"} /\ v = Unknown

NearRecord(r, w) == DOMAIN r = DOMAIN w /\ \A f \in DOMAIN w : Near(r[f], w[f], f)

NearSteps(s, w) ==
    \/ s \in {Missing, Malformed}
    \/ DOMAIN s = DOMAIN w /\ \A i \in DOMAIN w : NearRecord(s[i], w[i])

NearAction(a, w) ==
    \/ a \in {Missing, Malformed}
    \/ w # Missing /\ NearRecord(a, w)

NearPayload(p, w) ==
    /\ DOMAIN p = DOMAIN w
    /\ \A f \in (DOMAIN w) \ {"steps", "pending_action"} : Near(p[f], w[f], f)
    /\ NearSteps(p.steps, w.steps)
    /\ NearAction(p.pending_action, w.pending_action)

RowInv ==
    /\ DOMAIN row = {"payload", "revision", "run_id"}
    /\ row.revision = written.revision /\ row.run_id = written.run_id
    /\ NearPayload(row.payload, written)
    /\ damage \in Nat /\ (damage = 0 => row.payload = written)

\* What is read of an action, a step or a checkpoint: it is refused, or it tells the same,
\* but that a tool and the definition may be unknown.
KeptAction(a, w) ==
    /\ a.type = w.type /\ a.type \in {"tool_call", "final"}
    /\ a.type = "tool_call" => a.tool \in {w.tool, Unknown} /\ a.tool_call_id \in {w.tool_call_id, Missing}
    /\ a.type = "final" => a.answer = w.answer

KeptFields == {"run_id", "phase", "revision", "next_step_index", "max_steps", "user_input", "final_answer"}

Kept(s, w) ==
    /\ \A f \in KeptFields : s[f] = w[f]
    /\ s.definition_version \in {w.definition_version, Unknown}
    /\ Len(s.steps) = Len(w.steps)
    /\ \A i \in DOMAIN s.steps : KeptAction(s.steps[i], w.steps[i])
    /\ s.phase \in CallPhases =>
           KeptAction(s.pending_action, w.pending_action) /\ s.pending_action.type = "tool_call"

ReadInv ==
    /\ reading \in {"no", "refused", "loaded", "resumed", "unsafe"}
    /\ damage = 0 /\ reading # "no" => reading # "refused" /\ state = written
    /\ reading \in {"loaded", "resumed", "unsafe"} => Kept(state, written)
    /\ reading = "resumed" =>
           /\ state.definition_version = "v1"
           /\ \A i \in DOMAIN state.steps : state.steps[i].type = "tool_call" => state.steps[i].tool \in Tools
           /\ state.phase \in CallPhases => state.pending_action.tool \in Tools

CheckpointInv == WrittenInv /\ RowInv /\ ReadInv

-----------------------------------------------------------------------------
(* What the executor writes *)

\* Nothing that is there is taken for absent, malformed or unknown.
LEMMA Present ==
    /\ \A x : x \in Nat \/ x \in Texts \/ x \in Tools \/ x = ContextOf => Plain(x) /\ Optional(x) /\ x # Unknown
    /\ Optional(Missing) /\ Unknown \notin {Missing, Malformed}
BY CheckpointAssumption DEF Plain, Optional

LEMMA CallFields ==
    ASSUME NEW t, NEW i
    PROVE  /\ Call(t, i).type = "tool_call" /\ Call(t, i).tool = t /\ Call(t, i).tool_call_id = i
           /\ Call(t, i).args = t /\ Call(t, i).answer = Missing
           /\ DOMAIN Call(t, i) = {"type", "tool", "args", "tool_call_id", "answer"}
BY DEF Call

\* Every step that is written can be read.
LEMMA FormsDecode ==
    ASSUME NEW s \in Forms
    PROVE  /\ StepDecodes(s) /\ s.type \in {"tool_call", "final"}
           /\ {"type", "tool", "tool_call_id", "answer"} \subseteq DOMAIN s
<1>1. CASE \E t \in Tools, i \in 0 .. MaxSteps : s = StepOf(Call(t, i), i)
  <2>1. PICK t \in Tools, i \in 0 .. MaxSteps : s = StepOf(Call(t, i), i)
    BY <1>1
  <2>2. i \in Nat
    BY CheckpointAssumption
  <2>3. /\ s.type = "tool_call" /\ s.tool = t /\ s.tool_call_id = i /\ s.index = i
        /\ s.status = "completed" /\ s.error = Missing /\ s.elapsed_ms = 1
        /\ {"type", "tool", "tool_call_id", "answer"} \subseteq DOMAIN s
    BY <2>1, CallFields DEF StepOf
  <2>4. /\ Plain(s.tool) /\ Optional(s.tool_call_id) /\ Plain(s.index) /\ Plain(s.status)
        /\ Optional(s.error) /\ Optional(s.elapsed_ms)
    BY <2>2, <2>3, Present DEF Texts
  <2>. QED BY <2>3, <2>4 DEF StepDecodes, ActionDecodes
<1>2. CASE \E i \in 0 .. MaxSteps : s = StepOf(Final("answer"), i)
  <2>1. PICK i \in 0 .. MaxSteps : s = StepOf(Final("answer"), i)
    BY <1>2
  <2>2. i \in Nat
    BY CheckpointAssumption
  <2>3. /\ s.type = "final" /\ s.answer = "answer" /\ s.index = i
        /\ s.status = "completed" /\ s.error = Missing /\ s.elapsed_ms = 1
        /\ {"type", "tool", "tool_call_id", "answer"} \subseteq DOMAIN s
    BY <2>1 DEF StepOf, Final
  <2>4. Plain(s.answer) /\ Plain(s.index) /\ Plain(s.status) /\ Optional(s.error) /\ Optional(s.elapsed_ms)
    BY <2>2, <2>3, Present DEF Texts
  <2>. QED BY <2>3, <2>4 DEF StepDecodes, ActionDecodes
<1>. QED BY <1>1, <1>2 DEF Forms

LEMMA NearItself == ASSUME NEW w \in Checkpoints PROVE NearPayload(w, w)
BY DEF NearPayload, Near, NearSteps, NearAction, NearRecord

LEMMA SaveHolds ==
    ASSUME NEW c \in Checkpoints, CallIsNext(c), Save(c), ReadInv, damage \in Nat
    PROVE  CheckpointInv'
<1>1. /\ Coherent(c) /\ written' = [c EXCEPT !.revision = @ + 1] /\ reading = "no" /\ damage = 0
      /\ row' = [payload |-> written', revision |-> written'.revision, run_id |-> written'.run_id]
      /\ UNCHANGED <<damage, reading, state>>
  BY DEF Save
<1>2. written' \in Checkpoints
  BY <1>1 DEF Checkpoints
<1>3. /\ written'.phase = c.phase /\ written'.steps = c.steps /\ written'.pending_action = c.pending_action
      /\ written'.next_step_index = c.next_step_index /\ written'.max_steps = c.max_steps
      /\ written'.final_answer = c.final_answer /\ written'.revision = c.revision + 1 /\ c.revision \in Nat
  BY <1>1 DEF Checkpoints
<1>4. Coherent(written') /\ CallIsNext(written')
  BY <1>1, <1>3 DEF Coherent, CallIsNext
<1>5. RowInv'
  BY <1>1, <1>2, NearItself DEF RowInv
<1>6. ReadInv'
  BY <1>1 DEF ReadInv
<1>. QED BY <1>2, <1>4, <1>5, <1>6 DEF CheckpointInv, WrittenInv

-----------------------------------------------------------------------------
(* What another version makes of it, and what is read *)

LEMMA DamagedRecord ==
    ASSUME NEW r, NEW w, NEW f, NEW d \in Damaged(r, f), NearRecord(r, w)
    PROVE  NearRecord(d, w)
BY DEF Damaged, NearRecord, Near

LEMMA DamagedPayload ==
    ASSUME NEW p, NEW w \in Checkpoints, NearPayload(p, w), NEW f, NEW d \in Damaged(p, f)
    PROVE  NearPayload(d, w)
<1>1. PICK v \in {Missing, Malformed, Unknown} :
         /\ d = [p EXCEPT ![f] = v]
         /\ v = Unknown => f \in Words \cup {"status", "type", "tool"}
  <2>1. PICK v \in {Missing, Malformed} \cup
                   IF f \in Words \cup {"status", "type", "tool"} THEN {Unknown} ELSE {} :
            d = [p EXCEPT ![f] = v]
    BY DEF Damaged
  <2>. QED BY <2>1, CheckpointAssumption
<1>2. DOMAIN d = DOMAIN p /\ \A g \in DOMAIN p : d[g] = IF g = f THEN v ELSE p[g]
  BY <1>1
<1>3. {"steps", "pending_action"} \subseteq DOMAIN w /\ DOMAIN p = DOMAIN w
  BY DEF Checkpoints, NearPayload
<1>4. f \in {"steps", "pending_action"} => v \in {Missing, Malformed}
  BY <1>1 DEF Words
<1>5. NearSteps(d.steps, w.steps)
  BY <1>2, <1>3, <1>4 DEF NearPayload, NearSteps
<1>6. NearAction(d.pending_action, w.pending_action)
  BY <1>2, <1>3, <1>4 DEF NearPayload, NearAction
<1>7. \A g \in (DOMAIN w) \ {"steps", "pending_action"} : Near(d[g], w[g], g)
  BY <1>1, <1>2, <1>3 DEF NearPayload, Near
<1>. QED BY <1>2, <1>3, <1>5, <1>6, <1>7 DEF NearPayload

LEMMA DamageHolds == CheckpointInv /\ Damage => CheckpointInv'
<1> SUFFICES ASSUME CheckpointInv, Damage PROVE CheckpointInv'
  OBVIOUS
<1> DEFINE payload == row.payload
<1>1. /\ WrittenInv /\ RowInv /\ ReadInv /\ reading = "no" /\ damage' = damage + 1
      /\ UNCHANGED <<written, reading, state>>
  BY DEF CheckpointInv, Damage
<1>2. PICK p :
         /\ row' = [row EXCEPT !.payload = p]
         /\ \/ \E f : p \in Damaged(payload, f)
            \/ \E f : \E a \in Damaged(payload.pending_action, f) :
                  Plain(payload.pending_action) /\ p = [payload EXCEPT !.pending_action = a]
            \/ \E i \in DOMAIN payload.steps : \E f : \E s \in Damaged(payload.steps[i], f) :
                  Plain(payload.steps) /\ p = [payload EXCEPT !.steps[i] = s]
  BY DEF Damage
<1>3. /\ written \in Checkpoints /\ NearPayload(payload, written)
      /\ {"steps", "pending_action"} \subseteq DOMAIN payload
  BY <1>1 DEF WrittenInv, RowInv, NearPayload, Checkpoints
<1>. HIDE DEF payload
<1>4. NearPayload(p, written)
  <2>1. CASE \E f : p \in Damaged(payload, f)
    BY <1>3, <2>1, DamagedPayload
  <2>2. CASE \E f : \E a \in Damaged(payload.pending_action, f) :
               Plain(payload.pending_action) /\ p = [payload EXCEPT !.pending_action = a]
    <3>1. PICK f : \E a \in Damaged(payload.pending_action, f) :
             Plain(payload.pending_action) /\ p = [payload EXCEPT !.pending_action = a]
      BY <2>2
    <3>2. PICK a \in Damaged(payload.pending_action, f) :
             Plain(payload.pending_action) /\ p = [payload EXCEPT !.pending_action = a]
      BY <3>1
    <3>3. written.pending_action # Missing /\ NearRecord(payload.pending_action, written.pending_action)
      BY <1>3, <3>2 DEF NearPayload, NearAction, Plain
    <3>4. NearAction(a, written.pending_action)
      BY <3>3, DamagedRecord DEF NearAction
    <3>. QED BY <1>3, <3>2, <3>4 DEF NearPayload
  <2>3. CASE \E i \in DOMAIN payload.steps : \E f : \E s \in Damaged(payload.steps[i], f) :
               Plain(payload.steps) /\ p = [payload EXCEPT !.steps[i] = s]
    <3>1. PICK i \in DOMAIN payload.steps : \E f : \E s \in Damaged(payload.steps[i], f) :
             Plain(payload.steps) /\ p = [payload EXCEPT !.steps[i] = s]
      BY <2>3
    <3>2. PICK f : \E s \in Damaged(payload.steps[i], f) :
             Plain(payload.steps) /\ p = [payload EXCEPT !.steps[i] = s]
      BY <3>1
    <3>3. PICK s \in Damaged(payload.steps[i], f) :
             Plain(payload.steps) /\ p = [payload EXCEPT !.steps[i] = s]
      BY <3>2
    <3>4. /\ DOMAIN payload.steps = DOMAIN written.steps
          /\ \A j \in DOMAIN written.steps : NearRecord(payload.steps[j], written.steps[j])
      BY <1>3, <3>3 DEF NearPayload, NearSteps, Plain
    <3>5. NearRecord(s, written.steps[i])
      BY <3>3, <3>4, DamagedRecord
    <3>6. NearSteps([payload.steps EXCEPT ![i] = s], written.steps)
      BY <3>4, <3>5 DEF NearSteps
    <3>7. /\ DOMAIN p = DOMAIN payload /\ p.steps = [payload.steps EXCEPT ![i] = s]
          /\ \A g \in (DOMAIN payload) \ {"steps"} : p[g] = payload[g]
      BY <1>3, <3>3
    <3>. QED BY <1>3, <3>6, <3>7 DEF NearPayload
  <2>. QED BY <1>2, <2>1, <2>2, <2>3
<1>5. RowInv'
  BY <1>1, <1>2, <1>4 DEF RowInv
<1>6. WrittenInv' /\ ReadInv'
  BY <1>1 DEF WrittenInv, ReadInv
<1>. QED BY <1>5, <1>6 DEF CheckpointInv

\* An action that is accepted is the one that was written, or one with an unknown tool.
LEMMA ActionKept ==
    ASSUME NEW a, NEW w, NearRecord(a, w), ActionDecodes(a), w.type \in {"tool_call", "final"},
           {"type", "tool", "tool_call_id", "answer"} \subseteq DOMAIN w
    PROVE  KeptAction(a, w)
<1>1. /\ Near(a.type, w.type, "type") /\ Near(a.tool, w.tool, "tool")
      /\ Near(a.answer, w.answer, "answer") /\ Near(a.tool_call_id, w.tool_call_id, "tool_call_id")
  BY DEF NearRecord
<1>2. a.type \in {"tool_call", "final"} /\ a.type = w.type
  <2>1. a.type \in Texts
    BY DEF ActionDecodes, Texts
  <2>. QED BY <1>1, <2>1, Present DEF ActionDecodes, Near, Plain
<1>3. a.type = "tool_call" => a.tool \in {w.tool, Unknown} /\ a.tool_call_id \in {w.tool_call_id, Missing}
  BY <1>1 DEF ActionDecodes, Near, Plain, Optional, Words
<1>4. a.type = "final" => a.answer = w.answer
  BY <1>1, <1>2 DEF ActionDecodes, Near, Plain, Words
<1>. QED BY <1>2, <1>3, <1>4 DEF KeptAction

\* A payload that is accepted is, up to that, the checkpoint that was written.
LEMMA DecodeKeeps ==
    ASSUME NEW w \in Checkpoints, Coherent(w), CallIsNext(w), NEW p, NearPayload(p, w), Decodes(p)
    PROVE  Kept(Decode(p), w)
<1> DEFINE s == Decode(p)
<1>1. /\ DOMAIN p = DOMAIN w
      /\ DOMAIN w = {"schema_version", "revision", "run_id", "phase", "next_step_index", "max_steps",
                      "user_input", "session_context", "route", "agent_name", "definition_version",
                      "model_config", "steps", "pending_action", "final_answer"}
  BY DEF NearPayload, Checkpoints
<1>2. /\ s.steps = OrElse(p.steps, <<>>)
      /\ \A f \in (DOMAIN w) \ {"steps", "session_context", "model_config"} : s[f] = p[f]
  BY <1>1 DEF Decode
<1>3. Coherent(s) /\ \A i \in DOMAIN s.steps : StepDecodes(s.steps[i])
  BY DEF Decodes
<1>. HIDE DEF s
<1>4. /\ Near(p.run_id, w.run_id, "run_id") /\ Near(p.phase, w.phase, "phase")
      /\ Near(p.revision, w.revision, "revision") /\ Near(p.user_input, w.user_input, "user_input")
      /\ Near(p.next_step_index, w.next_step_index, "next_step_index")
      /\ Near(p.max_steps, w.max_steps, "max_steps") /\ Near(p.final_answer, w.final_answer, "final_answer")
      /\ Near(p.definition_version, w.definition_version, "definition_version")
  BY <1>1 DEF NearPayload
<1>5. /\ Plain(p.run_id) /\ Plain(p.max_steps) /\ Plain(p.user_input) /\ Plain(p.definition_version)
      /\ Plain(p.next_step_index) /\ Plain(p.revision) /\ Optional(p.final_answer) /\ Optional(p.steps)
      /\ Optional(p.pending_action)
      /\ p.phase \in {"routing", "before_action", "before_tool", "tool_in_flight", "final_ready"}
      /\ p.pending_action # Missing => ActionDecodes(p.pending_action)
  BY DEF Decodes, Required
<1>6. /\ p.run_id = w.run_id /\ p.max_steps = w.max_steps /\ p.user_input = w.user_input
      /\ p.next_step_index = w.next_step_index /\ p.revision = w.revision
      /\ p.definition_version \in {w.definition_version, Unknown}
  BY <1>4, <1>5 DEF Near, Plain, Words
<1>7. p.phase = w.phase
  <2>1. p.phase \in Texts
    BY <1>5 DEF Texts
  <2>. QED BY <1>4, <2>1, Present DEF Near, Plain
<1>8. p.final_answer = w.final_answer
  <2>1. p.final_answer \in {w.final_answer, Missing}
    BY <1>4, <1>5 DEF Near, Optional, Words
  <2>2. w.final_answer # Missing => w.phase = "final_ready"
    BY DEF Coherent, Checkpoints, CallPhases
  <2>3. s.phase = "final_ready" => s.final_answer # Missing
    BY <1>3 DEF Coherent
  <2>4. s.phase = p.phase /\ s.final_answer = p.final_answer
    BY <1>1, <1>2
  <2>. QED BY <1>7, <2>1, <2>2, <2>3, <2>4
<1>9. Len(s.steps) = Len(w.steps)
  <2>1. s.next_step_index = p.next_step_index
    BY <1>1, <1>2
  <2>. QED BY <1>3, <1>6, <2>1 DEF Coherent
<1>10. \A i \in DOMAIN s.steps : KeptAction(s.steps[i], w.steps[i])
  <2> SUFFICES ASSUME NEW i \in DOMAIN s.steps PROVE KeptAction(s.steps[i], w.steps[i])
    OBVIOUS
  <2>1. p.steps # Missing
    <3>1. DOMAIN <<>> = {}
      OBVIOUS
    <3>. QED BY <1>2, <3>1 DEF OrElse
  <2>2. /\ s.steps = p.steps /\ DOMAIN p.steps = DOMAIN w.steps
        /\ NearRecord(p.steps[i], w.steps[i])
    BY <1>2, <1>5, <2>1 DEF OrElse, NearPayload, NearSteps, Optional
  <2>3. w.steps \in Seq(Forms)
    BY DEF Checkpoints
  <2>4. w.steps[i] \in Forms
    BY <2>2, <2>3
  <2>5. ActionDecodes(s.steps[i])
    BY <1>3 DEF StepDecodes
  <2>. QED BY <2>2, <2>4, <2>5, FormsDecode, ActionKept
<1>11. s.phase \in CallPhases =>
          KeptAction(s.pending_action, w.pending_action) /\ s.pending_action.type = "tool_call"
  <2> SUFFICES ASSUME s.phase \in CallPhases
               PROVE  KeptAction(s.pending_action, w.pending_action) /\ s.pending_action.type = "tool_call"
    OBVIOUS
  <2>1. s.phase = p.phase /\ s.pending_action = p.pending_action
    BY <1>1, <1>2
  <2>2. s.pending_action # Missing /\ s.pending_action.type = "tool_call"
    BY <1>3 DEF Coherent, CallPhases
  <2>3. NearRecord(p.pending_action, w.pending_action) /\ ActionDecodes(p.pending_action)
    BY <1>5, <2>1, <2>2 DEF NearPayload, NearAction, Optional
  <2>4. PICK t \in Tools : w.pending_action = Call(t, Len(w.steps))
    BY <1>7, <2>1 DEF CallIsNext
  <2>5. /\ w.pending_action.type = "tool_call"
        /\ {"type", "tool", "tool_call_id", "answer"} \subseteq DOMAIN w.pending_action
    BY <2>4, CallFields
  <2>. QED BY <2>1, <2>2, <2>3, <2>5, ActionKept
<1>12. \A f \in KeptFields : s[f] = w[f]
  BY <1>1, <1>2, <1>6, <1>7, <1>8 DEF KeptFields
<1>13. s.definition_version \in {w.definition_version, Unknown}
  BY <1>1, <1>2, <1>6
<1>14. Kept(s, w)
  BY <1>9, <1>10, <1>11, <1>12, <1>13 DEF Kept
<1>. QED BY <1>14 DEF s

-----------------------------------------------------------------------------
(* The steps of Checkpoint *)

LEMMA CheckpointParts ==
    ASSUME CheckpointInv
    PROVE  /\ WrittenInv /\ RowInv /\ ReadInv /\ damage \in Nat
           /\ written.steps \in Seq(Forms) /\ Len(written.steps) \in 0 .. MaxSteps
           /\ {Missing, Malformed} \cap Calls = {}
<1>1. WrittenInv /\ RowInv /\ ReadInv /\ damage \in Nat
  BY DEF CheckpointInv, RowInv
<1>2. written.steps \in Seq(Forms) /\ written.max_steps = MaxSteps
  BY <1>1 DEF WrittenInv, Checkpoints
<1>3. Len(written.steps) \in Nat /\ Len(written.steps) <= MaxSteps
  BY <1>1, <1>2 DEF WrittenInv, Coherent
<1>. QED BY <1>1, <1>2, <1>3, CheckpointAssumption, FormsAssumption

LEMMA CommitRouteHolds == CheckpointInv /\ CommitRoute => CheckpointInv'
<1> SUFFICES ASSUME CheckpointInv, CommitRoute PROVE CheckpointInv'
  OBVIOUS
<1> DEFINE c == [written EXCEPT !.phase = "before_action", !.route = "order", !.agent_name = "order_support"]
<1>1. c \in Checkpoints /\ c.phase = "before_action" /\ Save(c)
  BY CheckpointParts DEF CommitRoute, WrittenInv, Checkpoints
<1>. HIDE DEF c
<1>2. CallIsNext(c)
  BY <1>1 DEF CallIsNext, CallPhases
<1>. QED BY <1>1, <1>2, SaveHolds, CheckpointParts

LEMMA ChooseToolHolds == CheckpointInv /\ ChooseTool => CheckpointInv'
<1> SUFFICES ASSUME CheckpointInv, ChooseTool PROVE CheckpointInv'
  OBVIOUS
<1>1. PICK t \in Tools :
         Save([written EXCEPT !.phase = "before_tool", !.pending_action = Call(t, Len(written.steps))])
  BY DEF ChooseTool
<1> DEFINE chosen == Call(t, Len(written.steps))
           c      == [written EXCEPT !.phase = "before_tool", !.pending_action = chosen]
<1>2. chosen \in Calls
  BY CheckpointParts DEF Calls
<1>3. chosen = Call(t, Len(written.steps)) /\ Save(c)
  BY <1>1
<1>. HIDE DEF chosen
<1>4. c \in Checkpoints /\ c.pending_action = chosen /\ c.steps = written.steps
  BY <1>2, CheckpointParts DEF WrittenInv, Checkpoints, CallPhases
<1>. HIDE DEF c
<1>5. CallIsNext(c)
  BY <1>3, <1>4 DEF CallIsNext
<1>. QED BY <1>3, <1>4, <1>5, SaveHolds, CheckpointParts

LEMMA StartToolHolds == CheckpointInv /\ StartTool => CheckpointInv'
<1> SUFFICES ASSUME CheckpointInv, StartTool PROVE CheckpointInv'
  OBVIOUS
<1> DEFINE c == [written EXCEPT !.phase = "tool_in_flight"]
<1>1. /\ c \in Checkpoints /\ c.pending_action = written.pending_action /\ c.steps = written.steps
      /\ written.phase = "before_tool" /\ Save(c)
  BY CheckpointParts DEF StartTool, WrittenInv, Checkpoints, CallPhases
<1>. HIDE DEF c
<1>2. CallIsNext(c)
  BY <1>1, CheckpointParts DEF WrittenInv, CallIsNext, CallPhases
<1>. QED BY <1>1, <1>2, SaveHolds, CheckpointParts

\* A step more, and an index that says so.
LEMMA WithStepTyped ==
    ASSUME NEW c \in Checkpoints, NEW action, StepOf(action, Len(c.steps)) \in Forms
    PROVE  /\ WithStep(c, action) \in Checkpoints
           /\ WithStep(c, action).phase = c.phase
<1> DEFINE step == StepOf(action, Len(c.steps))
<1>1. step \in Forms /\ c.steps \in Seq(Forms) /\ Len(c.steps) \in Nat
  BY DEF Checkpoints
<1>2. WithStep(c, action) = [c EXCEPT !.steps = Append(c.steps, step), !.next_step_index = Len(c.steps) + 1]
  BY DEF WithStep
<1>. HIDE DEF step
<1>3. Append(c.steps, step) \in Seq(Forms) /\ Len(c.steps) + 1 \in Nat
  BY <1>1
<1>. QED BY <1>2, <1>3 DEF Checkpoints

LEMMA CommitStepHolds == CheckpointInv /\ CommitStep => CheckpointInv'
<1> SUFFICES ASSUME CheckpointInv, CommitStep PROVE CheckpointInv'
  OBVIOUS
<1> DEFINE d == WithStep(written, written.pending_action)
           c == [d EXCEPT !.phase = "before_action", !.pending_action = Missing]
<1>1. Save(c) /\ written.phase = "tool_in_flight" /\ written \in Checkpoints
  BY CheckpointParts DEF CommitStep, WrittenInv
<1>2. PICK t \in Tools : written.pending_action = Call(t, Len(written.steps))
  BY <1>1, CheckpointParts DEF WrittenInv, CallIsNext, CallPhases
<1>3. StepOf(written.pending_action, Len(written.steps)) \in Forms
  BY <1>2, CheckpointParts DEF Forms
<1>4. d \in Checkpoints
  BY <1>1, <1>3, WithStepTyped
<1>. HIDE DEF d
<1>5. c \in Checkpoints /\ c.phase = "before_action"
  BY <1>4 DEF Checkpoints
<1>. HIDE DEF c
<1>6. CallIsNext(c)
  BY <1>5 DEF CallIsNext, CallPhases
<1>. QED BY <1>1, <1>5, <1>6, SaveHolds, CheckpointParts

LEMMA ChooseFinalHolds == CheckpointInv /\ ChooseFinal => CheckpointInv'
<1> SUFFICES ASSUME CheckpointInv, ChooseFinal PROVE CheckpointInv'
  OBVIOUS
<1> DEFINE ready == [written EXCEPT !.phase = "final_ready", !.final_answer = "answer"]
<1>1. /\ ready \in Checkpoints /\ ready.phase = "final_ready" /\ ready.steps = written.steps
      /\ Save(ready) \/ Save(WithStep(ready, Final("answer")))
  BY CheckpointParts DEF ChooseFinal, WrittenInv, Checkpoints
<1>. HIDE DEF ready
<1>2. StepOf(Final("answer"), Len(ready.steps)) \in Forms
  BY <1>1, CheckpointParts DEF Forms
<1>3. /\ WithStep(ready, Final("answer")) \in Checkpoints
      /\ WithStep(ready, Final("answer")).phase = "final_ready"
  BY <1>1, <1>2, WithStepTyped
<1>4. CallIsNext(ready) /\ CallIsNext(WithStep(ready, Final("answer")))
  BY <1>1, <1>3 DEF CallIsNext, CallPhases
<1>. QED BY <1>1, <1>3, <1>4, SaveHolds, CheckpointParts

\* What this version has written it reads.
LEMMA DecodesWritten ==
    ASSUME NEW w \in Checkpoints, Coherent(w), CallIsNext(w)
    PROVE  Decodes(w) /\ Decode(w) = w
<1>1. /\ w.schema_version = 1 /\ w.run_id = "run" /\ w.max_steps = MaxSteps /\ w.user_input = "question"
      /\ w.definition_version = "v1" /\ w.next_step_index \in Nat /\ w.revision \in Nat
      /\ w.session_context = ContextOf /\ w.route \in {Missing, "order"} /\ w.model_config = "model"
      /\ w.agent_name \in {Missing, "order_support"} /\ w.final_answer \in {Missing, "answer"}
      /\ w.steps \in Seq(Forms) /\ w.pending_action \in {Missing} \cup Calls
      /\ w.phase \in {"routing", "before_action", "before_tool", "tool_in_flight", "final_ready"}
  BY DEF Checkpoints, CallPhases
<1>2. Missing # w.steps /\ Malformed # w.steps /\ w.session_context # Missing /\ w.model_config # Missing
  BY <1>1, Present, FormsAssumption DEF Plain, Texts
<1>3. Decode(w) = w
  BY <1>2 DEF Decode, OrElse, Checkpoints
<1>4. \A f \in Required : Plain(w[f])
  BY <1>1, CheckpointAssumption, Present DEF Required, Texts
<1>5. \A f \in {"session_context", "route", "agent_name", "model_config", "final_answer", "steps",
                "pending_action"} : Optional(w[f])
  <2>1. Optional(w.steps) /\ Optional(w.pending_action)
    BY <1>1, <1>2, Present, FormsAssumption DEF Optional
  <2>. QED BY <1>1, <2>1, Present DEF Texts
<1>6. \A i \in DOMAIN w.steps : StepDecodes(w.steps[i])
  BY <1>1, FormsDecode
<1>7. w.pending_action # Missing => ActionDecodes(w.pending_action) /\ Optional(w.pending_action.args)
  <2> SUFFICES ASSUME w.pending_action # Missing
               PROVE  ActionDecodes(w.pending_action) /\ Optional(w.pending_action.args)
    OBVIOUS
  <2>1. PICK t \in Tools, i \in 0 .. MaxSteps : w.pending_action = Call(t, i)
    BY <1>1 DEF Calls
  <2>2. i \in Nat
    BY CheckpointAssumption
  <2>. QED BY <2>1, <2>2, CallFields, Present DEF ActionDecodes
<1>. QED BY <1>1, <1>3, <1>4, <1>5, <1>6, <1>7 DEF Decodes

LEMMA ReadHolds == CheckpointInv /\ Load => CheckpointInv'
<1> SUFFICES ASSUME CheckpointInv, Load PROVE CheckpointInv'
  OBVIOUS
<1>1. /\ WrittenInv /\ RowInv /\ ReadInv /\ reading = "no" /\ UNCHANGED <<written, row, damage>>
  BY CheckpointParts DEF Load
<1>2. /\ written \in Checkpoints /\ Coherent(written) /\ CallIsNext(written)
      /\ NearPayload(row.payload, written)
  BY <1>1 DEF WrittenInv, RowInv
<1>3. CASE Decodes(row.payload) /\ row.payload.revision = row.revision /\ row.payload.run_id = row.run_id
  <2>1. reading' = "loaded" /\ state' = Decode(row.payload)
    BY <1>3 DEF Load
  <2>2. Kept(state', written)
    BY <1>2, <1>3, <2>1, DecodeKeeps
  <2>3. damage = 0 => state' = written
    BY <1>1, <1>2, <2>1, DecodesWritten DEF RowInv
  <2>4. ReadInv'
    BY <1>1, <2>1, <2>2, <2>3 DEF ReadInv
  <2>. QED BY <1>1, <2>4 DEF CheckpointInv, WrittenInv, RowInv
<1>4. CASE ~(Decodes(row.payload) /\ row.payload.revision = row.revision /\ row.payload.run_id = row.run_id)
  <2>1. reading' = "refused"
    BY <1>4 DEF Load
  <2>2. damage # 0
    BY <1>1, <1>2, <1>4, DecodesWritten DEF RowInv
  <2>3. ReadInv'
    BY <1>1, <2>1, <2>2 DEF ReadInv
  <2>. QED BY <1>1, <2>3 DEF CheckpointInv, WrittenInv, RowInv
<1>. QED BY <1>3, <1>4

LEMMA ResumeHolds == CheckpointInv /\ Resume => CheckpointInv'
<1> SUFFICES ASSUME CheckpointInv, Resume PROVE CheckpointInv'
  OBVIOUS
<1>1. /\ WrittenInv /\ RowInv /\ ReadInv /\ reading = "loaded" /\ UNCHANGED <<written, row, damage, state>>
      /\ reading' \in {"resumed", "unsafe"}
  BY CheckpointParts DEF Resume
<1>2. reading' = "resumed" =>
         /\ state.definition_version = "v1"
         /\ \A i \in DOMAIN state.steps : state.steps[i].type = "tool_call" => state.steps[i].tool \in Tools
         /\ state.phase \in CallPhases => state.pending_action.tool \in Tools
  BY <1>1 DEF Resume, CallPhases
<1>3. ReadInv'
  BY <1>1, <1>2 DEF ReadInv
<1>. QED BY <1>1, <1>3 DEF CheckpointInv, WrittenInv, RowInv

-----------------------------------------------------------------------------
(* The theorem about Checkpoint *)

LEMMA CheckpointInitially == CheckpointInit => CheckpointInv
<1> SUFFICES ASSUME CheckpointInit PROVE CheckpointInv
  OBVIOUS
<1>1. <<>> \in Seq(Forms) /\ Len(<<>>) = 0 /\ DOMAIN <<>> = {}
  OBVIOUS
<1>2. written \in Checkpoints /\ written.phase = "routing"
  BY <1>1 DEF CheckpointInit, Checkpoints
<1>3. Coherent(written)
  BY <1>1, CheckpointAssumption DEF CheckpointInit, Coherent
<1>4. CallIsNext(written)
  BY <1>2 DEF CallIsNext, CallPhases
<1>5. RowInv
  <2>1. /\ row = [payload |-> written, revision |-> 0, run_id |-> "run"] /\ damage = 0
        /\ written.revision = 0 /\ written.run_id = "run"
    BY DEF CheckpointInit
  <2>. QED BY <1>2, <2>1, NearItself DEF RowInv
<1>6. ReadInv
  BY DEF CheckpointInit, ReadInv
<1>. QED BY <1>2, <1>3, <1>4, <1>5, <1>6 DEF CheckpointInv, WrittenInv

LEMMA CheckpointStep == CheckpointInv /\ [CheckpointNext]_checkpointVars => CheckpointInv'
<1> SUFFICES ASSUME CheckpointInv, [CheckpointNext]_checkpointVars PROVE CheckpointInv'
  OBVIOUS
<1>1. CASE UNCHANGED checkpointVars
  BY <1>1 DEF checkpointVars, CheckpointInv, WrittenInv, RowInv, ReadInv
<1>. QED BY <1>1, CommitRouteHolds, ChooseToolHolds, StartToolHolds, CommitStepHolds, ChooseFinalHolds,
            DamageHolds, ReadHolds, ResumeHolds DEF CheckpointNext

LEMMA CheckpointInvariant == CheckpointSpec => []CheckpointInv
BY CheckpointInitially, CheckpointStep, PTL DEF CheckpointSpec

\* A checkpoint is read as it was written; one of another version is refused, or resumed
\* where it stopped, with nothing lost and nothing done under another id (decode_checkpoint
\* of pkg/agents/state.py and assess_resume of pkg/agents/react.py), for any number of steps
\* and tools and however many fields the other version changed.
THEOREM CheckpointCorrect == CheckpointSpec => []NothingIsLost
<1>1. CheckpointInv => NothingIsLost
  <2> SUFFICES ASSUME CheckpointInv PROVE NothingIsLost
    OBVIOUS
  <2>1. damage = 0 /\ reading # "no" => reading # "refused" /\ state = written
    BY CheckpointParts DEF ReadInv
  <2>2. ASSUME reading = "resumed"
        PROVE  /\ \A f \in KeptFields \cup {"definition_version"} : state[f] = written[f]
               /\ Len(state.steps) = Len(written.steps)
               /\ \A i \in DOMAIN state.steps : What(state.steps[i]) = What(written.steps[i])
               /\ state.phase \in CallPhases =>
                      /\ What(state.pending_action) = What(written.pending_action)
                      /\ CallId(state.pending_action, Len(state.steps)) = Len(written.steps)
    <3>1. /\ Kept(state, written) /\ state.definition_version = "v1" /\ written.definition_version = "v1"
          /\ \A i \in DOMAIN state.steps : state.steps[i].type = "tool_call" => state.steps[i].tool \in Tools
          /\ state.phase \in CallPhases => state.pending_action.tool \in Tools
      BY <2>2, CheckpointParts DEF ReadInv, WrittenInv, Checkpoints
    <3>2. Unknown \notin Tools
      BY CheckpointAssumption
    <3>3. \A i \in DOMAIN state.steps : What(state.steps[i]) = What(written.steps[i])
      BY <3>1, <3>2 DEF Kept, KeptAction, What
    <3>4. \A f \in KeptFields \cup {"definition_version"} : state[f] = written[f]
      BY <3>1 DEF Kept
    <3>5. ASSUME state.phase \in CallPhases
          PROVE  /\ What(state.pending_action) = What(written.pending_action)
                 /\ CallId(state.pending_action, Len(state.steps)) = Len(written.steps)
      <4>1. state.phase = written.phase
        BY <3>4 DEF KeptFields
      <4>2. PICK t \in Tools : written.pending_action = Call(t, Len(written.steps))
        BY <3>5, <4>1, CheckpointParts DEF WrittenInv, CallIsNext
      <4>3. written.pending_action.tool_call_id = Len(written.steps)
        BY <4>2, CallFields
      <4>. QED BY <3>1, <3>2, <3>5, <4>3 DEF Kept, KeptAction, What, CallId
    <3>. QED BY <3>1, <3>3, <3>4, <3>5 DEF Kept
  <2>. QED BY <2>1, <2>2 DEF NothingIsLost, KeptFields, CallPhases
<1>. QED BY <1>1, CheckpointInvariant, PTL

-----------------------------------------------------------------------------
(* Floats *)

\* A set of numbers has a least one, which is how what follows is proved by induction.
LEMMA LeastNumber ==
    ASSUME NEW T \in SUBSET Nat, T # {}
    PROVE  \E i \in T : \A j \in T : i <= j
<1> DEFINE R == {p \in Nat \X Nat : p[1] < p[2]}
<1>1. IsWellFoundedOn(R, Nat)
    BY NatLessThanWellFounded DEF OpToRel
<1>2. PICK i \in T : \A j \in T : <<j, i>> \notin R
    <2> HIDE DEF R
    <2>. QED BY <1>1, WFMin
<1>3. ASSUME NEW j \in T PROVE i <= j
    <2>1. <<j, i>> \notin R
        BY <1>2
    <2>. QED BY <2>1
<1>. QED BY <1>3

\* The first powers, up to n.
FirstPowers(n) ==
    {g \in [0 .. n -> Nat \ {0}] : g[0] = 1 /\ \A i \in 1 .. n : g[i] = 2 * g[i - 1]}

\* There are such functions, and each continues the shorter ones.
LEMMA FirstPowersExist == \A n \in Nat : FirstPowers(n) # {}
<1> DEFINE T == {n \in Nat : FirstPowers(n) = {}}
<1> SUFFICES ASSUME T # {} PROVE FALSE
  OBVIOUS
<1>1. PICK n \in T : \A j \in T : n <= j
  <2>. HIDE DEF T
  <2>1. T \in SUBSET Nat
    BY DEF T
  <2>. QED BY <2>1, LeastNumber
<1>2. CASE n = 0
  <2>1. [i \in 0 .. 0 |-> 1] \in FirstPowers(0)
    BY DEF FirstPowers
  <2>. QED BY <1>1, <1>2, <2>1
<1>3. CASE n # 0
  <2>1. n \in Nat /\ n - 1 \in Nat /\ n - 1 \notin T
    BY <1>1, <1>3
  <2>2. PICK g : g \in FirstPowers(n - 1)
    BY <2>1
  <2> DEFINE h == [i \in 0 .. n |-> IF i = n THEN 2 * g[n - 1] ELSE g[i]]
  <2>3. /\ \A i \in 0 .. n - 1 : g[i] \in Nat \ {0}
        /\ g[0] = 1 /\ \A i \in 1 .. n - 1 : g[i] = 2 * g[i - 1]
    BY <2>2 DEF FirstPowers
  <2>4. \A i \in 0 .. n : h[i] \in Nat \ {0}
    BY <2>1, <2>3
  <2>5. h \in [0 .. n -> Nat \ {0}]
    BY <2>4
  <2>6. h[0] = 1 /\ \A i \in 1 .. n : h[i] = 2 * h[i - 1]
    BY <2>1, <2>3, <1>3
  <2>7. h \in FirstPowers(n)
    BY <2>5, <2>6 DEF FirstPowers
  <2>. QED BY <1>1, <2>7
<1>. QED BY <1>2, <1>3

LEMMA FirstPowersAgree ==
    ASSUME NEW m \in Nat, NEW n \in Nat, m <= n, NEW g \in FirstPowers(m), NEW h \in FirstPowers(n)
    PROVE  \A i \in 0 .. m : g[i] = h[i]
<1> DEFINE T == {i \in 0 .. m : g[i] # h[i]}
<1> SUFFICES ASSUME T # {} PROVE FALSE
  OBVIOUS
<1>1. PICK i \in T : \A j \in T : i <= j
  <2>1. T \in SUBSET Nat
    OBVIOUS
  <2>. QED BY <2>1, LeastNumber
<1>2. g[0] = 1 /\ h[0] = 1 /\ i \in 0 .. m /\ g[i] # h[i]
  BY <1>1 DEF FirstPowers
<1>3. i \in 1 .. m /\ i \in 1 .. n /\ i - 1 \in 0 .. m /\ i - 1 \notin T
  BY <1>1, <1>2
<1>4. g[i] = 2 * g[i - 1] /\ h[i] = 2 * h[i - 1]
  BY <1>3 DEF FirstPowers
<1>. QED BY <1>2, <1>3, <1>4

\* The recursive definition of Power has a solution, so that Power is one.
LEMMA Powers ==
    /\ Power[0] = 1
    /\ \A k \in Nat : Power[k] \in Nat \ {0} /\ Power[k + 1] = 2 * Power[k]
<1> DEFINE F == [k \in Nat |-> (CHOOSE g : g \in FirstPowers(k))[k]]
           Step(f) == [k \in Nat |-> IF k = 0 THEN 1 ELSE 2 * f[k - 1]]
<1>1. \A k \in Nat : (CHOOSE g : g \in FirstPowers(k)) \in FirstPowers(k)
  BY FirstPowersExist
<1>2. ASSUME NEW k \in Nat
      PROVE  /\ F[k] \in Nat \ {0} /\ F[k] = IF k = 0 THEN 1 ELSE 2 * F[k - 1]
  <2>1. PICK g \in FirstPowers(k) : F[k] = g[k]
    BY <1>1
  <2>2. g[k] \in Nat \ {0} /\ g[0] = 1
    BY DEF FirstPowers
  <2>3. CASE k # 0
    <3>1. k - 1 \in Nat /\ k - 1 <= k /\ k - 1 \in 0 .. k - 1 /\ k \in 1 .. k
      BY <2>3
    <3>2. PICK h \in FirstPowers(k - 1) : F[k - 1] = h[k - 1]
      BY <1>1, <3>1
    <3>3. h[k - 1] = g[k - 1]
      BY <3>1, FirstPowersAgree
    <3>4. g[k] = 2 * g[k - 1]
      BY <3>1 DEF FirstPowers
    <3>. QED BY <2>1, <2>2, <2>3, <3>2, <3>3, <3>4
  <2>. QED BY <2>1, <2>2, <2>3
<1>3. F = Step(F)
  <2>1. F = [k \in Nat |-> F[k]]
    OBVIOUS
  <2>. HIDE DEF F
  <2>. QED BY <1>2, <2>1
<1>. HIDE DEF F
<1>4. Power = Step(Power)
  BY <1>3 DEF Power
<1>5. \A k \in Nat : Power[k] = IF k = 0 THEN 1 ELSE 2 * Power[k - 1]
  BY <1>4
<1>6. \A k \in Nat : Power[k + 1] = 2 * Power[k]
  BY <1>5
<1>7. \A k \in Nat : Power[k] \in Nat \ {0}
  <2> DEFINE T == {k \in Nat : Power[k] \notin Nat \ {0}}
  <2> SUFFICES ASSUME T # {} PROVE FALSE
    OBVIOUS
  <2>1. PICK k \in T : \A j \in T : k <= j
    <3>1. T \in SUBSET Nat
      OBVIOUS
    <3>. HIDE DEF T
    <3>. QED BY <3>1, LeastNumber
  <2>2. k \in Nat /\ k # 0
    BY <1>5
  <2>3. k - 1 \in Nat /\ k - 1 \notin T
    BY <2>1, <2>2
  <2>. QED BY <1>5, <2>2, <2>3
<1>. QED BY <1>5, <1>6, <1>7

\* Powers outgrow the numbers.
LEMMA PowerGrows == \A m \in Nat, n \in Nat : Power[m + n] >= (n + 1) * Power[m]
<1> SUFFICES ASSUME NEW m \in Nat PROVE \A n \in Nat : Power[m + n] >= (n + 1) * Power[m]
  OBVIOUS
<1> DEFINE T == {n \in Nat : ~ (Power[m + n] >= (n + 1) * Power[m])}
<1> SUFFICES ASSUME T # {} PROVE FALSE
  OBVIOUS
<1>1. PICK n \in T : \A j \in T : n <= j
  <2>1. T \in SUBSET Nat
    OBVIOUS
  <2>. HIDE DEF T
  <2>. QED BY <2>1, LeastNumber
<1>2. n \in Nat /\ n # 0
  BY Powers
<1>3. n - 1 \in Nat /\ n - 1 \notin T
  BY <1>1, <1>2
<1> DEFINE p == Power[m]
           q == Power[m + (n - 1)]
<1>4. p \in Nat \ {0} /\ q \in Nat /\ q >= n * p
  BY <1>2, <1>3, Powers
<1>5. Power[m + n] = 2 * q
  BY <1>2, Powers
<1>6. n * p >= p
  BY <1>2, <1>4
<1>7. 2 * q >= (n + 1) * p
  BY <1>2, <1>4, <1>6
<1>. QED BY <1>1, <1>5, <1>7

\* What is nearer than half of d to a multiple of d is rounded to it.
LEMMA RoundsToNearest ==
    ASSUME NEW x \in Int, NEW d \in Nat \ {0}, NEW a \in Int, 2 * (x - d * a) < d, 2 * (d * a - x) < d
    PROVE  RoundHalfEven(x, d) = a
<1> DEFINE q == x \div d
           r == x % d
<1>1. q \in Int /\ r \in 0 .. d - 1 /\ x = d * q + r
  OBVIOUS
<1>. HIDE DEF q, r
<1>2. d * a < d * (q + 2) /\ d * (q - 1) < d * a
  BY <1>1
<1>3. a \in {q, q + 1}
  BY <1>1, <1>2
<1>4. CASE a = q
  BY <1>1, <1>4 DEF RoundHalfEven, q, r
<1>5. CASE a = q + 1
  <2>1. d * a = d * q + d
    BY <1>1, <1>5
  <2>2. 2 * r > d
    BY <1>1, <2>1
  <2>. QED BY <2>2, <1>5 DEF RoundHalfEven, q, r
<1>. QED BY <1>3, <1>4, <1>5

\* Rounding changes a fraction by a half at most.
LEMMA RoundsByHalf ==
    ASSUME NEW x \in Int, NEW d \in Nat \ {0}
    PROVE  /\ RoundHalfEven(x, d) \in Int
           /\ 2 * (d * RoundHalfEven(x, d) - x) <= d /\ 2 * (x - d * RoundHalfEven(x, d)) <= d
<1> DEFINE q == x \div d
           r == x % d
<1>1. q \in Int /\ r \in 0 .. d - 1 /\ x = d * q + r
  OBVIOUS
<1>2. d * (q + 1) = d * q + d
  BY <1>1
<1>3. RoundHalfEven(x, d) = IF 2 * r > d \/ (2 * r = d /\ q % 2 = 1) THEN q + 1 ELSE q
  BY DEF RoundHalfEven
<1>. HIDE DEF q, r
<1>. QED BY <1>1, <1>2, <1>3

\* Every amount but 0 has an exponent.
LEMMA ExponentExists ==
    ASSUME NEW a \in Nat, a # 0
    PROVE  /\ Exponent(a) \in Nat
           /\ 50 * Power[Exponent(a)] <= 128 * a /\ 128 * a < 100 * Power[Exponent(a)]
<1> DEFINE T == {e \in Nat : 128 * a < 100 * Power[e]}
<1>1. a + 7 \in T
  <2>1. Power[1] = 2 /\ Power[2] = 4 /\ Power[3] = 8 /\ Power[4] = 16 /\ Power[5] = 32
        /\ Power[6] = 64 /\ Power[7] = 128
    <3>1. \A k \in 0 .. 6 : Power[k + 1] = 2 * Power[k]
      BY Powers
    <3>. QED BY <3>1, Powers
  <2>2. Power[7 + a] >= (a + 1) * 128
    BY <2>1, PowerGrows
  <2>. QED BY <2>2, Powers
<1>2. PICK e \in T : \A j \in T : e <= j
  <2>1. T \in SUBSET Nat
    OBVIOUS
  <2>. HIDE DEF T
  <2>. QED BY <1>1, <2>1, LeastNumber
<1>3. e \in 0 .. a + 7 /\ 128 * a < 100 * Power[e] /\ e # 0
  BY <1>1, <1>2, Powers
<1>4. e - 1 \in Nat /\ e - 1 \notin T /\ Power[e] = 2 * Power[e - 1]
  BY <1>2, <1>3, Powers
<1>5. 128 * a >= 100 * Power[e - 1]
  BY <1>4, Powers
<1>6. 128 * a \in 50 * Power[e] .. 100 * Power[e] - 1
  BY <1>3, <1>4, <1>5, Powers
<1>7. Exponent(a) \in 0 .. a + 7 /\ 128 * a \in 50 * Power[Exponent(a)] .. 100 * Power[Exponent(a)] - 1
  BY <1>3, <1>6 DEF Exponent
<1>. QED BY <1>7, Powers

\* Formatting gives the text of some amount, and below the limit of the amount itself: the
\* float is off by half of 2^-Bits of its own power of two, less than half a cent.
LEMMA FormatIsExact ==
    ASSUME NEW a \in Nat
    PROVE  /\ \E c \in Nat : FormatFloat(a) = Split(a, c)
           /\ a < Power[Bits - 1] => FormatFloat(a) = Split(a, a)
<1> DEFINE p == Power[Bits]
           g == Power[Exponent(a)]
           m == Mantissa(a)
           n == RoundHalfEven(Numerator(a), Denominator)
<1>1. p \in Nat \ {0} /\ Power[Bits - 1] \in Nat /\ 2 * Power[Bits - 1] = p
  BY ToolsAssumption, Powers
<1>2. CASE a = 0
  BY <1>2 DEF FormatFloat
<1>3. CASE a # 0
  <2>1. g \in Nat \ {0} /\ 50 * g <= 128 * a
    BY <1>3, ExponentExists, Powers
  <2>2. /\ m \in Int
        /\ 2 * (100 * g * m - 128 * p * a) <= 100 * g
        /\ 2 * (128 * p * a - 100 * g * m) <= 100 * g
    <3>1. 128 * p * a \in Int /\ 100 * g \in Nat \ {0}
      BY <1>1, <2>1
    <3>. QED BY <3>1, RoundsByHalf DEF Mantissa
  <2>3. Numerator(a) = 100 * m * g /\ Denominator = 128 * p
    BY DEF Numerator, Denominator
  <2>. HIDE DEF p, g, m
  <2>4. 100 * m * g = 100 * g * m /\ 100 * m * g \in Int /\ 128 * p \in Nat \ {0}
    BY <1>1, <2>1, <2>2
  <2>5. n \in Nat
    <3>1. 100 * m * g >= 0
      <4>1. 128 * p * a >= 0
        BY <1>1
      <4>2. m < 0 => g * m <= -g
        BY <2>1, <2>2
      <4>3. m >= 0
        <5>. DEFINE y == 128 * p * a
                    z == g * m
        <5>1. y \in Int /\ y >= 0 /\ z \in Int /\ 100 * g * m = 100 * z
          BY <1>1, <4>1, <2>1, <2>2
        <5>. HIDE DEF y, z
        <5>2. 2 * (y - 100 * z) <= 100 * g
          BY <2>2, <5>1 DEF y
        <5>3. m < 0 => z <= -g
          BY <4>2 DEF z
        <5>. QED BY <5>1, <5>2, <5>3, <2>1, <2>2
      <4>. QED BY <4>3, <2>1, <2>2
    <3>. DEFINE x == 100 * m * g
                d == 128 * p
    <3>2. x \in Int /\ x >= 0 /\ d \in Nat \ {0} /\ n = RoundHalfEven(x, d)
      BY <2>3, <2>4, <3>1
    <3>. HIDE DEF x, d, n
    <3>3. n \in Int /\ 2 * (x - d * n) <= d
      BY <3>2, RoundsByHalf
    <3>4. n < 0 => d * n <= -d
      BY <3>2, <3>3
    <3>. QED BY <3>2, <3>3, <3>4
  <2>6. a < Power[Bits - 1] => n = a
    <3>1. a < Power[Bits - 1] => 50 * g < 64 * p
      BY <1>1, <2>1
    <3>2. 128 * p * a = (128 * p) * a
      BY <1>1
    <3>. DEFINE x == 100 * m * g
                d == 128 * p
    <3>3. x \in Int /\ d \in Nat \ {0} /\ n = RoundHalfEven(x, d)
      BY <2>3, <2>4
    <3>4. a < Power[Bits - 1] => 2 * (x - d * a) < d /\ 2 * (d * a - x) < d
      BY <3>1, <3>2, <1>1, <2>1, <2>2, <2>4
    <3>. HIDE DEF x, d, n
    <3>. QED BY <3>3, <3>4, RoundsToNearest
  <2>7. FormatFloat(a) = Split(a, n)
    BY <1>3 DEF FormatFloat
  <2>. HIDE DEF n
  <2>. QED BY <2>5, <2>6, <2>7
<1>. QED BY <1>2, <1>3

-----------------------------------------------------------------------------
(* The theorems about AgentTools *)

\* A call of the two tools that need no floats has not been answered, or has been refused,
\* or has the answer to its arguments.
ToolsInv ==
    /\ call \in Refunds /\ result.ok =>
           RefundIsValid(call) /\ result = Split(Gross(call) - call.discount.n, Gross(call) - call.discount.n)
    /\ call \in Totals /\ result.ok =>
           /\ TotalIsValid(call)
           /\ result = FormatFloat(call.item.n + call.shipping.n - call.discount.n)
    /\ call \in Searches /\ result.ok =>
           /\ result.kbs = EffectiveKbs(call.kb_ids)
           /\ result.final_k = ResultCount(call.top_k)

LEMMA ToolsInvariant == ToolsSpec => []ToolsInv
<1>1. ToolsInit => ToolsInv
  BY DEF ToolsInit, ToolsInv, NoResult
<1>2. ToolsInv /\ [ToolsNext]_toolVars => ToolsInv'
  <2> SUFFICES ASSUME ToolsInv, [ToolsNext]_toolVars PROVE ToolsInv'
    OBVIOUS
  <2>1. CASE CalculateRefund
    BY <2>1, ToolsAssumption DEF CalculateRefund, ToolsInv, Refused
  <2>2. CASE CalculateTotal
    BY <2>2, ToolsAssumption DEF CalculateTotal, ToolsInv, Refused
  <2>3. CASE SearchKnowledge
    BY <2>3, ToolsAssumption DEF SearchKnowledge, ToolsInv, Refused
  <2>4. CASE UNCHANGED toolVars
    BY <2>4 DEF toolVars, ToolsInv
  <2>. QED BY <2>1, <2>2, <2>3, <2>4 DEF ToolsNext
<1>. QED BY <1>1, <1>2, PTL DEF ToolsSpec

\* A refund of any size is told in yuan and cents as it was calculated (calculate_refund of
\* internal/agents/order/tools.py).
THEOREM RefundCorrect == ToolsSpec => []RefundIsExact
<1>1. ToolsInv => RefundIsExact
  <2> SUFFICES ASSUME ToolsInv, result.ok, call \in Refunds
               PROVE  IsAmount /\ IsExact(Gross(call), call.discount)
    BY DEF RefundIsExact
  <2> DEFINE gross == Gross(call)
             less  == call.discount.n
  <2>1. gross \in Int /\ less \in Int /\ less <= gross /\ result = Split(gross - less, gross - less)
    <3>1. call.price.n \in Int /\ call.quantity.n \in Int /\ call.shipping.n \in Int /\ less \in Int
      BY ToolsAssumption
    <3>2. gross \in Int
      BY <3>1 DEF Gross
    <3>. QED BY <3>1, <3>2 DEF ToolsInv, RefundIsValid
  <2>. HIDE DEF gross, less
  <2>2. /\ result.amount = gross - less /\ result.yuan = (gross - less) \div 100
        /\ result.cents = (gross - less) % 100
    BY <2>1 DEF Split
  <2>3. /\ gross - less >= 0 /\ (gross - less) % 100 \in 0 .. 99
        /\ 100 * ((gross - less) \div 100) + ((gross - less) % 100) = gross - less
    BY <2>1
  <2>4. IsAmount
    BY <2>2, <2>3 DEF IsAmount
  <2>5. 100 * result.yuan + result.cents = result.amount /\ result.amount + less = gross
    BY <2>1, <2>2, <2>3
  <2>. QED BY <2>4, <2>5 DEF IsExact, gross, less
<1>. QED BY <1>1, ToolsInvariant, PTL

\* Whatever a model asks for, a search sees knowledge bases that the settings allow and that
\* were asked for (internal/services/rag.py), for any set of them.
THEOREM ScopeCorrect == ToolsSpec => []SearchIsInScope
<1>1. ToolsInv => SearchIsInScope
  <2> SUFFICES ASSUME ToolsInv, result.ok, call \in Searches
               PROVE  /\ result.kbs \subseteq AllowedKbs /\ result.final_k \in 1 .. 5
                      /\ call.kb_ids.is = "list" => result.kbs \subseteq call.kb_ids.ids
    BY DEF SearchIsInScope
  <2>1. call.top_k.n \in Int
    BY ToolsAssumption
  <2>2. ResultCount(call.top_k) \in 1 .. 5
    BY <2>1 DEF ResultCount
  <2>. QED BY <2>2 DEF ToolsInv, EffectiveKbs
<1>. QED BY <1>1, ToolsInvariant, PTL

\* The total of a payment is told exactly as long as it is below half of the cents that the
\* mantissa tells apart, and is never negative (calculate_total of
\* internal/agents/payment/tools.py), for every width of the mantissa.
THEOREM TotalCorrect == ToolsSpec => []TotalIsExact
<1>1. ToolsInv => TotalIsExact
  <2> SUFFICES ASSUME ToolsInv, result.ok, call \in Totals
               PROVE  /\ IsAmount
                      /\ result.amount < Power[Bits - 1] =>
                           IsExact(call.item.n + call.shipping.n, call.discount)
    BY DEF TotalIsExact
  <2> DEFINE gross == call.item.n + call.shipping.n
             less  == call.discount.n
             a     == gross - less
  <2>1. gross \in Int /\ less \in Int /\ a \in Nat /\ result = FormatFloat(a)
    <3>1. call.item.n \in Int /\ call.shipping.n \in Int /\ less \in Int
      BY ToolsAssumption
    <3>2. less <= gross
      BY DEF ToolsInv, TotalIsValid
    <3>. QED BY <3>1, <3>2 DEF ToolsInv
  <2>. HIDE DEF gross, less
  <2>2. PICK told \in Nat : result = Split(a, told) /\ (a < Power[Bits - 1] => told % 100 = a % 100 /\ told \div 100 = a \div 100)
    <3>1. CASE a < Power[Bits - 1]
      BY <2>1, <3>1, FormatIsExact
    <3>2. CASE ~(a < Power[Bits - 1])
      BY <2>1, <3>2, FormatIsExact
    <3>. QED BY <3>1, <3>2
  <2>3. result.amount = a /\ result.yuan = told \div 100 /\ result.cents = told % 100
    BY <2>2 DEF Split
  <2>4. told % 100 \in 0 .. 99 /\ 100 * (a \div 100) + (a % 100) = a /\ a + less = gross
    BY <2>1
  <2>5. IsAmount
    BY <2>1, <2>3, <2>4 DEF IsAmount
  <2>6. a < Power[Bits - 1] => 100 * result.yuan + result.cents = result.amount /\ result.amount + less = gross
    BY <2>2, <2>3, <2>4
  <2>. QED BY <2>3, <2>5, <2>6 DEF IsExact, gross, less
<1>. QED BY <1>1, ToolsInvariant, PTL

\* The tools answer what was asked, exactly and in scope, or refuse.
THEOREM ToolsCorrect == ToolsSpec => []ToolsAreExact
BY RefundCorrect, TotalCorrect, ScopeCorrect, PTL DEF ToolsAreExact

=============================================================================
