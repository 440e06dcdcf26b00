--------------------------- MODULE EndpointGuard ---------------------------
(***************************************************************************)
(* The middleware that refuses requests to endpoints an operator closed.   *)
(* The rules stand in Redis and in the settings; a process keeps the rules *)
(* it loaded last and asks Redis again when they are older than a TTL.     *)
(*                                                                         *)
(*   internal/middlewares/endpoint_guard.py                                *)
(*   internal/cache/endpoint_guard.py                                      *)
(*                                                                         *)
(* The handlers of one process interleave at the read from Redis, the only *)
(* await of a load.  A path is the sequence of its segments: "/v1/chat/"   *)
(* is <<"v1", "chat", "">>.                                                *)
(***************************************************************************)
EXTENDS Integers, Sequences

CONSTANTS
  Visit,        \* requests that reach the middleware
  MethodOf,     \* the method of each one, in upper case
  PathOf,       \* its path
  Payload,      \* what an operator may store under the Redis key
  Absent,       \* no value: no key in Redis, no expiry of a rule
  StaticRules,  \* the parsed rules of the settings
  Placeholder,  \* the segments of the form {name}
  GlobPairs,    \* the pairs of a glob pattern and a path that fnmatch accepts
  TTL,          \* cache_ttl_seconds
  FailOpen,     \* fail_open
  GuardEnabled, \* enabled
  MaxTime       \* bound of the clock

ASSUME GuardAssumption ==
  TTL \in Nat /\ FailOpen \in BOOLEAN /\ GuardEnabled \in BOOLEAN /\ MaxTime \in Nat

VARIABLES
  now,      \* the clock of the process
  stored,   \* the payload in Redis
  cached,   \* _cached_rules
  lastGood, \* _has_last_good
  loadedAt, \* _last_loaded_at
  visit,    \* where each request is
  began,    \* the clock each request read before it asked Redis
  fetched,  \* the payload that Redis answered to it, or Absent
  \* history
  seenAt    \* the last moment at which Redis could serve each rule set, -1 for never

guardVars == <<now, stored, cached, lastGood, loadedAt, visit, began, fetched, seenAt>>

Time == 0 .. MaxTime
Undecided == {"idle", "asking", "answered", "raised"}
Refusal   == {"disabled", "forbidden", "unavailable", "not_found"}
Verdict   == Refusal \cup {"passed"}

\* What a rule may be, before and after it is parsed.
Rule ==
  [wellFormed : BOOLEAN, rooted : BOOLEAN, enabled : BOOLEAN, methods : SUBSET (STRING \cup {"*"}),
   match : {"exact", "prefix", "glob", "template"}, path : Seq(STRING),
   expiresAt : Int \cup {Absent}, error : Refusal]

ASSUME RulesAssumption ==
  StaticRules \in Seq(Rule) /\ Payload \subseteq Seq(Rule) /\ Absent \notin Payload

-----------------------------------------------------------------------------
(* Rules *)

\* A rule that names no methods applies to '*'; blanks are dropped.
Methods(raw) == IF raw.methods = {} THEN {"*"} ELSE raw.methods \ {""}

\* The validators of a rule: it has a method, '*' stands alone, the path is rooted.
Valid(raw) ==
  /\ raw.wellFormed /\ raw.rooted
  /\ Methods(raw) # {}
  /\ "*" \in Methods(raw) => Methods(raw) = {"*"}

\* A payload is parsed as a whole: one bad rule refuses all of them.
Parses(payload) == payload # Absent => \A i \in DOMAIN payload : Valid(payload[i])
Parse(payload) ==
  IF payload = Absent THEN <<>>
  ELSE [i \in DOMAIN payload |-> [payload[i] EXCEPT !.methods = Methods(payload[i])]]

MethodMatches(methods, method) ==
  "*" \in methods \/ method \in methods \/ (method = "HEAD" /\ "GET" \in methods)

StartsWith(path, prefix) ==
  Len(prefix) <= Len(path) /\ SubSeq(path, 1, Len(prefix)) = prefix

PrefixMatches(rulePath, path) ==
  LET last == Len(rulePath)
  IN \/ path = rulePath
     \/ IF rulePath[last] = ""
        THEN StartsWith(path, SubSeq(rulePath, 1, last - 1)) /\ Len(path) >= last
        ELSE StartsWith(path, rulePath)

SplitPath(path) == SelectSeq(path, LAMBDA segment : segment # "")

TemplateMatches(rulePath, path) ==
  LET rule == SplitPath(rulePath)
      segments == SplitPath(path)
  IN /\ Len(rule) = Len(segments)
     /\ \A i \in DOMAIN rule : rule[i] \in Placeholder \/ rule[i] = segments[i]

RuleMatches(rule, method, path) ==
  /\ MethodMatches(rule.methods, method)
  /\ \/ rule.match = "exact" /\ path = rule.path
     \/ rule.match = "prefix" /\ PrefixMatches(rule.path, path)
     \/ rule.match = "glob" /\ <<rule.path, path>> \in GlobPairs
     \/ rule.match = "template" /\ TemplateMatches(rule.path, path)

IsActive(rule, time) ==
  rule.enabled /\ (rule.expiresAt = Absent \/ rule.expiresAt > time)

\* The first active rule that matches decides with which error the request is refused;
\* the rules of the settings come before those of Redis.
Decision(r, rules, time) ==
  LET all == StaticRules \o rules
      hits == {i \in DOMAIN all :
                 IsActive(all[i], time) /\ RuleMatches(all[i], MethodOf[r], PathOf[r])}
  IN IF hits = {} THEN "passed"
     ELSE all[CHOOSE i \in hits : \A j \in hits : i <= j].error

-----------------------------------------------------------------------------

\* The rule sets that can ever be in force.
RuleSets == {<<>>} \cup {Parse(p) : p \in {q \in Payload : Parses(q)}}

\* Redis holds the payload at a moment.
Seen(payload, time) ==
  IF Parses(payload) THEN [seenAt EXCEPT ![Parse(payload)] = time] ELSE seenAt

GuardInit ==
  /\ now = 0
  /\ stored \in Payload \cup {Absent}
  /\ cached = <<>> /\ lastGood = FALSE /\ loadedAt = 0
  /\ visit = [r \in Visit |-> "idle"]
  /\ began = [r \in Visit |-> 0]
  /\ fetched = [r \in Visit |-> Absent]
  /\ seenAt = [rules \in RuleSets |->
                 IF Parses(stored) /\ rules = Parse(stored) THEN 0 ELSE -1]

GuardTick ==
  /\ now < MaxTime
  /\ now' = now + 1
  /\ seenAt' = Seen(stored, now + 1)
  /\ UNCHANGED <<stored, cached, lastGood, loadedAt, visit, began, fetched>>

\* An operator writes the key, or it is deleted or evicted.
StoreRules(payload) ==
  /\ payload # stored
  /\ stored' = payload
  /\ seenAt' = Seen(payload, now)
  /\ UNCHANGED <<now, cached, lastGood, loadedAt, visit, began, fetched>>

\* The handler is done with the rules; its locals are gone.
Leave(r, verdict) ==
  /\ visit' = [visit EXCEPT ![r] = verdict]
  /\ began' = [began EXCEPT ![r] = 0]
  /\ fetched' = [fetched EXCEPT ![r] = Absent]

Guarded(r) == visit[r] = "idle" /\ GuardEnabled /\ MethodOf[r] # "OPTIONS"
Fresh      == lastGood /\ TTL > 0 /\ now - loadedAt < TTL

SkipGuard(r) ==
  /\ visit[r] = "idle" /\ ~Guarded(r)
  /\ Leave(r, "passed")
  /\ UNCHANGED <<now, stored, cached, lastGood, loadedAt, seenAt>>

\* The cached rules are young enough: the request is decided at once.
UseCached(r) ==
  /\ Guarded(r) /\ Fresh
  /\ Leave(r, Decision(r, cached, now))
  /\ UNCHANGED <<now, stored, cached, lastGood, loadedAt, seenAt>>

\* Otherwise the handler notes the clock and asks Redis.
BeginLoad(r) ==
  /\ Guarded(r) /\ ~Fresh
  /\ began' = [began EXCEPT ![r] = now]
  /\ visit' = [visit EXCEPT ![r] = "asking"]
  /\ UNCHANGED <<now, stored, cached, lastGood, loadedAt, fetched, seenAt>>

\* Redis answers, or the command raises.
ServeRules(r) ==
  /\ visit[r] = "asking"
  /\ \/ /\ visit' = [visit EXCEPT ![r] = "answered"]
        /\ fetched' = [fetched EXCEPT ![r] = stored]
     \/ visit' = [visit EXCEPT ![r] = "raised"] /\ UNCHANGED fetched
  /\ UNCHANGED <<now, stored, cached, lastGood, loadedAt, began, seenAt>>

InstallRules_LateClock(r) ==
  /\ visit[r] = "answered" /\ Parses(fetched[r])
  /\ cached' = Parse(fetched[r]) /\ lastGood' = TRUE /\ loadedAt' = now
  /\ Leave(r, Decision(r, Parse(fetched[r]), now))
  /\ UNCHANGED <<now, stored, seenAt>>

\* The handler resumes, perhaps after others loaded and installed newer rules.  The age of
\* what it installs counts from the clock it read before it asked.
InstallRules(r) ==
  /\ visit[r] = "answered" /\ Parses(fetched[r])
  /\ cached' = Parse(fetched[r]) /\ lastGood' = TRUE /\ loadedAt' = began[r]
  /\ Leave(r, Decision(r, Parse(fetched[r]), now))
  /\ UNCHANGED <<now, stored, seenAt>>

\* Redis failed or the payload is malformed: the last good rules serve for as long as it
\* takes; a process that has none passes everything or refuses everything.  The error of
\* this source also drops the rules of the settings.
FallBack(r) ==
  /\ visit[r] = "raised" \/ (visit[r] = "answered" /\ ~Parses(fetched[r]))
  /\ Leave(r, CASE lastGood -> Decision(r, cached, now)
                [] ~lastGood /\ FailOpen -> Decision(r, <<>>, now)
                [] ~lastGood /\ ~FailOpen -> "unavailable")
  /\ UNCHANGED <<now, stored, cached, lastGood, loadedAt, seenAt>>

\* The client goes away while the handler waits.
AbandonVisit(r) ==
  /\ visit[r] \in Undecided \ {"idle"}
  /\ Leave(r, "gone")
  /\ UNCHANGED <<now, stored, cached, lastGood, loadedAt, seenAt>>

GuardNext ==
  \/ GuardTick
  \/ \E payload \in Payload \cup {Absent} : StoreRules(payload)
  \/ \E r \in Visit :
       \/ SkipGuard(r) \/ UseCached(r) \/ BeginLoad(r) \/ ServeRules(r)
       \/ InstallRules(r) \/ FallBack(r) \/ AbandonVisit(r)

GuardSpec == GuardInit /\ [][GuardNext]_guardVars

-----------------------------------------------------------------------------
(* Properties *)

GuardTypeOK ==
  /\ now \in Time /\ stored \in Payload \cup {Absent}
  /\ cached \in RuleSets /\ lastGood \in BOOLEAN /\ loadedAt \in Time
  /\ visit \in [Visit -> Undecided \cup Verdict \cup {"gone"}]
  /\ began \in [Visit -> Time] /\ fetched \in [Visit -> Payload \cup {Absent}]
  /\ seenAt \in [RuleSets -> Time \cup {-1}]

\* The rules of a process stood in Redis, complete and well formed, at some moment; and
\* those a new request takes from the cache stood there less than a TTL ago, however slow
\* a load was and in whichever order concurrent loads came back, although the cache may
\* just have moved back to rules older than those it held.
RulesAreRecent ==
  lastGood => seenAt[cached] # -1 /\ (Fresh => seenAt[cached] + TTL > now)
=============================================================================
