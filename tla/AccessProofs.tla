---------------------------- MODULE AccessProofs ----------------------------
(***************************************************************************)
(* Proofs about what lets a request in and keeps it apart from the others: *)
(* the endpoint guard, accounts and auth sessions, and the scoped lock,    *)
(* for every set of requests and every value of the bounds.                *)
(*                                                                         *)
(*   GuardTypeCorrect  GuardSpec => []GuardTypeOK                          *)
(*   GuardCorrect      GuardSpec => []RulesAreRecent                       *)
(*   AuthTypeCorrect   AuthSpec => []AuthTypeOK                            *)
(*   AccountsCorrect   AuthSpec => []OneAccountPerIdentity                 *)
(*   LogoutCorrect     AuthSpec => []LogoutIsFinal                         *)
(*   LockTypeCorrect   LockSpec => []LockTypeOK                            *)
(*   LockCorrect       LockSpec => []LockIsExclusive                       *)
(***************************************************************************)
EXTENDS EndpointGuard, AuthSession, ScopedLock, WellFoundedInduction, TLAPS

-----------------------------------------------------------------------------
(* The endpoint guard *)

USE GuardAssumption, RulesAssumption

-----------------------------------------------------------------------------
(* The inductive invariant, in parts                                       *)

\* No rule set was seen after the present.
PastOnly == \A s \in RuleSets : seenAt[s] <= now

\* A rule set stands in Redis now if the payload parses to it.
StoredIsSeen == Parses(stored) => seenAt[Parse(stored)] = now

\* A request asked after it read the clock, and what it was answered stood in Redis then.
AnswersAreSeen ==
  \A r \in Visit :
    /\ began[r] <= now
    /\ visit[r] = "answered" /\ Parses(fetched[r]) => began[r] <= seenAt[Parse(fetched[r])]

\* So did the rules of the process, at or after the moment they are dated to.
CacheIsSeen == lastGood => loadedAt <= seenAt[cached]

GuardInv == GuardTypeOK /\ PastOnly /\ StoredIsSeen /\ AnswersAreSeen /\ CacheIsSeen

-----------------------------------------------------------------------------
(* Lemmas *)

\* What a payload of Redis parses to is a rule set.
LEMMA ParsesToRules ==
    ASSUME NEW p \in Payload \cup {Absent}, Parses(p)
    PROVE  Parse(p) \in RuleSets
<1>1. CASE p = Absent
    BY <1>1 DEF Parse, RuleSets
<1>2. CASE p # Absent
    BY <1>2 DEF RuleSets
<1>. QED BY <1>1, <1>2

\* A set of naturals has a least element.
LEMMA LeastElement ==
    ASSUME NEW T \in SUBSET Nat, T # {}
    PROVE  \E i \in T : \A j \in T : i <= j
<1> DEFINE R == {p \in Nat \X Nat : p[1] < p[2]}
<1>1. IsWellFoundedOn(R, Nat)
    BY NatLessThanWellFounded DEF OpToRel
<1>2. PICK i \in T : \A j \in T : <<j, i>> \notin R
    <2> HIDE DEF R
    <2>. QED BY <1>1, WFMin
<1>3. ASSUME NEW j \in T PROVE i <= j
    <2>1. <<j, i>> \notin R
        BY <1>2
    <2>. QED BY <2>1
<1>. QED BY <1>3

\* Rule sets consist of rules.
LEMMA RuleSetsAreRules == RuleSets \subseteq Seq(Rule)
<1>1. <<>> \in Seq(Rule)
    OBVIOUS
<1>2. ASSUME NEW p \in Payload, Parses(p)
      PROVE  Parse(p) \in Seq(Rule)
    <2> DEFINE Parsed(i) == [p[i] EXCEPT !.methods = Methods(p[i])]
    <2>1. p \in Seq(Rule) /\ p # Absent
        OBVIOUS
    <2>2. ASSUME NEW i \in 1 .. Len(p)
          PROVE  Parsed(i) \in Rule
        <3>1. p[i] \in Rule
            BY <2>1
        <3>2. Methods(p[i]) \in SUBSET (STRING \cup {"*"})
            <4>1. p[i].methods \in SUBSET (STRING \cup {"*"})
                BY <3>1 DEF Rule
            <4>2. {"*"} \in SUBSET (STRING \cup {"*"})
                OBVIOUS
            <4>. QED BY <4>1, <4>2 DEF Methods
        <3>. QED BY <3>1, <3>2 DEF Rule
    <2>3. Parse(p) = [i \in 1 .. Len(p) |-> Parsed(i)]
        BY <2>1 DEF Parse
    <2> HIDE DEF Parsed
    <2>. QED BY <2>1, <2>2, <2>3
<1>. QED BY <1>1, <1>2 DEF RuleSets

\* A request is always decided, whatever the rules.
LEMMA DecisionIsVerdict ==
    ASSUME NEW r \in Visit, NEW rules \in Seq(Rule), NEW t
    PROVE  Decision(r, rules, t) \in Verdict
<1> DEFINE all == StaticRules \o rules
<1> DEFINE hits == {i \in DOMAIN all : IsActive(all[i], t) /\ RuleMatches(all[i], MethodOf[r], PathOf[r])}
<1>1. Decision(r, rules, t) =
        IF hits = {} THEN "passed" ELSE all[CHOOSE i \in hits : \A j \in hits : i <= j].error
    BY DEF Decision
<1>2. all \in Seq(Rule)
    OBVIOUS
<1>3. hits \in SUBSET DOMAIN all
    OBVIOUS
<1> HIDE DEF hits, all
<1>4. CASE hits # {}
    <2>1. hits \in SUBSET Nat
        BY <1>2, <1>3
    <2>2. \E i \in hits : \A j \in hits : i <= j
        BY <1>4, <2>1, LeastElement
    <2> DEFINE first == CHOOSE i \in hits : \A j \in hits : i <= j
    <2>3. first \in hits
        BY <2>2
    <2> HIDE DEF first
    <2>4. all[first] \in Rule
        BY <1>2, <1>3, <2>3
    <2>5. all[first].error \in Refusal
        BY <2>4 DEF Rule
    <2>. QED BY <1>1, <1>4, <2>5 DEF Verdict, first
<1>. QED BY <1>1, <1>4 DEF Verdict

\* Time passes for what stands in Redis, and no rule set is seen less recently than before.
LEMMA SeeingIsMonotone ==
    ASSUME GuardTypeOK, PastOnly, NEW p \in Payload \cup {Absent}, NEW t \in Time, now <= t,
           seenAt' = Seen(p, t)
    PROVE  /\ seenAt' \in [RuleSets -> Time \cup {-1}]
           /\ Parses(p) => seenAt'[Parse(p)] = t
           /\ \A s \in RuleSets : seenAt[s] <= seenAt'[s] /\ seenAt'[s] <= t
<1>1. seenAt \in [RuleSets -> Time \cup {-1}] /\ now \in Time
    BY DEF GuardTypeOK
<1>2. \A s \in RuleSets : seenAt[s] \in Int /\ seenAt[s] <= now
    BY <1>1 DEF Time, PastOnly
<1>3. now \in Int /\ t \in Int
    BY <1>1 DEF Time
<1>4. CASE Parses(p)
    <2>1. Parse(p) \in RuleSets
        BY <1>4, ParsesToRules
    <2>2. seenAt' = [seenAt EXCEPT ![Parse(p)] = t]
        BY <1>4 DEF Seen
    <2>3. seenAt' \in [RuleSets -> Time \cup {-1}]
        BY <1>1, <2>2
    <2>4. \A s \in RuleSets : seenAt'[s] = IF s = Parse(p) THEN t ELSE seenAt[s]
        BY <1>1, <2>2
    <2>. QED BY <1>2, <1>3, <2>1, <2>3, <2>4
<1>5. CASE ~Parses(p)
    <2>1. seenAt' = seenAt
        BY <1>5 DEF Seen
    <2>. QED BY <1>1, <1>2, <1>3, <1>5, <2>1
<1>. QED BY <1>4, <1>5

-----------------------------------------------------------------------------
(* The invariant holds                                                     *)

LEMMA GuardInvariantSuffices == GuardInv => RulesAreRecent
<1> SUFFICES ASSUME GuardInv, lastGood
             PROVE  seenAt[cached] # -1 /\ (Fresh => seenAt[cached] + TTL > now)
    BY DEF RulesAreRecent
<1>1. now \in Nat /\ loadedAt \in Nat /\ seenAt[cached] \in Nat \cup {-1} /\ loadedAt <= seenAt[cached]
    BY DEF GuardInv, GuardTypeOK, CacheIsSeen, Time
<1>. QED BY <1>1 DEF Fresh

LEMMA GuardInitHolds == GuardInit => GuardInv
<1> SUFFICES ASSUME GuardInit PROVE GuardInv
    OBVIOUS
<1>1. 0 \in Time /\ <<>> \in RuleSets
    BY DEF Time, RuleSets
<1>2. Parses(stored) => Parse(stored) \in RuleSets
    BY ParsesToRules DEF GuardInit
<1>3. GuardTypeOK
    BY <1>1 DEF GuardInit, GuardTypeOK, Undecided
<1>4. PastOnly /\ StoredIsSeen
    BY <1>2 DEF GuardInit, PastOnly, StoredIsSeen
<1>5. AnswersAreSeen /\ CacheIsSeen
    BY DEF GuardInit, AnswersAreSeen, CacheIsSeen
<1>. QED BY <1>3, <1>4, <1>5 DEF GuardInv

\* The clock and the payload change together with what has been seen.
LEMMA RedisHolds ==
    ASSUME GuardInv, NEW p \in Payload \cup {Absent}, NEW t \in Time, now <= t,
           now' = t, stored' = p, seenAt' = Seen(p, t),
           UNCHANGED <<cached, lastGood, loadedAt, visit, began, fetched>>
    PROVE  GuardInv'
<1>1. /\ seenAt' \in [RuleSets -> Time \cup {-1}]
      /\ Parses(p) => seenAt'[Parse(p)] = t
      /\ \A s \in RuleSets : seenAt[s] <= seenAt'[s] /\ seenAt'[s] <= t
    BY SeeingIsMonotone DEF GuardInv
<1>2. now \in Nat /\ t \in Nat /\ loadedAt \in Nat
    BY DEF GuardInv, GuardTypeOK, Time
<1>3. \A s \in RuleSets : seenAt[s] \in Int /\ seenAt'[s] \in Int
    BY <1>1 DEF GuardInv, GuardTypeOK, Time
<1>4. GuardTypeOK'
    BY <1>1 DEF GuardInv, GuardTypeOK
<1>5. PastOnly' /\ StoredIsSeen'
    BY <1>1 DEF PastOnly, StoredIsSeen
<1>6. AnswersAreSeen'
    <2> SUFFICES ASSUME NEW r \in Visit
                 PROVE  /\ began[r] <= t
                        /\ visit[r] = "answered" /\ Parses(fetched[r]) =>
                             began[r] <= seenAt'[Parse(fetched[r])]
        BY DEF AnswersAreSeen
    <2>1. began[r] \in Nat /\ fetched[r] \in Payload \cup {Absent}
        BY DEF GuardInv, GuardTypeOK, Time
    <2>2. Parses(fetched[r]) => Parse(fetched[r]) \in RuleSets
        BY <2>1, ParsesToRules
    <2>3. began[r] <= now
        BY DEF GuardInv, AnswersAreSeen
    <2>4. ASSUME visit[r] = "answered", Parses(fetched[r])
          PROVE  began[r] <= seenAt'[Parse(fetched[r])]
        <3>1. began[r] <= seenAt[Parse(fetched[r])]
            BY <2>4 DEF GuardInv, AnswersAreSeen
        <3>. QED BY <1>1, <1>3, <2>1, <2>2, <2>4, <3>1
    <2>. QED BY <1>2, <2>1, <2>3, <2>4
<1>7. CacheIsSeen'
    BY <1>1, <1>2, <1>3 DEF GuardInv, GuardTypeOK, CacheIsSeen
<1>. QED BY <1>4, <1>5, <1>6, <1>7 DEF GuardInv

\* A request that is done holds no answer any more.
LEMMA LeaveHolds ==
    ASSUME GuardInv, NEW r \in Visit, NEW verdict \in Verdict \cup {"gone"}, Leave(r, verdict),
           UNCHANGED <<now, stored, seenAt>>, UNCHANGED <<cached, lastGood, loadedAt>>
    PROVE  GuardInv'
<1>1. GuardTypeOK'
    BY DEF GuardInv, GuardTypeOK, Leave, Time
<1>2. AnswersAreSeen'
    BY DEF GuardInv, GuardTypeOK, AnswersAreSeen, Leave, Verdict, Refusal, Time
<1>. QED BY <1>1, <1>2 DEF GuardInv, PastOnly, StoredIsSeen, CacheIsSeen

\* The request asks Redis after it has read the clock.
LEMMA BeginLoadHolds ==
    ASSUME GuardInv, NEW r \in Visit, BeginLoad(r)
    PROVE  GuardInv'
<1>1. GuardTypeOK'
    BY DEF GuardInv, GuardTypeOK, BeginLoad, Undecided
<1>2. AnswersAreSeen'
    BY DEF GuardInv, GuardTypeOK, AnswersAreSeen, BeginLoad, Time
<1>. QED BY <1>1, <1>2 DEF GuardInv, PastOnly, StoredIsSeen, CacheIsSeen, BeginLoad

\* Redis answers with what stands there now.
LEMMA ServeRulesHolds ==
    ASSUME GuardInv, NEW r \in Visit, ServeRules(r)
    PROVE  GuardInv'
<1>1. GuardTypeOK'
    BY DEF GuardInv, GuardTypeOK, ServeRules, Undecided
<1>2. AnswersAreSeen'
    BY DEF GuardInv, GuardTypeOK, AnswersAreSeen, StoredIsSeen, ServeRules
<1>. QED BY <1>1, <1>2 DEF GuardInv, PastOnly, StoredIsSeen, CacheIsSeen, ServeRules

\* What is installed was seen after the clock was read that dates it.
LEMMA InstallRulesHolds ==
    ASSUME GuardInv, NEW r \in Visit, InstallRules(r)
    PROVE  GuardInv'
<1>1. fetched[r] \in Payload \cup {Absent} /\ Parses(fetched[r]) /\ began[r] \in Time
    BY DEF InstallRules, GuardInv, GuardTypeOK
<1>2. Parse(fetched[r]) \in RuleSets
    BY <1>1, ParsesToRules
<1>3. Decision(r, Parse(fetched[r]), now) \in Verdict
    BY <1>2, RuleSetsAreRules, DecisionIsVerdict
<1>4. GuardTypeOK'
    BY <1>1, <1>2, <1>3 DEF GuardInv, GuardTypeOK, InstallRules, Leave, Time
<1>5. AnswersAreSeen'
    BY <1>3 DEF GuardInv, GuardTypeOK, AnswersAreSeen, InstallRules, Leave, Verdict, Refusal, Time
<1>6. CacheIsSeen'
    BY DEF GuardInv, AnswersAreSeen, CacheIsSeen, InstallRules
<1>. QED BY <1>4, <1>5, <1>6 DEF GuardInv, PastOnly, StoredIsSeen, InstallRules

\* Whichever rules serve, the request is decided by them.
LEMMA DecidedHolds ==
    ASSUME GuardInv, NEW r \in Visit,
           SkipGuard(r) \/ UseCached(r) \/ FallBack(r) \/ AbandonVisit(r)
    PROVE  GuardInv'
<1>1. cached \in Seq(Rule) /\ <<>> \in Seq(Rule)
    BY RuleSetsAreRules DEF GuardInv, GuardTypeOK
<1>2. Decision(r, cached, now) \in Verdict /\ Decision(r, <<>>, now) \in Verdict
    BY <1>1, DecisionIsVerdict
<1>3. CASE SkipGuard(r)
    BY <1>3, LeaveHolds DEF SkipGuard, Verdict
<1>4. CASE UseCached(r)
    BY <1>2, <1>4, LeaveHolds DEF UseCached
<1>5. CASE FallBack(r)
    <2>1. CASE lastGood
        <3>1. Leave(r, Decision(r, cached, now))
            BY <1>5, <2>1 DEF FallBack
        <3>. QED BY <1>2, <1>5, <3>1, LeaveHolds DEF FallBack
    <2>2. CASE ~lastGood /\ FailOpen
        <3>1. Leave(r, Decision(r, <<>>, now))
            BY <1>5, <2>2 DEF FallBack
        <3>. QED BY <1>2, <1>5, <3>1, LeaveHolds DEF FallBack
    <2>3. CASE ~lastGood /\ ~FailOpen
        <3>1. Leave(r, "unavailable")
            BY <1>5, <2>3 DEF FallBack
        <3>. QED BY <1>5, <3>1, LeaveHolds DEF FallBack, Verdict, Refusal
    <2>. QED BY <2>1, <2>2, <2>3 DEF GuardInv, GuardTypeOK
<1>6. CASE AbandonVisit(r)
    BY <1>6, LeaveHolds DEF AbandonVisit
<1>. QED BY <1>3, <1>4, <1>5, <1>6

LEMMA GuardStepHolds == GuardInv /\ [GuardNext]_guardVars => GuardInv'
<1> SUFFICES ASSUME GuardInv, [GuardNext]_guardVars
             PROVE  GuardInv'
    OBVIOUS
<1>1. CASE GuardTick
    <2>1. now + 1 \in Time /\ now <= now + 1 /\ stored \in Payload \cup {Absent}
        BY <1>1 DEF GuardTick, GuardInv, GuardTypeOK, Time
    <2>. QED BY <1>1, <2>1, RedisHolds DEF GuardTick
<1>2. ASSUME NEW p \in Payload \cup {Absent}, StoreRules(p)
      PROVE  GuardInv'
    <2>1. now \in Time /\ now <= now
        BY DEF GuardInv, GuardTypeOK, Time
    <2>. QED BY <1>2, <2>1, RedisHolds DEF StoreRules
<1>3. ASSUME NEW r \in Visit, BeginLoad(r) PROVE GuardInv'
    BY <1>3, BeginLoadHolds
<1>4. ASSUME NEW r \in Visit, ServeRules(r) PROVE GuardInv'
    BY <1>4, ServeRulesHolds
<1>5. ASSUME NEW r \in Visit, InstallRules(r) PROVE GuardInv'
    BY <1>5, InstallRulesHolds
<1>6. ASSUME NEW r \in Visit, SkipGuard(r) \/ UseCached(r) \/ FallBack(r) \/ AbandonVisit(r)
      PROVE  GuardInv'
    BY <1>6, DecidedHolds
<1>7. CASE UNCHANGED guardVars
    BY <1>7 DEF guardVars, GuardInv, GuardTypeOK, PastOnly, StoredIsSeen, AnswersAreSeen, CacheIsSeen
<1>. QED BY <1>1, <1>2, <1>3, <1>4, <1>5, <1>6, <1>7 DEF GuardNext

-----------------------------------------------------------------------------
(* Theorems                                                                *)

\* The inductive invariant holds.
THEOREM GuardInvariant == GuardSpec => []GuardInv
<1>. QED BY GuardInitHolds, GuardStepHolds, PTL DEF GuardSpec

\* Every variable of the middleware keeps its type; above all every request that is decided
\* is decided with a verdict, whatever rules are in force.
THEOREM GuardTypeCorrect == GuardSpec => []GuardTypeOK
<1>1. GuardInv => GuardTypeOK
    BY DEF GuardInv
<1>. QED BY <1>1, GuardInvariant, PTL

\* The rules of a process stood in Redis at some moment, and those it takes from its cache
\* less than a TTL ago, in whichever order concurrent loads come back.
THEOREM GuardCorrect == GuardSpec => []RulesAreRecent
<1>. QED BY GuardInvariantSuffices, GuardInvariant, PTL

HIDE GuardAssumption
HIDE RulesAssumption

-----------------------------------------------------------------------------
(* Accounts and auth sessions *)

USE SignInAssumption, CheckAssumption

-----------------------------------------------------------------------------
(* The inductive invariant of the accounts, in parts                       *)

\* Only an external sign-in inserts an identity, and no other takes that path.
StepsOfKind ==
    \A r \in SignIn :
        /\ step[r] \in {"insert", "reread"} => KindOf[r] = "external"
        /\ step[r] = "hash" => KindOf[r] = "register"

\* The identity that an account was created for leads to that account.
OwnIdentity == \A u \in users \cap External : identity[SubjectOf[u]].user = u

\* A sign-in resolves to an account that exists; an external one to that of its identity.
ResolvedIsKnown ==
    \A r \in SignIn : step[r] = "resolved" =>
        /\ account[r] \in users
        /\ KindOf[r] = "external" => identity[SubjectOf[r]].user = account[r]

AccountInv == AccountTypeOK /\ StepsOfKind /\ OwnIdentity /\ ResolvedIsKnown

-----------------------------------------------------------------------------
(* The inductive invariant of the sessions, in parts                       *)

\* A session is saved only for a sign-in that resolved, and names its account.
SavedIsResolved ==
    \A r \in SignIn :
        /\ saving[r] \in {"list", "answered"} => step[r] = "resolved"
        /\ metadata[r] # NoUser => step[r] = "resolved" /\ metadata[r] = account[r]

\* Who presents a token got it from a sign-in, and is let in as its user.
CheckedIsAnswered ==
    \A c \in Check :
        /\ check[c] # "idle" => saving[TokenOf[c]] = "answered"
        /\ check[c] \in {"list", "accepted", "remove", "out"} =>
             principal[c] = account[TokenOf[c]]

\* A token that was logged out has no metadata, and never gets any again.
LoggedOutIsGone ==
    /\ \A c \in Check : check[c] = "remove" => metadata[TokenOf[c]] = NoUser
    /\ \A t \in loggedOut : saving[t] = "answered" /\ metadata[t] = NoUser

\* Whoever presents it then is refused, for good.
LateIsRefused == \A c \in late : check[c] = "refused"

AuthInv ==
    /\ AuthTypeOK /\ AccountInv
    /\ SavedIsResolved /\ CheckedIsAnswered /\ LoggedOutIsGone /\ LateIsRefused

-----------------------------------------------------------------------------
(* The parts imply the properties                                          *)

LEMMA AuthInvariantSuffices == AuthInv => OneAccountPerIdentity /\ LogoutIsFinal
<1> SUFFICES ASSUME AuthInv PROVE OneAccountPerIdentity /\ LogoutIsFinal
    OBVIOUS
<1>1. OneAccountPerIdentity
    BY DEF AuthInv, AccountInv, OwnIdentity, ResolvedIsKnown, OneAccountPerIdentity, External
<1>2. LogoutIsFinal
    BY DEF AuthInv, AuthTypeOK, CheckedIsAnswered, LateIsRefused, LogoutIsFinal, LetIn
<1>. QED BY <1>1, <1>2

-----------------------------------------------------------------------------
(* Accounts                                                                *)

LEMMA AccountInitHolds == AccountInit => AccountInv
BY DEF AccountInit, AccountInv, AccountTypeOK, StepsOfKind, OwnIdentity, ResolvedIsKnown, NoRow

LEMMA FindIdentityHolds ==
    ASSUME AccountInv, NEW r \in SignIn, FindIdentity(r)
    PROVE  AccountInv'
<1> DEFINE i == SubjectOf[r]
<1>1. i \in Identity /\ KindOf[r] = "external" /\ step[r] = "idle"
    BY DEF FindIdentity
<1>2. UNCHANGED <<users, closed>>
    BY DEF FindIdentity
<1>3. CASE /\ identity[i].user \in Active
           /\ identity' = [identity EXCEPT ![i].deleted = FALSE]
           /\ Committed(r, identity[i].user)
    <2>1. identity' \in [Identity -> [user : SignIn \cup {NoUser}, deleted : BOOLEAN]]
        BY <1>1, <1>3 DEF AccountInv, AccountTypeOK
    <2>2. \A j \in Identity : identity'[j].user = identity[j].user
        BY <1>1, <1>3 DEF AccountInv, AccountTypeOK
    <2>3. identity[i].user \in users
        BY <1>3 DEF Active
    <2> HIDE DEF i
    <2>4. AccountTypeOK'
        BY <1>2, <1>3, <2>1, <2>3 DEF AccountInv, AccountTypeOK, Committed, Resolve, FailSignIn, StepTo
    <2>5. StepsOfKind'
        BY <1>3 DEF AccountInv, AccountTypeOK, StepsOfKind, Committed, Resolve, FailSignIn, StepTo
    <2>6. OwnIdentity'
        BY <1>2, <2>2 DEF AccountInv, AccountTypeOK, OwnIdentity, External
    <2>7. ResolvedIsKnown'
        BY <1>1, <1>2, <1>3, <2>2, <2>3
        DEF AccountInv, AccountTypeOK, ResolvedIsKnown, Committed, Resolve, FailSignIn, StepTo, i
    <2>. QED BY <2>4, <2>5, <2>6, <2>7 DEF AccountInv
<1>4. CASE UNCHANGED identity /\ (FailSignIn(r) \/ StepTo(r, "insert"))
    BY <1>1, <1>2, <1>4 DEF AccountInv, AccountTypeOK, StepsOfKind, OwnIdentity, ResolvedIsKnown,
                            FailSignIn, StepTo
<1>. QED BY <1>3, <1>4 DEF FindIdentity

LEMMA InsertAccountHolds ==
    ASSUME AccountInv, NEW r \in SignIn, InsertAccount(r)
    PROVE  AccountInv'
<1> DEFINE i == SubjectOf[r]
<1>1. KindOf[r] = "external" /\ step[r] = "insert" /\ closed' = closed
    BY DEF InsertAccount, AccountInv, StepsOfKind
<1>2. i \in Identity
    BY <1>1
<1>3. CASE identity[i] = NoRow
    <2>1. users' = users \cup {r} /\ identity' = [identity EXCEPT ![i] = Row(r)] /\ Committed(r, r)
        BY <1>3 DEF InsertAccount
    <2>2. identity' \in [Identity -> [user : SignIn \cup {NoUser}, deleted : BOOLEAN]]
        BY <1>2, <2>1 DEF AccountInv, AccountTypeOK, Row
    <2>3. \A j \in Identity : identity'[j].user = IF j = i THEN r ELSE identity[j].user
        BY <1>2, <2>1 DEF AccountInv, AccountTypeOK, Row
    <2>4. identity[i].user = NoUser
        BY <1>3 DEF NoRow
    <2> HIDE DEF i
    <2>5. AccountTypeOK'
        BY <1>1, <2>1, <2>2 DEF AccountInv, AccountTypeOK, Committed, Resolve, FailSignIn, StepTo
    <2>6. StepsOfKind'
        BY <2>1 DEF AccountInv, AccountTypeOK, StepsOfKind, Committed, Resolve, FailSignIn, StepTo
    <2>7. OwnIdentity'
        BY <1>1, <2>1, <2>3, <2>4 DEF AccountInv, AccountTypeOK, OwnIdentity, External, i
    <2>8. ResolvedIsKnown'
        BY <1>1, <2>1, <2>3, <2>4
        DEF AccountInv, AccountTypeOK, ResolvedIsKnown, Committed, Resolve, FailSignIn, StepTo, i
    <2>. QED BY <2>5, <2>6, <2>7, <2>8 DEF AccountInv
<1>4. CASE identity[i] # NoRow
    <2>1. StepTo(r, "reread") /\ UNCHANGED <<users, identity>>
        BY <1>4 DEF InsertAccount
    <2>. QED BY <1>1, <2>1 DEF AccountInv, AccountTypeOK, StepsOfKind, OwnIdentity, ResolvedIsKnown,
                               StepTo
<1>. QED BY <1>3, <1>4

LEMMA RereadIdentityHolds ==
    ASSUME AccountInv, NEW r \in SignIn, RereadIdentity(r)
    PROVE  AccountInv'
<1> DEFINE u == identity[SubjectOf[r]].user
<1>1. KindOf[r] = "external" /\ step[r] = "reread" /\ UNCHANGED <<users, closed, identity>>
    BY DEF RereadIdentity, AccountInv, StepsOfKind
<1>2. CASE u \in users /\ Resolve(r, u)
    BY <1>1, <1>2 DEF AccountInv, AccountTypeOK, StepsOfKind, OwnIdentity, ResolvedIsKnown, Resolve
<1>3. CASE FailSignIn(r)
    BY <1>1, <1>3 DEF AccountInv, AccountTypeOK, StepsOfKind, OwnIdentity, ResolvedIsKnown,
                      FailSignIn, StepTo
<1>. QED BY <1>2, <1>3 DEF RereadIdentity, Active

\* Names and phone numbers lead to accounts, but not to identities.
LEMMA NameHolds ==
    ASSUME AccountInv, NEW r \in SignIn,
           CheckPhone(r) \/ InsertUser(r) \/ LoginByName(r) \/ GiveUpSignIn(r)
    PROVE  AccountInv'
<1>1. CASE CheckPhone(r)
    BY <1>1 DEF CheckPhone, AccountInv, AccountTypeOK, StepsOfKind, OwnIdentity, ResolvedIsKnown,
                FailSignIn, StepTo
<1>2. CASE InsertUser(r)
    <2>1. KindOf[r] = "register"
        BY <1>2 DEF InsertUser, AccountInv, StepsOfKind
    <2>. QED BY <1>2, <2>1
         DEF InsertUser, AccountInv, AccountTypeOK, StepsOfKind, OwnIdentity, ResolvedIsKnown, External,
             Committed, Resolve, FailSignIn, StepTo
<1>3. CASE LoginByName(r)
    <2>1. KindOf[r] = "password" /\ UNCHANGED <<users, closed, identity>>
        BY <1>3 DEF LoginByName
    <2>2. PICK u \in users : Resolve(r, u) \/ FailSignIn(r)
        BY <1>3 DEF LoginByName, Active
    <2>. QED BY <2>1, <2>2 DEF AccountInv, AccountTypeOK, StepsOfKind, OwnIdentity, ResolvedIsKnown,
                               Resolve, FailSignIn, StepTo
<1>4. CASE GiveUpSignIn(r)
    BY <1>4 DEF GiveUpSignIn, AccountInv, AccountTypeOK, StepsOfKind, OwnIdentity, ResolvedIsKnown,
                FailSignIn, StepTo
<1>. QED BY <1>1, <1>2, <1>3, <1>4

LEMMA DeletionHolds ==
    ASSUME AccountInv,
           \/ \E u \in SignIn : CloseUser(u)
           \/ \E i \in Identity : DropIdentity(i)
    PROVE  AccountInv'
<1>1. ASSUME NEW u \in SignIn, CloseUser(u) PROVE AccountInv'
    BY <1>1 DEF CloseUser, Active, AccountInv, AccountTypeOK, StepsOfKind, OwnIdentity, ResolvedIsKnown
<1>2. ASSUME NEW i \in Identity, DropIdentity(i) PROVE AccountInv'
    <2>1. identity' = [identity EXCEPT ![i].deleted = TRUE]
        BY <1>2 DEF DropIdentity
    <2>2. identity' \in [Identity -> [user : SignIn \cup {NoUser}, deleted : BOOLEAN]]
        BY <2>1 DEF AccountInv, AccountTypeOK
    <2>3. \A j \in Identity : identity'[j].user = identity[j].user
        BY <2>1 DEF AccountInv, AccountTypeOK
    <2>. QED BY <1>2, <2>2, <2>3 DEF DropIdentity, AccountInv, AccountTypeOK, StepsOfKind, OwnIdentity,
                                     ResolvedIsKnown, External
<1>. QED BY <1>1, <1>2

LEMMA AccountStepHolds == AccountInv /\ [AccountNext]_accountVars => AccountInv'
<1> SUFFICES ASSUME AccountInv, [AccountNext]_accountVars PROVE AccountInv'
    OBVIOUS
<1>1. CASE UNCHANGED accountVars
    BY <1>1 DEF accountVars, AccountInv, AccountTypeOK, StepsOfKind, OwnIdentity, ResolvedIsKnown
<1>. QED BY <1>1, FindIdentityHolds, InsertAccountHolds, RereadIdentityHolds, NameHolds, DeletionHolds
     DEF AccountNext

\* A sign-in that resolved stays with its account.
LEMMA ResolutionIsFinal ==
    ASSUME AccountInv, AccountNext, NEW r \in SignIn, step[r] = "resolved"
    PROVE  step'[r] = "resolved" /\ account'[r] = account[r]
<1>1. ASSUME NEW q \in SignIn, NEW u, step[q] # "resolved",
             Resolve(q, u) \/ \E p \in {"failed", "insert", "reread", "hash"} : StepTo(q, p)
      PROVE  step'[r] = "resolved" /\ account'[r] = account[r]
    BY <1>1 DEF AccountInv, AccountTypeOK, Resolve, StepTo
<1>2. ASSUME NEW q \in SignIn, FindIdentity(q) \/ InsertAccount(q) \/ RereadIdentity(q)
      PROVE  step'[r] = "resolved" /\ account'[r] = account[r]
    BY <1>1, <1>2 DEF FindIdentity, InsertAccount, RereadIdentity, Committed, FailSignIn
<1>3. ASSUME NEW q \in SignIn, CheckPhone(q) \/ InsertUser(q) \/ LoginByName(q) \/ GiveUpSignIn(q)
      PROVE  step'[r] = "resolved" /\ account'[r] = account[r]
    BY <1>1, <1>3 DEF CheckPhone, InsertUser, LoginByName, GiveUpSignIn, Committed, FailSignIn
<1>. QED BY <1>2, <1>3 DEF AccountNext, CloseUser, DropIdentity

-----------------------------------------------------------------------------
(* Sessions                                                                *)

LEMMA AuthInitHolds == AuthInit => AuthInv
<1> SUFFICES ASSUME AuthInit PROVE AuthInv
    OBVIOUS
<1>1. AccountInv
    BY AccountInitHolds DEF AuthInit
<1>2. AuthTypeOK
    BY <1>1 DEF AuthInit, AuthTypeOK, AccountInv
<1>3. SavedIsResolved /\ CheckedIsAnswered /\ LoggedOutIsGone /\ LateIsRefused
    BY DEF AuthInit, SavedIsResolved, CheckedIsAnswered, LoggedOutIsGone, LateIsRefused
<1>. QED BY <1>1, <1>2, <1>3 DEF AuthInv

LEMMA AccountsHold ==
    ASSUME AuthInv, AccountNext, UNCHANGED sessionVars
    PROVE  AuthInv'
<1>1. AccountInv'
    BY AccountStepHolds DEF AuthInv
<1>2. \A r \in SignIn : step[r] = "resolved" => step'[r] = "resolved" /\ account'[r] = account[r]
    BY ResolutionIsFinal DEF AuthInv
<1>3. AuthTypeOK'
    BY <1>1 DEF AuthInv, AuthTypeOK, AccountInv, sessionVars
<1>4. SavedIsResolved'
    BY <1>2 DEF AuthInv, SavedIsResolved, sessionVars
<1>5. CheckedIsAnswered'
    <2> SUFFICES ASSUME NEW c \in Check
                 PROVE  /\ check[c] # "idle" => saving[TokenOf[c]] = "answered"
                        /\ check[c] \in {"list", "accepted", "remove", "out"} =>
                             principal[c] = account'[TokenOf[c]]
        BY DEF CheckedIsAnswered, sessionVars
    <2>1. TokenOf[c] \in SignIn
        OBVIOUS
    <2>2. check[c] # "idle" => step[TokenOf[c]] = "resolved"
        BY <2>1 DEF AuthInv, SavedIsResolved, CheckedIsAnswered
    <2>. QED BY <1>2, <2>1, <2>2 DEF AuthInv, CheckedIsAnswered
<1>6. LoggedOutIsGone' /\ LateIsRefused'
    BY DEF AuthInv, LoggedOutIsGone, LateIsRefused, sessionVars
<1>. QED BY <1>1, <1>3, <1>4, <1>5, <1>6 DEF AuthInv

\* The accounts do not change with the sessions.
LEMMA AccountsKept == ASSUME AccountInv, UNCHANGED accountVars PROVE AccountInv'
BY AccountStepHolds

LEMMA SaveHolds ==
    ASSUME AuthInv, NEW r \in Served,
           SaveMetadata(r) \/ PushToken(r) \/ FailSave(r) \/ ExpireMetadata(r)
    PROVE  AuthInv'
<1>1. r \in SignIn /\ AccountInv'
    BY AccountsKept DEF AuthInv, SaveMetadata, PushToken, FailSave, ExpireMetadata
<1>2. account[r] \in SignIn \cup {NoUser}
    BY <1>1 DEF AuthInv, AuthTypeOK, AccountTypeOK
<1>3. CASE SaveMetadata(r)
    <2>1. AuthTypeOK'
        BY <1>1, <1>2, <1>3 DEF AuthInv, AuthTypeOK, AccountInv, SaveMetadata, SaveTo
    <2>2. SavedIsResolved'
        BY <1>1, <1>3 DEF AuthInv, AuthTypeOK, SavedIsResolved, SaveMetadata, SaveTo, accountVars
    <2>3. CheckedIsAnswered' /\ LoggedOutIsGone' /\ LateIsRefused'
        BY <1>1, <1>3 DEF AuthInv, AuthTypeOK, CheckedIsAnswered, LoggedOutIsGone, LateIsRefused,
                          SaveMetadata, SaveTo, accountVars
    <2>. QED BY <1>1, <2>1, <2>2, <2>3 DEF AuthInv
<1>4. CASE PushToken(r)
    <2>1. AuthTypeOK'
        <3>1. account[r] \in SignIn
            BY <1>1, <1>4 DEF PushToken, AuthInv, SavedIsResolved, AccountInv, AccountTypeOK, ResolvedIsKnown
        <3>. QED BY <1>1, <1>4, <3>1 DEF AuthInv, AuthTypeOK, AccountInv, PushToken, SaveTo
    <2>2. SavedIsResolved'
        BY <1>1, <1>4 DEF AuthInv, AuthTypeOK, SavedIsResolved, PushToken, SaveTo, accountVars
    <2>3. CheckedIsAnswered' /\ LoggedOutIsGone' /\ LateIsRefused'
        BY <1>1, <1>4 DEF AuthInv, AuthTypeOK, CheckedIsAnswered, LoggedOutIsGone, LateIsRefused,
                          PushToken, SaveTo, accountVars
    <2>. QED BY <1>1, <2>1, <2>2, <2>3 DEF AuthInv
<1>5. CASE FailSave(r)
    <2>1. AuthTypeOK'
        BY <1>1, <1>5 DEF AuthInv, AuthTypeOK, AccountInv, FailSave, SaveTo
    <2>2. SavedIsResolved'
        BY <1>1, <1>5 DEF AuthInv, AuthTypeOK, SavedIsResolved, FailSave, SaveTo, accountVars
    <2>3. CheckedIsAnswered' /\ LoggedOutIsGone' /\ LateIsRefused'
        BY <1>1, <1>5 DEF AuthInv, AuthTypeOK, CheckedIsAnswered, LoggedOutIsGone, LateIsRefused,
                          FailSave, SaveTo, accountVars
    <2>. QED BY <1>1, <2>1, <2>2, <2>3 DEF AuthInv
<1>6. CASE ExpireMetadata(r)
    <2>1. AuthTypeOK'
        BY <1>1, <1>6 DEF AuthInv, AuthTypeOK, AccountInv, ExpireMetadata
    <2>2. SavedIsResolved'
        BY <1>1, <1>6 DEF AuthInv, AuthTypeOK, SavedIsResolved, ExpireMetadata, accountVars
    <2>3. CheckedIsAnswered' /\ LoggedOutIsGone' /\ LateIsRefused'
        BY <1>1, <1>6 DEF AuthInv, AuthTypeOK, CheckedIsAnswered, LoggedOutIsGone, LateIsRefused,
                          ExpireMetadata, accountVars
    <2>. QED BY <1>1, <2>1, <2>2, <2>3 DEF AuthInv
<1>. QED BY <1>3, <1>4, <1>5, <1>6

LEMMA CheckHolds ==
    ASSUME AuthInv, NEW c \in Check, ReadMetadata(c) \/ ReadTokenList(c) \/ FailCheck(c)
    PROVE  AuthInv'
<1>1. TokenOf[c] \in SignIn /\ AccountInv'
    BY AccountsKept DEF AuthInv, ReadMetadata, ReadTokenList, FailCheck
<1>2. SavedIsResolved'
    BY DEF AuthInv, SavedIsResolved, ReadMetadata, ReadTokenList, FailCheck, accountVars
<1>3. CASE ReadMetadata(c)
    <2>1. AuthTypeOK'
        BY <1>1, <1>3 DEF AuthInv, AuthTypeOK, AccountInv, ReadMetadata, CheckTo
    <2>2. CheckedIsAnswered'
        BY <1>1, <1>3 DEF AuthInv, AuthTypeOK, SavedIsResolved, CheckedIsAnswered, ReadMetadata, CheckTo,
                          accountVars
    <2>3. LoggedOutIsGone'
        BY <1>1, <1>3 DEF AuthInv, AuthTypeOK, LoggedOutIsGone, ReadMetadata, CheckTo
    <2>4. LateIsRefused'
        BY <1>1, <1>3 DEF AuthInv, AuthTypeOK, LoggedOutIsGone, LateIsRefused, ReadMetadata, CheckTo
    <2>. QED BY <1>1, <1>2, <2>1, <2>2, <2>3, <2>4 DEF AuthInv
<1>4. CASE ReadTokenList(c) \/ FailCheck(c)
    <2>1. AuthTypeOK'
        BY <1>1, <1>4 DEF AuthInv, AuthTypeOK, AccountInv, ReadTokenList, FailCheck, CheckTo
    <2>2. CheckedIsAnswered' /\ LoggedOutIsGone' /\ LateIsRefused'
        BY <1>1, <1>4 DEF AuthInv, AuthTypeOK, CheckedIsAnswered, LoggedOutIsGone, LateIsRefused,
                          ReadTokenList, FailCheck, CheckTo, accountVars
    <2>. QED BY <1>1, <1>2, <2>1, <2>2 DEF AuthInv
<1>. QED BY <1>3, <1>4

LEMMA LogoutHolds ==
    ASSUME AuthInv, NEW c \in Check, DeleteMetadata(c) \/ RemoveToken(c)
    PROVE  AuthInv'
<1>1. TokenOf[c] \in SignIn /\ AccountInv'
    BY AccountsKept DEF AuthInv, DeleteMetadata, RemoveToken
<1>2. saving[TokenOf[c]] = "answered"
    BY DEF AuthInv, CheckedIsAnswered, DeleteMetadata, RemoveToken
<1>3. CASE DeleteMetadata(c)
    <2>1. AuthTypeOK'
        BY <1>1, <1>3 DEF AuthInv, AuthTypeOK, AccountInv, DeleteMetadata, CheckTo
    <2>2. SavedIsResolved'
        BY <1>1, <1>3 DEF AuthInv, AuthTypeOK, SavedIsResolved, DeleteMetadata, accountVars
    <2>3. CheckedIsAnswered' /\ LateIsRefused'
        BY <1>1, <1>3 DEF AuthInv, AuthTypeOK, CheckedIsAnswered, LateIsRefused, DeleteMetadata, CheckTo,
                          accountVars
    <2>4. LoggedOutIsGone'
        BY <1>1, <1>2, <1>3 DEF AuthInv, AuthTypeOK, LoggedOutIsGone, DeleteMetadata, CheckTo
    <2>. QED BY <1>1, <2>1, <2>2, <2>3, <2>4 DEF AuthInv
<1>4. CASE RemoveToken(c)
    <2>1. AuthTypeOK'
        BY <1>1, <1>4 DEF AuthInv, AuthTypeOK, AccountInv, RemoveToken, CheckTo
    <2>2. SavedIsResolved'
        BY <1>1, <1>4 DEF AuthInv, AuthTypeOK, SavedIsResolved, RemoveToken, accountVars
    <2>3. CheckedIsAnswered' /\ LateIsRefused'
        BY <1>1, <1>4 DEF AuthInv, AuthTypeOK, CheckedIsAnswered, LateIsRefused, RemoveToken, CheckTo,
                          accountVars
    <2>4. LoggedOutIsGone'
        BY <1>1, <1>2, <1>4 DEF AuthInv, AuthTypeOK, LoggedOutIsGone, RemoveToken, CheckTo
    <2>. QED BY <1>1, <2>1, <2>2, <2>3, <2>4 DEF AuthInv
<1>. QED BY <1>3, <1>4

LEMMA AuthStepHolds == AuthInv /\ [AuthNext]_authVars => AuthInv'
<1> SUFFICES ASSUME AuthInv, [AuthNext]_authVars PROVE AuthInv'
    OBVIOUS
<1>1. CASE UNCHANGED authVars
    BY <1>1, AccountsKept
    DEF authVars, accountVars, AuthInv, AuthTypeOK, AccountInv, SavedIsResolved, CheckedIsAnswered,
        LoggedOutIsGone, LateIsRefused
<1>. QED BY <1>1, AccountsHold, SaveHolds, CheckHolds, LogoutHolds DEF AuthNext

-----------------------------------------------------------------------------
(* Theorems                                                                *)

\* The inductive invariant holds.
THEOREM AuthInvariant == AuthSpec => []AuthInv
<1>. QED BY AuthInitHolds, AuthStepHolds, PTL DEF AuthSpec

\* Every variable of the accounts and the sessions keeps its type.
THEOREM AuthTypeCorrect == AuthSpec => []AuthTypeOK
<1>1. AuthInv => AuthTypeOK
    BY DEF AuthInv
<1>. QED BY <1>1, AuthInvariant, PTL

\* Racing first sign-ins of one identity end in one account, and no account is left behind
\* that no identity leads to.
THEOREM AccountsCorrect == AuthSpec => []OneAccountPerIdentity
<1>. QED BY AuthInvariantSuffices, AuthInvariant, PTL

\* No request that comes after an answered logout is let in, and every other only as the
\* user who signed in, whichever command of a sign-in or a logout fails.
THEOREM LogoutCorrect == AuthSpec => []LogoutIsFinal
<1>. QED BY AuthInvariantSuffices, AuthInvariant, PTL

HIDE SignInAssumption
HIDE CheckAssumption

-----------------------------------------------------------------------------
(* The scoped operation lock *)

USE CallersAssumption, ResourcesAssumption

-----------------------------------------------------------------------------
(* The inductive invariant, in parts                                       *)

\* Whoever has a statement on its way passed the checks of the parameters.
Checked ==
    \A c \in Callers :
        doing[c] \in {"ensure", "lock"} => resource[c] \in Resources \ Long

\* An exclusive lock suffers no other lock beside it.
Compatible ==
    \A r \in Rows : \A c \in exclusive[r] : \A d \in exclusive[r] \cup shared[r] : c = d

\* What is locked exists, and who inserted a row still holds it.
Existing ==
    /\ \A r \in Rows : exclusive[r] \cup shared[r] # {} => r \in rows
    /\ \A c \in Callers : \A r \in unsaved[c] : c \in exclusive[r]

\* Between the two statements the row stays locked, and so it stays.
Reserved ==
    \A c \in Callers :
        doing[c] = "lock" => c \in exclusive[resource[c]] \cup shared[resource[c]]

\* Whoever was told so holds the row exclusively.
Told == \A c \in Callers : \A r \in told[c] : c \in exclusive[r]

LockInv == LockTypeOK /\ Checked /\ Compatible /\ Existing /\ Reserved /\ Told

-----------------------------------------------------------------------------
(* The parts imply the property                                            *)

LEMMA LockInvariantSuffices ==
    ASSUME LockInv
    PROVE  LockIsExclusive
<1>1. HolderIsAlone
    <2> SUFFICES ASSUME NEW c \in Callers, NEW r \in told[c]
                 PROVE  /\ exclusive[r] = {c}
                        /\ shared[r] \subseteq {c}
                        /\ \A d \in Others(c) : r \notin told[d]
        BY DEF HolderIsAlone
    <2>1. r \in Rows /\ c \in exclusive[r]
        BY DEF LockInv, LockTypeOK, Told, Rows
    <2>2. \A d \in exclusive[r] \cup shared[r] : c = d
        BY <2>1 DEF LockInv, Compatible
    <2>3. \A d \in Others(c) : r \notin told[d]
        BY <2>2 DEF LockInv, Told, Others
    <2>. QED BY <2>1, <2>2, <2>3
<1>2. LockRowIsThere
    <2> SUFFICES ASSUME NEW c \in Callers, doing[c] = "lock"
                 PROVE  resource[c] \in rows
        BY DEF LockRowIsThere
    <2>1. resource[c] \in Rows
        BY DEF LockInv, Checked, Rows
    <2>. QED BY <2>1 DEF LockInv, Reserved, Existing
<1>. QED BY <1>1, <1>2 DEF LockIsExclusive

-----------------------------------------------------------------------------
(* Every step preserves the parts                                          *)

LEMMA LockInitHolds == LockInit => LockInv
BY DEF LockInit, LockInv, LockTypeOK, Checked, Compatible, Existing, Reserved, Told, Stations, Rows

\* A transaction that begins, and an acquisition that passes its checks.
LEMMA BeginHolds ==
    ASSUME LockInv, NEW c \in Callers, Begin(c)
    PROVE  LockInv'
<1> USE DEF LockInv, Begin
<1>1. LockTypeOK' BY DEF LockTypeOK, Stations, Rows
<1>2. Checked' BY DEF Checked, LockTypeOK
<1>3. (Compatible /\ Existing /\ Told)'
    BY DEF Compatible, Existing, Told, LockTypeOK
<1>4. Reserved' BY DEF Reserved, LockTypeOK
<1>. QED BY <1>1, <1>2, <1>3, <1>4

LEMMA AcquireHolds ==
    ASSUME LockInv, NEW c \in Callers, NEW r \in Resources, NEW wait \in BOOLEAN,
           Acquire(c, r, wait)
    PROVE  LockInv'
<1> USE DEF LockInv, Acquire, ValidParameters
<1>1. LockTypeOK' BY DEF LockTypeOK, Stations, Rows
<1>2. Checked' BY DEF Checked, LockTypeOK
<1>3. (Compatible /\ Existing /\ Told)'
    BY DEF Compatible, Existing, Told, LockTypeOK
<1>4. Reserved' BY DEF Reserved, LockTypeOK
<1>. QED BY <1>1, <1>2, <1>3, <1>4

\* The first statement leaves the caller with a lock on the row, which others may only
\* share with it if it is not the caller who inserted the row.
LEMMA EnsureHolds ==
    ASSUME LockInv, NEW c \in Callers, _ensure_lock_row_exists(c)
    PROVE  LockInv'
<1> DEFINE r == resource[c]
<1>1. r \in Rows /\ Stored(r) = r
    BY DEF LockInv, Checked, Rows, Stored, _ensure_lock_row_exists
<1>2. CASE r \in rows
    <2>1. /\ exclusive[r] \subseteq {c}
          /\ rows' = rows
          /\ shared' = [shared EXCEPT ![r] = @ \cup {c}]
          /\ UNCHANGED <<unsaved, exclusive, resource, waits, told>>
          /\ doing' = [doing EXCEPT ![c] = "lock"]
        BY <1>1, <1>2 DEF _ensure_lock_row_exists, InsertBlockers, Others, LockInv, LockTypeOK
    <2>2. LockTypeOK' BY <1>1, <2>1 DEF LockInv, LockTypeOK, Stations
    <2>3. Checked'
        BY <2>1 DEF LockInv, LockTypeOK, Checked, _ensure_lock_row_exists
    <2>4. Compatible' BY <1>1, <2>1 DEF LockInv, LockTypeOK, Compatible
    <2>5. Existing' BY <1>1, <1>2, <2>1 DEF LockInv, LockTypeOK, Existing
    <2>6. Reserved' BY <1>1, <2>1 DEF LockInv, LockTypeOK, Reserved, Checked, Rows
    <2>7. Told' BY <2>1 DEF LockInv, Told
    <2>. QED BY <2>2, <2>3, <2>4, <2>5, <2>6, <2>7 DEF LockInv
<1>3. CASE r \notin rows
    <2>1. /\ exclusive[r] = {} /\ shared[r] = {}
          /\ rows' = rows \cup {r}
          /\ exclusive' = [exclusive EXCEPT ![r] = @ \cup {c}]
          /\ unsaved' = [unsaved EXCEPT ![c] = @ \cup {r}]
          /\ UNCHANGED <<shared, resource, waits, told>>
          /\ doing' = [doing EXCEPT ![c] = "lock"]
        BY <1>1, <1>3 DEF _ensure_lock_row_exists, LockInv, Existing
    <2>2. LockTypeOK' BY <1>1, <2>1 DEF LockInv, LockTypeOK, Stations
    <2>3. Checked'
        BY <2>1 DEF LockInv, LockTypeOK, Checked, _ensure_lock_row_exists
    <2>4. Compatible' BY <1>1, <2>1 DEF LockInv, LockTypeOK, Compatible
    <2>5. Existing' BY <1>1, <2>1 DEF LockInv, LockTypeOK, Existing
    <2>6. Reserved' BY <1>1, <2>1 DEF LockInv, LockTypeOK, Reserved, Checked, Rows
    <2>7. Told' BY <1>1, <2>1 DEF LockInv, LockTypeOK, Told, Rows
    <2>. QED BY <2>2, <2>3, <2>4, <2>5, <2>6, <2>7 DEF LockInv
<1>. QED BY <1>2, <1>3

\* The second statement finds nobody else at the row.
LEMMA LockRowHolds ==
    ASSUME LockInv, NEW c \in Callers, LockRow(c)
    PROVE  LockInv'
<1> DEFINE r == resource[c]
<1>1. r \in Resources /\ r \in Rows
    BY DEF LockInv, Checked, Rows, LockRow
<1>2. /\ exclusive[r] \cup shared[r] \subseteq {c}
      /\ r \in rows
    BY <1>1 DEF LockRow, SelectBlockers, Others, LockInv, LockTypeOK
<1> USE DEF LockRow
<1>3. LockTypeOK' BY <1>1 DEF LockInv, LockTypeOK, Stations
<1>4. Checked' BY DEF LockInv, LockTypeOK, Checked
<1>5. Compatible' BY <1>1, <1>2 DEF LockInv, LockTypeOK, Compatible
<1>6. Existing' BY <1>1, <1>2 DEF LockInv, LockTypeOK, Existing
<1>7. Reserved' BY <1>1 DEF LockInv, LockTypeOK, Reserved, Checked, Rows
<1>8. Told' BY <1>1 DEF LockInv, LockTypeOK, Told, Rows
<1>. QED BY <1>3, <1>4, <1>5, <1>6, <1>7, <1>8 DEF LockInv

LEMMA LockUnavailableHolds ==
    ASSUME LockInv, NEW c \in Callers, LockUnavailable(c)
    PROVE  LockInv'
<1> USE DEF LockInv, LockUnavailable
<1>1. LockTypeOK' BY DEF LockTypeOK, Stations, Rows
<1>2. Checked' BY DEF Checked, LockTypeOK
<1>3. (Compatible /\ Existing /\ Told)'
    BY DEF Compatible, Existing, Told, LockTypeOK
<1>4. Reserved' BY DEF Reserved, LockTypeOK
<1>. QED BY <1>1, <1>2, <1>3, <1>4

\* The end of a transaction takes away its locks only, and rows only that nobody else
\* has locked.
LEMMA ReleaseHolds ==
    ASSUME LockInv, NEW c \in Callers, Release(c), rows' \in {rows, rows \ unsaved[c]}
    PROVE  LockInv'
<1>1. \A r \in Rows : /\ shared'[r] = shared[r] \ {c}
                      /\ exclusive'[r] = exclusive[r] \ {c}
    BY DEF Release
<1>2. \A d \in Callers \ {c} : /\ unsaved'[d] = unsaved[d] /\ doing'[d] = doing[d]
                               /\ resource'[d] = resource[d] /\ told'[d] = told[d]
    BY DEF Release, LockInv, LockTypeOK
<1>3. unsaved'[c] = {} /\ doing'[c] = "outside" /\ told'[c] = {}
    BY DEF Release, LockInv, LockTypeOK
<1>4. \A r \in unsaved[c] : exclusive[r] \cup shared[r] \subseteq {c}
    BY DEF LockInv, Existing, Compatible, LockTypeOK
<1>5. LockTypeOK'
    BY DEF Release, LockInv, LockTypeOK, Stations
<1>6. Checked' BY <1>2, <1>3 DEF LockInv, Checked
<1>7. Compatible' BY <1>1 DEF LockInv, Compatible
<1>8. Existing'
    <2>1. \A r \in Rows : exclusive'[r] \cup shared'[r] # {} => r \in rows'
        BY <1>1, <1>4 DEF LockInv, Existing
    <2>2. \A d \in Callers : \A r \in unsaved'[d] : r \in Rows /\ d \in exclusive'[r]
        BY <1>1, <1>2, <1>3 DEF LockInv, Existing, LockTypeOK
    <2>. QED BY <2>1, <2>2 DEF Existing
<1>9. Reserved'
    BY <1>1, <1>2, <1>3 DEF LockInv, Reserved, Checked, Rows
<1>10. Told'
    BY <1>1, <1>2, <1>3 DEF LockInv, Told, LockTypeOK, Rows
<1>. QED BY <1>5, <1>6, <1>7, <1>8, <1>9, <1>10 DEF LockInv

LEMMA LockStepHolds == LockInv /\ [LockNext]_lockVars => LockInv'
<1> SUFFICES ASSUME LockInv, [LockNext]_lockVars PROVE LockInv'
    OBVIOUS
<1>1. CASE UNCHANGED lockVars
    BY <1>1 DEF lockVars, LockInv, LockTypeOK, Checked, Compatible, Existing, Reserved, Told
<1>2. ASSUME NEW c \in Callers, Commit(c) PROVE LockInv'
    BY <1>2, ReleaseHolds DEF Commit
<1>3. ASSUME NEW c \in Callers, Rollback(c) PROVE LockInv'
    BY <1>3, ReleaseHolds DEF Rollback
<1>4. ASSUME NEW c \in Callers, Abandon(c) \/ DeadlockFound(c) \/ WaitTimeout(c)
      PROVE  LockInv'
    BY <1>3, <1>4 DEF Abandon, DeadlockFound, WaitTimeout
<1>. QED BY <1>1, <1>2, <1>4, BeginHolds, AcquireHolds, EnsureHolds, LockRowHolds,
            LockUnavailableHolds DEF LockNext

-----------------------------------------------------------------------------

THEOREM LockInvariant == LockSpec => []LockInv
BY LockInitHolds, LockStepHolds, PTL DEF LockSpec

\* Every variable keeps its type.
THEOREM LockTypeCorrect == LockSpec => []LockTypeOK
<1>1. LockInv => LockTypeOK BY DEF LockInv
<1>. QED BY LockInvariant, <1>1, PTL

\* Whoever was told that it holds a resource holds it alone, and the row that the second
\* statement locks is there.
THEOREM LockCorrect == LockSpec => []LockIsExclusive
<1>1. LockInv => LockIsExclusive BY LockInvariantSuffices
<1>. QED BY LockInvariant, <1>1, PTL

HIDE CallersAssumption
HIDE ResourcesAssumption
=============================================================================
