--------------------- MODULE InvoiceConfirmationProofs ---------------------
(***************************************************************************)
(* Proofs about InvoiceConfirmation, for every set of requests, tokens and *)
(* keys.                                                                   *)
(*                                                                         *)
(*   TypeCorrect     Spec => []TypeOK                                      *)
(*   TaskCorrect     Spec => []OneTaskPerToken                             *)
(*   AnswerCorrect   Spec => []AnswerIsForRequest                          *)
(*   RefusalCorrect  Spec => []RefusalIsDefinitive                         *)
(*   LockCorrect     Spec => LockIsOwn                                     *)
(***************************************************************************)
EXTENDS InvoiceConfirmation, TLAPS

USE RequestAssumption, AnswerAssumption, NoneAssumption

-----------------------------------------------------------------------------
(* The inductive invariant, in parts *)

\* While no lock of the token expired too early, a handler inside holds the lock.
Mutex ==
  \A r \in Request : pc[r] \in Inside /\ TokenOf[r] \notin overrun => lock[TokenOf[r]] = r

\* What is saved was created, and is filed under its own token and key.
Saved ==
  /\ \A t \in Token : result[t] # None =>
       result[t].task \in created /\ result[t] = ResultOf(result[t].task) /\ result[t].token = t
  /\ \A k \in Key : byKey[k] # None =>
       byKey[k].task \in created /\ byKey[k] = ResultOf(byKey[k].task) /\ byKey[k].key = k
  /\ \A r \in Request : pc[r] \in {"saveKey", "delete"} => r \in created

\* A task belongs to the request that is told about it.
IsFor(task, r) == task \in created /\ TokenOf[task] = TokenOf[r] /\ KeyOf[task] = KeyOf[r]

Replies == \A r \in Request : /\ reply[r] \in Request => IsFor(reply[r], r)
                              /\ answer[r] \in Request => IsFor(answer[r], r)

\* The result of a token names the one task created for it, and a handler that found
\* none is still right.
Once ==
  /\ \A r \in created : TokenOf[r] \notin overrun =>
       result[TokenOf[r]] # None /\ result[TokenOf[r]].task = r
  /\ \A r \in Request : pc[r] \in {"key", "pending", "saveResult"} /\ TokenOf[r] \notin overrun =>
       result[TokenOf[r]] = None

\* Why a later request with this token and this key is refused as well.
Blocked(t, k) ==
  \/ result[t] # None /\ result[t].key # k
  \/ result[t] = None /\ (pending[t] = "gone" \/ (byKey[k] # None /\ byKey[k].token # t))

Refused(q) == reply[q] = "refused" \/ answer[q] = "refused"

Like(q) == {r \in Request : TokenOf[r] = TokenOf[q] /\ KeyOf[r] = KeyOf[q]}

Refusals ==
  \A q \in Request : Refused(q) /\ TokenOf[q] \notin overrun =>
    /\ Blocked(TokenOf[q], KeyOf[q])
    /\ \A r \in Like(q) : /\ r \notin created /\ pc[r] # "saveResult"
                          /\ pc[r] = "pending" => pending[TokenOf[q]] = "gone"

IInv == TypeOK /\ Mutex /\ Saved /\ Replies /\ Once /\ Refusals

-----------------------------------------------------------------------------
(* Kinds of steps *)

\* Steps that leave Redis as it is and answer with an error, if at all.
Gives(r) == AcquireRaises(r) \/ Fail(r) \/ Crash(r)

\* Every step is of one of these kinds.
LEMMA StepKinds ==
  ASSUME [Next]_vars
  PROVE  \/ \E t \in Token : Prepare(t) \/ ExpirePending(t) \/ ExpireLock(t)
         \/ \E r \in Request : \/ Acquire(r) \/ CheckResult(r) \/ CheckKey(r)
                               \/ ReadPending(r) \/ SaveResult(r) \/ SaveKey(r)
                               \/ DeletePending(r) \/ Release(r) \/ Gives(r)
         \/ UNCHANGED vars
BY DEF Next, Confirm, Gives

\* A step of a handler leaves the other handlers alone.
LEMMA OneMoves ==
  ASSUME TypeOK, NEW r \in Request, Confirm(r), NEW q \in Request, q # r
  PROVE  pc'[q] = pc[q] /\ reply'[q] = reply[q] /\ answer'[q] = answer[q]
<1> USE DEF TypeOK, Goto, Finish, Leave, Raise
<1>1. CASE Acquire(r) \/ AcquireRaises(r)
  BY <1>1 DEF Acquire, AcquireRaises
<1>2. CASE CheckResult(r)
  BY <1>2 DEF CheckResult
<1>3. CASE CheckKey(r)
  BY <1>3 DEF CheckKey
<1>4. CASE ReadPending(r) \/ SaveResult(r) \/ SaveKey(r) \/ DeletePending(r)
  BY <1>4 DEF ReadPending, SaveResult, SaveKey, DeletePending
<1>5. CASE Fail(r) \/ Crash(r)
  BY <1>5 DEF Fail, Crash
<1>6. CASE Release(r)
  BY <1>6 DEF Release
<1>. QED BY <1>1, <1>2, <1>3, <1>4, <1>5, <1>6 DEF Confirm

-----------------------------------------------------------------------------
(* Every step preserves every part *)

\* Values stay of their type.
LEMMA TypeStep ==
  ASSUME TypeOK, [Next]_vars
  PROVE  TypeOK'
<1> USE DEF TypeOK, Goto, Finish, Leave, Raise, Inside, Place, Answer
<1>1. ASSUME NEW t \in Token, Prepare(t) \/ ExpirePending(t) \/ ExpireLock(t)
      PROVE  TypeOK'
  BY <1>1 DEF Prepare, ExpirePending, ExpireLock
<1>2. ASSUME NEW r \in Request, Acquire(r) \/ Gives(r)
      PROVE  TypeOK'
  BY <1>2 DEF Acquire, Gives, AcquireRaises, Fail, Crash, redis
<1>3. ASSUME NEW r \in Request, NEW saved \in Result
      PROVE  Recall(r, saved) \in Answer
  BY DEF Recall, Result
<1>4. ASSUME NEW r \in Request, CheckResult(r)
      PROVE  TypeOK'
  <2>1. result[TokenOf[r]] \in Result \cup {None}
    OBVIOUS
  <2>. QED BY <1>3, <1>4, <2>1 DEF CheckResult, redis
<1>5. ASSUME NEW r \in Request, CheckKey(r)
      PROVE  TypeOK'
  <2>1. byKey[KeyOf[r]] \in Result \cup {None}
    OBVIOUS
  <2>. QED BY <1>3, <1>5, <2>1 DEF CheckKey, redis
<1>6. ASSUME NEW r \in Request, ReadPending(r) \/ DeletePending(r)
      PROVE  TypeOK'
  BY <1>6 DEF ReadPending, DeletePending, redis
<1>7. ASSUME NEW r \in Request, SaveResult(r) \/ SaveKey(r)
      PROVE  TypeOK'
  <2>1. ResultOf(r) \in Result
    BY DEF ResultOf, Result
  <2>. QED BY <1>7, <2>1 DEF SaveResult, SaveKey
<1>8. ASSUME NEW r \in Request, Release(r)
      PROVE  TypeOK'
  BY <1>8 DEF Release
<1>9. CASE UNCHANGED vars
  BY <1>9 DEF vars
<1>. QED BY StepKinds, <1>1, <1>2, <1>4, <1>5, <1>6, <1>7, <1>8, <1>9

\* The lock excludes: it is taken when free and freed by its holder or by its expiry.
LEMMA MutexStep ==
  ASSUME TypeOK, Mutex, [Next]_vars
  PROVE  Mutex'
<1> USE DEF Mutex, TypeOK
<1>1. ASSUME NEW t \in Token, Prepare(t) \/ ExpirePending(t)
      PROVE  Mutex'
  BY <1>1 DEF Prepare, ExpirePending
<1>2. ASSUME NEW t \in Token, ExpireLock(t)
      PROVE  Mutex'
  BY <1>2 DEF ExpireLock
<1>3. ASSUME NEW r \in Request, Acquire(r)
      PROVE  Mutex'
  BY <1>3 DEF Acquire, Goto, Inside, Answer
<1>4. ASSUME NEW r \in Request, CheckResult(r) \/ CheckKey(r) \/ ReadPending(r) \/ SaveResult(r)
                                \/ SaveKey(r) \/ DeletePending(r)
      PROVE  Mutex'
  <2>1. pc[r] \in Inside /\ UNCHANGED <<lock, overrun>>
    BY <1>4 DEF CheckResult, CheckKey, ReadPending, SaveResult, SaveKey, DeletePending, redis, Inside
  <2>. QED BY <1>4, <2>1, OneMoves DEF Confirm
<1>5. ASSUME NEW r \in Request, Gives(r)
      PROVE  Mutex'
  BY <1>5 DEF Gives, AcquireRaises, Fail, Crash, redis, Goto, Leave, Raise, Finish, Inside
<1>6. ASSUME NEW r \in Request, Release(r)
      PROVE  Mutex'
  BY <1>6 DEF Release, Finish, Inside
<1>7. CASE UNCHANGED vars
  BY <1>7 DEF vars
<1>. QED BY StepKinds, <1>1, <1>2, <1>3, <1>4, <1>5, <1>6, <1>7

-----------------------------------------------------------------------------

\* What is saved stays well-formed.
LEMMA SavedStep ==
  ASSUME TypeOK, Saved, [Next]_vars
  PROVE  Saved'
<1> USE DEF TypeOK, Saved
<1>1. ASSUME NEW t \in Token, Prepare(t) \/ ExpirePending(t) \/ ExpireLock(t)
      PROVE  Saved'
  BY <1>1 DEF Prepare, ExpirePending, ExpireLock
<1>2. ASSUME NEW r \in Request, Acquire(r) \/ Gives(r)
      PROVE  Saved'
  BY <1>2 DEF Acquire, Gives, AcquireRaises, Fail, Crash, redis, Goto, Leave, Raise, Finish
<1>3. ASSUME NEW r \in Request,
             CheckResult(r) \/ CheckKey(r) \/ ReadPending(r) \/ DeletePending(r) \/ Release(r)
      PROVE  Saved'
  <2>1. UNCHANGED <<result, byKey, created>> /\ pc'[r] \notin {"saveKey", "delete"}
    BY <1>3 DEF CheckResult, CheckKey, ReadPending, DeletePending, Release, redis,
                Goto, Leave, Raise, Finish
  <2>. QED BY <1>3, <2>1, OneMoves DEF Confirm
<1>4. ASSUME NEW r \in Request, SaveResult(r)
      PROVE  Saved'
  BY <1>4 DEF SaveResult, ResultOf, Goto, Leave, Raise
<1>5. ASSUME NEW r \in Request, SaveKey(r)
      PROVE  Saved'
  BY <1>5 DEF SaveKey, ResultOf, Goto, Leave, Raise
<1>6. CASE UNCHANGED vars
  BY <1>6 DEF vars
<1>. QED BY StepKinds, <1>1, <1>2, <1>3, <1>4, <1>5, <1>6

\* A saved result is recalled for the requests it belongs to.
LEMMA RecallIsFor ==
  ASSUME Saved, NEW r \in Request, NEW saved \in Result,
         \/ saved = result[TokenOf[r]] /\ saved # None
         \/ saved = byKey[KeyOf[r]] /\ saved # None,
         Recall(r, saved) \in Request
  PROVE  IsFor(Recall(r, saved), r)
<1>1. saved.token = TokenOf[r] /\ saved.key = KeyOf[r] /\ Recall(r, saved) = saved.task
  BY DEF Recall
<1>2. saved.task \in created /\ saved = ResultOf(saved.task)
  BY DEF Saved
<1>. QED BY <1>1, <1>2 DEF ResultOf, IsFor

\* Answers are about the request that gets them.
LEMMA RepliesStep ==
  ASSUME TypeOK, Saved, Replies, [Next]_vars
  PROVE  Replies'
<1> USE DEF TypeOK, Replies, IsFor
<1>1. ASSUME NEW t \in Token, Prepare(t) \/ ExpirePending(t) \/ ExpireLock(t)
      PROVE  Replies'
  BY <1>1 DEF Prepare, ExpirePending, ExpireLock
<1>2. ASSUME NEW r \in Request, Acquire(r) \/ Gives(r)
      PROVE  Replies'
  BY <1>2 DEF Acquire, Gives, AcquireRaises, Fail, Crash, redis, Goto, Leave, Raise, Finish, Answer
<1>3. ASSUME NEW r \in Request, CheckResult(r)
      PROVE  Replies'
  <2>1. UNCHANGED <<created, answer>>
        /\ (reply' = reply \/ (/\ result[TokenOf[r]] # None
                               /\ reply' = [reply EXCEPT ![r] = Recall(r, result[TokenOf[r]])]))
    BY <1>3 DEF CheckResult, redis, Goto, Leave
  <2>. QED BY <2>1, RecallIsFor
<1>4. ASSUME NEW r \in Request, CheckKey(r)
      PROVE  Replies'
  <2>1. UNCHANGED <<created, answer>>
        /\ (reply' = reply \/ (/\ byKey[KeyOf[r]] # None
                               /\ reply' = [reply EXCEPT ![r] = Recall(r, byKey[KeyOf[r]])]))
    BY <1>4 DEF CheckKey, redis, Goto, Leave
  <2>. QED BY <2>1, RecallIsFor
<1>5. ASSUME NEW r \in Request, ReadPending(r) \/ SaveResult(r) \/ SaveKey(r)
      PROVE  Replies'
  BY <1>5 DEF ReadPending, SaveResult, SaveKey, redis, Goto, Leave, Raise
<1>6. ASSUME NEW r \in Request, DeletePending(r)
      PROVE  Replies'
  <2>1. r \in created
    BY <1>6 DEF DeletePending, Saved
  <2>. QED BY <1>6, <2>1 DEF DeletePending, Leave, Raise
<1>7. ASSUME NEW r \in Request, Release(r)
      PROVE  Replies'
  BY <1>7 DEF Release, Finish, Answer
<1>8. CASE UNCHANGED vars
  BY <1>8 DEF vars
<1>. QED BY StepKinds, <1>1, <1>2, <1>3, <1>4, <1>5, <1>6, <1>7, <1>8

-----------------------------------------------------------------------------
(* One task per token *)

\* Two handlers inside one protected token are one handler.
LEMMA Alone ==
  ASSUME Mutex, NEW q \in Request, NEW r \in Request,
         pc[q] \in Inside, pc[r] \in Inside,
         TokenOf[q] = TokenOf[r], TokenOf[r] \notin overrun
  PROVE  q = r
BY DEF Mutex

\* A task is created for a token without a result only.
LEMMA OnceStep ==
  ASSUME TypeOK, Mutex, Saved, Once, [Next]_vars
  PROVE  Once'
<1> USE DEF TypeOK, Once
<1>1. ASSUME NEW t \in Token, Prepare(t) \/ ExpirePending(t) \/ ExpireLock(t)
      PROVE  Once'
  BY <1>1 DEF Prepare, ExpirePending, ExpireLock
<1>2. ASSUME NEW r \in Request, Acquire(r) \/ Gives(r)
      PROVE  Once'
  BY <1>2 DEF Acquire, Gives, AcquireRaises, Fail, Crash, redis, Goto, Leave, Raise, Finish
<1>3. ASSUME NEW r \in Request,
             \/ CheckResult(r) \/ CheckKey(r) \/ ReadPending(r)
             \/ SaveKey(r) \/ DeletePending(r) \/ Release(r)
      PROVE  Once'
  <2>1. UNCHANGED <<result, created, overrun>>
    BY <1>3 DEF CheckResult, CheckKey, ReadPending, SaveKey, DeletePending, Release, redis
  <2>2. pc'[r] \in {"key", "pending", "saveResult"} =>
          pc[r] \in {"key", "pending"} \/ result[TokenOf[r]] = None
    BY <1>3 DEF CheckResult, CheckKey, ReadPending, SaveKey, DeletePending, Release,
                Goto, Leave, Raise, Finish
  <2>. QED BY <1>3, <2>1, <2>2, OneMoves DEF Confirm
<1>4. ASSUME NEW r \in Request, SaveResult(r)
      PROVE  Once'
  <2>1. /\ result' = [result EXCEPT ![TokenOf[r]] = ResultOf(r)]
        /\ created' = created \cup {r} /\ UNCHANGED overrun
        /\ pc[r] = "saveResult" /\ pc'[r] \in {"saveKey", "release"}
    BY <1>4 DEF SaveResult, Goto, Leave, Raise
  <2>2. ResultOf(r) # None /\ ResultOf(r).task = r
    BY DEF ResultOf, Result
  <2>3. ASSUME NEW q \in created', TokenOf[q] \notin overrun'
        PROVE  result'[TokenOf[q]] # None /\ result'[TokenOf[q]].task = q
    BY <2>1, <2>2, <2>3
  <2>4. ASSUME NEW q \in Request, pc'[q] \in {"key", "pending", "saveResult"},
               TokenOf[q] \notin overrun'
        PROVE  result'[TokenOf[q]] = None
    <3>1. q # r /\ pc'[q] = pc[q]
      BY <1>4, <2>1, <2>4, OneMoves DEF Confirm
    <3>2. TokenOf[q] # TokenOf[r]
      BY <2>1, <2>4, <3>1, Alone DEF Inside
    <3>. QED BY <2>1, <2>4, <3>1, <3>2
  <2>. QED BY <2>3, <2>4
<1>5. CASE UNCHANGED vars
  BY <1>5 DEF vars
<1>. QED BY StepKinds, <1>1, <1>2, <1>3, <1>4, <1>5

-----------------------------------------------------------------------------
(* A refusal stays true *)

\* The part of Refusals about one refused request.
Stays(q) ==
  /\ Blocked(TokenOf[q], KeyOf[q])
  /\ \A r \in Like(q) : /\ r \notin created /\ pc[r] # "saveResult"
                        /\ pc[r] = "pending" => pending[TokenOf[q]] = "gone"

\* A handler that is inside a protected token refuses, having seen why.
LEMMA NewRefusal ==
  ASSUME IInv, NEW q \in Request, pc[q] \in Inside, TokenOf[q] \notin overrun,
         pc[q] \notin {"pending", "saveResult"} \/ pending[TokenOf[q]] = "gone",
         pc[q] # "saveResult",
         Blocked(TokenOf[q], KeyOf[q])
  PROVE  Stays(q)
<1>1. ASSUME NEW r \in Like(q)
      PROVE  r \notin created
  <2>1. r \in Request /\ TokenOf[r] = TokenOf[q] /\ KeyOf[r] = KeyOf[q]
    BY DEF Like
  <2>2. SUFFICES ASSUME r \in created
                 PROVE  FALSE
    OBVIOUS
  <2>3. result[TokenOf[q]] # None /\ result[TokenOf[q]].task = r
    BY <2>1, <2>2 DEF IInv, Once
  <2>4. result[TokenOf[q]] = ResultOf(r)
    BY <2>3 DEF IInv, Saved
  <2>5. result[TokenOf[q]].key = KeyOf[q]
    BY <2>1, <2>4 DEF ResultOf
  <2>. QED BY <2>3, <2>5 DEF Blocked
<1>2. ASSUME NEW r \in Like(q), pc[r] \in {"saveResult", "pending"}
      PROVE  r = q
  BY <1>2, Alone DEF Like, IInv, Inside
<1>. QED BY <1>1, <1>2 DEF Stays, Like

\* What protects a refusal survives every step.
LEMMA StaysStep ==
  ASSUME IInv, [Next]_vars, NEW q \in Request, Stays(q), TokenOf[q] \notin overrun'
  PROVE  Stays(q)'
<1> USE DEF IInv, TypeOK, Stays, Like, Blocked
<1>0. TokenOf[q] \notin overrun
  <2>1. overrun \subseteq overrun'
    BY StepKinds DEF Prepare, ExpirePending, ExpireLock, Acquire, CheckResult, CheckKey,
       ReadPending, SaveResult, SaveKey, DeletePending, Release, Gives, AcquireRaises, Fail,
       Crash, vars
  <2>. QED BY <2>1
<1>1. ASSUME NEW t \in Token, Prepare(t) \/ ExpirePending(t) \/ ExpireLock(t)
      PROVE  Stays(q)'
  BY <1>1 DEF Prepare, ExpirePending, ExpireLock
<1>2. ASSUME NEW r \in Request, Acquire(r) \/ Gives(r)
      PROVE  Stays(q)'
  BY <1>2 DEF Acquire, Gives, AcquireRaises, Fail, Crash, redis, Goto, Leave, Raise, Finish
<1>3. ASSUME NEW r \in Request, CheckResult(r) \/ Release(r)
      PROVE  Stays(q)'
  BY <1>3 DEF CheckResult, Release, redis, Goto, Leave, Finish
<1>4. ASSUME NEW r \in Request, CheckKey(r)
      PROVE  Stays(q)'
  <2>1. UNCHANGED <<pending, result, byKey, created>>
        /\ pc[r] = "key" /\ pc'[r] \in {"pending", "release"}
        /\ (pc'[r] = "pending" => byKey[KeyOf[r]] = None)
    BY <1>4 DEF CheckKey, redis, Goto, Leave
  <2>2. ASSUME r \in Like(q), pc'[r] = "pending"
        PROVE  pending[TokenOf[q]] = "gone"
    <3>1. result[TokenOf[q]] = None
      BY <1>0, <2>1, <2>2 DEF Once
    <3>. QED BY <2>1, <2>2, <3>1
  <2>. QED BY <1>4, <2>1, <2>2, OneMoves DEF Confirm
<1>5. ASSUME NEW r \in Request, ReadPending(r)
      PROVE  Stays(q)'
  BY <1>5 DEF ReadPending, redis, Goto, Leave
<1>6. ASSUME NEW r \in Request, SaveResult(r)
      PROVE  Stays(q)'
  <2>1. ResultOf(r) # None /\ ResultOf(r).key = KeyOf[r]
    BY DEF ResultOf, Result
  <2>2. pc[r] = "saveResult" /\ r \notin Like(q)
    BY <1>6 DEF SaveResult
  <2>3. /\ result' = [result EXCEPT ![TokenOf[r]] = ResultOf(r)]
        /\ created' = created \cup {r} /\ UNCHANGED <<pending, byKey>>
        /\ pc'[r] \in {"saveKey", "release"}
    BY <1>6 DEF SaveResult, Goto, Leave, Raise
  <2>4. Blocked(TokenOf[q], KeyOf[q])'
    <3>1. CASE TokenOf[r] = TokenOf[q]
      BY <2>1, <2>2, <2>3, <3>1
    <3>2. CASE TokenOf[r] # TokenOf[q]
      BY <2>3, <3>2
    <3>. QED BY <3>1, <3>2
  <2>. QED BY <1>6, <2>2, <2>3, <2>4, OneMoves DEF Confirm
<1>7. ASSUME NEW r \in Request, SaveKey(r)
      PROVE  Stays(q)'
  <2>1. r \in created
    BY <1>7 DEF SaveKey, Saved
  <2>2. ResultOf(r) # None /\ ResultOf(r).token = TokenOf[r]
    BY DEF ResultOf, Result
  <2>3. /\ byKey' = [byKey EXCEPT ![KeyOf[r]] = ResultOf(r)]
        /\ UNCHANGED <<pending, result, created>> /\ pc'[r] \in {"delete", "release"}
    BY <1>7 DEF SaveKey, Goto, Leave, Raise
  <2>4. Blocked(TokenOf[q], KeyOf[q])'
    <3>1. CASE KeyOf[r] = KeyOf[q]
      BY <2>1, <2>2, <2>3, <3>1
    <3>2. CASE KeyOf[r] # KeyOf[q]
      BY <2>3, <3>2
    <3>. QED BY <3>1, <3>2
  <2>. QED BY <1>7, <2>3, <2>4, OneMoves DEF Confirm
<1>8. ASSUME NEW r \in Request, DeletePending(r)
      PROVE  Stays(q)'
  BY <1>8 DEF DeletePending, Leave, Raise
<1>9. CASE UNCHANGED vars
  BY <1>9 DEF vars
<1>. QED BY StepKinds, <1>1, <1>2, <1>3, <1>4, <1>5, <1>6, <1>7, <1>8, <1>9

\* A request that is refused in a step is refused for a reason that stays.
LEMMA RefusedStep ==
  ASSUME IInv, [Next]_vars, NEW q \in Request, Refused(q)', ~Refused(q),
         TokenOf[q] \notin overrun
  PROVE  Stays(q)
<1> USE DEF IInv, TypeOK, Refused
<1>1. ASSUME CheckResult(q)
      PROVE  Stays(q)
  <2>1. pc[q] = "result" /\ result[TokenOf[q]] # None
        /\ Recall(q, result[TokenOf[q]]) = "refused"
    BY <1>1 DEF CheckResult, Goto, Leave, redis
  <2>2. result[TokenOf[q]] \in Result /\ result[TokenOf[q]].token = TokenOf[q]
    BY <2>1 DEF Saved
  <2>3. result[TokenOf[q]].key # KeyOf[q]
    BY <2>1, <2>2 DEF Recall, Result
  <2>. QED BY <2>1, <2>3, NewRefusal DEF Blocked, Inside
<1>2. ASSUME CheckKey(q)
      PROVE  Stays(q)
  <2>1. pc[q] = "key" /\ byKey[KeyOf[q]] # None /\ Recall(q, byKey[KeyOf[q]]) = "refused"
    BY <1>2 DEF CheckKey, Goto, Leave, redis
  <2>2. byKey[KeyOf[q]] \in Result /\ byKey[KeyOf[q]].key = KeyOf[q]
    BY <2>1 DEF Saved
  <2>3. byKey[KeyOf[q]].token # TokenOf[q]
    BY <2>1, <2>2 DEF Recall, Result
  <2>4. result[TokenOf[q]] = None
    BY <2>1 DEF Once
  <2>. QED BY <2>1, <2>3, <2>4, NewRefusal DEF Blocked, Inside
<1>3. ASSUME ReadPending(q)
      PROVE  Stays(q)
  <2>1. pc[q] = "pending" /\ pending[TokenOf[q]] = "gone"
    BY <1>3 DEF ReadPending, Goto, Leave, redis
  <2>2. result[TokenOf[q]] = None
    BY <2>1 DEF Once
  <2>3. Blocked(TokenOf[q], KeyOf[q])
    BY <2>1, <2>2 DEF Blocked
  <2>4. pc[q] \in Inside /\ pc[q] # "saveResult"
    BY <2>1 DEF Inside
  <2>. QED BY <2>1, <2>3, <2>4, NewRefusal
<1>4. ASSUME NEW r \in Request, Confirm(r), r # q
      PROVE  FALSE
  BY <1>4, OneMoves
<1>5. ASSUME Acquire(q) \/ SaveResult(q) \/ SaveKey(q) \/ DeletePending(q) \/ Gives(q)
      PROVE  FALSE
  BY <1>5 DEF Acquire, SaveResult, SaveKey, DeletePending, Gives, AcquireRaises, Fail, Crash,
              redis, Goto, Leave, Raise, Finish, Answer
<1>6. ASSUME Release(q)
      PROVE  FALSE
  BY <1>6 DEF Release, Finish, Answer
<1>7. ASSUME NEW t \in Token, Prepare(t) \/ ExpirePending(t) \/ ExpireLock(t)
      PROVE  FALSE
  BY <1>7 DEF Prepare, ExpirePending, ExpireLock
<1>8. CASE UNCHANGED vars
  BY <1>8 DEF vars
<1>. QED BY StepKinds, <1>1, <1>2, <1>3, <1>4, <1>5, <1>6, <1>7, <1>8 DEF Confirm, Gives

\* So a refusal is definitive after every step.
LEMMA RefusalsStep ==
  ASSUME IInv, [Next]_vars
  PROVE  Refusals'
<1>1. SUFFICES ASSUME NEW q \in Request, Refused(q)', TokenOf[q] \notin overrun'
               PROVE  Stays(q)'
  BY DEF Refusals, Stays
<1>2. overrun \subseteq overrun'
  BY StepKinds DEF Prepare, ExpirePending, ExpireLock, Acquire, CheckResult, CheckKey,
     ReadPending, SaveResult, SaveKey, DeletePending, Release, Gives, AcquireRaises, Fail,
     Crash, vars
<1>3. Stays(q)
  <2>1. CASE Refused(q)
    BY <1>1, <1>2, <2>1 DEF IInv, Refusals, Stays
  <2>2. CASE ~Refused(q)
    BY <1>1, <1>2, <2>2, RefusedStep
  <2>. QED BY <2>1, <2>2
<1>. QED BY <1>1, <1>3, StaysStep

-----------------------------------------------------------------------------
(* Theorems *)

LEMMA Start == Init => IInv
BY DEF Init, IInv, TypeOK, Mutex, Saved, Replies, Once, Refusals, Refused, Answer, Result,
       Inside, Place

LEMMA Invariant == Spec => []IInv
<1>1. IInv /\ [Next]_vars => IInv'
  BY TypeStep, MutexStep, SavedStep, RepliesStep, OnceStep, RefusalsStep DEF IInv
<1>. QED BY Start, <1>1, PTL DEF Spec

\* Every value of the confirmation stays in its type.
THEOREM TypeCorrect == Spec => []TypeOK
<1>1. IInv => TypeOK
  BY DEF IInv
<1>. QED BY Invariant, <1>1, PTL

\* A prepared action is submitted at most once, unless a handler outlived its lock.
THEOREM TaskCorrect == Spec => []OneTaskPerToken
<1>1. IInv => OneTaskPerToken
  BY DEF IInv, TypeOK, Once, OneTaskPerToken
<1>. QED BY Invariant, <1>1, PTL

\* A task that a client is told was saved, for its token and its key.
THEOREM AnswerCorrect == Spec => []AnswerIsForRequest
<1>1. IInv => AnswerIsForRequest
  BY DEF IInv, Replies, IsFor, AnswerIsForRequest
<1>. QED BY Invariant, <1>1, PTL

\* The token and the key of a refused client are never submitted.
THEOREM RefusalCorrect == Spec => []RefusalIsDefinitive
<1>1. IInv => RefusalIsDefinitive
  BY DEF IInv, TypeOK, Refusals, Refused, Like, RefusalIsDefinitive
<1>. QED BY Invariant, <1>1, PTL

\* A step of a handler never frees the lock of another one.
THEOREM LockCorrect == Spec => LockIsOwn
<1>1. TypeOK /\ [Next]_vars =>
        [\A t \in Token : lock[t] # None /\ lock'[t] # lock[t] =>
           \A r \in Request : pc'[r] # pc[r] => lock[t] = r]_vars
  <2> SUFFICES ASSUME TypeOK, Next
               PROVE  \A t \in Token : lock[t] # None /\ lock'[t] # lock[t] =>
                        \A r \in Request : pc'[r] # pc[r] => lock[t] = r
    BY DEF vars
  <2>1. ASSUME NEW t \in Token, Prepare(t) \/ ExpirePending(t) \/ ExpireLock(t)
        PROVE  pc' = pc
    BY <2>1 DEF Prepare, ExpirePending, ExpireLock
  <2>2. ASSUME NEW q \in Request, Confirm(q), NEW t \in Token, lock[t] # None, lock'[t] # lock[t]
        PROVE  lock[t] = q
    BY <2>2 DEF TypeOK, Confirm, Acquire, AcquireRaises, CheckResult, CheckKey, ReadPending,
                SaveResult, SaveKey, DeletePending, Fail, Release, Crash, redis
  <2>. QED BY <2>1, <2>2, OneMoves DEF Next
<1>. QED BY TypeCorrect, <1>1, PTL DEF Spec, LockIsOwn
=============================================================================
