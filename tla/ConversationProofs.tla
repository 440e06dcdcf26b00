-------------------------- MODULE ConversationProofs --------------------------
(***************************************************************************)
(* Proofs about Conversation, for all requests, users, keys and inputs,    *)
(* about ChatStream, for every limit on the steps, and about EventStream,  *)
(* for all sizes of the two channels and every number of steps.            *)
(*                                                                         *)
(*   ConversationTypeCorrect  ConversationSpec => []ConversationTypeOK     *)
(*   CountCorrect             ConversationSpec => []MessageCountIsExact    *)
(*   CreationCorrect          ConversationSpec => []CreatedOncePerKey      *)
(*   OutcomeCorrect           ConversationSpec => []OutcomeIsOne           *)
(*   ChatTypeCorrect          ChatSpec => []ChatTypeOK                     *)
(*   ChatCorrect              ChatSpec => []StreamIsWellFormed             *)
(*   StreamTypeCorrect        StreamSpec => []StreamTypeOK                 *)
(*   PrefixCorrect            StreamSpec => []EventsAreAPrefix             *)
(*   EndCorrect               StreamSpec => []NoSilentEnd                  *)
(*                                                                         *)
(* A step is one of one request, r.  What the invariant says of the others *)
(* is kept because no step takes back what another request has stored      *)
(* (lemma OthersHold), so that of every action only what it does to its    *)
(* own request is left to show.                                            *)
(*                                                                         *)
(* Of a stream the invariant says what may follow what was sent: the chunk *)
(* on its way (CarriedFits), and what the generators are still to make     *)
(* (PointFits).  One lemma says what sending does (SentGrows), one what an *)
(* audit does (Audited).                                                   *)
(*                                                                         *)
(* Of the events of a run, what has been received and what is on its way   *)
(* form one sequence, Events.  The response only moves events along it     *)
(* (lemma Passing); the producer, and the response at its end, append one  *)
(* (lemmas Emitting and FailureFollows).  The rest of the invariant says   *)
(* who is where when that happens.                                         *)
(***************************************************************************)
EXTENDS Conversation, ChatStream, EventStream, FiniteSetTheorems, SequenceTheorems, TLAPS


USE AskAssumption

-----------------------------------------------------------------------------
(* The inductive invariant, in parts *)

\* The run of r has its question, and a session that is one of its user.
RunIsStored(r) ==
  /\ <<r, "user">> \in messages <=> status[r] # "none"
  /\ <<r, "assistant">> \in messages => status[r] \in {"completed", "failed"}
  /\ status[r] # "none" => place[r] \in Ask /\ UserOf[place[r]] = UserOf[r]
  /\ status[r] = "ready" => r \in Create

\* Where chat r is tells what it has stored; its audit and its answer come last.  A chat
\* that is about to fail may have been completed, if nobody told it so.
ChatIsAt(r) ==
  /\ at[r] \in {"idle", "route", "start", "context", "complete", "audit", "fail",
                "auditFailure", "done"}
  /\ at[r] \in {"idle", "route", "start"} => status[r] = "none"
  /\ at[r] \in {"context", "complete"} => status[r] = "running"
  /\ at[r] = "audit" => status[r] = "completed"
  /\ at[r] = "fail" => \/ status[r] = "running"
                       \/ status[r] = "completed" /\ "answer" \in lost[r]
  /\ at[r] = "auditFailure" => status[r] = "failed"
  /\ audit[r] # "none" => at[r] = "done"
  /\ OneOutcome(r)

\* Creation r stores nothing before it is done; when it inserts, it has seen that the
\* session it asks for is one of its user.
CreationIsAt(r) ==
  /\ at[r] \in {"idle", "load", "create", "insert", "reload", "done"}
  /\ at[r] # "done" => status[r] = "none"
  /\ at[r] = "insert" /\ want[r] # New => UserOf[want[r]] = UserOf[r]

\* Creation r, if a run is its answer, was given one of its key that has its input.
AnswerIsRun(r) ==
  /\ reply[r] # "none" => at[r] = "done"
  /\ r \in Create /\ reply[r] \in Ask =>
       /\ reply[r] \in Create /\ status[reply[r]] # "none"
       /\ SameKey(reply[r], r) /\ digest[reply[r]] = Digest(r)

RequestInv(r) ==
  /\ RunIsStored(r) /\ AnswerIsRun(r)
  /\ r \in Chat => ChatIsAt(r)
  /\ r \in Create => CreationIsAt(r)

\* The unique key of the table of runs: creations with one key have stored one run.
OneRunPerKey ==
  \A q, r \in Create :
    SameKey(q, r) /\ status[q] # "none" /\ status[r] # "none" => q = r

MessagesAreCounted == IsFiniteSet(messages) /\ MessageCountIsExact

ConversationInv ==
  /\ ConversationTypeOK
  /\ \A r \in Ask : RequestInv(r)
  /\ OneRunPerKey /\ MessagesAreCounted

\* The invariant implies the properties.
LEMMA InvariantSuffices ==
  ConversationInv => MessageCountIsExact /\ CreatedOncePerKey /\ OutcomeIsOne
<1> SUFFICES ASSUME ConversationInv PROVE CreatedOncePerKey /\ OutcomeIsOne
  BY DEF ConversationInv, MessagesAreCounted
<1>1. OutcomeIsOne
  BY DEF ConversationInv, RequestInv, ChatIsAt, OutcomeIsOne
<1>2. ASSUME NEW q \in Create, NEW r \in Create, SameKey(q, r)
      PROVE  /\ status[q] # "none" /\ status[r] # "none" => q = r
             /\ reply[r] \in Ask =>
                  /\ digest[reply[r]] = Digest(r) /\ UserOf[place[reply[r]]] = UserOf[r]
                  /\ reply[q] \in Ask => reply[q] = reply[r]
  <2>1. status[q] # "none" /\ status[r] # "none" => q = r
    BY <1>2 DEF ConversationInv, OneRunPerKey
  <2>2. \A x \in {q, r} : reply[x] \in Ask =>
          /\ reply[x] \in Create /\ status[reply[x]] # "none"
          /\ SameKey(reply[x], x) /\ digest[reply[x]] = Digest(x)
    BY DEF ConversationInv, RequestInv, AnswerIsRun, Create
  <2>3. ASSUME reply[r] \in Ask
        PROVE  UserOf[place[reply[r]]] = UserOf[r]
    BY <2>2, <2>3 DEF ConversationInv, RequestInv, RunIsStored, SameKey
  <2>4. ASSUME reply[r] \in Ask, reply[q] \in Ask
        PROVE  reply[q] = reply[r]
    <3>1. SameKey(reply[q], reply[r])
      BY <1>2, <2>2, <2>4 DEF SameKey
    <3>. QED BY <2>2, <2>4, <3>1 DEF ConversationInv, OneRunPerKey
  <2>. QED BY <2>1, <2>2, <2>3, <2>4
<1>. QED BY <1>1, <1>2 DEF CreatedOncePerKey

-----------------------------------------------------------------------------
(* The messages of a session *)

\* A run that is inserted (_create_run) adds one message, in one session.
LEMMA InsertRunCounts ==
  ASSUME ConversationTypeOK, \A q \in Ask : RunIsStored(q), MessagesAreCounted,
         NEW r \in Ask, NEW initial, InsertRun(r, initial), status[r] = "none"
  PROVE  MessagesAreCounted'
<1> DEFINE m == <<r, "user">>
<1>1. /\ messages' = messages \cup {m} /\ place' = [place EXCEPT ![r] = Session(r)]
      /\ count' = [count EXCEPT ![Session(r)] = @ + 1] /\ Session(r) \in Ask
  BY DEF InsertRun, ConversationTypeOK, Session
<1>2. \A n \in messages : n[1] \in Ask \ {r}
  <2>1. <<r, "user">> \notin messages /\ <<r, "assistant">> \notin messages
    BY DEF RunIsStored
  <2>. QED BY <2>1 DEF ConversationTypeOK
<1>3. IsFiniteSet(messages')
  BY <1>1, FS_AddElement DEF MessagesAreCounted
<1>4. ASSUME NEW s \in Ask
      PROVE  count'[s] = Cardinality(MessagesOf(s)')
  <2>1. IsFiniteSet(MessagesOf(s)) /\ count[s] = Cardinality(MessagesOf(s))
    BY FS_Subset DEF MessagesAreCounted, MessageCountIsExact, MessagesOf
  <2>2. \A n \in messages : place'[n[1]] = place[n[1]]
    BY <1>1, <1>2 DEF ConversationTypeOK
  <2>3. place'[m[1]] = Session(r)
    BY <1>1 DEF ConversationTypeOK
  <2>4. CASE s = Session(r)
    <3>1. MessagesOf(s)' = MessagesOf(s) \cup {m} /\ m \notin MessagesOf(s)
      BY <1>1, <1>2, <2>2, <2>3, <2>4 DEF MessagesOf
    <3>2. count'[s] = count[s] + 1
      BY <1>1, <2>4 DEF ConversationTypeOK
    <3>. QED BY <2>1, <3>1, <3>2, FS_AddElement
  <2>5. CASE s # Session(r)
    <3>1. MessagesOf(s)' = MessagesOf(s)
      BY <1>1, <2>2, <2>3, <2>5 DEF MessagesOf
    <3>. QED BY <1>1, <2>1, <2>5, <3>1 DEF ConversationTypeOK
  <2>. QED BY <2>4, <2>5
<1>. QED BY <1>3, <1>4 DEF MessagesAreCounted, MessageCountIsExact

\* So does an answer that was not there yet (_insert_assistant_message).
LEMMA InsertAnswerCounts ==
  ASSUME ConversationTypeOK, MessagesAreCounted, NEW r \in Ask, InsertAnswer(r),
         <<r, "assistant">> \notin messages, place[r] \in Ask, UNCHANGED place
  PROVE  MessagesAreCounted'
<1> DEFINE m == <<r, "assistant">>
<1>1. messages' = messages \cup {m} /\ count' = [count EXCEPT ![place[r]] = @ + 1]
  BY DEF InsertAnswer
<1>2. IsFiniteSet(messages')
  BY <1>1, FS_AddElement DEF MessagesAreCounted
<1>3. ASSUME NEW s \in Ask
      PROVE  count'[s] = Cardinality(MessagesOf(s)')
  <2>1. IsFiniteSet(MessagesOf(s)) /\ count[s] = Cardinality(MessagesOf(s))
    BY FS_Subset DEF MessagesAreCounted, MessageCountIsExact, MessagesOf
  <2>2. CASE s = place[r]
    <3>1. MessagesOf(s)' = MessagesOf(s) \cup {m} /\ m \notin MessagesOf(s)
      BY <1>1, <2>2 DEF MessagesOf
    <3>2. count'[s] = count[s] + 1
      BY <1>1, <2>2 DEF ConversationTypeOK
    <3>3. Cardinality(MessagesOf(s) \cup {m}) = Cardinality(MessagesOf(s)) + 1
      <4>. HIDE DEF m
      <4>. QED BY <2>1, <3>1, FS_AddElement
    <3>. QED BY <2>1, <3>1, <3>2, <3>3
  <2>3. CASE s # place[r]
    <3>1. MessagesOf(s)' = MessagesOf(s)
      BY <1>1, <2>3 DEF MessagesOf
    <3>. QED BY <1>1, <2>1, <2>3, <3>1 DEF ConversationTypeOK
  <2>. QED BY <2>2, <2>3
<1>. QED BY <1>2, <1>3 DEF MessagesAreCounted, MessageCountIsExact

\* Where nothing is inserted, nothing is counted.
LEMMA NothingCounts ==
  ASSUME MessagesAreCounted, UNCHANGED <<count, messages, place>>
  PROVE  MessagesAreCounted'
BY DEF MessagesAreCounted, MessageCountIsExact, MessagesOf

-----------------------------------------------------------------------------
(* One request moves *)

\* The handler of request q does nothing.
Rests(q) ==
  at'[q] = at[q] /\ reply'[q] = reply[q] /\ want'[q] = want[q] /\ lost'[q] = lost[q]

\* Request r moves, and takes back nothing that was stored.
OnlyMoves(r) ==
  /\ \A q \in Ask \ {r} :
       /\ Rests(q)
       /\ place'[q] = place[q] /\ status'[q] = status[q]
       /\ digest'[q] = digest[q] /\ audit'[q] = audit[q]
       /\ \A who \in {"user", "assistant"} : <<q, who>> \in messages' <=> <<q, who>> \in messages
  /\ status[r] # "none" => status'[r] # "none" /\ digest'[r] = digest[r]

LEMMA OthersHold ==
  ASSUME \A q \in Ask : RequestInv(q), NEW r \in Ask, OnlyMoves(r), RequestInv(r)'
  PROVE  \A q \in Ask : RequestInv(q)'
<1>1. ASSUME NEW q \in Ask \ {r}
      PROVE  RequestInv(q)'
  <2>1. RequestInv(q)
    OBVIOUS
  <2>2. RunIsStored(q)'
    BY <2>1 DEF OnlyMoves, Rests, RequestInv, RunIsStored
  <2>3. AnswerIsRun(q)'
    <3>1. Rests(q)
      BY DEF OnlyMoves, Rests
    <3>2. ASSUME q \in Create, reply[q] \in Ask
          PROVE  /\ reply[q] \in Create /\ status'[reply[q]] # "none"
                 /\ SameKey(reply[q], q) /\ digest'[reply[q]] = Digest(q)
      <4>1. /\ reply[q] \in Create /\ status[reply[q]] # "none"
            /\ SameKey(reply[q], q) /\ digest[reply[q]] = Digest(q)
        BY <2>1, <3>2 DEF RequestInv, AnswerIsRun
      <4>2. /\ status[reply[q]] # "none" => status'[reply[q]] # "none"
            /\ status[reply[q]] # "none" => digest'[reply[q]] = digest[reply[q]]
        <5>1. CASE reply[q] = r
          BY <5>1 DEF OnlyMoves, Rests
        <5>2. CASE reply[q] # r
          BY <3>2, <5>2 DEF OnlyMoves, Rests
        <5>. QED BY <5>1, <5>2
      <4>. QED BY <4>1, <4>2
    <3>. QED BY <2>1, <3>1, <3>2 DEF RequestInv, AnswerIsRun, Digest, SameKey, Rests
  <2>4. q \in Chat => ChatIsAt(q)'
    BY <2>1 DEF OnlyMoves, Rests, RequestInv, ChatIsAt, OneOutcome, Answered
  <2>5. q \in Create => CreationIsAt(q)'
    BY <2>1 DEF OnlyMoves, Rests, RequestInv, CreationIsAt, Create
  <2>. QED BY <2>2, <2>3, <2>4, <2>5 DEF RequestInv
<1>. QED BY <1>1

\* A step of r that stores nothing: where r is now must fit what is stored.
LEMMA HandlerHolds ==
  ASSUME ConversationInv, NEW r \in Ask, UNCHANGED database, ConversationTypeOK',
         \A q \in Ask \ {r} : Rests(q),
         AnswerIsRun(r)',
         r \in Chat => ChatIsAt(r)',
         r \in Create => CreationIsAt(r)'
  PROVE  ConversationInv'
<1>1. OnlyMoves(r)
  BY DEF OnlyMoves, Rests, database
<1>2. RequestInv(r)'
  BY DEF ConversationInv, RequestInv, RunIsStored, database
<1>3. \A q \in Ask : RequestInv(q)'
  BY <1>1, <1>2, OthersHold DEF ConversationInv
<1>4. OneRunPerKey' /\ MessagesAreCounted'
  BY NothingCounts DEF ConversationInv, OneRunPerKey, SameKey, Create, database
<1>. QED BY <1>3, <1>4 DEF ConversationInv

-----------------------------------------------------------------------------
(* The type invariant *)

Where == {"idle", "route", "start", "context", "complete", "audit", "fail", "auditFailure",
          "load", "create", "insert", "reload", "done"}
What  == Ask \cup {"none", "error", "conflict", "notFound"}
Loss  == {"start", "answer", "failure", "handler"}

\* What every action does to the handlers, but for the arrival.
LEMMA HandlersTyped ==
  ASSUME ConversationTypeOK, NEW r \in Ask, UNCHANGED <<agent, want>>,
         \/ \E where \in Where : Goto(r, where)
         \/ \E what \in What : Answer(r, what)
         \/ UNCHANGED <<at, reply>>,
         UNCHANGED lost \/ \E what \in Loss : Lose(r, what)
  PROVE  /\ at' \in [Ask -> Where] /\ reply' \in [Ask -> What] /\ lost' \in [Ask -> SUBSET Loss]
         /\ agent' \in [Ask -> {"none", "order", "payment", "unsupported"}]
         /\ want' \in [Ask -> Ask \cup {New}]
<1>1. /\ at \in [Ask -> Where] /\ reply \in [Ask -> What] /\ lost \in [Ask -> SUBSET Loss]
      /\ agent \in [Ask -> {"none", "order", "payment", "unsupported"}]
      /\ want \in [Ask -> Ask \cup {New}]
  BY DEF ConversationTypeOK, Where, What, Loss
<1>2. "done" \in Where
  BY DEF Where
<1>3. lost' \in [Ask -> SUBSET Loss]
  BY <1>1 DEF Lose
<1>. QED BY <1>1, <1>2, <1>3 DEF Goto, Answer

LEMMA TypeKept ==
  ASSUME ConversationTypeOK, [ConversationNext]_conversationVars
  PROVE  ConversationTypeOK'
<1>1. CASE UNCHANGED conversationVars
  BY <1>1 DEF ConversationTypeOK, conversationVars
<1>2. ASSUME NEW r \in Ask, NEW s \in Wants[r], Arrive(r, s)
      PROVE  ConversationTypeOK'
  <2>1. s \in Ask \cup {New}
    OBVIOUS
  <2>2. at' \in [Ask -> Where]
    BY <1>2 DEF Arrive, Goto, ConversationTypeOK, Where
  <2>3. agent' \in [Ask -> {"none", "order", "payment", "unsupported"}]
    <3>1. PICK a \in IF r \in Chat THEN Agents[r] ELSE {"none"} : agent' = [agent EXCEPT ![r] = a]
      BY <1>2 DEF Arrive
    <3>2. a \in {"none", "order", "payment", "unsupported"}
      BY <3>1
    <3>. QED BY <3>1, <3>2 DEF ConversationTypeOK
  <2>4. want' = [want EXCEPT ![r] = s] /\ UNCHANGED <<database, reply, lost>>
    BY <1>2 DEF Arrive, Goto
  <2>. QED BY <2>1, <2>2, <2>3, <2>4 DEF ConversationTypeOK, database, Where
<1>3. ASSUME NEW r \in Ask,
             \/ Route(r) \/ AnswerOrder(r) \/ AnswerPayment(r) \/ AnswerUnsupported(r)
             \/ LoadContext(r) \/ FindRun(r) \/ ReloadRun(r) \/ Vanish(r)
      PROVE  ConversationTypeOK'
  <2>1. UNCHANGED <<database, agent, want>>
    BY <1>3 DEF Route, AnswerOrder, AnswerPayment, AnswerUnsupported, LoadContext, FindRun,
                ReloadRun, Vanish
  <2>2. \/ \E where \in Where : Goto(r, where)
        \/ \E what \in What : Answer(r, what)
    BY <1>3 DEF Route, AnswerOrder, AnswerPayment, AnswerUnsupported, LoadContext, FindRun,
                ReloadRun, Vanish, Replay, Existing, Create, Where, What
  <2>3. UNCHANGED lost \/ \E what \in Loss : Lose(r, what)
    BY <1>3 DEF Route, AnswerOrder, AnswerPayment, AnswerUnsupported, LoadContext, FindRun,
                ReloadRun, Vanish, Loss
  <2>. QED BY <2>1, <2>2, <2>3, HandlersTyped DEF ConversationTypeOK, database, Where, What, Loss
<1>4. ASSUME NEW r \in Ask, StartRun(r) \/ CreateRun(r)
      PROVE  ConversationTypeOK'
  <2>1. UNCHANGED <<audit, agent, want>>
    BY <1>4 DEF StartRun, CreateRun
  <2>2. \/ \E where \in Where : Goto(r, where)
        \/ \E what \in What : Answer(r, what)
    BY <1>4 DEF StartRun, CreateRun, Where, What
  <2>3. \/ UNCHANGED <<count, messages, place, status>>
        \/ \E initial \in {"running", "ready"} : InsertRun(r, initial)
    BY <1>4 DEF StartRun, CreateRun
  <2>4. /\ count' \in [Ask -> Nat] /\ messages' \subseteq Ask \X {"user", "assistant"}
        /\ place' \in [Ask -> Ask \cup {New}] /\ status' \in [Ask -> Status]
    BY <2>3 DEF InsertRun, Session, Status, ConversationTypeOK
  <2>5. digest' \in [Ask -> {New} \cup {<<BodyOf[q], s>> : q \in Ask, s \in Ask \cup {New}}]
    <3> DEFINE D == {New} \cup {<<BodyOf[q], s>> : q \in Ask, s \in Ask \cup {New}}
    <3>1. Digest(r) \in D /\ digest \in [Ask -> D]
      BY DEF Digest, ConversationTypeOK
    <3>2. UNCHANGED digest \/ digest' = [digest EXCEPT ![r] = Digest(r)]
      BY <1>4 DEF StartRun, CreateRun
    <3>. HIDE DEF D
    <3>3. digest' \in [Ask -> D]
      BY <3>1, <3>2
    <3>. QED BY <3>3 DEF D
  <2>6. UNCHANGED lost \/ \E what \in Loss : Lose(r, what)
    BY <1>4 DEF StartRun, CreateRun, Loss
  <2>. QED BY <2>1, <2>2, <2>4, <2>5, <2>6, HandlersTyped DEF ConversationTypeOK, Where, What, Loss
<1>5. ASSUME NEW r \in Ask, CompleteRun(r) \/ FailRun(r) \/ RecordAudit(r) \/ FinishManaged(r)
      PROVE  ConversationTypeOK'
  <2>1. UNCHANGED <<place, digest, agent, want>>
    BY <1>5 DEF CompleteRun, FailRun, RecordAudit, FinishManaged
  <2>2. \/ \E where \in Where : Goto(r, where)
        \/ \E what \in What : Answer(r, what)
        \/ UNCHANGED <<at, reply>>
    BY <1>5 DEF CompleteRun, FailRun, RecordAudit, FinishManaged, Where, What
  <2>3. UNCHANGED <<count, messages>> \/ InsertAnswer(r)
    BY <1>5 DEF CompleteRun, FailRun, RecordAudit, FinishManaged
  <2>4. count' \in [Ask -> Nat] /\ messages' \subseteq Ask \X {"user", "assistant"}
    BY <2>3 DEF InsertAnswer, ConversationTypeOK
  <2>5. status' \in [Ask -> Status] /\ audit' \in [Ask -> {"none", "completed", "failed"}]
    BY <1>5 DEF CompleteRun, FailRun, RecordAudit, FinishManaged, Status, ConversationTypeOK
  <2>6. UNCHANGED lost \/ \E what \in Loss : Lose(r, what)
    BY <1>5 DEF CompleteRun, FailRun, RecordAudit, FinishManaged, Loss
  <2>. QED BY <2>1, <2>2, <2>4, <2>5, <2>6, HandlersTyped DEF ConversationTypeOK, Where, What, Loss
<1>. QED BY <1>1, <1>2, <1>3, <1>4, <1>5 DEF ConversationNext

-----------------------------------------------------------------------------
(* The steps that store nothing *)

LEMMA ArriveHolds ==
  ASSUME ConversationInv, ConversationTypeOK', NEW r \in Ask, NEW s \in Wants[r], Arrive(r, s)
  PROVE  ConversationInv'
<1>1. /\ at[r] = "idle" /\ UNCHANGED <<database, reply, lost>>
      /\ \A q \in Ask \ {r} : Rests(q)
  BY DEF Arrive, Goto, Rests, ConversationInv, ConversationTypeOK
<1>2. r \in Chat => at'[r] \in {"route", "start"}
  BY DEF Arrive, Goto, ConversationInv, ConversationTypeOK
<1>3. r \in Create => at'[r] \in {"create", "load"}
  BY DEF Arrive, Goto, ConversationInv, ConversationTypeOK, Create
<1>4. RequestInv(r)
  BY DEF ConversationInv
<1>5. reply[r] = "none"
  BY <1>1, <1>4 DEF RequestInv, AnswerIsRun
<1>6. AnswerIsRun(r)'
  BY <1>1, <1>5 DEF AnswerIsRun
<1>7. r \in Chat => ChatIsAt(r)'
  BY <1>1, <1>2, <1>4 DEF RequestInv, ChatIsAt, OneOutcome, Answered, database
<1>8. r \in Create => CreationIsAt(r)'
  BY <1>1, <1>3, <1>4 DEF RequestInv, CreationIsAt, database
<1>. QED BY <1>1, <1>6, <1>7, <1>8, HandlerHolds

\* A chat moves on with its run, or gives up.
LEMMA ChatMoveHolds ==
  ASSUME ConversationInv, ConversationTypeOK', NEW r \in Chat,
         Route(r) \/ AnswerOrder(r) \/ AnswerPayment(r) \/ AnswerUnsupported(r) \/ Vanish(r)
  PROVE  ConversationInv'
<1>1. UNCHANGED <<database, want>> /\ \A q \in Ask \ {r} : Rests(q)
  BY DEF Route, AnswerOrder, AnswerPayment, AnswerUnsupported, Vanish, Goto, Answer, Lose, Rests,
         ConversationInv, ConversationTypeOK
<1>2. RequestInv(r)
  BY DEF ConversationInv
<1>3. \/ at[r] = "route" /\ at'[r] = "start" /\ reply'[r] = reply[r] /\ lost'[r] = lost[r]
      \/ /\ at[r] = "context" /\ at'[r] \in {"complete", "fail"}
         /\ reply'[r] = reply[r] /\ lost'[r] = lost[r]
      \/ at[r] = "route" /\ at'[r] = "done" /\ reply'[r] = "error" /\ lost'[r] = lost[r]
      \/ /\ at[r] # "done" /\ at'[r] = "done" /\ reply'[r] = "error"
         /\ lost'[r] = lost[r] \cup {"handler"}
  BY DEF Route, AnswerOrder, AnswerPayment, AnswerUnsupported, Vanish, Goto, Answer, Lose,
         ConversationInv, ConversationTypeOK
<1>4. reply[r] = "none" /\ audit[r] = "none"
  BY <1>2, <1>3 DEF RequestInv, AnswerIsRun, ChatIsAt
<1>5. AnswerIsRun(r)'
  BY <1>3, <1>4 DEF AnswerIsRun, Create
<1>6. ChatIsAt(r)'
  BY <1>1, <1>2, <1>3, <1>4 DEF RequestInv, ChatIsAt, OneOutcome, Answered, database
<1>. QED BY <1>1, <1>5, <1>6, HandlerHolds DEF Create

\* A creation moves on while there is no run under its key, and answers when there is one.
LEMMA CreationMoveHolds ==
  ASSUME ConversationInv, ConversationTypeOK', NEW r \in Create,
         LoadContext(r) \/ FindRun(r) \/ ReloadRun(r) \/ Vanish(r)
  PROVE  ConversationInv'
<1>1. UNCHANGED <<database, want>> /\ \A q \in Ask \ {r} : Rests(q)
  BY DEF LoadContext, FindRun, ReloadRun, Replay, Vanish, Goto, Answer, Lose, Rests,
         ConversationInv, ConversationTypeOK, Create
<1>2. RequestInv(r) /\ at[r] # "done"
  BY DEF ConversationInv, LoadContext, FindRun, ReloadRun, Vanish, Create
<1>3. \/ at'[r] = "create" /\ reply'[r] = reply[r]
      \/ at'[r] = "insert" /\ reply'[r] = reply[r] /\ Visible(r)
      \/ at'[r] = "done" /\ reply'[r] \in {"error", "notFound", "conflict"}
      \/ /\ at'[r] = "done"
         /\ \E q \in Existing(r) : reply'[r] = q /\ digest[q] = Digest(r)
  <2>1. CASE LoadContext(r) \/ Vanish(r)
    BY <2>1 DEF LoadContext, Vanish, Goto, Answer, ConversationInv, ConversationTypeOK, Create
  <2>2. CASE FindRun(r) \/ ReloadRun(r)
    BY <2>2 DEF FindRun, ReloadRun, Replay, Goto, Answer, ConversationInv, ConversationTypeOK,
                Create
  <2>. QED BY <2>1, <2>2
<1>4. reply[r] = "none" /\ status[r] = "none"
  BY <1>2 DEF RequestInv, AnswerIsRun, CreationIsAt
<1>5. AnswerIsRun(r)'
  <2>1. CASE reply'[r] \notin Ask
    BY <1>3, <1>4, <2>1 DEF AnswerIsRun
  <2>2. CASE reply'[r] \in Ask
    <3>1. PICK q \in Existing(r) : reply'[r] = q /\ digest[q] = Digest(r) /\ at'[r] = "done"
      BY <1>3, <1>4, <2>2
    <3>2. q \in Create /\ status[q] # "none" /\ SameKey(q, r)
      BY DEF Existing
    <3>. QED BY <1>1, <3>1, <3>2 DEF AnswerIsRun, SameKey, Digest, database
  <2>. QED BY <2>1, <2>2
<1>6. CreationIsAt(r)'
  BY <1>1, <1>2, <1>3, <1>4 DEF CreationIsAt, Visible, database
<1>. QED BY <1>1, <1>5, <1>6, HandlerHolds DEF Create

-----------------------------------------------------------------------------
(* The steps that store something *)

LEMMA DatabaseHolds ==
  ASSUME ConversationInv, ConversationTypeOK', NEW r \in Ask, OnlyMoves(r), RequestInv(r)',
         OneRunPerKey', MessagesAreCounted'
  PROVE  ConversationInv'
<1>1. \A q \in Ask : RequestInv(q)'
  BY OthersHold DEF ConversationInv
<1>. QED BY <1>1 DEF ConversationInv

\* A chat has no key: what it does leaves the creations alone.
LEMMA ChatsHaveNoKey ==
  ASSUME OneRunPerKey, NEW r \in Chat, OnlyMoves(r)
  PROVE  OneRunPerKey'
BY DEF OneRunPerKey, OnlyMoves, SameKey, Create

LEMMA StartRunHolds ==
  ASSUME ConversationInv, ConversationTypeOK', NEW r \in Chat, StartRun(r)
  PROVE  ConversationInv'
<1>1. RequestInv(r) /\ reply[r] = "none" /\ status[r] = "none" /\ audit[r] = "none"
  BY DEF ConversationInv, RequestInv, AnswerIsRun, ChatIsAt, StartRun
<1>2. CASE UNCHANGED <<count, messages, place, status, lost>> /\ Answer(r, "notFound")
  <2>1. UNCHANGED database /\ at'[r] = "done" /\ reply'[r] = "notFound"
    BY <1>2 DEF StartRun, database, Answer, ConversationInv, ConversationTypeOK
  <2>2. \A q \in Ask \ {r} : Rests(q)
    BY <1>2 DEF StartRun, Answer, Rests, ConversationInv, ConversationTypeOK
  <2>3. AnswerIsRun(r)' /\ ChatIsAt(r)'
    BY <1>1, <2>1 DEF AnswerIsRun, ChatIsAt, OneOutcome, Answered, database, Create
  <2>. QED BY <2>1, <2>2, <2>3, HandlerHolds DEF Create
<1>3. CASE /\ Visible(r) /\ InsertRun(r, "running")
           /\ \/ Goto(r, "context") /\ UNCHANGED lost
              \/ Answer(r, "error") /\ Lose(r, "start")
  <2>1. \/ at'[r] = "context" /\ reply'[r] = reply[r]
        \/ at'[r] = "done" /\ reply'[r] = "error" /\ "start" \in lost'[r]
    BY <1>3 DEF Goto, Answer, Lose, ConversationInv, ConversationTypeOK
  <2>2. /\ status'[r] = "running" /\ place'[r] = Session(r) /\ UNCHANGED <<digest, audit, want>>
        /\ messages' = messages \cup {<<r, "user">>}
    BY <1>3 DEF StartRun, InsertRun, ConversationInv, ConversationTypeOK
  <2>3. OnlyMoves(r)
    BY <1>1, <1>3, <2>2 DEF OnlyMoves, Rests, StartRun, InsertRun, Goto, Answer, Lose, ConversationInv,
                            ConversationTypeOK
  <2>4. Session(r) \in Ask /\ UserOf[Session(r)] = UserOf[r]
    BY <1>3 DEF Session, Visible, ConversationInv, ConversationTypeOK
  <2>5. RunIsStored(r)'
    BY <1>1, <2>2, <2>4 DEF RequestInv, RunIsStored
  <2>6. AnswerIsRun(r)' /\ ChatIsAt(r)'
    BY <1>1, <2>1, <2>2 DEF AnswerIsRun, ChatIsAt, OneOutcome, Answered, Create
  <2>7. RequestInv(r)'
    BY <2>5, <2>6 DEF RequestInv, Create
  <2>8. MessagesAreCounted'
    BY <1>1, <1>3, InsertRunCounts DEF ConversationInv, RequestInv
  <2>. QED BY <2>3, <2>7, <2>8, ChatsHaveNoKey, DatabaseHolds DEF ConversationInv
<1>. QED BY <1>2, <1>3 DEF StartRun

LEMMA CompleteRunHolds ==
  ASSUME ConversationInv, ConversationTypeOK', NEW r \in Chat, CompleteRun(r)
  PROVE  ConversationInv'
<1>1. /\ RequestInv(r) /\ reply[r] = "none" /\ audit[r] = "none" /\ status[r] = "running"
      /\ <<r, "assistant">> \notin messages /\ place[r] \in Ask
  BY DEF ConversationInv, RequestInv, RunIsStored, AnswerIsRun, ChatIsAt, CompleteRun
<1>2. CASE UNCHANGED <<count, messages, status, lost>> /\ Goto(r, "fail")
  <2>1. UNCHANGED <<database, lost>> /\ at'[r] = "fail" /\ reply' = reply
    BY <1>2 DEF CompleteRun, database, Goto, ConversationInv, ConversationTypeOK
  <2>2. \A q \in Ask \ {r} : Rests(q)
    BY <1>2 DEF CompleteRun, Goto, Rests, ConversationInv, ConversationTypeOK
  <2>3. AnswerIsRun(r)' /\ ChatIsAt(r)'
    BY <1>1, <2>1 DEF AnswerIsRun, ChatIsAt, OneOutcome, Answered, database, Create
  <2>. QED BY <2>1, <2>2, <2>3, HandlerHolds DEF Create
<1>3. CASE /\ InsertAnswer(r) /\ status' = [status EXCEPT ![r] = "completed"]
           /\ \/ Goto(r, "audit") /\ UNCHANGED lost
              \/ Goto(r, "fail") /\ Lose(r, "answer")
  <2>1. /\ at'[r] = "audit" \/ (at'[r] = "fail" /\ "answer" \in lost'[r])
        /\ reply' = reply
    BY <1>3 DEF Goto, Lose, ConversationInv, ConversationTypeOK
  <2>2. /\ status'[r] = "completed" /\ UNCHANGED <<place, digest, audit, want>>
        /\ messages' = messages \cup {<<r, "assistant">>}
    BY <1>3 DEF CompleteRun, InsertAnswer, ConversationInv, ConversationTypeOK
  <2>3. OnlyMoves(r)
    BY <1>3, <2>2 DEF OnlyMoves, Rests, CompleteRun, Goto, Lose, ConversationInv,
                       ConversationTypeOK
  <2>4. RunIsStored(r)'
    BY <1>1, <2>2 DEF RequestInv, RunIsStored
  <2>5. AnswerIsRun(r)' /\ ChatIsAt(r)'
    BY <1>1, <2>1, <2>2 DEF AnswerIsRun, ChatIsAt, OneOutcome, Answered, Create
  <2>6. RequestInv(r)'
    BY <2>4, <2>5 DEF RequestInv, Create
  <2>7. MessagesAreCounted'
    BY <1>1, <1>3, <2>2, InsertAnswerCounts DEF ConversationInv
  <2>. QED BY <2>3, <2>6, <2>7, ChatsHaveNoKey, DatabaseHolds DEF ConversationInv
<1>. QED BY <1>2, <1>3 DEF CompleteRun

LEMMA FailRunHolds ==
  ASSUME ConversationInv, ConversationTypeOK', NEW r \in Chat, FailRun(r)
  PROVE  ConversationInv'
<1>1. /\ RequestInv(r) /\ reply[r] = "none" /\ audit[r] = "none"
      /\ \/ status[r] = "running" /\ <<r, "assistant">> \notin messages
         \/ status[r] = "completed" /\ "answer" \in lost[r] /\ <<r, "assistant">> \in messages
  BY DEF ConversationInv, RequestInv, RunIsStored, AnswerIsRun, ChatIsAt, OneOutcome, Answered,
         FailRun
<1>2. /\ UNCHANGED <<count, messages, place, digest, audit, want>>
      /\ \/ /\ at'[r] = "auditFailure" /\ reply'[r] = reply[r]
            /\ status'[r] = "failed" /\ lost'[r] = lost[r]
         \/ /\ at'[r] = "done" /\ reply'[r] = "error"
            /\ status'[r] = "failed" /\ lost'[r] = lost[r]
         \/ /\ at'[r] = "done" /\ reply'[r] = "error"
            /\ status'[r] = status[r] /\ lost'[r] = lost[r] \cup {"failure"}
  BY DEF FailRun, Goto, Answer, Lose, ConversationInv, ConversationTypeOK
<1>3. OnlyMoves(r)
  BY <1>1, <1>2 DEF OnlyMoves, Rests, FailRun, Goto, Answer, Lose, ConversationInv,
                          ConversationTypeOK
<1>4. RunIsStored(r)'
  BY <1>1, <1>2 DEF RequestInv, RunIsStored, Create
<1>5. AnswerIsRun(r)' /\ ChatIsAt(r)'
  BY <1>1, <1>2 DEF AnswerIsRun, ChatIsAt, OneOutcome, Answered, Create
<1>6. RequestInv(r)'
  BY <1>4, <1>5 DEF RequestInv, Create
<1>. QED BY <1>2, <1>3, <1>6, ChatsHaveNoKey, NothingCounts, DatabaseHolds DEF ConversationInv

LEMMA RecordAuditHolds ==
  ASSUME ConversationInv, ConversationTypeOK', NEW r \in Chat, RecordAudit(r)
  PROVE  ConversationInv'
<1>1. RequestInv(r) /\ reply[r] = "none" /\ audit[r] = "none"
  BY DEF ConversationInv, RequestInv, AnswerIsRun, ChatIsAt, RecordAudit
<1>2. /\ UNCHANGED <<count, messages, place, status, digest, want, lost>> /\ at'[r] = "done"
      /\ \/ /\ status[r] = "completed" /\ <<r, "assistant">> \in messages /\ reply'[r] = r
            /\ audit'[r] \in {"none", "completed"}
         \/ status[r] = "failed" /\ reply'[r] = "error" /\ audit'[r] \in {"none", "failed"}
  BY <1>1 DEF RecordAudit, Answer, RequestInv, ChatIsAt, OneOutcome, Answered, ConversationInv,
              ConversationTypeOK
<1>3. OnlyMoves(r)
  BY <1>2 DEF OnlyMoves, Rests, RecordAudit, Answer, ConversationInv, ConversationTypeOK
<1>4. RequestInv(r)'
  BY <1>1, <1>2 DEF RequestInv, RunIsStored, AnswerIsRun, ChatIsAt, OneOutcome, Answered, Create
<1>. QED BY <1>2, <1>3, <1>4, ChatsHaveNoKey, NothingCounts, DatabaseHolds DEF ConversationInv

LEMMA CreateRunHolds ==
  ASSUME ConversationInv, ConversationTypeOK', NEW r \in Create, CreateRun(r)
  PROVE  ConversationInv'
<1>1. RequestInv(r) /\ reply[r] = "none" /\ status[r] = "none"
  BY DEF ConversationInv, RequestInv, AnswerIsRun, CreationIsAt, CreateRun, Create
<1>2. CASE Goto(r, "reload") /\ UNCHANGED <<count, messages, place, status, digest, lost>>
  <2>1. UNCHANGED database /\ at'[r] = "reload" /\ reply' = reply
    BY <1>2 DEF CreateRun, database, Goto, ConversationInv, ConversationTypeOK, Create
  <2>2. \A q \in Ask \ {r} : Rests(q)
    BY <1>2 DEF CreateRun, Goto, Rests, ConversationInv, ConversationTypeOK
  <2>3. AnswerIsRun(r)' /\ CreationIsAt(r)'
    BY <1>1, <2>1 DEF AnswerIsRun, CreationIsAt, database
  <2>. QED BY <2>1, <2>2, <2>3, HandlerHolds DEF Create
<1>3. CASE /\ Existing(r) = {} /\ InsertRun(r, "ready")
           /\ digest' = [digest EXCEPT ![r] = Digest(r)]
           /\ \/ Answer(r, r) /\ UNCHANGED lost
              \/ Answer(r, "error") /\ Lose(r, "start")
  <2>1. /\ at'[r] = "done" /\ reply'[r] \in {r, "error"} /\ UNCHANGED <<audit, want>>
        /\ status'[r] = "ready" /\ place'[r] = Session(r) /\ digest'[r] = Digest(r)
        /\ messages' = messages \cup {<<r, "user">>}
    BY <1>3 DEF CreateRun, InsertRun, Answer, ConversationInv, ConversationTypeOK, Create
  <2>2. OnlyMoves(r)
    BY <1>1, <1>3, <2>1 DEF OnlyMoves, Rests, CreateRun, InsertRun, Answer, Lose, ConversationInv,
                            ConversationTypeOK
  <2>3. Session(r) \in Ask /\ UserOf[Session(r)] = UserOf[r]
    BY <1>1 DEF Session, RequestInv, CreationIsAt, CreateRun, ConversationInv,
                ConversationTypeOK, Create
  <2>4. RunIsStored(r)'
    BY <1>1, <2>1, <2>3 DEF RequestInv, RunIsStored
  <2>5. AnswerIsRun(r)' /\ CreationIsAt(r)'
    BY <2>1 DEF AnswerIsRun, CreationIsAt, SameKey, Digest
  <2>6. RequestInv(r)'
    BY <2>4, <2>5 DEF RequestInv, Create
  <2>7. OneRunPerKey'
    <3>1. \A q \in Create : SameKey(q, r) => status[q] = "none"
      BY <1>3 DEF Existing
    <3>2. \A q \in Create \ {r} : status'[q] = status[q]
      BY <2>2 DEF OnlyMoves, Rests, Create
    <3>. QED BY <3>1, <3>2 DEF ConversationInv, OneRunPerKey, SameKey
  <2>8. MessagesAreCounted'
    BY <1>1, <1>3, InsertRunCounts DEF ConversationInv, RequestInv, Create
  <2>. QED BY <2>2, <2>6, <2>7, <2>8, DatabaseHolds DEF Create
<1>. QED BY <1>2, <1>3 DEF CreateRun

LEMMA FinishManagedHolds ==
  ASSUME ConversationInv, ConversationTypeOK', NEW r \in Ask, FinishManaged(r)
  PROVE  ConversationInv'
<1>1. /\ RequestInv(r) /\ status[r] = "ready" /\ r \in Create
      /\ <<r, "assistant">> \notin messages /\ place[r] \in Ask
  BY DEF ConversationInv, RequestInv, RunIsStored, FinishManaged
<1>2. UNCHANGED <<place, digest, audit, at, agent, want, reply, lost>> /\ status'[r] = "completed"
  BY DEF FinishManaged, ConversationInv, ConversationTypeOK
<1>3. /\ messages \subseteq messages' /\ messages' \subseteq messages \cup {<<r, "assistant">>}
      /\ \A q \in Ask \ {r} : status'[q] = status[q]
  BY DEF FinishManaged, InsertAnswer, ConversationInv, ConversationTypeOK
<1>4. OnlyMoves(r)
  BY <1>2, <1>3 DEF OnlyMoves, Rests
<1>5. RunIsStored(r)'
  BY <1>1, <1>2, <1>3 DEF RequestInv, RunIsStored
<1>6. AnswerIsRun(r)'
  <2>1. ASSUME reply[r] \in Ask
        PROVE  status'[reply[r]] # "none"
    BY <1>1, <1>2, <1>3, <2>1 DEF RequestInv, AnswerIsRun
  <2>. QED BY <1>1, <1>2, <2>1 DEF RequestInv, AnswerIsRun, SameKey, Digest
<1>7. CreationIsAt(r)'
  BY <1>1, <1>2 DEF RequestInv, CreationIsAt
<1>8. RequestInv(r)'
  BY <1>1, <1>5, <1>6, <1>7 DEF RequestInv, Create
<1>9. OneRunPerKey'
  BY <1>1, <1>2, <1>3 DEF ConversationInv, OneRunPerKey, SameKey, Create
<1>10. MessagesAreCounted'
  <2>1. CASE InsertAnswer(r)
    BY <1>1, <1>2, <2>1, InsertAnswerCounts DEF ConversationInv
  <2>2. CASE UNCHANGED <<count, messages>>
    BY <1>2, <2>2, NothingCounts DEF ConversationInv
  <2>. QED BY <2>1, <2>2 DEF FinishManaged
<1>. QED BY <1>4, <1>8, <1>9, <1>10, DatabaseHolds

-----------------------------------------------------------------------------
(* The theorems *)

LEMMA ConversationInitially == ConversationInit => ConversationInv
<1> SUFFICES ASSUME ConversationInit PROVE ConversationInv
  OBVIOUS
<1>1. ConversationTypeOK
  BY DEF ConversationInit, ConversationTypeOK, Status
<1>2. ASSUME NEW r \in Ask
      PROVE  RequestInv(r)
  BY DEF ConversationInit, RequestInv, RunIsStored, AnswerIsRun, ChatIsAt, OneOutcome, Answered,
         CreationIsAt
<1>3. OneRunPerKey
  BY DEF ConversationInit, OneRunPerKey, Create
<1>4. MessagesAreCounted
  <2>1. \A s \in Ask : MessagesOf(s) = {}
    BY DEF ConversationInit, MessagesOf
  <2>2. Cardinality({}) = 0 /\ IsFiniteSet({})
    BY FS_EmptySet
  <2>. QED BY <2>1, <2>2 DEF ConversationInit, MessagesAreCounted, MessageCountIsExact
<1>. QED BY <1>1, <1>2, <1>3, <1>4 DEF ConversationInv

LEMMA ConversationStep ==
  ConversationInv /\ [ConversationNext]_conversationVars => ConversationInv'
<1> SUFFICES ASSUME ConversationInv, [ConversationNext]_conversationVars
             PROVE  ConversationInv'
  OBVIOUS
<1>1. ConversationTypeOK'
  BY TypeKept DEF ConversationInv
<1>2. CASE UNCHANGED conversationVars
  BY <1>1, <1>2, NothingCounts
  DEF conversationVars, ConversationInv, RequestInv, RunIsStored, AnswerIsRun, ChatIsAt,
      OneOutcome, Answered, CreationIsAt, OneRunPerKey, SameKey, Digest, Create
<1>3. ASSUME NEW r \in Ask, \E s \in Wants[r] : Arrive(r, s)
      PROVE  ConversationInv'
  BY <1>1, <1>3, ArriveHolds
<1>4. ASSUME NEW r \in Chat,
             \/ Route(r) \/ AnswerOrder(r) \/ AnswerPayment(r) \/ AnswerUnsupported(r) \/ Vanish(r)
             \/ StartRun(r) \/ CompleteRun(r) \/ FailRun(r) \/ RecordAudit(r)
      PROVE  ConversationInv'
  BY <1>1, <1>4, ChatMoveHolds, StartRunHolds, CompleteRunHolds, FailRunHolds, RecordAuditHolds
<1>5. ASSUME NEW r \in Create,
             LoadContext(r) \/ FindRun(r) \/ ReloadRun(r) \/ Vanish(r) \/ CreateRun(r)
      PROVE  ConversationInv'
  BY <1>1, <1>5, CreationMoveHolds, CreateRunHolds
<1>6. ASSUME NEW r \in Ask, FinishManaged(r)
      PROVE  ConversationInv'
  BY <1>1, <1>6, FinishManagedHolds
<1>7. ASSUME NEW r \in Ask,
             \/ Route(r) \/ AnswerOrder(r) \/ AnswerPayment(r) \/ AnswerUnsupported(r)
             \/ StartRun(r) \/ CompleteRun(r) \/ FailRun(r) \/ RecordAudit(r)
      PROVE  r \in Chat
  BY <1>7 DEF ConversationInv, RequestInv, CreationIsAt, Create, Route, AnswerOrder,
              AnswerPayment, AnswerUnsupported, StartRun, CompleteRun, FailRun, RecordAudit
<1>8. ASSUME NEW r \in Ask, LoadContext(r) \/ FindRun(r) \/ ReloadRun(r) \/ CreateRun(r)
      PROVE  r \in Create
  BY <1>8 DEF ConversationInv, RequestInv, ChatIsAt, Create, LoadContext, FindRun, ReloadRun,
              CreateRun
<1>. QED BY <1>2, <1>3, <1>4, <1>5, <1>6, <1>7, <1>8 DEF ConversationNext, Create

LEMMA ConversationInvariant == ConversationSpec => []ConversationInv
BY ConversationInitially, ConversationStep, PTL DEF ConversationSpec

\* Every variable has its type.
THEOREM ConversationTypeCorrect == ConversationSpec => []ConversationTypeOK
<1>1. ConversationInv => ConversationTypeOK
  BY DEF ConversationInv
<1>. QED BY <1>1, ConversationInvariant, PTL

\* A session counts exactly its messages (message_count of _create_run and
\* _insert_assistant_message), whatever raced, died, or only seemed to fail.
THEOREM CountCorrect == ConversationSpec => []MessageCountIsExact
BY InvariantSuffices, ConversationInvariant, PTL

\* Creations with one key get one run, of their input and their user (create_run).
THEOREM CreationCorrect == ConversationSpec => []CreatedOncePerKey
BY InvariantSuffices, ConversationInvariant, PTL

\* The client, the run, its audit and the conversation say the same of a chat, unless the
\* reply to a commit, the failure itself or the handler was lost; and then they differ only
\* as that loss allows (complete_run, fail_run and the handlers around them).
THEOREM OutcomeCorrect == ConversationSpec => []OutcomeIsOne
BY InvariantSuffices, ConversationInvariant, PTL

-----------------------------------------------------------------------------
(* The inductive invariant of ChatStream, in parts *)

Unended == \A i \in DOMAIN sent : sent[i] \notin Terminal
OnlyRoute == \A i \in DOMAIN sent : sent[i] = "route"
Begun == \E i \in DOMAIN sent : sent[i] = "run_started"

\* The audits there are all tell this ending.
AllTell(ending) == \A a \in audits : a.status = ending

SentInOrder ==
  \A i \in DOMAIN sent :
    /\ sent[i] = "route" => i = 1
    /\ sent[i] = "run_started" => \A j \in 1 .. i - 1 : sent[j] = "route"
    /\ sent[i] \in {"step_completed", "run_completed"} => \E j \in 1 .. i - 1 : sent[j] = "run_started"
    /\ sent[i] \in Terminal => i = Len(sent)

\* The chunk on its way is one that may follow what was sent.
CarriedFits ==
  /\ carried \in {"none", "route", "run_started", "step_completed", "run_completed", "error"}
  /\ carried = "route" => sent = <<>> /\ point = "start"
  /\ carried = "run_started" => OnlyRoute /\ point \in {"ready", "agent"}
  /\ carried = "step_completed" => Begun /\ point \in {"ready", "agent"}
  /\ carried = "run_completed" => Begun /\ point = "done" /\ AllTell("completed")
  /\ carried = "error" => point = "done" /\ AllTell("failed")

\* What is left of a result.
Results ==
  {<<"run_completed">>, <<"step_completed", "run_completed">>,
   <<"run_started", "run_completed">>, <<"run_started", "step_completed", "run_completed">>}

\* The run is about to begin, or it has.
RunFrom(beginning) ==
  IF beginning THEN OnlyRoute /\ carried = "none" ELSE Begun \/ carried = "run_started"

\* Before its end nothing is audited, unless the whole result is there.
PointFits ==
  /\ point # "gone" /\ (point # "done" \/ carried # "none") => Unended
  /\ point = "route" => sent = <<>> /\ carried = "none"
  /\ point = "start" => OnlyRoute
  /\ point \in {"route", "start"} => steps = -1
  /\ point \in {"route", "start", "agent"} => audits = {}
  /\ point = "ready" => ready \in Results /\ AllTell("completed") /\ RunFrom(Head(ready) = "run_started")
  /\ point = "agent" => RunFrom(steps = -1)
  /\ point = "done" /\ carried = "none" => sent # <<>> /\ sent[Len(sent)] \in Terminal
  /\ point = "gone" => carried = "none"

ChatStreamInv == ChatTypeOK /\ SentInOrder /\ CarriedFits /\ PointFits /\ AuditsAgree

-----------------------------------------------------------------------------
(* What is sent, and what is audited *)

ChatEvents == {"route", "run_started", "step_completed"} \cup Terminal

LEMMA SentGrows ==
  ASSUME ChatTypeOK, SentInOrder, Unended, NEW event \in ChatEvents, sent' = Append(sent, event),
         event = "route" => sent = <<>>, event = "run_started" => OnlyRoute,
         event \in {"step_completed", "run_completed"} => Begun
  PROVE  /\ sent' \in Seq(ChatEvents) /\ SentInOrder'
         /\ event \notin Terminal => Unended'
         /\ sent' # <<>> /\ sent'[Len(sent')] = event
         /\ \A i \in DOMAIN sent' : sent'[i] \in Terminal => sent'[i] = event
         /\ Begun \/ event = "run_started" => Begun'
         /\ event = "route" => OnlyRoute'
<1>1. sent \in Seq(ChatEvents)
  BY DEF ChatTypeOK, ChatEvents
<1>2. /\ sent' \in Seq(ChatEvents) /\ Len(sent) \in Nat /\ Len(sent') = Len(sent) + 1
      /\ DOMAIN sent = 1 .. Len(sent) /\ DOMAIN sent' = 1 .. Len(sent) + 1
      /\ \A i \in 1 .. Len(sent) : sent'[i] = sent[i]
      /\ sent'[Len(sent) + 1] = event
  BY <1>1
<1>3. SentInOrder'
  <2> SUFFICES ASSUME NEW i \in 1 .. Len(sent) + 1
               PROVE  /\ sent'[i] = "route" => i = 1
                      /\ sent'[i] = "run_started" => \A j \in 1 .. i - 1 : sent'[j] = "route"
                      /\ sent'[i] \in {"step_completed", "run_completed"} =>
                             \E j \in 1 .. i - 1 : sent'[j] = "run_started"
                      /\ sent'[i] \in Terminal => i = Len(sent')
    BY <1>2 DEF SentInOrder, Terminal
  <2>1. CASE i = Len(sent) + 1
    <3>1. event = "route" => Len(sent) = 0
      BY <1>1
    <3>. QED BY <1>2, <2>1, <3>1 DEF OnlyRoute, Begun
  <2>2. CASE i \in 1 .. Len(sent)
    <3>1. /\ sent[i] = "route" => i = 1
          /\ sent[i] = "run_started" => \A j \in 1 .. i - 1 : sent[j] = "route"
          /\ sent[i] \in {"step_completed", "run_completed"} => \E j \in 1 .. i - 1 : sent[j] = "run_started"
          /\ sent[i] \notin Terminal
      BY <1>2, <2>2 DEF SentInOrder, Unended
    <3>2. sent'[i] = sent[i] /\ \A j \in 1 .. i - 1 : sent'[j] = sent[j]
      BY <1>2, <2>2
    <3>. QED BY <3>1, <3>2
  <2>. QED BY <1>2, <2>1, <2>2
<1>4. event \notin Terminal => Unended'
  BY <1>2 DEF Unended, Terminal
<1>5. \A i \in DOMAIN sent' : sent'[i] \in Terminal => sent'[i] = event
  BY <1>2 DEF Unended
<1>6. Begun \/ event = "run_started" => Begun'
  BY <1>2 DEF Begun
<1>7. event = "route" => OnlyRoute'
  BY <1>1, <1>2 DEF OnlyRoute
<1>8. sent' # <<>> /\ sent'[Len(sent')] = event
  BY <1>2
<1>. QED BY <1>2, <1>3, <1>4, <1>5, <1>6, <1>7, <1>8

\* As long as nothing has ended the audits only have to agree with each other.
LEMMA UnendedAgree ==
  ASSUME Unended', NEW ending, AllTell(ending)'
  PROVE  AuditsAgree'
BY DEF Unended, AllTell, AuditsAgree, Terminal

LEMMA Audited ==
  ASSUME ChatTypeOK, NEW by \in {"specialist", "router"}, NEW ending \in {"completed", "failed"},
         Audit(by, ending), AllTell(ending)
  PROVE  /\ AllTell(ending)'
         /\ audits' \subseteq [by : {"specialist", "router"}, status : {"completed", "failed"}]
BY DEF Audit, AllTell, ChatTypeOK

\* What was sent does not change while a chunk is made or carried.
LEMMA NotSent ==
  ASSUME UNCHANGED sent
  PROVE  /\ Unended' <=> Unended
         /\ OnlyRoute' <=> OnlyRoute
         /\ Begun' <=> Begun
         /\ SentInOrder => SentInOrder'
BY DEF Unended, OnlyRoute, Begun, SentInOrder, Terminal

LEMMA RuleRouteTyped == ASSUME NEW q \in Question PROVE RuleRoute(q) \in Domains \cup {"none"}
BY DEF RuleRoute, Domains

-----------------------------------------------------------------------------
(* The steps of ChatStream *)

LEMMA ChatParts ==
  ASSUME ChatStreamInv
  PROVE  ChatTypeOK /\ SentInOrder /\ CarriedFits /\ PointFits /\ AuditsAgree
BY DEF ChatStreamInv

\* A layer that catches an exception is the last to speak.
LEMMA RaisingHolds ==
  ASSUME ChatStreamInv, point \in {"route", "start", "agent"}, carried = "none",
         NEW by \in {"specialist", "router"}, NEW to \in {"router", "client"},
         point' = "done", Hand("error", to), Audit(by, "failed"), invoiced' \in BOOLEAN,
         UNCHANGED <<chat, domain, ready, steps, sent>>
  PROVE  ChatStreamInv'
<1>1. ChatTypeOK /\ SentInOrder /\ Unended /\ audits = {}
  BY ChatParts DEF PointFits
<1>2. AllTell("failed")
  BY <1>1 DEF AllTell
<1>3. /\ AllTell("failed")'
      /\ audits' \subseteq [by : {"specialist", "router"}, status : {"completed", "failed"}]
  BY <1>1, <1>2, Audited
<1>4. Unended' /\ SentInOrder'
  BY <1>1, NotSent
<1>5. AuditsAgree'
  BY <1>3, <1>4, UnendedAgree
<1>6. ChatTypeOK'
  BY <1>1, <1>3 DEF ChatTypeOK, Hand
<1>7. CarriedFits' /\ PointFits'
  BY <1>3, <1>4 DEF CarriedFits, PointFits, Hand
<1>. QED BY <1>4, <1>5, <1>6, <1>7 DEF ChatStreamInv

LEMMA RoutedHolds ==
  ASSUME ChatStreamInv, Works("route"), domain' \in Domains, point' = "start", Hand("route", "client"),
         UNCHANGED <<chat, ready, steps, sent, audits, invoiced>>
  PROVE  ChatStreamInv'
<1>1. /\ ChatTypeOK /\ SentInOrder /\ AuditsAgree /\ Unended /\ audits = {} /\ sent = <<>>
      /\ steps = -1
  BY ChatParts DEF PointFits, Works
<1>2. Unended' /\ SentInOrder' /\ OnlyRoute'
  BY <1>1, NotSent DEF OnlyRoute
<1>3. AuditsAgree'
  BY <1>1 DEF AuditsAgree
<1>4. ChatTypeOK'
  BY <1>1 DEF ChatTypeOK, Hand
<1>5. CarriedFits' /\ PointFits'
  BY <1>1, <1>2 DEF CarriedFits, PointFits, Hand
<1>. QED BY <1>2, <1>3, <1>4, <1>5 DEF ChatStreamInv

LEMMA ResolveTokenHolds == ChatStreamInv /\ ResolveToken => ChatStreamInv'
<1> SUFFICES ASSUME ChatStreamInv, ResolveToken PROVE ChatStreamInv'
  OBVIOUS
<1>1. CASE RouterRaises
  <2>1. point = "route" /\ carried = "none" /\ invoiced' \in BOOLEAN
    BY <1>1, ChatParts DEF ResolveToken, Works, RouterRaises, ChatTypeOK
  <2>. QED BY <1>1, <2>1, RaisingHolds DEF RouterRaises
<1>2. CASE ~RouterRaises
  BY <1>2, RoutedHolds DEF ResolveToken, Domains
<1>. QED BY <1>1, <1>2

LEMMA PickRouteHolds == ChatStreamInv /\ PickRoute => ChatStreamInv'
<1> SUFFICES ASSUME ChatStreamInv, PickRoute PROVE ChatStreamInv'
  OBVIOUS
<1>1. CASE RouterRaises
  <2>1. point = "route" /\ carried = "none" /\ invoiced' \in BOOLEAN
    BY <1>1, ChatParts DEF PickRoute, Works, RouterRaises, ChatTypeOK
  <2>. QED BY <1>1, <2>1, RaisingHolds DEF RouterRaises
<1>2. CASE ~RouterRaises
  <2>1. chat.question \in Question
    BY ChatParts DEF ChatTypeOK, ChatRequest
  <2>2. RuleRoute(chat.question) \in Domains \cup {"none"}
    BY <2>1, RuleRouteTyped
  <2>. QED BY <1>2, <2>2, RoutedHolds DEF PickRoute
<1>. QED BY <1>1, <1>2

\* The answer of the router, and the result of a confirmation.
LEMMA ResultHolds ==
  ASSUME ChatStreamInv, Works("start"), point' = "ready",
         ready' \in {<<"run_started", "run_completed">>, <<"run_started", "step_completed", "run_completed">>},
         NEW by \in {"specialist", "router"}, Audit(by, "completed"), invoiced' \in BOOLEAN,
         UNCHANGED <<chat, domain, steps, carried, layer, sent>>
  PROVE  ChatStreamInv'
<1>1. ChatTypeOK /\ SentInOrder /\ Unended /\ OnlyRoute /\ audits = {} /\ carried = "none"
  BY ChatParts DEF PointFits, Works
<1>2. AllTell("completed")
  BY <1>1 DEF AllTell
<1>3. /\ AllTell("completed")'
      /\ audits' \subseteq [by : {"specialist", "router"}, status : {"completed", "failed"}]
  BY <1>1, <1>2, Audited
<1>4. Unended' /\ SentInOrder' /\ OnlyRoute'
  BY <1>1, NotSent
<1>5. AuditsAgree'
  BY <1>3, <1>4, UnendedAgree
<1>6. /\ Head(ready') = "run_started" /\ ready' \in Results
      /\ ready' \in Seq({"run_started", "step_completed", "run_completed"})
  <2>1. CASE ready' = <<"run_started", "run_completed">>
    BY <2>1 DEF Results
  <2>2. CASE ready' = <<"run_started", "step_completed", "run_completed">>
    BY <2>2 DEF Results
  <2>. QED BY <2>1, <2>2
<1>7. ChatTypeOK'
  BY <1>1, <1>3, <1>6 DEF ChatTypeOK
<1>8. CarriedFits' /\ PointFits'
  BY <1>1, <1>3, <1>4, <1>6 DEF CarriedFits, PointFits, RunFrom
<1>. QED BY <1>4, <1>5, <1>7, <1>8 DEF ChatStreamInv

LEMMA AnswerAtOnceHolds == ChatStreamInv /\ AnswerAtOnce => ChatStreamInv'
<1> SUFFICES ASSUME ChatStreamInv, AnswerAtOnce PROVE ChatStreamInv'
  OBVIOUS
<1>1. invoiced' \in BOOLEAN
  BY ChatParts DEF AnswerAtOnce, ChatTypeOK
<1>. QED BY <1>1, ResultHolds DEF AnswerAtOnce

LEMMA ConfirmHolds == ChatStreamInv /\ Confirm => ChatStreamInv'
<1> SUFFICES ASSUME ChatStreamInv, Confirm PROVE ChatStreamInv'
  OBVIOUS
<1>1. CASE SpecialistRaises /\ invoiced' \in {FALSE, chat.key /\ chat.token = "good"}
  <2>1. chat.key \in BOOLEAN
    BY ChatParts DEF ChatTypeOK, ChatRequest
  <2>2. point = "start" /\ carried = "none" /\ invoiced' \in BOOLEAN
    BY <1>1, <2>1 DEF Confirm, Works
  <2>. QED BY <1>1, <2>2, RaisingHolds DEF SpecialistRaises
<1>2. CASE /\ invoiced' = TRUE /\ point' = "ready"
           /\ ready' = <<"run_started", "step_completed", "run_completed">>
           /\ Audit("specialist", "completed")
           /\ UNCHANGED <<chat, domain, steps, carried, layer, sent>>
  BY <1>2, ResultHolds DEF Confirm
<1>. QED BY <1>1, <1>2 DEF Confirm

\* A result is taken apart from its front.
LEMMA ResultParts ==
  ASSUME NEW chunks \in Results
  PROVE  /\ Head(chunks) \in {"run_started", "step_completed", "run_completed"}
         /\ Tail(chunks) \in Seq({"run_started", "step_completed", "run_completed"})
         /\ Len(chunks) > 1 => /\ Tail(chunks) \in Results /\ Head(chunks) # "run_completed"
                               /\ Head(Tail(chunks)) # "run_started"
         /\ ~(Len(chunks) > 1) => Head(chunks) = "run_completed"
<1>1. CASE chunks = <<"run_completed">>
  BY <1>1
<1>2. CASE chunks = <<"step_completed", "run_completed">>
  <2>1. Tail(chunks) = <<"run_completed">>
    BY <1>2
  <2>. QED BY <1>2, <2>1 DEF Results
<1>3. CASE chunks = <<"run_started", "run_completed">>
  <2>1. Tail(chunks) = <<"run_completed">>
    BY <1>3
  <2>. QED BY <1>3, <2>1 DEF Results
<1>4. CASE chunks = <<"run_started", "step_completed", "run_completed">>
  <2>1. Tail(chunks) = <<"step_completed", "run_completed">>
    BY <1>4
  <2>. QED BY <1>4, <2>1 DEF Results
<1>. QED BY <1>1, <1>2, <1>3, <1>4 DEF Results

LEMMA NextReadyHolds == ChatStreamInv /\ NextReady => ChatStreamInv'
<1> SUFFICES ASSUME ChatStreamInv, NextReady PROVE ChatStreamInv'
  OBVIOUS
<1>1. /\ ChatTypeOK /\ SentInOrder /\ AuditsAgree /\ Unended /\ ready \in Results
      /\ AllTell("completed") /\ RunFrom(Head(ready) = "run_started") /\ carried = "none"
  BY ChatParts DEF NextReady, Works, PointFits
<1>2. /\ ready' = Tail(ready) /\ carried' = Head(ready) /\ layer' \in {"client", "router"}
      /\ point' = IF Len(ready) > 1 THEN "ready" ELSE "done"
      /\ UNCHANGED <<chat, domain, steps, sent, audits, invoiced>>
  BY DEF NextReady, Hand, Works
<1>3. /\ Unended' /\ SentInOrder' /\ AuditsAgree' /\ AllTell("completed")'
      /\ (OnlyRoute' <=> OnlyRoute) /\ (Begun' <=> Begun)
  BY <1>1, <1>2, NotSent DEF AuditsAgree, AllTell
<1>4. /\ carried' \in {"run_started", "step_completed", "run_completed"}
      /\ ready' \in Seq({"run_started", "step_completed", "run_completed"})
      /\ point' = "ready" => /\ ready' \in Results /\ carried' # "run_completed"
                             /\ Head(ready') # "run_started"
      /\ point' = "done" => carried' = "run_completed"
      /\ point' \in {"ready", "done"}
  BY <1>1, <1>2, ResultParts
<1>5. IF carried' = "run_started" THEN OnlyRoute ELSE Begun
  BY <1>1, <1>2 DEF RunFrom
<1>6. ChatTypeOK'
  BY <1>1, <1>2, <1>4 DEF ChatTypeOK
<1>7. CarriedFits' /\ PointFits'
  BY <1>3, <1>4, <1>5 DEF CarriedFits, PointFits, RunFrom
<1>. QED BY <1>3, <1>6, <1>7 DEF ChatStreamInv

LEMMA RefuseHolds == ChatStreamInv /\ (RefuseConfirmation \/ AgentRaises) => ChatStreamInv'
<1> SUFFICES ASSUME ChatStreamInv, RefuseConfirmation \/ AgentRaises PROVE ChatStreamInv'
  OBVIOUS
<1>1. point \in {"start", "agent"} /\ carried = "none" /\ SpecialistRaises /\ invoiced' \in BOOLEAN
  BY ChatParts DEF RefuseConfirmation, AgentRaises, Works, ChatTypeOK
<1>. QED BY <1>1, RaisingHolds DEF SpecialistRaises

LEMMA StartAgentHolds == ChatStreamInv /\ StartAgent => ChatStreamInv'
<1> SUFFICES ASSUME ChatStreamInv, StartAgent PROVE ChatStreamInv'
  OBVIOUS
<1>1. /\ ChatTypeOK /\ SentInOrder /\ AuditsAgree /\ Unended /\ OnlyRoute /\ audits = {} /\ carried = "none"
  BY ChatParts DEF StartAgent, Works, PointFits
<1>2. point' = "agent" /\ UNCHANGED <<chat, domain, ready, steps, carried, layer, sent, audits, invoiced>>
  BY DEF StartAgent
<1>3. steps = -1
  BY ChatParts DEF StartAgent, Works, PointFits
<1>4. Unended' /\ SentInOrder' /\ OnlyRoute' /\ AuditsAgree'
  BY <1>1, <1>2, NotSent DEF AuditsAgree
<1>5. ChatTypeOK'
  BY <1>1, <1>2 DEF ChatTypeOK
<1>6. CarriedFits' /\ PointFits'
  BY <1>1, <1>2, <1>3, <1>4 DEF CarriedFits, PointFits, RunFrom
<1>. QED BY <1>4, <1>5, <1>6 DEF ChatStreamInv

LEMMA AgentEventHolds == ChatStreamInv /\ AgentEvent => ChatStreamInv'
<1> SUFFICES ASSUME ChatStreamInv, AgentEvent PROVE ChatStreamInv'
  OBVIOUS
<1>1. /\ ChatTypeOK /\ SentInOrder /\ AuditsAgree /\ Unended /\ audits = {} /\ RunFrom(steps = -1)
      /\ carried = "none" /\ steps \in -1 .. StepLimit
  BY ChatParts DEF AgentEvent, Works, PointFits, ChatTypeOK
<1>2. /\ layer' = "specialist" /\ UNCHANGED <<chat, domain, ready, sent, audits, invoiced>>
      /\ steps' \in 0 .. StepLimit
      /\ carried' \in {"run_started", "step_completed", "run_completed"}
      /\ steps = -1 <=> carried' = "run_started"
      /\ point' = IF carried' = "run_completed" THEN "done" ELSE "agent"
  BY <1>1, ChatStreamAssumption DEF AgentEvent, Works
<1>3. /\ Unended' /\ SentInOrder' /\ AuditsAgree' /\ AllTell("completed")'
      /\ (OnlyRoute' <=> OnlyRoute) /\ (Begun' <=> Begun)
  BY <1>1, <1>2, NotSent DEF AuditsAgree, AllTell
<1>4. IF carried' = "run_started" THEN OnlyRoute ELSE Begun
  BY <1>1, <1>2 DEF RunFrom
<1>5. ChatTypeOK'
  BY <1>1, <1>2 DEF ChatTypeOK
<1>6. CarriedFits' /\ PointFits'
  BY <1>1, <1>2, <1>3, <1>4 DEF CarriedFits, PointFits, RunFrom
<1>. QED BY <1>3, <1>5, <1>6 DEF ChatStreamInv

\* A layer hands the chunk on, and audits the ending that the chunk tells.
LEMMA ForwardingHolds ==
  ASSUME ChatStreamInv, carried # "none", layer' \in {"router", "client"},
         NEW by \in {"specialist", "router"},
         \/ UNCHANGED audits
         \/ carried = "run_completed" /\ Audit(by, "completed")
         \/ carried = "error" /\ Audit(by, "failed"),
         UNCHANGED <<chat, domain, point, ready, steps, carried, sent, invoiced>>
  PROVE  ChatStreamInv'
<1>1. ChatTypeOK /\ SentInOrder /\ CarriedFits /\ PointFits /\ AuditsAgree /\ Unended
  <2>1. point # "gone" \/ carried = "none"
    BY ChatParts DEF PointFits
  <2>. QED BY <2>1, ChatParts DEF PointFits
<1>2. /\ Unended' /\ SentInOrder' /\ (OnlyRoute' <=> OnlyRoute) /\ (Begun' <=> Begun)
  BY <1>1, NotSent
<1>3. /\ audits' \subseteq [by : {"specialist", "router"}, status : {"completed", "failed"}]
      /\ point \in {"route", "start", "agent"} => audits' = {}
      /\ point = "ready" => AllTell("completed")'
      /\ carried = "run_completed" => AllTell("completed")'
      /\ carried = "error" => AllTell("failed")'
      /\ AuditsAgree'
  <2>1. CASE UNCHANGED audits
    BY <1>1, <2>1 DEF ChatTypeOK, PointFits, CarriedFits, AllTell, AuditsAgree
  <2>2. CASE carried = "run_completed" /\ Audit(by, "completed")
    <3>1. AllTell("completed") /\ point = "done"
      BY <1>1, <2>2 DEF CarriedFits
    <3>2. /\ AllTell("completed")'
          /\ audits' \subseteq [by : {"specialist", "router"}, status : {"completed", "failed"}]
      BY <1>1, <2>2, <3>1, Audited
    <3>. QED BY <1>2, <2>2, <3>1, <3>2, UnendedAgree
  <2>3. CASE carried = "error" /\ Audit(by, "failed")
    <3>1. AllTell("failed") /\ point = "done"
      BY <1>1, <2>3 DEF CarriedFits
    <3>2. /\ AllTell("failed")'
          /\ audits' \subseteq [by : {"specialist", "router"}, status : {"completed", "failed"}]
      BY <1>1, <2>3, <3>1, Audited
    <3>. QED BY <1>2, <2>3, <3>1, <3>2, UnendedAgree
  <2>. QED BY <2>1, <2>2, <2>3
<1>4. ChatTypeOK'
  BY <1>1, <1>3 DEF ChatTypeOK
<1>5. CarriedFits' /\ PointFits'
  BY <1>1, <1>2, <1>3 DEF CarriedFits, PointFits, RunFrom
<1>. QED BY <1>2, <1>3, <1>4, <1>5 DEF ChatStreamInv

LEMMA SpecialistForwardsHolds == ChatStreamInv /\ SpecialistForwards => ChatStreamInv'
BY ForwardingHolds DEF SpecialistForwards

LEMMA RouterForwardsHolds == ChatStreamInv /\ RouterForwards => ChatStreamInv'
<1> SUFFICES ASSUME ChatStreamInv, RouterForwards PROVE ChatStreamInv'
  OBVIOUS
<1>1. \/ UNCHANGED audits
      \/ carried = "run_completed" /\ Audit("router", "completed")
      \/ carried = "error" /\ Audit("router", "failed")
  BY DEF RouterForwards
<1>. QED BY <1>1, ForwardingHolds DEF RouterForwards

LEMMA YieldHolds == ChatStreamInv /\ Yield => ChatStreamInv'
<1> SUFFICES ASSUME ChatStreamInv, Yield PROVE ChatStreamInv'
  OBVIOUS
<1>1. /\ ChatTypeOK /\ SentInOrder /\ CarriedFits /\ PointFits /\ AuditsAgree
      /\ carried # "none" /\ sent' = Append(sent, carried) /\ carried' = "none"
      /\ UNCHANGED <<chat, domain, point, ready, steps, layer, audits, invoiced>>
  BY ChatParts DEF Yield
<1>2. point # "gone" /\ Unended
  BY <1>1 DEF PointFits
<1>3. carried \in ChatEvents \ {"timeout"}
  BY <1>1 DEF CarriedFits, ChatEvents, Terminal
<1>4. /\ carried = "route" => sent = <<>>
      /\ carried = "run_started" => OnlyRoute
      /\ carried \in {"step_completed", "run_completed"} => Begun
  BY <1>1 DEF CarriedFits
<1>5. /\ sent' \in Seq(ChatEvents) /\ SentInOrder'
      /\ carried \notin Terminal => Unended'
      /\ sent' # <<>> /\ sent'[Len(sent')] = carried
      /\ \A i \in DOMAIN sent' : sent'[i] \in Terminal => sent'[i] = carried
      /\ Begun \/ carried = "run_started" => Begun'
      /\ carried = "route" => OnlyRoute'
  BY <1>1, <1>2, <1>3, <1>4, SentGrows
<1>6. ChatTypeOK'
  BY <1>1, <1>5 DEF ChatTypeOK, ChatEvents
<1>7. AuditsAgree'
  BY <1>1, <1>5 DEF AuditsAgree, CarriedFits, AllTell, Terminal
<1>8. CarriedFits'
  BY <1>1 DEF CarriedFits
<1>9. PointFits'
  <2>1. carried \in Terminal <=> point = "done"
    BY <1>1, <1>2 DEF CarriedFits, PointFits, Terminal
  <2>2. point = "start" => carried = "route"
    BY <1>1 DEF CarriedFits
  <2>3. point \in {"ready", "agent"} => carried \in {"run_started", "step_completed"}
    BY <1>1 DEF CarriedFits
  <2>4. AllTell("completed")' <=> AllTell("completed")
    BY <1>1 DEF AllTell
  <2>5. /\ point = "ready" => RunFrom(Head(ready) = "run_started")'
        /\ point = "agent" => RunFrom(steps = -1)'
    BY <1>1, <1>5, <2>3 DEF PointFits, CarriedFits, RunFrom
  <2>. QED BY <1>1, <1>2, <1>5, <2>1, <2>2, <2>4, <2>5 DEF PointFits
<1>. QED BY <1>5, <1>6, <1>7, <1>8, <1>9 DEF ChatStreamInv

LEMMA LeavingHolds ==
  ASSUME ChatStreamInv, point # "gone", point # "done" \/ carried # "none", point' = "gone", carried' = "none",
         sent' \in {sent, Append(sent, "timeout")}, invoiced' \in BOOLEAN,
         UNCHANGED <<chat, domain, ready, steps, layer, audits>>
  PROVE  ChatStreamInv'
<1>1. ChatTypeOK /\ SentInOrder /\ Unended /\ AuditsAgree
  BY ChatParts DEF PointFits
<1>2. /\ sent' \in Seq(ChatEvents) /\ SentInOrder'
      /\ \A i \in DOMAIN sent' : sent'[i] \in Terminal => sent'[i] = "timeout"
  <2>1. CASE sent' = sent
    BY <1>1, <2>1, NotSent DEF ChatTypeOK, ChatEvents, Unended
  <2>2. CASE sent' = Append(sent, "timeout")
    <3>1. "timeout" \in ChatEvents
      BY DEF ChatEvents, Terminal
    <3>. QED BY <1>1, <2>2, <3>1, SentGrows
  <2>. QED BY <2>1, <2>2
<1>3. ChatTypeOK'
  BY <1>1, <1>2 DEF ChatTypeOK, ChatEvents
<1>4. AuditsAgree'
  BY <1>1, <1>2 DEF AuditsAgree, Terminal
<1>5. CarriedFits' /\ PointFits'
  BY DEF CarriedFits, PointFits
<1>. QED BY <1>2, <1>3, <1>4, <1>5 DEF ChatStreamInv

LEMMA CancelHolds == ChatStreamInv /\ (ChunkTimeout \/ Cancelled) => ChatStreamInv'
<1> SUFFICES ASSUME ChatStreamInv, ChunkTimeout \/ Cancelled PROVE ChatStreamInv'
  OBVIOUS
<1>1. invoiced' \in BOOLEAN
  BY ChatParts DEF ChunkTimeout, Cancelled, ChatTypeOK
<1>. QED BY <1>1, LeavingHolds DEF ChunkTimeout, Cancelled

-----------------------------------------------------------------------------
(* The theorems about ChatStream *)

LEMMA ChatInitially == ChatInit => ChatStreamInv
<1> SUFFICES ASSUME ChatInit PROVE ChatStreamInv
  OBVIOUS
<1>1. /\ chat \in ChatRequest /\ chat.entry \in {"chat", "order", "payment"}
      /\ sent = <<>> /\ audits = {} /\ carried = "none" /\ point \in {"route", "start"}
  BY DEF ChatInit, ChatRequest
<1>2. ChatTypeOK
  <2>1. steps \in -1 .. StepLimit
    BY ChatStreamAssumption DEF ChatInit
  <2>2. ready \in Seq({"run_started", "step_completed", "run_completed"}) /\ sent \in Seq(ChatEvents)
    BY DEF ChatInit
  <2>. QED BY <1>1, <2>1, <2>2 DEF ChatInit, ChatTypeOK, Domains, ChatEvents
<1>3. SentInOrder /\ CarriedFits /\ PointFits /\ AuditsAgree
  <2>1. DOMAIN sent = {}
    BY <1>1
  <2>2. steps = -1
    BY DEF ChatInit
  <2>. QED BY <1>1, <2>1, <2>2 DEF SentInOrder, CarriedFits, PointFits, AuditsAgree, Unended, OnlyRoute
<1>. QED BY <1>2, <1>3 DEF ChatStreamInv

LEMMA ChatStep == ChatStreamInv /\ [ChatNext]_chatVars => ChatStreamInv'
<1> SUFFICES ASSUME ChatStreamInv, [ChatNext]_chatVars PROVE ChatStreamInv'
  OBVIOUS
<1>1. CASE UNCHANGED chatVars
  <2>1. /\ Unended' <=> Unended
        /\ OnlyRoute' <=> OnlyRoute
        /\ Begun' <=> Begun
        /\ SentInOrder'
    BY <1>1, ChatParts, NotSent DEF chatVars
  <2>2. ChatTypeOK' /\ AuditsAgree'
    BY <1>1, ChatParts DEF chatVars, ChatTypeOK, AuditsAgree
  <2>3. CarriedFits' /\ PointFits'
    BY <1>1, <2>1, ChatParts DEF chatVars, CarriedFits, PointFits, RunFrom, AllTell
  <2>. QED BY <2>1, <2>2, <2>3 DEF ChatStreamInv
<1>. QED BY <1>1, ResolveTokenHolds, PickRouteHolds, AnswerAtOnceHolds, ConfirmHolds, NextReadyHolds,
            RefuseHolds, StartAgentHolds, AgentEventHolds, SpecialistForwardsHolds, RouterForwardsHolds,
            YieldHolds, CancelHolds DEF ChatNext

LEMMA ChatInvariant == ChatSpec => []ChatStreamInv
BY ChatInitially, ChatStep, PTL DEF ChatSpec

\* Every variable has its type.
THEOREM ChatTypeCorrect == ChatSpec => []ChatTypeOK
<1>1. ChatStreamInv => ChatTypeOK
  BY DEF ChatStreamInv
<1>. QED BY <1>1, ChatInvariant, PTL

\* A stream of chunks is one conversation with one end, and the audits of its layers agree
\* with it and with each other (stream_chat of internal/services/agents/router.py and of its
\* specialists), for any limit on the steps of the agent.
THEOREM ChatCorrect == ChatSpec => []StreamIsWellFormed
<1>1. ChatStreamInv => StreamIsWellFormed
  <2> SUFFICES ASSUME ChatStreamInv PROVE StreamIsWellFormed
    OBVIOUS
  <2>1. EventsAreInOrder
    BY ChatParts DEF EventsAreInOrder, SentInOrder, PointFits
  <2>. QED BY <2>1, ChatParts DEF StreamIsWellFormed
<1>. QED BY <1>1, ChatInvariant, PTL

HIDE AskAssumption
USE StreamAssumption

-----------------------------------------------------------------------------
(* Events: the inductive invariant, in parts *)

\* The events of the attempt that are left to come.
ProducerInv ==
  /\ outcome = "open" => produced <= MaxSteps + 1
  /\ outcome \in {"pausing", "completing"} => produced \in 1 .. MaxSteps + 1
  /\ outcome \in {"completed", "paused"} => produced > 0
  /\ producer \in {"closing", "done"} =>
       outcome \in {"completed", "paused", "failed", "cancelled"}
  /\ producer = "intent" => slow

\* The response holds an event only while it sends it, or if its client is gone, and leaves
\* a client that is there only when nothing more will come.
ResponseInv ==
  /\ consumer = "receiving" => item = None
  /\ consumer = "sending" => item # None
  /\ consumer \in {"receiving", "sending"} => client = "reading"
  /\ client = "reading" /\ consumer \in {"leaving", "intent", "waiting", "over"} =>
       item = None /\ channel = <<>> /\ producer \in {"closing", "done"}
  /\ consumer = "over" => producer = "done"

\* The error is the last thing that the response sends.
ErrorInv ==
  /\ item = Failure => ErrorIsSent
  /\ consumer = "sending" /\ item # Failure => ~ErrorIsSent
  /\ ErrorIsSent =>
       /\ outcome = "failed" /\ channel = <<>> /\ producer = "done"
       /\ consumer \in {"sending", "over"}
  /\ consumer = "over" /\ client = "reading" /\ outcome = "failed" => ErrorIsSent

\* A client that is there and keeps up has nobody stopped.
StopInv ==
  client = "reading" /\ ~slow =>
    /\ producer = "driving" => ~stop /\ ~shutdown
    /\ outcome # "cancelled"
    /\ Numbered = produced

StreamInv ==
  /\ StreamTypeOK /\ ProducerInv /\ ResponseInv /\ ErrorInv /\ StopInv
  /\ EventsAreAPrefix /\ Numbered <= produced

-----------------------------------------------------------------------------
(* The sequence of events *)

LEMMA HeadThenTail ==
  ASSUME NEW s \in Seq(Int), s # <<>>
  PROVE  <<Head(s)>> \o Tail(s) = s
<1>1. /\ Head(s) \in Int /\ Head(s) = s[1] /\ Tail(s) \in Seq(Int) /\ Len(Tail(s)) = Len(s) - 1
      /\ \A i \in 1 .. Len(Tail(s)) : Tail(s)[i] = s[i + 1]
  BY HeadTailProperties
<1>2. <<Head(s)>> \in Seq(Int) /\ Len(<<Head(s)>>) = 1 /\ <<Head(s)>>[1] = s[1]
  BY <1>1
<1>3. Len(s) \in Nat /\ Len(s) > 0
  BY EmptySeq, LenProperties
<1>. DEFINE t == <<Head(s)>> \o Tail(s)
<1>4. t \in Seq(Int) /\ Len(t) = Len(s)
  BY <1>1, <1>2, <1>3, ConcatProperties
<1>5. \A i \in 1 .. Len(s) : t[i] = s[i]
  BY <1>1, <1>2, <1>3, ConcatProperties
<1>. QED BY <1>4, <1>5, SeqEqual

LEMMA Associates ==
  ASSUME NEW s \in Seq(Int), NEW t \in Seq(Int), NEW u \in Seq(Int)
  PROVE  (s \o t) \o u = s \o (t \o u)
BY ConcatAssociative

InHand == IF item = None THEN <<>> ELSE <<item>>

LEMMA EventsTyped ==
  ASSUME StreamTypeOK
  PROVE  /\ received \in Seq(Int) /\ sse \in Seq(Int) /\ channel \in Seq(Int) /\ item \in Int
         /\ InHand \in Seq(Int) /\ Events \in Seq(Int)
<1>1. received \in Seq(Int) /\ sse \in Seq(Int) /\ channel \in Seq(Int) /\ item \in Int
  <2>1. {Failure} \cup 1 .. MaxSteps + 2 \subseteq Int /\ 1 .. MaxSteps + 2 \subseteq Int
        /\ {Failure, None} \cup 1 .. MaxSteps + 2 \subseteq Int
    BY DEF Failure, None
  <2>. QED BY <2>1, SeqMonotonic DEF StreamTypeOK
<1>2. InHand \in Seq(Int)
  BY <1>1 DEF InHand
<1>3. Events = received \o sse \o InHand \o channel
  BY DEF Events, InHand
<1>4. received \o sse \in Seq(Int)
  BY <1>1, ConcatProperties
<1>5. received \o sse \o InHand \in Seq(Int)
  BY <1>2, <1>4, ConcatProperties
<1>6. Events \in Seq(Int)
  BY <1>1, <1>3, <1>5, ConcatProperties
<1>. QED BY <1>1, <1>2, <1>6

\* An event goes from the channel to the client, and keeps its place.
LEMMA Passing ==
  ASSUME StreamTypeOK, ResponseInv, Receive \/ Send \/ Read
  PROVE  Events' = Events
<1>1. /\ received \in Seq(Int) /\ sse \in Seq(Int) /\ channel \in Seq(Int) /\ item \in Int
      /\ InHand \in Seq(Int) /\ received \o sse \in Seq(Int)
  BY EventsTyped, ConcatProperties
<1>2. CASE Receive
  <2>1. /\ item = None /\ item' = Head(channel) /\ channel' = Tail(channel) /\ channel # <<>>
        /\ received' = received /\ sse' = sse
    BY <1>2 DEF Receive, ResponseInv
  <2>2. Head(channel) \in Int /\ Tail(channel) \in Seq(Int) /\ item' # None
    <3>1. Head(channel) \in 1 .. MaxSteps + 2
      BY <2>1, HeadTailProperties DEF StreamTypeOK
    <3>. QED BY <1>1, <2>1, <3>1, HeadTailProperties DEF None
  <2>3. Events = received \o sse \o channel
    <3>1. (received \o sse) \o <<>> = received \o sse
      BY <1>1, ConcatEmptySeq
    <3>. QED BY <2>1, <3>1 DEF Events
  <2>4. Events' = received \o sse \o <<Head(channel)>> \o Tail(channel)
    BY <2>1, <2>2 DEF Events
  <2>5. <<Head(channel)>> \in Seq(Int)
    BY <2>2
  <2>6. Events' = (received \o sse) \o (<<Head(channel)>> \o Tail(channel))
    <3>. DEFINE front == received \o sse
                first == <<Head(channel)>>
                rest  == Tail(channel)
    <3>1. front \in Seq(Int) /\ first \in Seq(Int) /\ rest \in Seq(Int)
      BY <1>1, <2>2, <2>5
    <3>2. Events' = (front \o first) \o rest
      BY <2>4
    <3>. HIDE DEF front, first, rest
    <3>3. (front \o first) \o rest = front \o (first \o rest)
      BY <3>1, Associates
    <3>. QED BY <3>2, <3>3 DEF front, first, rest
  <2>. QED BY <1>1, <2>1, <2>3, <2>6, HeadThenTail
<1>3. CASE Send
  <2>1. /\ item # None /\ item' = None /\ sse' = Append(sse, item)
        /\ channel' = channel /\ received' = received
    BY <1>3 DEF Send, ResponseInv
  <2>2. <<item>> \in Seq(Int)
    BY <1>1
  <2>3. Append(sse, item) = sse \o <<item>>
    BY <1>1, AppendIsConcat
  <2>4. received \o (sse \o <<item>>) = (received \o sse) \o <<item>>
    <3>. DEFINE last == <<item>>
    <3>1. received \in Seq(Int) /\ sse \in Seq(Int) /\ last \in Seq(Int)
      BY <1>1, <2>2
    <3>. HIDE DEF last
    <3>2. received \o (sse \o last) = (received \o sse) \o last
      BY <3>1, Associates
    <3>. QED BY <3>2 DEF last
  <2>5. (received \o sse \o <<item>>) \o <<>> = received \o sse \o <<item>>
    BY <1>1, <2>2, ConcatProperties, ConcatEmptySeq
  <2>. QED BY <2>1, <2>3, <2>4, <2>5 DEF Events
<1>4. CASE Read
  <2>1. /\ sse # <<>> /\ received' = Append(received, Head(sse)) /\ sse' = Tail(sse)
        /\ channel' = channel /\ item' = item
    BY <1>4 DEF Read
  <2>2. Head(sse) \in Int /\ Tail(sse) \in Seq(Int) /\ <<Head(sse)>> \in Seq(Int)
    BY <1>1, <2>1, HeadTailProperties
  <2>3. Append(received, Head(sse)) = received \o <<Head(sse)>>
    BY <1>1, <2>2, AppendIsConcat
  <2>4. (received \o <<Head(sse)>>) \o Tail(sse) = received \o (<<Head(sse)>> \o Tail(sse))
    <3>. DEFINE first == <<Head(sse)>>
                rest  == Tail(sse)
    <3>1. received \in Seq(Int) /\ first \in Seq(Int) /\ rest \in Seq(Int)
      BY <1>1, <2>2
    <3>. HIDE DEF first, rest
    <3>2. (received \o first) \o rest = received \o (first \o rest)
      BY <3>1, Associates
    <3>. QED BY <3>2 DEF first, rest
  <2>5. received' \o sse' = received \o sse
    BY <1>1, <2>1, <2>3, <2>4, HeadThenTail
  <2>. QED BY <2>1, <2>5 DEF Events
<1>. QED BY <1>2, <1>3, <1>4

\* The channel takes an event at the end.
LEMMA Emitting ==
  ASSUME StreamTypeOK, Emit, UNCHANGED responseVars
  PROVE  \/ Events' = Append(Events, produced + 1) /\ ~stop /\ stop' = stop /\ slow' = slow
         \/ Events' = Events /\ channel' = channel /\ stop' = TRUE /\ (stop \/ slow')
<1>1. /\ received' = received /\ sse' = sse /\ item' = item /\ produced \in Nat
  BY DEF responseVars, StreamTypeOK
<1>2. CASE ~stop /\ channel' = Append(channel, produced + 1) /\ UNCHANGED <<producer, stop, slow>>
  <2>. DEFINE front == received \o sse \o InHand
  <2>1. front \in Seq(Int) /\ channel \in Seq(Int) /\ <<produced + 1>> \in Seq(Int)
        /\ produced + 1 \in Int
    BY <1>1, EventsTyped, ConcatProperties
  <2>2. Events = front \o channel /\ Events' = front \o channel'
    BY <1>1 DEF Events, InHand
  <2>. HIDE DEF front
  <2>3. channel' = channel \o <<produced + 1>>
    BY <1>2, <2>1, AppendIsConcat
  <2>4. Events' = (front \o channel) \o <<produced + 1>>
    <3>. DEFINE last == <<produced + 1>>
    <3>1. last \in Seq(Int)
      BY <2>1
    <3>. HIDE DEF last
    <3>2. front \o (channel \o last) = (front \o channel) \o last
      BY <2>1, <3>1, Associates
    <3>. QED BY <2>2, <2>3, <3>2 DEF last
  <2>5. Events' = Append(Events, produced + 1)
    BY <2>1, <2>2, <2>4, AppendIsConcat, EventsTyped
  <2>. QED BY <1>2, <2>5
<1>3. CASE channel' = channel
  <2>1. Events' = Events
    BY <1>1, <1>3 DEF Events
  <2>. QED BY <1>2, <1>3, <2>1 DEF Emit, StreamTypeOK
<1>. QED BY <1>2, <1>3 DEF Emit

\* The response adds an error behind all other events.
LEMMA FailureFollows ==
  ASSUME StreamTypeOK, item = None, channel = <<>>, item' = Failure,
         UNCHANGED <<received, sse, channel>>
  PROVE  Events' = Append(Events, Failure)
<1>1. received \o sse \in Seq(Int) /\ <<Failure>> \in Seq(Int) /\ Failure \in Int
  BY EventsTyped, ConcatProperties DEF Failure
<1>2. Events = received \o sse
  BY <1>1, ConcatEmptySeq DEF Events
<1>3. Events' = (received \o sse) \o <<Failure>>
  <2>1. Events' = received \o sse \o <<Failure>> \o <<>>
    BY DEF Events, None, Failure
  <2>2. received \o sse \o <<Failure>> \in Seq(Int)
    BY <1>1, ConcatProperties
  <2>. QED BY <2>1, <2>2, ConcatEmptySeq
<1>. QED BY <1>1, <1>2, <1>3, AppendIsConcat

\* What an appended event does to the counts.
LEMMA Appended ==
  ASSUME NEW e \in Int, Events \in Seq(Int), Events' = Append(Events, e)
  PROVE  /\ Len(Events') = Len(Events) + 1 /\ Len(Events) \in Nat
         /\ ErrorIsSent' <=> e = Failure
         /\ \A i \in 1 .. Len(Events) : Events'[i] = Events[i]
         /\ Events'[Len(Events) + 1] = e
<1>1. /\ Events' \in Seq(Int) /\ Len(Events') = Len(Events) + 1 /\ Len(Events) \in Nat
      /\ \A i \in 1 .. Len(Events) : Events'[i] = Events[i]
      /\ Events'[Len(Events) + 1] = e
  BY AppendProperties, LenProperties
<1>2. Events' # <<>>
  BY <1>1, EmptySeq
<1>. QED BY <1>1, <1>2 DEF ErrorIsSent

-----------------------------------------------------------------------------
(* What the steps keep *)

\* The events of an attempt are numbered without a gap, and its error is behind them.
EventsInv == EventsAreAPrefix /\ Numbered <= produced

\* A step of the producer that emits an event, while the response does nothing.
LEMMA EmitHolds ==
  ASSUME StreamInv, StreamTypeOK', Emit, UNCHANGED responseVars,
         producer \in {"driving", "intent"}
  PROVE  ResponseInv' /\ ErrorInv' /\ EventsInv' /\ (client = "reading" /\ ~slow' => Numbered' = produced')
<1>1. /\ StreamTypeOK /\ ProducerInv /\ ResponseInv /\ ErrorInv /\ StopInv /\ EventsInv
  BY DEF StreamInv, EventsInv
<1>2. ~ErrorIsSent /\ Numbered = Len(Events) /\ Events \in Seq(Int) /\ Len(Events) \in Nat
  BY <1>1, EventsTyped, LenProperties DEF ErrorInv, Numbered
<1>3. /\ consumer' = consumer /\ item' = item /\ client' = client /\ produced' = produced + 1
      /\ produced \in Nat
  BY <1>1 DEF responseVars, Emit, StreamTypeOK
<1>4. ~(client = "reading" /\ consumer \in {"leaving", "intent", "waiting", "over"})
      /\ consumer # "over"
  BY <1>1 DEF ResponseInv
<1>5. ResponseInv'
  BY <1>1, <1>3, <1>4 DEF ResponseInv
<1>6. ErrorIsSent' = FALSE /\ Numbered' = Len(Events')
      /\ \/ /\ Len(Events') = Len(Events) + 1 /\ ~stop /\ slow' = slow
            /\ \A i \in 1 .. Len(Events) : Events'[i] = Events[i]
            /\ Events'[Len(Events) + 1] = produced + 1
         \/ Events' = Events /\ stop' = TRUE /\ (stop \/ slow')
  <2>1. CASE Events' = Append(Events, produced + 1) /\ ~stop /\ slow' = slow
    <3>1. produced + 1 \in Int /\ produced + 1 # Failure
      BY <1>3 DEF Failure
    <3>2. /\ Len(Events') = Len(Events) + 1 /\ (ErrorIsSent' <=> produced + 1 = Failure)
          /\ \A i \in 1 .. Len(Events) : Events'[i] = Events[i]
          /\ Events'[Len(Events) + 1] = produced + 1
      BY <1>2, <2>1, <3>1, Appended
    <3>3. ErrorIsSent' = FALSE
      BY <3>1, <3>2 DEF ErrorIsSent
    <3>. QED BY <2>1, <3>2, <3>3 DEF Numbered
  <2>2. CASE Events' = Events /\ stop' = TRUE /\ (stop \/ slow')
    BY <1>2, <2>2 DEF ErrorIsSent, Numbered
  <2>. QED BY <1>1, <2>1, <2>2, Emitting
<1>7. ErrorInv'
  BY <1>1, <1>2, <1>3, <1>4, <1>6 DEF ErrorInv
<1>8. ~stop => Numbered = produced
  BY <1>1, <1>2, <1>3 DEF EventsInv, EventsAreAPrefix
<1>9. EventsInv'
  <2>1. CASE Events' = Events /\ stop' = TRUE
    BY <1>1, <1>2, <1>3, <1>6, <2>1 DEF EventsInv, EventsAreAPrefix
  <2>2. CASE /\ Len(Events') = Len(Events) + 1 /\ ~stop
             /\ \A i \in 1 .. Len(Events) : Events'[i] = Events[i]
             /\ Events'[Len(Events) + 1] = produced + 1
    BY <1>1, <1>2, <1>3, <1>6, <1>8, <2>2 DEF EventsInv, EventsAreAPrefix
  <2>. QED BY <1>6, <2>1, <2>2
<1>10. ASSUME client = "reading", ~slow'
       PROVE  Numbered' = produced'
  <2>1. ~stop
    BY <1>1, <1>3, <1>6, <1>10 DEF StopInv, ProducerInv, Emit, StreamTypeOK
  <2>. QED BY <1>2, <1>3, <1>6, <1>8, <1>10, <2>1
<1>. QED BY <1>5, <1>7, <1>9, <1>10

\* Nothing is said of the events where none of them moves.
LEMMA EventsStay ==
  ASSUME UNCHANGED <<received, sse, item, channel>>
  PROVE  Events' = Events /\ (ErrorIsSent' <=> ErrorIsSent) /\ Numbered' = Numbered
<1>1. Events' = Events
  BY DEF Events
<1>. QED BY <1>1 DEF ErrorIsSent, Numbered

\* The actions that emit an event, and those that only move the producer or the run.
EmitNext == Announce \/ EndStep \/ CommitFinal \/ LastEvent \/ CompleteAtOnce \/ Pause
WorkNext == BeginStep \/ Raise \/ SlowIntent \/ Deadline \/ CloseChannel \/ Finalize
RunNext  == Interrupt \/ Succeed \/ SuccessorEnds
PassNext == Receive \/ Send \/ Read
LeaveNext == Disconnect \/ EndOfChannel \/ Leave \/ LeaveIntent

LEMMA EmitNextHolds ==
  ASSUME StreamInv, EmitNext
  PROVE  StreamInv'
<1>1. StreamTypeOK /\ ProducerInv /\ StopInv
  BY DEF StreamInv
<1>2. /\ Emit /\ producer = "driving" /\ UNCHANGED responseVars /\ UNCHANGED <<shutdown, struck>>
      /\ run' \in RunStatus /\ owner' \in 0 .. 2 /\ inTool' \in BOOLEAN /\ result' \in BOOLEAN
  <2>1. Emit /\ producer = "driving" /\ UNCHANGED responseVars /\ UNCHANGED <<shutdown, struck>>
    BY DEF EmitNext, Announce, EndStep, CommitFinal, LastEvent, CompleteAtOnce, Pause, Driving
  <2>2. run' \in RunStatus /\ owner' \in 0 .. 2
    BY <1>1 DEF EmitNext, Announce, EndStep, CommitFinal, LastEvent, CompleteAtOnce, Pause, PauseOr,
                StreamTypeOK, RunStatus
  <2>3. inTool' \in BOOLEAN
    BY <1>1 DEF EmitNext, Announce, EndStep, CommitFinal, LastEvent, CompleteAtOnce, Pause,
                StreamTypeOK
  <2>4. result' \in {result, TRUE, produced > 0}
    <3>1. CASE Pause
      BY <3>1 DEF Pause
    <3>2. CASE Announce \/ EndStep \/ CommitFinal \/ LastEvent \/ CompleteAtOnce
      BY <3>2 DEF Announce, EndStep, CommitFinal, LastEvent, CompleteAtOnce
    <3>. QED BY <3>1, <3>2 DEF EmitNext
  <2>5. result' \in BOOLEAN
    <3>1. result \in BOOLEAN /\ (produced > 0) \in BOOLEAN
      BY <1>1 DEF StreamTypeOK
    <3>. QED BY <2>4, <3>1
  <2>. QED BY <2>1, <2>2, <2>3, <2>5
<1>3. /\ produced \in 0 .. MaxSteps + 1
      /\ \/ outcome' = "open" /\ produced <= MaxSteps
         \/ outcome' \in {"pausing", "completing"} /\ produced \in 1 .. MaxSteps
         \/ outcome' \in {"completed", "paused"}
  BY <1>1 DEF EmitNext, Announce, EndStep, CommitFinal, LastEvent, CompleteAtOnce, Pause, PauseOr,
              Driving, StreamTypeOK, ProducerInv
<1>4. /\ produced' = produced + 1 /\ producer' \in {"driving", "intent"}
      /\ stop' \in BOOLEAN /\ slow' \in BOOLEAN /\ (producer' = "intent" => slow')
  BY <1>1, <1>2 DEF Emit, StreamTypeOK
<1>5. channel' \in Seq(1 .. MaxSteps + 2) /\ Len(channel') <= Buffer
  <2>1. produced + 1 \in 1 .. MaxSteps + 2
    BY <1>3
  <2>2. Len(channel) \in Nat
    BY <1>1, LenProperties DEF StreamTypeOK
  <2>3. CASE channel' = channel
    BY <1>1, <2>3 DEF StreamTypeOK
  <2>4. CASE channel' = Append(channel, produced + 1) /\ Len(channel) < Buffer
    BY <1>1, <2>1, <2>2, <2>4, AppendProperties DEF StreamTypeOK
  <2>. QED BY <1>2, <2>3, <2>4 DEF Emit
<1>6. StreamTypeOK'
  BY <1>1, <1>2, <1>3, <1>4, <1>5 DEF StreamTypeOK, responseVars
<1>7. ProducerInv'
  BY <1>3, <1>4 DEF ProducerInv
<1>8. /\ ResponseInv' /\ ErrorInv' /\ EventsInv'
      /\ client = "reading" /\ ~slow' => Numbered' = produced'
  BY <1>2, <1>6, EmitHolds
<1>9. StopInv'
  <2>1. client' = client /\ shutdown' = shutdown
    BY <1>2 DEF responseVars
  <2>2. ASSUME client = "reading", ~slow'
        PROVE  ~stop' /\ ~shutdown
    BY <1>1, <1>2, <2>2 DEF StopInv, Emit, StreamTypeOK
  <2>. QED BY <1>3, <1>8, <2>1, <2>2 DEF StopInv
<1>. QED BY <1>6, <1>7, <1>8, <1>9 DEF StreamInv, EventsInv

LEMMA WorkNextHolds ==
  ASSUME StreamInv, WorkNext \/ RunNext
  PROVE  StreamInv'
<1>1. StreamTypeOK /\ ProducerInv /\ ResponseInv /\ ErrorInv /\ StopInv /\ EventsInv
  BY DEF StreamInv, EventsInv
<1>2. /\ UNCHANGED responseVars /\ UNCHANGED <<produced, channel, stop, slow>>
      /\ Events' = Events /\ (ErrorIsSent' <=> ErrorIsSent) /\ Numbered' = Numbered
  BY EventsStay DEF WorkNext, RunNext, BeginStep, Raise, SlowIntent, Deadline, CloseChannel,
        Finalize, Interrupt, Succeed, SuccessorEnds, responseVars, controlVars, producerVars
<1>3. StreamTypeOK'
  <2>1. UNCHANGED <<produced, channel, stop, slow, result, consumer, item, sse, client, received>>
    BY <1>2 DEF WorkNext, RunNext, BeginStep, Raise, SlowIntent, Deadline, CloseChannel, Finalize,
                Interrupt, Succeed, SuccessorEnds, responseVars, controlVars
  <2>2. run' \in RunStatus /\ owner' \in 0 .. 2 /\ struck' \subseteq 0 .. 2
    <3>1. CASE Finalize
      <4>1. outcome \in {"completed", "paused", "failed", "cancelled"} /\ inTool \in BOOLEAN
        BY <1>1, <3>1 DEF Finalize, ProducerInv, StreamTypeOK
      <4>2. FinalStatus \subseteq RunStatus
        BY <4>1 DEF FinalStatus, RunStatus
      <4>. QED BY <1>1, <3>1, <4>2 DEF Finalize, StreamTypeOK
    <3>2. CASE BeginStep \/ Raise \/ Deadline \/ CloseChannel
      BY <1>1, <3>2 DEF BeginStep, Raise, Deadline, CloseChannel, StreamTypeOK
    <3>3. CASE SlowIntent
      <4>1. /\ owner' = owner
            /\ \/ UNCHANGED <<run, struck>>
               \/ run' = "interrupt_requested" /\ struck' = struck \cup {owner}
        BY <3>3 DEF SlowIntent, Strike
      <4>. QED BY <1>1, <4>1 DEF StreamTypeOK, RunStatus
    <3>4. CASE RunNext
      <4>1. /\ run' \in {"running", "interrupt_requested", "interrupted", "completed"}
            /\ owner' \in {owner, 0, 2} /\ struck' = struck
        BY <3>4 DEF RunNext, Interrupt, Succeed, SuccessorEnds
      <4>. QED BY <1>1, <4>1 DEF StreamTypeOK, RunStatus
    <3>. QED BY <3>1, <3>2, <3>3, <3>4 DEF WorkNext
  <2>3. /\ producer' \in {"driving", "intent", "closing", "done"}
        /\ outcome' \in {"open", "pausing", "completing", "completed", "paused", "failed",
                         "cancelled"}
        /\ inTool' \in BOOLEAN /\ shutdown' \in BOOLEAN
    BY <1>1 DEF WorkNext, RunNext, BeginStep, Raise, SlowIntent, Deadline, CloseChannel, Finalize,
                Interrupt, Succeed, SuccessorEnds, producerVars, controlVars, StreamTypeOK
  <2>. QED BY <1>1, <2>1, <2>2, <2>3 DEF StreamTypeOK
<1>4. CASE RunNext
  <2>1. UNCHANGED <<producerVars, controlVars>>
    BY <1>4 DEF RunNext, Interrupt, Succeed, SuccessorEnds
  <2>. QED BY <1>1, <1>2, <1>3, <2>1
           DEF StreamInv, ProducerInv, ResponseInv, ErrorInv, StopInv, EventsInv, EventsAreAPrefix,
               producerVars, controlVars, responseVars
<1>5. CASE WorkNext
  <2>1. /\ producer \in {"driving", "intent", "closing"}
        /\ producer = "closing" => producer' = "done" /\ outcome' = outcome
        /\ producer = "intent" => producer' = "driving" /\ outcome' \in {outcome, "failed"}
        /\ producer = "driving" =>
             \/ producer' = "driving" /\ outcome' \in {outcome, "failed"} /\ UNCHANGED shutdown
             \/ producer' = "driving" /\ outcome' = "cancelled" /\ shutdown
             \/ /\ producer' = "closing" /\ outcome' = outcome
                /\ outcome \in {"completed", "paused", "failed", "cancelled"}
    BY <1>1, <1>5 DEF WorkNext, BeginStep, Raise, SlowIntent, Deadline, CloseChannel, Finalize,
                      Driving, controlVars, StreamTypeOK
  <2>2. ProducerInv'
    BY <1>1, <1>2, <2>1 DEF ProducerInv
  <2>3. ResponseInv' /\ consumer # "over" /\ ~ErrorIsSent
    BY <1>1, <1>2, <2>1 DEF ResponseInv, ErrorInv, responseVars
  <2>4. ErrorInv'
    BY <1>1, <1>2, <2>3 DEF ErrorInv, responseVars
  <2>5. StopInv'
    BY <1>1, <1>2, <2>1 DEF StopInv, ProducerInv, responseVars
  <2>6. EventsInv'
    BY <1>1, <1>2 DEF EventsInv, EventsAreAPrefix
  <2>. QED BY <1>3, <2>2, <2>3, <2>4, <2>5, <2>6 DEF StreamInv, EventsInv
<1>. QED BY <1>4, <1>5

LEMMA PassNextHolds ==
  ASSUME StreamInv, PassNext
  PROVE  StreamInv'
<1>1. StreamTypeOK /\ ProducerInv /\ ResponseInv /\ ErrorInv /\ StopInv /\ EventsInv
  BY DEF StreamInv, EventsInv
<1>2. /\ UNCHANGED <<run, owner, producerVars, controlVars, client, struck>>
      /\ Events' = Events /\ (ErrorIsSent' <=> ErrorIsSent) /\ Numbered' = Numbered
  <2>1. Events' = Events
    BY <1>1, Passing DEF PassNext
  <2>. QED BY <2>1 DEF PassNext, Receive, Send, Read, ErrorIsSent, Numbered
<1>3. ProducerInv' /\ StopInv' /\ EventsInv'
  BY <1>1, <1>2 DEF ProducerInv, StopInv, EventsInv, EventsAreAPrefix, producerVars, controlVars
<1>4. CASE Receive
  <2>1. /\ consumer = "receiving" /\ channel # <<>> /\ consumer' = "sending"
        /\ item' = Head(channel) /\ channel' = Tail(channel) /\ UNCHANGED <<sse, received>>
    BY <1>4 DEF Receive, At
  <2>2. /\ item' \in 1 .. MaxSteps + 2 /\ channel' \in Seq(1 .. MaxSteps + 2)
        /\ Len(channel') = Len(channel) - 1 /\ Len(channel) \in Nat
    BY <1>1, <2>1, HeadTailProperties, LenProperties DEF StreamTypeOK
  <2>3. StreamTypeOK'
    BY <1>1, <1>2, <2>1, <2>2 DEF StreamTypeOK, producerVars, controlVars
  <2>4. ResponseInv' /\ ErrorInv'
    BY <1>1, <1>2, <2>1, <2>2 DEF ResponseInv, ErrorInv, producerVars, None, Failure
  <2>. QED BY <1>3, <2>3, <2>4 DEF StreamInv, EventsInv
<1>5. CASE Send
  <2>1. /\ consumer = "sending" /\ Len(sse) < SseBuffer /\ sse' = Append(sse, item)
        /\ item' = None /\ consumer' = IF item = Failure THEN "over" ELSE "receiving"
        /\ UNCHANGED <<channel, received>>
    BY <1>5 DEF Send, At
  <2>2. item \in {Failure} \cup 1 .. MaxSteps + 2
    BY <1>1, <2>1 DEF ResponseInv, StreamTypeOK
  <2>3. sse' \in Seq({Failure} \cup 1 .. MaxSteps + 2) /\ Len(sse') = Len(sse) + 1 /\ Len(sse) \in Nat
    BY <1>1, <2>1, <2>2, AppendProperties, LenProperties DEF StreamTypeOK
  <2>4. StreamTypeOK'
    BY <1>1, <1>2, <2>1, <2>3 DEF StreamTypeOK, producerVars, controlVars
  <2>5. ResponseInv' /\ ErrorInv'
    BY <1>1, <1>2, <2>1 DEF ResponseInv, ErrorInv, producerVars, None, Failure
  <2>. QED BY <1>3, <2>4, <2>5 DEF StreamInv, EventsInv
<1>6. CASE Read
  <2>1. /\ sse # <<>> /\ received' = Append(received, Head(sse)) /\ sse' = Tail(sse)
        /\ UNCHANGED <<channel, consumer, item>>
    BY <1>6 DEF Read
  <2>2. /\ Head(sse) \in {Failure} \cup 1 .. MaxSteps + 2
        /\ sse' \in Seq({Failure} \cup 1 .. MaxSteps + 2)
        /\ Len(sse') = Len(sse) - 1 /\ Len(sse) \in Nat
    BY <1>1, <2>1, HeadTailProperties, LenProperties DEF StreamTypeOK
  <2>3. received' \in Seq({Failure} \cup 1 .. MaxSteps + 2)
    BY <1>1, <2>1, <2>2, AppendProperties DEF StreamTypeOK
  <2>4. StreamTypeOK'
    BY <1>1, <1>2, <2>1, <2>2, <2>3 DEF StreamTypeOK, producerVars, controlVars
  <2>5. ResponseInv' /\ ErrorInv'
    BY <1>1, <1>2, <2>1 DEF ResponseInv, ErrorInv, producerVars
  <2>. QED BY <1>3, <2>4, <2>5 DEF StreamInv, EventsInv
<1>. QED BY <1>4, <1>5, <1>6 DEF PassNext

LEMMA LeaveNextHolds ==
  ASSUME StreamInv, LeaveNext
  PROVE  StreamInv'
<1>1. StreamTypeOK /\ ProducerInv /\ ResponseInv /\ ErrorInv /\ StopInv /\ EventsInv
  BY DEF StreamInv, EventsInv
<1>2. /\ UNCHANGED <<owner, producerVars, channel, slow, result, item, sse, received>>
      /\ Events' = Events /\ (ErrorIsSent' <=> ErrorIsSent) /\ Numbered' = Numbered
  BY EventsStay DEF LeaveNext, Disconnect, EndOfChannel, Leave, LeaveIntent, controlVars
<1>3. StreamTypeOK'
  <2>1. /\ run' \in RunStatus /\ struck' \subseteq 0 .. 2
        /\ stop' \in BOOLEAN /\ shutdown' \in BOOLEAN /\ client' \in {"reading", "gone"}
    BY <1>1 DEF LeaveNext, Disconnect, EndOfChannel, Leave, LeaveIntent, Strike, controlVars,
                StreamTypeOK, RunStatus
  <2>2. consumer' \in {"receiving", "sending", "leaving", "intent", "waiting", "over"}
    BY <1>1 DEF LeaveNext, Disconnect, EndOfChannel, Leave, LeaveIntent, At, StreamTypeOK
  <2>. QED BY <1>1, <1>2, <2>1, <2>2 DEF StreamTypeOK, producerVars
<1>4. ProducerInv'
  BY <1>1, <1>2 DEF ProducerInv, producerVars
<1>5. CASE Disconnect
  <2>1. /\ client' = "gone" /\ UNCHANGED <<stop, shutdown>> /\ consumer # "over"
        /\ \/ consumer = "sending" /\ item = Failure /\ consumer' = "over"
           \/ ~(consumer = "sending" /\ item = Failure) /\ consumer \in {"receiving", "sending"}
              /\ consumer' = "leaving"
           \/ consumer \notin {"receiving", "sending"} /\ consumer' = consumer
    BY <1>5 DEF Disconnect, At, controlVars
  <2>2. ResponseInv' /\ ErrorInv'
    BY <1>1, <1>2, <2>1 DEF ResponseInv, ErrorInv, producerVars
  <2>3. StopInv' /\ EventsInv'
    BY <1>1, <1>2, <2>1 DEF StopInv, EventsInv, EventsAreAPrefix, producerVars
  <2>. QED BY <1>3, <1>4, <2>2, <2>3 DEF StreamInv, EventsInv
<1>6. CASE EndOfChannel \/ Leave \/ LeaveIntent
  <2>1. /\ UNCHANGED client
        /\ \/ consumer = "receiving" /\ channel = <<>> /\ producer \in {"closing", "done"}
              /\ UNCHANGED <<stop, shutdown>>
           \/ consumer = "leaving" /\ stop' = TRUE
           \/ consumer = "intent" /\ UNCHANGED <<stop, shutdown>>
        /\ consumer' \in {"leaving", "intent", "waiting"}
    BY <1>6 DEF EndOfChannel, Leave, LeaveIntent, At, controlVars
  <2>2. ResponseInv' /\ ErrorInv'
    BY <1>1, <1>2, <2>1 DEF ResponseInv, ErrorInv, producerVars
  <2>3. StopInv' /\ EventsInv'
    BY <1>1, <1>2, <2>1 DEF StopInv, ResponseInv, EventsInv, EventsAreAPrefix, producerVars
  <2>. QED BY <1>3, <1>4, <2>2, <2>3 DEF StreamInv, EventsInv
<1>. QED BY <1>5, <1>6 DEF LeaveNext

LEMMA EndResponseHolds ==
  ASSUME StreamInv, EndResponse
  PROVE  StreamInv'
<1>1. StreamTypeOK /\ ProducerInv /\ ResponseInv /\ ErrorInv /\ StopInv /\ EventsInv
  BY DEF StreamInv, EventsInv
<1>2. /\ consumer = "waiting" /\ producer = "done" /\ ~ErrorIsSent
      /\ UNCHANGED <<run, owner, producerVars, channel, controlVars, sse, client, received, struck>>
  BY <1>1 DEF EndResponse, ErrorInv
<1>3. ProducerInv'
  BY <1>1, <1>2 DEF ProducerInv, producerVars, controlVars
<1>4. CASE outcome = "failed" /\ client = "reading"
  <2>1. consumer' = "sending" /\ item' = Failure
    BY <1>4 DEF EndResponse, At
  <2>2. item = None /\ channel = <<>>
    BY <1>1, <1>2, <1>4 DEF ResponseInv
  <2>3. Events' = Append(Events, Failure)
    BY <1>1, <1>2, <2>1, <2>2, FailureFollows
  <2>4. /\ ErrorIsSent' /\ Len(Events') = Len(Events) + 1 /\ Len(Events) \in Nat
        /\ \A i \in 1 .. Len(Events) : Events'[i] = Events[i]
    <3>1. Failure \in Int /\ Events \in Seq(Int)
      BY <1>1, EventsTyped DEF Failure
    <3>. QED BY <2>3, <3>1, Appended
  <2>5. Numbered' = Numbered /\ Numbered = Len(Events)
    BY <1>2, <2>4 DEF Numbered
  <2>6. EventsInv' /\ StopInv'
    BY <1>1, <1>2, <2>4, <2>5 DEF EventsInv, EventsAreAPrefix, StopInv, producerVars, controlVars
  <2>7. StreamTypeOK'
    BY <1>1, <1>2, <2>1 DEF StreamTypeOK, producerVars, controlVars
  <2>8. ResponseInv' /\ ErrorInv'
    BY <1>2, <1>4, <2>1, <2>2, <2>4 DEF ResponseInv, ErrorInv, producerVars, Failure, None
  <2>. QED BY <1>3, <2>6, <2>7, <2>8 DEF StreamInv, EventsInv
<1>5. CASE ~(outcome = "failed" /\ client = "reading")
  <2>1. consumer' = "over" /\ item' = item
    BY <1>5 DEF EndResponse, At
  <2>2. Events' = Events /\ (ErrorIsSent' <=> ErrorIsSent) /\ Numbered' = Numbered
    BY <1>2, <2>1, EventsStay
  <2>3. StreamTypeOK'
    BY <1>1, <1>2, <2>1 DEF StreamTypeOK, producerVars, controlVars
  <2>4. ResponseInv' /\ ErrorInv'
    BY <1>1, <1>2, <1>5, <2>1, <2>2 DEF ResponseInv, ErrorInv, producerVars
  <2>5. EventsInv' /\ StopInv'
    BY <1>1, <1>2, <2>2 DEF EventsInv, EventsAreAPrefix, StopInv, producerVars, controlVars
  <2>. QED BY <1>3, <2>3, <2>4, <2>5 DEF StreamInv, EventsInv
<1>. QED BY <1>4, <1>5

-----------------------------------------------------------------------------
(* The theorems *)

LEMMA StreamInitially == StreamInit => StreamInv
<1> SUFFICES ASSUME StreamInit PROVE StreamInv
  OBVIOUS
<1>1. Events = <<>>
  BY ConcatEmptySeq, EmptySeq DEF StreamInit, Events
<1>2. ~ErrorIsSent /\ Numbered = 0
  BY <1>1 DEF ErrorIsSent, Numbered
<1>3. StreamTypeOK
  <2>1. \A S : <<>> \in Seq(S) /\ Len(<<>>) = 0
    BY EmptySeq
  <2>2. 0 <= Buffer /\ 0 <= SseBuffer
    OBVIOUS
  <2>3. /\ channel \in Seq(1 .. MaxSteps + 2) /\ Len(channel) <= Buffer
        /\ sse \in Seq({Failure} \cup 1 .. MaxSteps + 2) /\ Len(sse) <= SseBuffer
        /\ received \in Seq({Failure} \cup 1 .. MaxSteps + 2)
    BY <2>1, <2>2 DEF StreamInit
  <2>4. /\ run \in RunStatus /\ owner \in 0 .. 2 /\ produced \in 0 .. MaxSteps + 2
        /\ item \in {Failure, None} \cup 1 .. MaxSteps + 2
        /\ struck \subseteq 0 .. 2
    BY DEF StreamInit, RunStatus
  <2>. QED BY <2>3, <2>4 DEF StreamInit, StreamTypeOK
<1>. QED BY <1>2, <1>3 DEF StreamInit, StreamInv, ProducerInv, ResponseInv, ErrorInv, StopInv,
                           EventsAreAPrefix, None, Failure

LEMMA StreamStep == StreamInv /\ [StreamNext]_streamVars => StreamInv'
<1> SUFFICES ASSUME StreamInv, [StreamNext]_streamVars PROVE StreamInv'
  OBVIOUS
<1>1. CASE UNCHANGED streamVars
  <2>1. Events' = Events /\ (ErrorIsSent' <=> ErrorIsSent) /\ Numbered' = Numbered
    BY <1>1, EventsStay DEF streamVars
  <2>2. EventsAreAPrefix'
    BY <1>1, <2>1 DEF StreamInv, EventsAreAPrefix, streamVars
  <2>. QED BY <1>1, <2>1, <2>2 DEF streamVars, StreamInv, StreamTypeOK, ProducerInv, ResponseInv,
                                   ErrorInv, StopInv
<1>. QED BY <1>1, EmitNextHolds, WorkNextHolds, PassNextHolds, LeaveNextHolds, EndResponseHolds
         DEF StreamNext, EmitNext, WorkNext, RunNext, PassNext, LeaveNext

LEMMA StreamInvariant == StreamSpec => []StreamInv
BY StreamInitially, StreamStep, PTL DEF StreamSpec

\* Every variable has its type, and no channel holds more than its size.
THEOREM StreamTypeCorrect == StreamSpec => []StreamTypeOK
<1>1. StreamInv => StreamTypeOK
  BY DEF StreamInv
<1>. QED BY <1>1, StreamInvariant, PTL

\* The client sees the events of the attempt in order and without a gap, up to where the
\* execution was told to stop (_emit of execution.py and the response of agent.py).
THEOREM PrefixCorrect == StreamSpec => []EventsAreAPrefix
<1>1. StreamInv => EventsAreAPrefix
  BY DEF StreamInv
<1>. QED BY <1>1, StreamInvariant, PTL

\* A client that is there and keeps up is told how the attempt ended.
THEOREM EndCorrect == StreamSpec => []NoSilentEnd
<1>1. StreamInv => NoSilentEnd
  <2> SUFFICES ASSUME StreamInv, consumer = "over", client = "reading", ~slow
               PROVE  /\ Events # <<>>
                      /\ \/ outcome \in {"completed", "paused"} /\ Events[Len(Events)] = produced
                         \/ outcome = "failed" /\ Events[Len(Events)] = Failure
    BY DEF NoSilentEnd
  <2>1. /\ producer = "done" /\ outcome \in {"completed", "paused", "failed"}
        /\ Numbered = produced
    BY DEF StreamInv, ResponseInv, ProducerInv, StopInv
  <2>2. CASE outcome = "failed"
    BY <2>2 DEF StreamInv, ErrorInv, ErrorIsSent
  <2>3. CASE outcome # "failed"
    <3>1. ~ErrorIsSent /\ produced > 0 /\ produced \in Nat
      BY <2>1, <2>3 DEF StreamInv, ErrorInv, ProducerInv, StreamTypeOK
    <3>2. Len(Events) = produced
      BY <2>1, <3>1 DEF Numbered
    <3>3. Events[produced] = produced
      BY <2>1, <3>1 DEF StreamInv, EventsAreAPrefix
    <3>4. Events # <<>>
      BY <3>1, <3>2
    <3>. QED BY <2>1, <2>3, <3>2, <3>3, <3>4
  <2>. QED BY <2>2, <2>3
<1>. QED BY <1>1, StreamInvariant, PTL

=============================================================================
