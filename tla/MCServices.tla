------------------------------ MODULE MCServices ------------------------------
(***************************************************************************)
(* The services around the managed runs, which share no state: a behaviour *)
(* is a behaviour of one of them, part, chosen at the start.  Each has a   *)
(* small instance below.                                                   *)
(***************************************************************************)
EXTENDS EndpointGuard, AuthSession, Conversation, ChatStream, Checkpoint, Retrieval,
        ContextAssembly, TextMatcher, VectorStore, ScopedLock, AgentTools, Lifespan,
        TLC

VARIABLE part

Parts == {"guard", "auth", "conversation", "chat", "checkpoint", "retrieval", "assembly",
          "matcher", "store", "lock", "tools", "lifespan"}

\* A part that rests stays in one of its initial states.
ServicesInit ==
  /\ part \in Parts
  /\ IF part = "guard" THEN TRUE ELSE stored = Absent
  /\ GuardInit
  /\ AuthInit /\ ConversationInit /\ CheckpointInit /\ RetrievalInit /\ MatcherInit /\ LockInit
  /\ IF part = "chat" THEN TRUE ELSE chat = CHOOSE c \in ChatRequest : TRUE
  /\ ChatInit
  /\ IF part = "assembly" THEN TRUE ELSE documents = CHOOSE d \in Inputs : TRUE
  /\ AssemblyInit
  /\ IF part = "store" THEN TRUE ELSE collection = NoCollection
  /\ StoreInit
  /\ IF part = "tools" THEN TRUE ELSE call = CHOOSE c \in Refunds : TRUE
  /\ ToolsInit
  /\ IF part = "lifespan" THEN TRUE ELSE process = "server"
  /\ LifespanInit

ServicesNext ==
  /\ UNCHANGED part
  /\ IF part = "guard" THEN GuardNext ELSE UNCHANGED guardVars
  /\ IF part = "auth" THEN AuthNext ELSE UNCHANGED authVars
  /\ IF part = "conversation" THEN ConversationNext ELSE UNCHANGED conversationVars
  /\ IF part = "chat" THEN ChatNext ELSE UNCHANGED chatVars
  /\ IF part = "checkpoint" THEN CheckpointNext ELSE UNCHANGED checkpointVars
  /\ IF part = "retrieval" THEN RetrievalNext ELSE UNCHANGED retrievalVars
  /\ IF part = "assembly" THEN AssemblyNext ELSE UNCHANGED assemblyVars
  /\ IF part = "matcher" THEN MatcherNext ELSE UNCHANGED matcherVars
  /\ IF part = "store" THEN StoreNext ELSE UNCHANGED storeVars
  /\ IF part = "lock" THEN LockNext ELSE UNCHANGED lockVars
  /\ IF part = "tools" THEN ToolsNext ELSE UNCHANGED toolVars
  /\ IF part = "lifespan" THEN LifespanNext ELSE UNCHANGED lifespanVars

\* Every variable of the service that runs has its type.
ServicesTypeOK ==
  /\ part \in Parts
  /\ part = "guard" => GuardTypeOK
  /\ part = "auth" => AuthTypeOK
  /\ part = "conversation" => ConversationTypeOK
  /\ part = "chat" => ChatTypeOK
  /\ part = "checkpoint" => CheckpointTypeOK
  /\ part = "retrieval" => RetrievalTypeOK
  /\ part = "assembly" => AssemblyTypeOK
  /\ part = "matcher" => MatcherTypeOK
  /\ part = "store" => StoreTypeOK
  /\ part = "lock" => LockTypeOK
  /\ part = "tools" => ToolsTypeOK
  /\ part = "lifespan" => LifespanTypeOK

-----------------------------------------------------------------------------
(* EndpointGuard: two payloads with rules of every kind, one of them malformed. *)

GuardRule(path, match, expires) ==
  [wellFormed |-> TRUE, rooted |-> TRUE, enabled |-> TRUE, methods |-> {"GET", ""},
   match |-> match, path |-> path, expiresAt |-> expires, error |-> "disabled"]
ChatPath == <<"v1", "chat">>
GuardPayloads ==
  {<<GuardRule(<<"v1", "chat", "">>, "prefix", 2), GuardRule(ChatPath, "exact", Absent)>>,
   <<[GuardRule(<<>>, "glob", Absent) EXCEPT !.rooted = FALSE]>>}
GuardStatic ==
  <<[GuardRule(<<"v1", "x">>, "glob", Absent) EXCEPT !.methods = {"*"}, !.error = "forbidden"]>>
GuardMethods == ("r1" :> "GET") @@ ("r2" :> "HEAD") @@ ("r3" :> "OPTIONS")
GuardPaths == ("r1" :> ChatPath) @@ ("r2" :> <<"v1", "x">>) @@ ("r3" :> ChatPath)
GuardGlobs == {<<<<"v1", "x">>, <<"v1", "x">>>>}

(* AuthSession: two first logins of one identity and a registration; a check and a logout *)
(* with one token.                                                                        *)

AuthKinds == [r \in SignIn |-> IF r \in {"e1", "e2"} THEN "external" ELSE IF r = "g1" THEN "register" ELSE "password"]
AuthNames == [r \in SignIn |-> "ann"]
AuthPhones == [r \in SignIn |-> "1"]
AuthPasswords == [r \in SignIn |-> "x"]
AuthSubjects == [r \in SignIn |-> "i1"]
AuthTokens == [c \in Check |-> "e1"]

(* Conversation: a chat and two managed runs of one user with one request key. *)

ChatAgents == [r \in Chat |-> {"order", "payment", "unsupported"}]
AskUsers == [r \in Ask |-> "u1"]
AskKeys == [r \in Ask \ Chat |-> "k"]
AskBodies == [r \in Ask |-> "same"]
AskWants == [r \in Ask |-> IF r = "a1" THEN {New, "k1"} ELSE {New, "a1"}]

(* Retrieval: four chunks, two of one document and one of none. *)

ChunkDocuments == [c \in Chunks |-> IF c \in {1, 4} THEN "d1" ELSE IF c = 2 THEN NoDoc ELSE "d2"]

(* ContextAssembly: a document of three chunks of any length and place, one with
   the same chunk twice, and two more. *)

Piece(i, l, n) == [id |-> i, length |-> l, index |-> n]
Pieces(id) == {Piece(id, l, n) : l \in {0, 2, 5}, n \in {-1, 1, 2}}
AssemblyInputs ==
  {<<<<a, b, c>>, <<Piece(7, 3, -1), Piece(7, 3, -1)>>, <<Piece(8, 2, 4), Piece(9, 2, 5)>>, <<Piece(10, 4, 1)>>>> :
     a \in Pieces(1), b \in Pieces(2), c \in Pieces(3)}

(* TextMatcher: seven characters, two of them with one key, one with two. *)

Alphabet == {"a", "b", "c", "d", "e", "f", "g", "h", "i", "j", "k", "l", "m", "n", "o", "p", "q",
             "r", "s", "t", "u", "v", "w", "x", "y", "z"}
zhang == <<"z", "h", "a", "n", "g">>
zhan  == <<"z", "h", "a", "n">>
zang  == <<"z", "a", "n", "g">>
rang  == <<"r", "a", "n", "g">>
lan   == <<"l", "a", "n">>
nan   == <<"n", "a", "n">>
yue   == <<"y", "u", "e">>
le    == <<"l", "e">>
Keyed == [char    |-> <<<<zhang, <<"P", "Q">>>>, <<zhan, <<"R", "P">>>>, <<lan, <<"S">>>>,
                        <<rang, <<"T", "U">>>>, <<le, <<"V">>>>>>,
          surname |-> <<<<le, <<"V">>>>, <<yue, <<"V">>>>, <<zhang, <<"P">>>>, <<zang, <<"U", "R">>>>>>]
CanonicalKeys ==
  [P |-> zhan, Q |-> zhang, R |-> zhan, S |-> lan, T |-> rang, U |-> zang, V |-> le]
Overrides == [c \in DOMAIN CanonicalKeys |-> IF c = "V" THEN yue ELSE <<>>]
NeighborsOf ==
  [P |-> <<"Q">>, Q |-> <<>>, R |-> <<"P">>, S |-> <<"T">>, T |-> <<>>, U |-> <<>>, V |-> <<>>]
ComponentsOf ==
  [P |-> <<"Q">>, Q |-> <<>>, R |-> <<"Q", "S">>, S |-> <<"T">>, T |-> <<"S", "Q">>,
   U |-> <<"S">>, V |-> <<>>]
Query(type, text, typed) == [type |-> type, text |-> text, typed |-> typed]
MatcherQueries ==
  ("c1" :> {Query("char", NoText, <<t>>) : t \in {<<"z">>, <<"z", "h">>, nan, <<"l">>, lan \o <<"g">>}}
           \cup {Query("char", "S", <<zhang, rang, lan>>), Query("surname", "V", <<le>>),
                 Query("surname", NoText, <<zhang>>), Query("surname", "U", <<>>),
                 Query("char", "V", <<>>), Query("char", "P", <<>>), Query("char", "T", <<>>),
                 Query("char", NoText, <<zhan, nan>>), Query("char", NoText, <<nan, zhang>>)})
  @@ ("c2" :> {Query("char", text, <<zhan, zhang>>) : text \in {NoText, "P"}})

(* VectorStore: a search, an upsert and a deletion of two backends. *)

StoreKinds == ("o1" :> "search") @@ ("o2" :> "upsert") @@ ("o3" :> "delete")
StoreBackends == ("o1" :> "b1") @@ ("o2" :> "b1") @@ ("o3" :> "b2")
StoreModes == [o \in Operation |-> "auto"]
StoreScalars == [doc_id |-> "int64", domain |-> "varchar"]
StoreDescriptions ==
  {[fields |-> Core @@ StoreScalars @@ [text_sparse |-> "sparse"], analyzer |-> TRUE,
    function |-> TRUE, dim |-> 0],
   [fields |-> Core @@ [doc_id |-> "varchar", domain |-> "varchar"], analyzer |-> FALSE,
    function |-> FALSE, dim |-> 4]}

(* AgentTools: numbers around the checks and one of each wrong argument. *)

Wrong == {Lacking("absent"), Lacking("null"), Lacking("bool"), Lacking("text"), Integer(-1)}
RefundCalls ==
  [price : {Integer(333), Lacking("absent")}, quantity : {Integer(0), Integer(3)},
   shipping : Wrong \cup {Integer(7)}, discount : Wrong \cup {Integer(5), Integer(2000)}]
TotalCalls ==
  [item : {Integer(n) : n \in 0 .. 127} \cup Wrong, shipping : {Lacking("null"), Integer(9)},
   discount : {Lacking("absent"), Integer(50), Integer(-1)}]
SearchCalls ==
  [query : {"", "q"}, top_k : {Lacking("absent"), Lacking("words"), Integer(9)},
   kb_ids : [is : {"list"}, ids : SUBSET {-1, 1, 2, 3}] \cup [is : {"absent", "text"}, ids : {{}}]]
=============================================================================
