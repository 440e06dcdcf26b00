INIT ServicesInit
NEXT ServicesNext
CONSTANTS
  \* EndpointGuard
  Visit = {"r1", "r2", "r3"}
  MethodOf <- GuardMethods
  PathOf <- GuardPaths
  Payload <- GuardPayloads
  Absent = Absent
  StaticRules <- GuardStatic
  Placeholder = {"{id}"}
  GlobPairs <- GuardGlobs
  TTL = 2
  FailOpen = FALSE
  GuardEnabled = TRUE
  MaxTime = 3
  \* AuthSession
  SignIn = {"e1", "e2", "g1", "p1"}
  KindOf <- AuthKinds
  NameOf <- AuthNames
  PhoneOf <- AuthPhones
  PasswordOf <- AuthPasswords
  SubjectOf <- AuthSubjects
  Identity = {"i1"}
  NoUser = NoUser
  Served = {"e1", "p1"}
  TokenOf <- AuthTokens
  Check = {"c1", "c2"}
  Logout = {"c1"}
  \* Conversation
  Ask = {"a1", "k1", "k2"}
  Chat = {"a1"}
  Unified = {"a1"}
  Agents <- ChatAgents
  UserOf <- AskUsers
  KeyFor <- AskKeys
  BodyOf <- AskBodies
  Wants <- AskWants
  New = New
  \* ChatStream
  StepLimit = 2
  \* Checkpoint
  MaxSteps = 1
  Tools = {"t1", "t2"}
  ContextOf = context
  Missing = Missing
  Malformed = Malformed
  Unknown = Unknown
  MaxDamage = 2
  \* Retrieval
  Chunks = {1, 2, 3, 4}
  Scores = {0, 1}
  DocOf <- ChunkDocuments
  NoDoc = NoDoc
  TopK = 3
  FinalK = 2
  KeepBest = TRUE
  AnswerAnyway = FALSE
  \* ContextAssembly
  Inputs <- AssemblyInputs
  Unlimited = Unlimited
  MaxTotal = 22
  MaxDocument = 12
  MaxDocuments = 3
  HeaderLength = 0
  DocumentSeparator = 2
  Separator = 1
  Gap = 1
  MaxWindow = 2
  \* TextMatcher
  NoText = NoText
  Caller = {"c1", "c2"}
  QueriesOf <- MatcherQueries
  Dictionary <- Keyed
  Letter <- Alphabet
  Canonical <- CanonicalKeys
  Override <- Overrides
  TwoChars = {"U"}
  Neighbors <- NeighborsOf
  Components <- ComponentsOf
  BoostN = 2
  CacheSize = 1
  \* VectorStore
  Backend = {"b1", "b2"}
  Operation = {"o1", "o2", "o3"}
  BackendOf <- StoreBackends
  OperationKind <- StoreKinds
  ModeOf <- StoreModes
  Direct = {"o1"}
  Embeds = {"o1"}
  Worded = {"o1"}
  Scalars <- StoreScalars
  PayloadField = NoField
  FullText = TRUE
  Dimension = 4
  Descriptions <- StoreDescriptions
  NoField = NoField
  NoCollection = NoCollection
  Nobody = Nobody
  \* ScopedLock
  Callers = {"c1", "c2", "c3"}
  Elsewhere = {"c3"}
  Resources = {"r1", "r2", "r3", "r4"}
  Blank = {"r3"}
  Long = {"r4"}
  NoResource = NoResource
  \* AgentTools
  Refunds <- RefundCalls
  Totals <- TotalCalls
  Searches <- SearchCalls
  AllowedKbs = {1, 2}
  Bits = 8
  \* Lifespan
  HasReplica = TRUE
  MaxLoops = 3
  NoError = NoError
CHECK_DEADLOCK FALSE
INVARIANTS
  ServicesTypeOK
  RulesAreRecent
  LogoutIsFinal
  OneAccountPerIdentity
  MessageCountIsExact
  CreatedOncePerKey
  OutcomeIsOne
  StreamIsWellFormed
  NothingIsLost
  RetrievalIsSound
  ContextIsFaithful
  SuggestionsAreBest
  CallsFindTheirCollection
  LockIsExclusive
  ToolsAreExact
  LifecycleIsClean
