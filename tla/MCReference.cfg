SPECIFICATION Spec
CONSTANTS
    Principals <- MCPrincipals
    Keys = {k1, k2}
    Specs <- MCSpecs
    Labels <- MCLabels
    Window = 1
    MaxReplays = 7
    PageSize = 2
    PageTokenLifetime = 1
    MaxPageTokens = 1
    TokenBytes = 1
    MaxPageBytes = 5
    MaxTime = 2
    MaxID = 7
    MaxCommits <- MCMaxCommits
    Directories <- MCDirectories
    MaxAdmissions = 2
    MaxPlans = 1
    Requests <- MCRequests
    Others = {o1, o2}
    MaxReads = 1
    MaxOtherCalls = 2
    Document <- MCDocument
    Pattern <- MCPattern
    TextRank <- MCTextRank
    Identity <- MCIdentity
    DecimalValue <- MCDecimalValue
    MaxInt64 = 27
    Int64Digits = 2
    MaxRawBytes = 16
    MaxJSONDepth = 5
    MaxJSONNodes = 45
    MaxItems = 2
    MaxChanges = 2
INVARIANTS
    RetriesSafe
    HierarchyIntact
    WalksComplete
    EffectsUseCurrentAuthority
    AdmissionsTrackRequests
    EvaluatorMatchesBindings
    CredentialsConfined
    ResponsesDeclared
    StagesAgree
    RetainedStateValid
    ObservationsExact
PROPERTIES
    ClosesReturn
    RepetitionsChangeNothing
CHECK_DEADLOCK FALSE
