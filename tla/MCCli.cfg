SPECIFICATION CliSpec
CONSTANTS
    NoRow = NoRow
    Nil = Nil
    NoCall = NoCall
    NoAnswer = NoAnswer
    NoHeader = NoHeader
    NoInterceptor = NoInterceptor
    NoIdentity = NoIdentity
    Refused = Refused
    Words = {"kestrai.dev/v1alpha1", "Project", "Workflow", "Agent"}
    EmptyDoc = EmptyDoc
    Garbled = Garbled
    NoRun = NoRun
    NoFile = NoFile
    DefaultTenant = "default"
    Tenants = {"default", "acme"}
    Projects = {"p"}
    Names = {"w", "v"}
    ProjectSpecs = {"apollo"}
    WorkflowSpecs = {"ship", "test"}
    Statuses = {"ready"}
    Servers = {"up", "team", "bare"}
    Config <- MCConfig
    Trimmed <- MCTrimmed
    Callers = {"term", "api"}
    Connections <- MCConnections
    NoConnection = NoConnection
    InitialRows <- MCInitialRows
    MaxUid = 1
    MaxVersion = 2
    Terminals = {"term"}
    CommandLines <- MCCommandLines
    Files = {"team", "typo", "out"}
    Manifests <- MCManifests
    ApiCalls <- MCApiCalls
INVARIANTS RpcTypeOK AnswersShowOwnTenant WritesFollowTheFile 
PROPERTIES OwnTenantOnly ExitZeroMeansApplied
