SPECIFICATION MCSpec
CONSTANTS
    u1 = u1
    u2 = u2
    t1 = t1
    t2 = t2
    t3 = t3
    f1 = f1
    f2 = f2
    a1 = a1
    a2 = a2
    s1 = s1
    s2 = s2
    Tools = {t1, t2, t3}
    CatalogFiles <- MCCatalogFiles
    ToolCallers = {u1, u2}
    Families = {f1, f2}
    MAX_FAMILIES = 1
    MaxToolCalls = 3
    NoTool = NoTool
    Actions = {a1, a2}
    Stores = {s1, s2}
    Runners = {u1, u2}
    MaxRuns = 4
    Mentions <- MCMentions
    ProviderCount = 2
    Policies = {"Priority", "RoundRobin", "Latency"}
    Asking = {u1, u2}
    Cooldowns <- MCCooldowns
    WindowSize = 1
    Latencies = {1, 2}
    MaxClock = 2
    Settings = {"provider", "palace", "hits", "images", "redis"}
    Flags = {"palace"}
    Limits = {"hits", "images"}
    Blocks = {{"hits", "images"}}
    FileOnly = {"redis"}
    Unread = {"redis"}
    Default = 2
    ProfileFlags = {"palace"}
    Offered = {{"provider", "palace"}, {"provider", "hits", "images"}}
    Values = {0, 2}
    LimitMin = 1
    LimitMax = 2
    Updaters = {u1, u2}
    MaxUpdates = 2
    Unset = Unset
    Garbled = Garbled
    Docs = {a1}
    Transcripts = {a2}
    Version = {t1, t2, t3}
    Chunks <- MCChunks
    MaxChunks = 2
    None = None
    Grammars = {"markdown", "text", "rust", "rust_ts", "typescript", "go", "python", "java"}
    LinesOf <- MCLinesOf
    MaxLines = 4
    BytesPerToken = 4
    MaxTokens = 2
    Connections = {u1, u2}
    Transports = {"stdio", "http"}
    ErrorKinds = {"invalid_request", "sqlite"}
INVARIANTS
    ServicesTypeOK
    SearchIsTrue
    FamiliesAreBounded
    ApprovalsHold
    AnsweredIsAudited
    RulesAreTheLastResort
    ConfiguresAsAsked
    HeldIsSearchable
    TextIsChunked
    ChunksAreLabelled
    AnswersAreSound
PROPERTIES
    ToolsAreKept
    SingleLeavesNoOrphans
SYMMETRY MCSymmetry
CHECK_DEADLOCK FALSE
