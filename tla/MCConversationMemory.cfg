SPECIFICATION MCSpec
CONSTANTS
    h1 = h1
    h2 = h2
    c1 = c1
    c2 = c2
    Handler <- Handlers
    Conv <- Conversations
    UnderDocs <- NestedConversation
    Deployments <- AllDeployments
    Ids = {1, 2, 3}
    NodeLabels = {1}
    Brokers <- Handlers
    MaxWrites = 3
    PageLimit = 1
    MinPageWindow = 2
    PageWindowFactor = 1
    MaxTraverse = 3
    TunnelLimit = 1
    NoNode = NoNode
SYMMETRY HandlerSymmetry
INVARIANTS
    SearchableIsAccounted
    AckedIsDurable
    SequentialMissesOnlyTheOldest
    TraverseIsComplete
    ParentsAreTyped
    WalkSkipsNothing
PROPERTY
    OnlyLateLoadersForget
