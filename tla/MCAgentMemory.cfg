CONSTANTS
    c1 = c1 c2 = c2 p1 = p1 p2 = p2 f = f g = g u = u a = a b = b d = d
    Consolidators = {c1, c2}
    Promoters = {p1, p2}
    Sigs = {1}
    MaxEpisodes = 3
    CreatedAt <- MCCreatedAt
    Threshold = 1
    SupportThreshold = 1
    ConfidencePercent = 60
    BatchSize = 1
    MaxAttempts = 1
    MaxModel = 2
    Observed = {1, 2, 3}
    MaxWalCrashes = 2
    Indexers = {p1, p2}
    Deltas = {1, 2}
    MemberKind <- MCMemberKind
    Histories <- MCHistories
    IdOrders <- MCIdOrders
    MaxJobAttempts = 2
    MaxPushes = 3
    par = par kid = kid own = own raw = raw ra = ra rb = rb NoSpan = NoSpan
    Spans = {par, kid, own, raw}
    Untraced = {raw}
    Unnamed = {}
    SpanRepo <- MCSpanRepo
    ParentOf <- MCParentOf
    SpanNode <- MCSpanNode
    Exports <- MCExports
    QueueCap = 2
    ParentCap = 1
    PendingCap = 1
    OverLimit = 1
    Sustain = 1
    Clearance = 1
    MaxExports = 3
    MaxRestarts = 1
    MaxPublishes = 2
    MaxRetries = 1
    ScanLimit = 2
    EmbedModels = {"A", "B"}
    MaxRestartsEmb = 1
SPECIFICATION MCSpec
INVARIANTS
    MCTypeOK
    EpisodesCountOnce
    PromotedQualified
    PublishedIsPresent
    KeptUnlessWounded
    CompletedOnce
    NoDanglingEdge
    ReplayConverges
    SpansSettle
    FlagFollowsSupervisor
    OnlyCutOffRowsStick
CHECK_DEADLOCK FALSE
