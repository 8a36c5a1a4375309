CONSTANTS
    g1 = g1 g2 = g2 w1 = w1 s1 = s1 s2 = s2 blk = blk wrn = wrn p1 = p1 p2 = p2
    P = P Q = Q r1 = r1 r2 = r2
    Gates = {g1, g2}
    Workers = {w1}
    Procs = {P, Q}
    Parent <- MCParent
    Scopes = {s1, s2}
    Severity <- MCSeverity
    Policies = {p1, p2}
    Firings <- MCFirings
    Globs <- MCGlobs
    Limit = 1
    Settings <- MCSettings
    KeyProcs = {P, Q}
    Minters = {P}
    KeyIds = {1, 2}
    Overlap = 4
    Staleness = 1
    RotateTime = 0
    MaxClock = 4
    MaxSigs = 1
    Requests = {g1, g2, w1}
    Replicas = {P, Q}
    Payloads = {p1, p2}
    Fenced = {p1}
    MaxEntries = 1
    MaxPosts = 3
    SampleRuns = {r1, r2}
    Cells = {1, 2}
    Emission <- MCEmission
    Retracters = {g1, g2}
    Registrars = {g1, g2}
    Scanners = {s1, s2}
    Setters = {p1, p2}
    MaxSetModes = 2
    Aggregators = {P}
    RepoShas = {1}
    Ingested <- MCIngested
    MaxTicks = 2
    MaxTombstones = 1
    N = 4
    Graphs <- MCGraphs
    MaxUnions = 3
SPECIFICATION MCSpec
INVARIANT NoKeyConflict
CHECK_DEADLOCK FALSE
