\* Console logs: the daemon and the app, three files and records, one
\* clear, one fault.  Permits: three requests, four tokens.  Rows:
\* two providers and keys, an outlet, three commands, one fault.  Catalogs:
\* two routes, two discoveries.  Headers: two model ids.  Schema: two
\* processes, one crash, one lost statement, one saved value.
CONSTANTS
    d1 = d1
    a1 = a1
    daemonSource = daemonSource
    appSource = appSource
    Procs = {d1, a1}
    Sources = {daemonSource, appSource}
    SourceOf <- MCTwoSources
    App = appSource
    NoProc = NoProc
    NoFile = NoFile
    MaxFiles = 3
    FileCap = 2
    SourceCap = 1
    QueueCap = 1
    RetentionDays = 1
    Offsets = {0, 1}
    MaxTime = 2
    MaxRecords = 3
    MaxClears = 1
    MaxFaults = 1
    Requests = {q1, q2, q3}
    Tokens = {t1, t2, t3, t4}
    NoToken = NoToken
    Semaphores = {m1, m2, m3, m4}
    NoSemaphore = NoSemaphore
    GlobalLimit = 2
    SessionLimit = 1
    MapLimit = 1
    Workers = 1
    q1 = q1
    q3 = q3
    t1 = t1
    t2 = t2
    f1 = f1
    p1 = p1
    p2 = p2
    n1 = n1
    n2 = n2
    k1 = k1
    k2 = k2
    g1 = g1
    ProviderIds = {p1, p2}
    ProviderNames = {n1, n2}
    KeyIds = {k1, k2}
    OutletTokens = {g1}
    Absent = Absent
    MaxEdits = 3
    MaxBreaks = 1
    b1 = b1
    s1 = s1
    s2 = s2
    Bases = {b1}
    Routes = {s1, s2}
    KeySettings <- MCSettings
    Lists <- MCLists
    Tenants = {o1}
    Discoveries = {f1, f2}
    Unset = Unset
    FreshFor = 1
    MaxAge = 1
    MaxSaves = 1
    ModelIds = {x1, x2}
    Exposed = {x1}
    ConnectionLists = {{}, {"listed"}, {"x-api-key"}, {"authorization", "user-agent", "extra"}}
    RuleLists = {{}, {"authorization", "user-agent", "extra"}, {"x-api-key", "te", "connection", "accept-encoding"}}
    Processes = {app, cli}
    Sessions = {o1, e1}
    Outlets = {o1}
    Desktops = {e1}
    MaxCrashes = 1
    MaxSwallowed = 1
    MaxUserEdits = 1
SPECIFICATION MCSpec
CHECK_DEADLOCK FALSE
CONSTRAINTS
    MCSmall
    MCThirdRecord
    MCThird
    MCPreviews
    MCBodies
INVARIANTS
    TypesOK
    IdleIsTidy
    EvictionIsTold
    ClearForgets
    MapBounded
    ServedWithinLimits
    FramesUnderGrant
    OutletsReach
    CatalogOfTheRoute
    PickedIsSent
    SentAsThePolicySays
    SchemaWhole
PROPERTIES
    NothingLeavesUnexplained
