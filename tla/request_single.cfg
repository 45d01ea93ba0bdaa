\* One request with everything that can happen to it.
CONSTANTS
    Requests = {r1}
    Tokens = {codex, outlet}
    GatewayTokens = {outlet}
    TakeoverToken = codex
    NoToken = NoToken
    Semaphores = {s1, s2, s3}
    NoSemaphore = NoSemaphore
    GlobalLimit = 2
    SessionLimit = 1
    MapLimit = 1
    Workers = 1
    QueueLimit = 1
SPECIFICATION FairSpec
\* All requests over and all metrics written: nothing is left to do.
CHECK_DEADLOCK FALSE
INVARIANTS
    ConsoleAnswersOnce
    ConsoleAndLogAgree
    FailuresAreLogged
    SuccessMeansComplete
    MetricsAreLatest
PROPERTY
    PermitsReturn
