\* A completed stream passed through, shown as broken.
CONSTANTS
    Requests = {r1}
    Tokens = {codex, outlet}
    GatewayTokens = {outlet}
    TakeoverToken = codex
    NoToken = NoToken
    Semaphores = {s1, s2, s3}
    NoSemaphore = NoSemaphore
    GlobalLimit = 2
    SessionLimit = 1
    MapLimit = 1
    Workers = 1
    QueueLimit = 1
SPECIFICATION Spec
CHECK_DEADLOCK FALSE
INVARIANT
    CompletedStreamsSucceed
