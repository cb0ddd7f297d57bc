SPECIFICATION Spec
CONSTANTS
    InSize = 2
    OutSize = 4
    ExchangeCodes = {SLWPING, GETVERS}
    PostCodes = {WRITE32}
    SlowPing = SLWPING
    Args = {a1}
    Old = Old
    NoMsg = NoMsg
    TagMod = 2
    Backlog = 1
    AnswersPosts = TRUE
    MayShutDown = TRUE
    Headers = {TRUE, FALSE}
INVARIANTS
    RequestsIntact
    SlowPingDrains
    ReplyIsMine
    ShutdownLeavesNothing
PROPERTY ImplementsMailbox
CHECK_DEADLOCK FALSE
