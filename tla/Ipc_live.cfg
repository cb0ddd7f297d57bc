SPECIFICATION FairSpec
CONSTANTS
    InSize = 2
    OutSize = 2
    ExchangeCodes = {SLWPING, GETVERS}
    PostCodes = {WRITE32}
    SlowPing = SLWPING
    Args = {a1, a2}
    Old = Old
    NoMsg = NoMsg
    TagMod = 3
    Backlog = 2
    AnswersPosts = FALSE
    MayShutDown = FALSE
    Headers = {TRUE}
PROPERTY CallsReturn
