SPECIFICATION Spec
CONSTANTS
    t1 = t1
    t2 = t2
    a = a
    b = b
    Nothing = Nothing
    Thread = {t1}
    Source = {a, b}
    Frame <- MCFrame
    Host <- MCHost
    Params <- AllStructs
    CssSize = 2
    FailReplies <- Refusal
INVARIANTS
    SmallCssRejected
CHECK_DEADLOCK FALSE
