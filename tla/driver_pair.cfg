SPECIFICATION FairSpec
CONSTANTS
    t1 = t1
    t2 = t2
    a = a
    b = b
    Nothing = Nothing
    Thread = {t1, t2}
    Source = {a, b}
    Frame <- MCFrame
    Host <- MCHost
    Params <- GoodAndAstray
    CssSize = 1
    FailReplies <- Refusal
INVARIANTS
    TypeOK
    RegionsFilled
    DeadOnlyByRaceOrAddress
PROPERTIES
    UndisturbedRunStarts
    ImplementsService
    EveryCallEnds
CHECK_DEADLOCK FALSE
