CONSTANTS
    Stream = {s1, s2}
    Caller = {"a"}
    CallerOf <- MCCallerOf
    SessionsPerCaller = 1
    Sessions = 2
    InboxBytesPerCaller = 1
    InboxBytes = 2
    InboxBound = 1
    MaxRefusalDrains = 1
    Size = {1}
    NoFrame = NoFrame
    s1 = s1
    s2 = s2
    Link = {s1, s2}
    Buffer = 1
SPECIFICATION HoldingSpec
SYMMETRY HoldingSymmetry
INVARIANTS
    InboxBudgetExact
    PlacesExact
    BothEndedEnds
    NoLinkForgotten
    NewestNoticeKept
    EndsWithPool
PROPERTY
    Promise
CHECK_DEADLOCK FALSE
